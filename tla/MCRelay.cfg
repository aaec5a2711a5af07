CONSTANTS
    Targets = {t1, t2}
    None = None
SPECIFICATION Spec
INVARIANTS
    TypeOK
    OneErrorPerFailure
    NothingIsLeftOpen
    TargetsAreLoggedOnce
PROPERTIES
    GoroutinesEnd
    ImplementsHandlerLife

--------------------------- MODULE InstallerProofs ---------------------------
(***************************************************************************)
(* Proofs about Installer, for any releases, any configurations and any    *)
(* relation of what a release accepts.                                     *)
(***************************************************************************)
EXTENDS Installer, TLAPS

\* A backup is taken of a file that exists.
TypeInv == TypeOK /\ (pc = "backup" => config # Absent)

\* The process that systemd gets is one the release accepts.
LEMMA StartedFits ==
    Started = NoProcess \/ <<Started.version, Started.config>> \in Accepts
BY DEF Started, Ready

LEMMA TypeInit == Init => TypeInv
<1> SUFFICES ASSUME Init PROVE TypeInv
  OBVIOUS
<1>1. bin \in Versions \cup {Absent, "partial"} /\ config \in Contents \cup {Absent}
  BY DEF Init, Contents
<1>2. process = NoProcess \/ <<process.version, process.config>> \in Accepts
  BY StartedFits DEF Init
<1>3. own \in Owned \cup {Absent} /\ env \in [kless : BOOLEAN, kboard : BOOLEAN]
  BY DEF Init, NoEnv
<1>4. /\ unit \in BOOLEAN /\ enabled \in BOOLEAN /\ wanted \in BOOLEAN
      /\ backups = {} /\ second \in Nat /\ cmd = "none" /\ pc = "idle"
      /\ menu = FALSE /\ unsaved = FALSE /\ target = Absent /\ latest \in Versions
      /\ left \in [commands : Nat, boots : Nat, releases : Nat]
  BY InstallerAssumption DEF Init
<1> QED BY <1>1, <1>2, <1>3, <1>4 DEF TypeInv, TypeOK, Places

LEMMA TypeNext == TypeInv /\ [Next]_vars => TypeInv'
<1> SUFFICES ASSUME TypeInv, [Next]_vars PROVE TypeInv'
  OBVIOUS
<1> USE DEF TypeInv, TypeOK, files, systemd, script, world, Places, Goes
<1>1. ASSUME NEW c \in Commands, Begin(c) PROVE TypeInv'
  <2>1. /\ env' \in [kless : BOOLEAN, kboard : BOOLEAN]
        /\ left' \in [commands : Nat, boots : Nat, releases : Nat]
    <3>1. NoEnv \in [kless : BOOLEAN, kboard : BOOLEAN]
      BY DEF NoEnv
    <3> QED BY <1>1, <3>1 DEF Begin
  <2>2. pc' \in Places \ {"place", "copy", "backup"}
    BY <1>1 DEF Begin, Entry, Commands
  <2> QED BY <1>1, <2>1, <2>2 DEF Begin
<1>2. CASE Compare \/ Service \/ Ask \/ Edited
  BY <1>2 DEF Compare, Service, Ask, Edited, Commands
<1>3. CASE EnsureConfig
  BY <1>3 DEF EnsureConfig, Decision
<1>4. CASE WriteImpossible
  BY <1>4 DEF WriteImpossible
<1>5. CASE Download
  BY <1>5, InstallerAssumption DEF Download
<1>6. CASE Place
  BY <1>6 DEF Place, AfterBinary
<1>7. CASE Copy
  BY <1>7 DEF Copy, AfterBinary
<1>8. CASE RemoveBinary
  BY <1>8 DEF RemoveBinary
<1>9. CASE Backup \/ BackupFails
  <2>1. ASSUME NEW content \in Contents, BackedUp(content)
        PROVE  backups' \subseteq [at : Nat, content : Contents] /\ second' \in Nat
    BY <2>1 DEF BackedUp
  <2>2. CASE Backup
    <3>1. backups' \subseteq [at : Nat, content : Contents] /\ second' \in Nat
      BY <2>1, <2>2 DEF Backup
    <3> QED BY <2>2, <3>1 DEF Backup
  <2>3. CASE BackupFails
    <3>1. backups' \subseteq [at : Nat, content : Contents] /\ second' \in Nat
      BY <2>1, <2>3 DEF BackupFails, Contents
    <3>2. /\ cmd' \in Commands \cup {"none"} /\ pc' \in {"idle", "write"}
          /\ menu' \in BOOLEAN /\ unsaved' \in BOOLEAN
          /\ env' \in [kless : BOOLEAN, kboard : BOOLEAN]
          /\ target' \in Versions \cup {Absent}
      <4>1. NoEnv \in [kless : BOOLEAN, kboard : BOOLEAN]
        BY DEF NoEnv
      <4>2. Leaves \/ (pc' = "write" /\ unsaved' = TRUE /\ UNCHANGED <<cmd, menu, env, target>>)
        BY <2>3 DEF BackupFails
      <4> QED BY <4>1, <4>2 DEF Leaves
    <3> QED BY <2>3, <3>1, <3>2 DEF BackupFails
  <2> QED BY <1>9, <2>2, <2>3
<1>10. CASE WriteBegins \/ WriteEnds
  BY <1>10 DEF WriteBegins, WriteEnds, AfterConfig, Contents, Written
<1>11. CASE InitConfig
  BY <1>11 DEF InitConfig, AfterConfig, Contents
<1>12. CASE Open
  BY <1>12 DEF Open, Contents
<1>13. CASE Save
  <2>1. config' \in Contents \cup {Absent} /\ own' \in Owned \cup {Absent}
    BY <1>13 DEF Save, Contents
  <2>2. pc' = "edited"
    BY <1>13 DEF Save
  <2> QED BY <1>13, <2>1, <2>2 DEF Save
<1>14. CASE InstallUnit \/ Stop \/ Enable
  BY <1>14 DEF InstallUnit, Stop, Enable
<1>15. CASE Activate
  <2>1. process' = NoProcess \/ <<process'.version, process'.config>> \in Accepts
    BY <1>15, StartedFits DEF Activate
  <2>2. wanted' \in BOOLEAN /\ pc' \in {"act", "done"}
    BY <1>15 DEF Activate, AfterUnit
  <2> QED BY <1>15, <2>1, <2>2 DEF Activate
<1>16. CASE Start
  <2>1. process' = NoProcess \/ <<process'.version, process'.config>> \in Accepts
    BY <1>16, StartedFits DEF Start
  <2> QED BY <1>16, <2>1 DEF Start
<1>17. CASE RemoveUnit
  <2>1. /\ unit' = FALSE /\ enabled' = FALSE /\ wanted' \in BOOLEAN
        /\ process' \in {process, NoProcess}
    BY <1>17 DEF RemoveUnit
  <2> QED BY <1>17, <2>1 DEF RemoveUnit
<1>18. CASE End \/ Abandon
  <2>1. NoEnv \in [kless : BOOLEAN, kboard : BOOLEAN]
    BY DEF NoEnv
  <2>2. Leaves /\ UNCHANGED <<files, systemd, world>>
    BY <1>18 DEF End, Abandon
  <2> QED BY <2>1, <2>2 DEF Leaves
<1>19. CASE Reboot
  <2>1. NoEnv \in [kless : BOOLEAN, kboard : BOOLEAN]
    BY DEF NoEnv
  <2>2. left' \in [commands : Nat, boots : Nat, releases : Nat]
    BY <1>19 DEF Reboot
  <2> QED BY <1>19, <2>1, <2>2 DEF Reboot, Leaves
<1>20. CASE Crash \/ Release
  <2>1. left' \in [commands : Nat, boots : Nat, releases : Nat]
    BY <1>20 DEF Crash, Release
  <2> QED BY <1>20, <2>1 DEF Crash, Release
<1>21. CASE Respawn
  BY <1>21, StartedFits DEF Respawn
<1>22. CASE UNCHANGED vars
  BY <1>22 DEF vars
<1> QED BY <1>1, <1>2, <1>3, <1>4, <1>5, <1>6, <1>7, <1>8, <1>9, <1>10, <1>11,
           <1>12, <1>13, <1>14, <1>15, <1>16, <1>17, <1>18, <1>19, <1>20, <1>21,
           <1>22 DEF Next, CommandStep

\* The state of the host and of the script is well formed.
THEOREM TypeCorrect == Spec => []TypeOK
<1>1. TypeInv => TypeOK
  BY DEF TypeInv
<1> QED BY TypeInit, TypeNext, <1>1, PTL DEF Spec
-----------------------------------------------------------------------------
(* How a configuration may be lost *)

\* write_env_config overwrites nothing that has not just been backed up, unless
\* the menu has gone on, and what it writes meanwhile is nobody's own.
KeepInv ==
    /\ pc = "write" /\ config # Absent /\ ~unsaved => \E b \in backups : b.content = config
    /\ pc = "written" => config \notin Owned
    /\ pc = "backup" => config # Absent

\* Time does not run backwards.
NoneAhead == \A b \in backups : b.at <= second

LEMMA NoneAheadNext == TypeOK /\ NoneAhead /\ [Next]_vars => NoneAhead'
<1> SUFFICES ASSUME TypeOK, NoneAhead, [Next]_vars PROVE NoneAhead'
  OBVIOUS
<1>1. CASE UNCHANGED <<backups, second>>
  BY <1>1 DEF NoneAhead
<1>2. ASSUME NEW content, BackedUp(content) PROVE NoneAhead'
  <2>1. /\ second' \in Nat /\ second <= second'
        /\ \A b \in backups : b.at \in Nat /\ b.at <= second'
    <3>1. /\ second' \in {second, second + 1} /\ second \in Nat
          /\ \A b \in backups : b.at \in Nat /\ b.at <= second
      BY <1>2 DEF BackedUp, TypeOK, NoneAhead
    <3>2. second' \in Nat /\ second <= second'
      BY <3>1
    <3>3. \A n \in Nat : n <= second => n <= second'
      BY <3>1, <3>2
    <3> QED BY <3>1, <3>2, <3>3
  <2>2. \A b \in backups' : b \in backups \/ b = [at |-> second', content |-> content]
    BY <1>2 DEF BackedUp
  <2>3. ASSUME NEW b \in backups' PROVE b.at <= second'
    <3>1. b \in backups \/ b.at = second'
      BY <2>2
    <3>2. CASE b \in backups
      BY <2>1, <3>2
    <3>3. CASE b.at = second'
      BY <2>1, <3>3
    <3> QED BY <3>1, <3>2, <3>3
  <2> QED BY <2>3 DEF NoneAhead
<1>3. CASE Backup \/ BackupFails
  BY <1>1, <1>2, <1>3 DEF Backup, BackupFails
<1> QED
  BY <1>1, <1>3
     DEF Next, CommandStep, Begin, Compare, Download, Place, Copy, Service,
         EnsureConfig, WriteBegins, WriteEnds, WriteImpossible, InitConfig, Ask,
         Open, Save, Edited, InstallUnit, Activate, Start, Stop, Enable,
         RemoveUnit, RemoveBinary, End, Abandon, Crash, Respawn, Reboot, Release,
         vars, files, systemd, script, world

LEMMA KeepNext == KeepInv /\ [Next]_vars => KeepInv'
<1> SUFFICES ASSUME KeepInv, [Next]_vars PROVE KeepInv'
  OBVIOUS
<1> USE InstallerAssumption DEF KeepInv, files, systemd, script, world, Goes
<1>1. ASSUME NEW c \in Commands, Begin(c) PROVE KeepInv'
  BY <1>1 DEF Begin, Entry
<1>2. CASE Compare \/ Service \/ Edited
  BY <1>2 DEF Compare, Service, Edited
<1>3. CASE EnsureConfig
  BY <1>3 DEF EnsureConfig, Decision
<1>4. CASE Ask
  BY <1>4 DEF Ask
<1>5. CASE WriteImpossible
  BY <1>5 DEF WriteImpossible
<1>6. CASE Download \/ Place \/ Copy \/ RemoveBinary
  BY <1>6 DEF Download, Place, Copy, AfterBinary, RemoveBinary
<1>7. CASE Backup
  <2> DEFINE new == [at |-> second', content |-> config]
  <2>1. new \in backups' /\ config' = config /\ pc' = "write"
    BY <1>7 DEF Backup, BackedUp
  <2>2. new.content = config
    OBVIOUS
  <2> QED BY <2>1, <2>2
<1>8. CASE BackupFails
  <2>1. pc' = "idle" \/ (pc' = "write" /\ unsaved')
    BY <1>8 DEF BackupFails, Leaves
  <2> QED BY <2>1
<1>9. CASE WriteBegins \/ WriteEnds
  BY <1>9 DEF WriteBegins, WriteEnds, AfterConfig
<1>10. CASE InitConfig \/ Open
  BY <1>10 DEF InitConfig, AfterConfig, Open
<1>11. CASE Save
  BY <1>11 DEF Save
<1>12. CASE InstallUnit \/ Activate \/ Start \/ Stop \/ Enable \/ RemoveUnit
  BY <1>12 DEF InstallUnit, Activate, AfterUnit, Start, Stop, Enable, RemoveUnit
<1>13. CASE End \/ Abandon \/ Reboot
  BY <1>13 DEF End, Abandon, Reboot, Leaves
<1>14. CASE Crash \/ Respawn \/ Release \/ UNCHANGED vars
  BY <1>14 DEF Crash, Respawn, Release, vars
<1> QED BY <1>1, <1>2, <1>3, <1>4, <1>5, <1>6, <1>7, <1>8, <1>9, <1>10, <1>11,
           <1>12, <1>13, <1>14 DEF Next, CommandStep

\* A step that loses what was kept is one of the two.
LEMMA Loses ==
    ASSUME TypeOK, KeepInv, NoneAhead, [Next]_vars, Kept, ~Kept'
    PROVE  SameSecond \/ (pc = "write" /\ unsaved)
<1> USE InstallerAssumption DEF files, systemd, script, world, Goes
<1>1. own' # Absent /\ own' # config' /\ \A b \in backups' : b.content # own'
  BY DEF Kept
<1>2. CASE Backup \/ BackupFails
  <2>1. pc = "backup" /\ UNCHANGED <<config, own>>
    BY <1>2 DEF Backup, BackupFails
  <2>2. PICK b \in backups : b.content = own /\ b \notin backups'
    BY <1>1, <2>1 DEF Kept
  <2>3. second' \in {second, second + 1} /\ b.at = second'
    BY <1>2, <2>2 DEF Backup, BackupFails, BackedUp
  <2>4. second' = second
    <3>1. b.at \in Nat /\ b.at <= second /\ second \in Nat
      BY <2>2 DEF NoneAhead, TypeOK
    <3> QED BY <2>3, <3>1
  <2> QED BY <2>1, <2>2, <2>3, <2>4 DEF SameSecond
<1>3. CASE WriteBegins
  <2>1. pc = "write" /\ UNCHANGED <<backups, own>>
    BY <1>3 DEF WriteBegins
  <2> QED BY <1>1, <2>1 DEF KeepInv, Kept
<1>4. CASE WriteEnds
  <2>1. pc = "written" /\ UNCHANGED <<backups, own>>
    BY <1>4 DEF WriteEnds
  <2>2. own # config
    BY <1>1, <2>1 DEF KeepInv, TypeOK
  <2> QED BY <1>1, <2>1, <2>2 DEF Kept
<1>5. CASE InitConfig \/ Open
  <2>1. UNCHANGED <<backups, own>> /\ (config = Absent \/ config' = config)
    BY <1>5 DEF InitConfig, Open
  <2> QED BY <1>1, <2>1 DEF Kept
<1>6. CASE Save
  BY <1>6 DEF Save, Kept
<1>7. CASE UNCHANGED <<config, backups, own>>
  BY <1>7 DEF Kept
<1> QED
  BY <1>2, <1>3, <1>4, <1>5, <1>6, <1>7
     DEF Next, CommandStep, Begin, Compare, Download, Place, Copy, Service,
         EnsureConfig, WriteImpossible, Ask, Edited, InstallUnit, Activate, Start,
         Stop, Enable, RemoveUnit, RemoveBinary, End, Abandon, Crash, Respawn,
         Reboot, Release, vars

\* What a person wrote stays in place or in a backup but for two backups within
\* one second and for the menu, which overwrites it after a backup that failed
\* (install.sh:480-547, 999).
THEOREM ConfigKept == Spec => ConfigIsKept
<1>1. Init => KeepInv
  BY DEF Init, KeepInv
<1>2. Init => NoneAhead
  BY DEF Init, NoneAhead
<1>3. TypeOK /\ KeepInv /\ NoneAhead /\ [Next]_vars =>
        [Kept /\ ~Kept' => SameSecond \/ (pc = "write" /\ unsaved)]_vars
  BY Loses
<1> QED BY TypeCorrect, KeepNext, NoneAheadNext, <1>1, <1>2, <1>3, PTL DEF Spec, ConfigIsKept
-----------------------------------------------------------------------------
(* Changes take effect, and nothing else takes the node down *)

\* The steps that are "done" without a restart belong to other commands.
EffectInv ==
    /\ ChangesTakeEffect
    /\ pc = "ask" => cmd = "gen-config"
    /\ pc \in {"open", "editing", "edited"} => cmd = "edit"
    /\ pc = "remove" => cmd = "uninstall"

LEMMA EffectNext == EffectInv /\ [Next]_vars => EffectInv'
<1> SUFFICES ASSUME EffectInv, [Next]_vars PROVE EffectInv'
  OBVIOUS
<1> USE DEF EffectInv, ChangesTakeEffect, files, systemd, script, world, Goes
<1>1. ASSUME NEW c \in Commands, Begin(c) PROVE EffectInv'
  BY <1>1 DEF Begin, Entry, Commands
<1>2. CASE Compare \/ EnsureConfig \/ WriteImpossible \/ Ask
  BY <1>2 DEF Compare, EnsureConfig, Decision, WriteImpossible, Ask
<1>3. CASE Service \/ Edited
  BY <1>3 DEF Service, Edited, Ready, Working
<1>4. CASE Download \/ Place \/ Copy \/ RemoveBinary
  BY <1>4 DEF Download, Place, Copy, AfterBinary, RemoveBinary
<1>5. CASE Backup \/ BackupFails
  BY <1>5 DEF Backup, BackupFails, Leaves
<1>6. CASE WriteBegins \/ WriteEnds \/ InitConfig
  BY <1>6 DEF WriteBegins, WriteEnds, InitConfig, AfterConfig
<1>7. CASE Open \/ Save
  BY <1>7 DEF Open, Save
<1>8. CASE InstallUnit \/ Stop \/ Enable \/ RemoveUnit
  BY <1>8 DEF InstallUnit, Stop, Enable, RemoveUnit
<1>9. CASE Activate
  <2>1. Ready' <=> Ready
    BY <1>9 DEF Activate, Ready, Working
  <2>2. pc' = "act" \/ pc' = "done"
    BY <1>9 DEF Activate, AfterUnit
  <2>3. Ready => wanted' /\ process' = [version |-> bin', config |-> config']
    BY <1>9 DEF Activate, Started
  <2> QED BY <2>1, <2>2, <2>3
<1>10. CASE Start
  <2>1. pc' = "done" /\ wanted' = TRUE /\ cmd \in {"start", "restart"} /\ cmd' = cmd
    BY <1>10 DEF Start
  <2>2. cmd = "restart" => process' = [version |-> bin', config |-> config']
    BY <1>10 DEF Start, Started
  <2> QED BY <2>1, <2>2
<1>11. CASE End \/ Abandon \/ Reboot
  BY <1>11 DEF End, Abandon, Reboot, Leaves
<1>12. CASE Crash \/ Respawn
  <2>1. process' = NoProcess \/ process' = [version |-> bin', config |-> config']
    BY <1>12 DEF Crash, Respawn, Started
  <2>2. UNCHANGED <<files, wanted, script, pc>>
    BY <1>12 DEF Crash, Respawn
  <2> QED BY <2>1, <2>2 DEF Ready, Working
<1>13. CASE Release \/ UNCHANGED vars
  BY <1>13 DEF Release, vars, Ready, Working
<1> QED BY <1>1, <1>2, <1>3, <1>4, <1>5, <1>6, <1>7, <1>8, <1>9, <1>10, <1>11,
           <1>12, <1>13 DEF Next, CommandStep

\* After a successful install, upgrade or restart the node runs what is on disk
\* (install.sh:554-591, 826-859).
THEOREM ChangesTakeEffectHolds == Spec => []ChangesTakeEffect
<1>1. Init => EffectInv
  BY DEF Init, EffectInv, ChangesTakeEffect
<1>2. EffectInv => ChangesTakeEffect
  BY DEF EffectInv
<1> QED BY EffectNext, <1>1, <1>2, PTL DEF Spec

\* A ready configuration gives a process.
LEMMA ReadyRuns == Ready => Started # NoProcess
BY InstallerAssumption DEF Ready, Working, Started, NoProcess

LEMMA TakesDown ==
    TypeOK /\ [Next]_vars =>
        (process # NoProcess /\ process' = NoProcess /\ pc' # pc =>
            cmd \in {"stop", "uninstall"} \/ left'.boots # left.boots)
<1> SUFFICES ASSUME TypeOK, [Next]_vars, process # NoProcess,
                    process' = NoProcess, pc' # pc, cmd \notin {"stop", "uninstall"}
             PROVE  left'.boots # left.boots
  OBVIOUS
<1> USE DEF files, systemd, script, world, Goes
<1>1. ASSUME NEW c \in Commands, Begin(c) PROVE FALSE
  BY <1>1 DEF Begin
<1>2. CASE \/ Compare \/ Download \/ Place \/ Copy \/ Service
           \/ EnsureConfig \/ Backup \/ BackupFails \/ WriteBegins \/ WriteEnds \/ WriteImpossible
           \/ InitConfig \/ Ask \/ Open \/ Save \/ Edited
           \/ InstallUnit \/ Enable \/ RemoveBinary
  BY <1>2 DEF Compare, Download, Place, Copy, Service, EnsureConfig, Backup,
              BackupFails, WriteBegins, WriteEnds, WriteImpossible, InitConfig, Ask, Open,
              Save, Edited, InstallUnit, Enable, RemoveBinary
<1>3. CASE Activate \/ Start
  BY <1>3, ReadyRuns DEF Activate, Start
<1>4. CASE Stop \/ RemoveUnit
  BY <1>4 DEF Stop, RemoveUnit
<1>5. CASE End \/ Abandon \/ Crash \/ Respawn \/ Release \/ UNCHANGED vars
  BY <1>5 DEF End, Abandon, Crash, Respawn, Release, vars
<1>6. CASE Reboot
  BY <1>6 DEF Reboot, TypeOK
<1> QED BY <1>1, <1>2, <1>3, <1>4, <1>5, <1>6 DEF Next, CommandStep

\* Only stop, uninstall and a reboot take a running node down by the script's
\* or the host's doing (install.sh:583-590, 720-744, 848-858).
THEOREM NodeStaysUpHolds == Spec => NodeStaysUp
BY TypeCorrect, TakesDown, PTL DEF Spec, NodeStaysUp
=============================================================================

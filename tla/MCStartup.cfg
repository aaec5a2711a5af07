CONSTANTS
    Files <- MCFiles
    Trim <- MCTrim
    Lower <- MCLower
    Unslash <- MCUnslash
    GoodURLs = {"http://k"}
    RequestURIs = {"http://k", "http://k/a ", "http://k/a", "/ "}
    Length <- MCLength
    PublicOf <- MCPublicOf
    PEMFiles = {"ca.pem"}
    MaxPadding = 1
SPECIFICATION Spec
INVARIANTS
    TypeOK
    CheckedConfigRuns
    StaticClientsAreKnown

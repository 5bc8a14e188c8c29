SPECIFICATION FairSpec
CONSTANTS
    s = s
    x = x
    c1 = c1
    c2 = c2
    NoId = NoId
    Identities = {s, x}
    Clients = {c1, c2}
    Strays = {stray}
    stray = stray
    MaxFaults = 1
    Fragile = {s, x}
    Faults = {"blobFails", "diskFull", "lose", "cut", "forge", "damage", "restart"}
    Imports <- MCImports
    Form <- MCForm
    Cbor <- MCCbor
    Envelope <- MCEnvelope
    Calls <- MCCalls
    Modules <- MCModules
INVARIANTS
    TypeOK
    OnlyVerifiedBytes
    PushedIsPublished
    PushAccepted
    AbsenceIsTrue
PROPERTIES
    IntegrityErrorsAreReal
    ReadOnlyKept
    CallsEnd

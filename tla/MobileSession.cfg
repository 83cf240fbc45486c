\* Ann and bob share a device: a login, a registration, a call, a logout, a kill or a lost answer.
SPECIFICATION Spec
CONSTANTS
    ann = ann
    bob = bob
    s1 = s1
    s2 = s2
    SignIns = {s1, s2}
    Calls = {c1}
    Logouts = {o1}
    Boot = Boot
    Kind <- MCKind
    Account <- MCAccount
    Accounts = {ann, bob}
    None = None
    MaxRunning = 2
    MaxFaults = 1
INVARIANTS
    TypeOK
    OneAccount
    GuestsHoldNoToken
    LiveTokensAreHeld
PROPERTIES
    ValidSessionsEndForAReason
    RequestsEnd
CHECK_DEADLOCK FALSE

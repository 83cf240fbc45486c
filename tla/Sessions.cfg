\* Two calls, a registration, a second login and a logout, with at most one fault.
SPECIFICATION Spec
CONSTANTS
    join = join
    back = back
    alice = alice
    Calls = {c1, c2}
    Logins = {join, back}
    Logouts = {o1}
    Kind <- MCKind
    Name <- MCName
    Names = {alice}
    None = None
    MaxTokens = 4
    MaxExpired = 1
    MaxFaults = 1
INVARIANTS
    TypeOK
    RevokedLeavesStore
    LogoutEndsSession
PROPERTIES
    RequestsEnd
    ImplementsTokenFamilies
CHECK_DEADLOCK FALSE

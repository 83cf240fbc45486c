\* Two calls meet an expired access token at the same time.
SPECIFICATION Spec
CONSTANTS
    join = join
    back = back
    alice = alice
    Calls = {c1, c2}
    Logins = {join}
    Logouts = {}
    Kind <- MCKind
    Name <- MCName
    Names = {alice}
    None = None
    MaxTokens = 4
    MaxExpired = 1
    MaxFaults = 0
PROPERTY SessionContinues
CHECK_DEADLOCK FALSE

\* Quotes with an order book, candles with a list, searches with a lookup; one failing query.
SPECIFICATION Spec
CONSTANTS
    all = all
    byName = byName
    q1 = q1
    q2 = q2
    p1 = p1
    c1 = c1
    c2 = c2
    b1 = b1
    i1 = i1
    s1 = s1
    s2 = s2
    l1 = l1
    Requests = {q1, q2, i1, b1, c1, c2, p1, s1, s2, l1}
    Symbols <- MCSymbols
    Matches <- MCMatches
    Everything = all
    Ask <- MCAsk
    Inner <- MCInner
    TTL <- MCTTL
    SymbolTTL = 1
    Empty = Empty
    Never = Never
    MaxTime = 2
    MaxErrors = 1
    Loads <- MCLoads
SYMMETRY Twins
INVARIANTS
    TypeOK
    AnswersAreFresh
    NoFalse404
    CachedPageIsFirst
CHECK_DEADLOCK FALSE

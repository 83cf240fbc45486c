\* The dashboard, or the order book or the price chart alone; one or two requests at a time.
SPECIFICATION Spec
CONSTANTS
    Timeframes = {"1h", "1d", "1m"}
    Length <- MCLength
    Daily = "1d"
    ScreenWidth = 360
    Stocks = {st1, st2}
    Ids = {d1, d2}
    Commands = {k1}
    Duration <- MCDuration
    Drags <- MCDrags
    Touches <- MCTouches
    MaxWindows = 3
    None = None
INVARIANTS
    TypeOK
    ShownIsRecent
    NoFalseEmpty
    ChartWhenAsked
PROPERTY ScreensSettle
CHECK_DEADLOCK FALSE

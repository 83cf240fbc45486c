------------------------------ MODULE MobileCharts ------------------------------
(***************************************************************************)
(* The two charts of the mobile client: the state of ModalChart as a       *)
(* record and what each gesture makes of it, and the arithmetic by which   *)
(* both place what they draw.  Lengths are in points of the screen; prices *)
(* are whole numbers of some small unit.                                   *)
(***************************************************************************)
EXTENDS Integers

CONSTANTS
    Timeframes,
    Length,       \* Length[tf] is the number of candles ModalChart makes up for tf
    Daily,        \* the time frame it opens with
    ScreenWidth

ASSUME ChartsAssumption ==
    /\ Daily \in Timeframes
    /\ Length \in [Timeframes -> Nat \ {0}]
    /\ ScreenWidth \in Nat \ {0}

Larger(a, b) == IF a >= b THEN a ELSE b
Smaller(a, b) == IF a <= b THEN a ELSE b

-----------------------------------------------------------------------------
(* ModalChart                                                              *)

Step == 8           \* candleWidth + spacing
RightPadding == 60
TopPadding == 10

(* The width of the drawing, labels of the price axis included.            *)
ChartWidth(tf) == Larger(ScreenWidth, Step * Length[tf]) + RightPadding

(* The drawing never leaves a gap on the left or on the right.             *)
Clamp(tf, next) == Larger(Smaller(next, 0), ScreenWidth - ChartWidth(tf))

(* timeframe; translateX and lastTranslate; how far a gesture under way    *)
(* has come; the candle whose tooltip is shown, if any.                    *)
Charts ==
    {c \in [timeframe : Timeframes, translateX : Int, last : Int, dx : Int, selected : Int] :
        /\ c.translateX \in ScreenWidth - ChartWidth(c.timeframe) .. 0
        /\ c.last \in ScreenWidth - ChartWidth(c.timeframe) .. 0
        /\ c.selected \in -1 .. Length[c.timeframe] - 1}

(* The effect of a change of the time frame, and of opening the chart: the *)
(* candles are new, so the selection and both offsets are reset.           *)
Reload(tf) == [timeframe |-> tf, translateX |-> 0, last |-> 0, dx |-> 0, selected |-> -1]

(* Faulty variant of SwitchTo: the offsets stay.                           *)
SwitchKeepingOffset(c, tf) == [c EXCEPT !.timeframe = tf, !.selected = -1]

(* Pressing the time frame that is shown changes nothing, but ends a       *)
(* gesture like any touch elsewhere.                                       *)
SwitchTo(c, tf) == IF tf = c.timeframe THEN [c EXCEPT !.dx = 0] ELSE Reload(tf)

Moved(c, dx) == [c EXCEPT !.translateX = Clamp(c.timeframe, c.last + dx), !.dx = dx]

Released(c) == [c EXCEPT !.last = Clamp(c.timeframe, c.last + c.dx), !.dx = 0]

(* The system takes the gesture away: there is no handler for that, so the *)
(* drawing stays where it is and the next gesture starts from lastTranslate*)
Terminated(c) == [c EXCEPT !.dx = 0]

(* handleTouch: locationX is relative to the drawing, which has moved.     *)
Touched(c, locationX) ==
    LET index == (locationX - c.last) \div Step
    IN  IF index \in 0 .. Length[c.timeframe] - 1 THEN [c EXCEPT !.selected = index] ELSE c

(* The ends of a price axis: a margin of so many percent on both sides.    *)
(* Hundredths keep it whole.                                               *)
Axis(low, high, percent) ==
    LET margin == (high - low) * percent IN [low |-> 100 * low - margin, high |-> 100 * high + margin]

(* The y of a price, in hundredths like the axis, when the axis takes       *)
(* height points from top downwards.                                       *)
PriceToY(p, axis, top, height) ==
    top + height - ((p - axis.low) * height) \div (axis.high - axis.low)

ModalAxis(low, high) == Axis(low, high, 15)

(* Where ModalChart draws the body of a candle, and the levels of its grid.*)
BodyOf(open, close, axis, candlesHeight) ==
    LET y(p) == PriceToY(100 * p, axis, TopPadding, candlesHeight - TopPadding)
    IN  [top |-> Smaller(y(open), y(close)),
         height |-> Larger(1, Larger(y(open), y(close)) - Smaller(y(open), y(close)))]

GridY(level, candlesHeight) ==
    candlesHeight - (level * (candlesHeight - TopPadding)) \div 4

(* The y of a bar of volume: its group is moved down by candlesHeight, and *)
(* the bar by candlesHeight once more.                                     *)
VolumeY(candlesHeight, volumeHeight, bar) ==
    candlesHeight + (candlesHeight + volumeHeight - bar)

-----------------------------------------------------------------------------
(* PriceChart, with n candles on a plot that leaves available points       *)

YAxisWidth == 70

PlotWidth == Smaller(440, ScreenWidth - 40)
Available == PlotWidth - YAxisWidth

CandleSpacing(n) == Available \div n
CandleWidth(n) == Larger(6, CandleSpacing(n) - 2)
ContentWidth(n) == Larger(PlotWidth, n * (CandleSpacing(n) + 5))

(* Twice the x of the left and of the right edge of candle i of 0..n-1:    *)
(* doubled, half a spacing and half a width are whole numbers.             *)
LeftEdge2(n, i) == 2 * (YAxisWidth + i * CandleSpacing(n)) + CandleSpacing(n) - CandleWidth(n)
RightEdge2(n, i) == LeftEdge2(n, i) + 2 * CandleWidth(n)

PlotAxis(low, high) == Axis(low, high, 10)

(* The lines of the grid and the labels next to them, from the top.        *)
PlotHeight == 320 - 50
LineY(i) == (PlotHeight * i) \div 6
LabelOf(i, axis) == [top |-> LineY(i) + 20 - 10,
                     price |-> axis.high - ((axis.high - axis.low) * i) \div 6]

(* The y of the body of a candle in the plot.  The body lies in a          *)
(* container that is moved down to its lower end, and is moved by as much  *)
(* again.                                                                  *)
BodyY(highY, bodyBottom) == (20 + bodyBottom) + (20 + bodyBottom - (highY - bodyBottom))

=============================================================================

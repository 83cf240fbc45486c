--------------------------- MODULE MobileChartsProofs ---------------------------
(***************************************************************************)
(* What the charts of the mobile client draw, for every width of the       *)
(* screen and any number of candles.                                       *)
(***************************************************************************)
EXTENDS MobileCharts, TLAPS

-----------------------------------------------------------------------------
(* ModalChart                                                              *)

LEMMA Widths ==
    ASSUME NEW tf \in Timeframes
    PROVE  /\ Length[tf] \in Nat \ {0}
           /\ ChartWidth(tf) \in Int /\ ScreenWidth \in Int
           /\ ScreenWidth - ChartWidth(tf) <= -60
  BY ChartsAssumption DEF ChartWidth, Larger, Step, RightPadding

LEMMA ClampInside ==
    ASSUME NEW tf \in Timeframes, NEW next \in Int
    PROVE  Clamp(tf, next) \in ScreenWidth - ChartWidth(tf) .. 0
<1>1. ScreenWidth - ChartWidth(tf) \in Int /\ ScreenWidth - ChartWidth(tf) <= 0
  BY Widths
<1>2. Smaller(next, 0) \in Int /\ Smaller(next, 0) <= 0
  BY DEF Smaller
<1> HIDE DEF ChartWidth
<1> QED
  BY <1>1, <1>2 DEF Clamp, Larger

LEMMA ReloadInside ==
    ASSUME NEW tf \in Timeframes
    PROVE  Reload(tf) \in Charts
<1>1. 0 \in ScreenWidth - ChartWidth(tf) .. 0
  BY Widths
<1>2. -1 \in -1 .. Length[tf] - 1
  BY Widths
<1> QED
  BY <1>1, <1>2 DEF Reload, Charts

(* Whatever gesture, touch or change of the time frame comes next, the     *)
(* chart stays one of Charts: neither offset leaves a gap beside the       *)
(* drawing, and the tooltip is that of a candle that exists                *)
(* (onPanResponderMove, onPanResponderRelease, handleTouch, the effect).   *)
THEOREM GesturesStayInside ==
    ASSUME NEW c \in Charts
    PROVE  /\ \A tf \in Timeframes : SwitchTo(c, tf) \in Charts
           /\ \A dx \in Int : Moved(c, dx) \in Charts
           /\ Released(c) \in Charts
           /\ Terminated(c) \in Charts
           /\ \A x \in Int : Touched(c, x) \in Charts
<1>1. /\ c \in [timeframe : Timeframes, translateX : Int, last : Int, dx : Int, selected : Int]
      /\ c.translateX \in ScreenWidth - ChartWidth(c.timeframe) .. 0
      /\ c.last \in ScreenWidth - ChartWidth(c.timeframe) .. 0
      /\ c.selected \in -1 .. Length[c.timeframe] - 1
  BY DEF Charts
<1>2. \A dx \in Int : Clamp(c.timeframe, c.last + dx) \in ScreenWidth - ChartWidth(c.timeframe) .. 0
  BY <1>1, ClampInside
<1>3. ScreenWidth - ChartWidth(c.timeframe) .. 0 \subseteq Int
  BY <1>1, Widths
<1>4. Terminated(c) \in Charts
  BY <1>1 DEF Terminated, Charts
<1>5. ASSUME NEW tf \in Timeframes PROVE SwitchTo(c, tf) \in Charts
  BY <1>4, ReloadInside DEF SwitchTo, Terminated
<1>6. ASSUME NEW dx \in Int PROVE Moved(c, dx) \in Charts
  BY <1>1, <1>2, <1>3 DEF Moved, Charts
<1>7. Released(c) \in Charts
  <2> DEFINE last == Clamp(c.timeframe, c.last + c.dx)
  <2>1. last \in ScreenWidth - ChartWidth(c.timeframe) .. 0 /\ last \in Int
    BY <1>1, <1>2, <1>3
  <2>2. Released(c) = [timeframe |-> c.timeframe, translateX |-> c.translateX, last |-> last,
                       dx |-> 0, selected |-> c.selected]
    <3>1. c = [timeframe |-> c.timeframe, translateX |-> c.translateX, last |-> c.last,
               dx |-> c.dx, selected |-> c.selected]
      BY <1>1
    <3>2. Released(c) = [c EXCEPT !.last = last, !.dx = 0]
      BY DEF Released
    <3> HIDE DEF last
    <3> QED
      BY ONLY <3>1, <3>2
  <2> HIDE DEF last
  <2> QED
    BY <1>1, <2>1, <2>2 DEF Charts
<1>8. ASSUME NEW x \in Int PROVE Touched(c, x) \in Charts
  <2> DEFINE index == (x - c.last) \div Step
  <2>1. Length[c.timeframe] \in Nat
    BY <1>1, Widths
  <2>2. CASE index \in 0 .. Length[c.timeframe] - 1
    <3>1. index \in Int /\ index \in -1 .. Length[c.timeframe] - 1
      BY <2>1, <2>2
    <3>2. Touched(c, x) = [c EXCEPT !.selected = index]
      BY <2>2 DEF Touched
    <3> HIDE DEF index
    <3> QED
      BY <1>1, <3>1, <3>2 DEF Charts
  <2>3. CASE index \notin 0 .. Length[c.timeframe] - 1
    BY <2>3 DEF Touched
  <2> QED
    BY <2>2, <2>3
<1> QED
  BY <1>4, <1>5, <1>6, <1>7, <1>8

(* No bar of volume is on the drawing, unless the screen is very low: the  *)
(* bars are moved down by the height of the candles twice, and the drawing *)
(* is candlesHeight + volumeHeight + 20 high (renderChart).                *)
THEOREM VolumesOutside ==
    ASSUME NEW candlesHeight \in Nat, NEW volumeHeight \in Nat, NEW bar \in 0..volumeHeight,
           candlesHeight > volumeHeight + 20
    PROVE  VolumeY(candlesHeight, volumeHeight, bar) > candlesHeight + volumeHeight + 20
  BY DEF VolumeY

-----------------------------------------------------------------------------
(* PriceChart                                                              *)

LEMMA Spacing ==
    ASSUME NEW n \in Nat \ {0}, ScreenWidth >= 200
    PROVE  /\ Available \in Nat /\ PlotWidth = Available + 70 /\ Available >= 90
           /\ CandleSpacing(n) \in Nat
           /\ n * CandleSpacing(n) <= Available
           /\ Available < n * CandleSpacing(n) + n
<1>1. Available \in Nat /\ PlotWidth = Available + 70 /\ Available >= 90
  BY ChartsAssumption DEF Available, PlotWidth, Smaller, YAxisWidth
<1>2. \A a \in Nat, m \in Nat \ {0} :
          a \div m \in Nat /\ m * (a \div m) <= a /\ a < m * (a \div m) + m
  BY Z3
<1> QED
  BY <1>1, <1>2 DEF CandleSpacing

(* However many candles there are, none begins left of its axis by more    *)
(* than half a candle or ends right of what can be scrolled to, on screens *)
(* at least 200 points wide (availableWidth, candleSpacing, the width of   *)
(* candlesScrollContent).                                                  *)
THEOREM CandlesFit ==
    ASSUME NEW n \in Nat \ {0}, NEW i \in 0..n - 1, ScreenWidth >= 200
    PROVE  /\ LeftEdge2(n, i) >= 2 * YAxisWidth - 6
           /\ RightEdge2(n, i) <= 2 * ContentWidth(n)
<1> DEFINE gap == CandleSpacing(n)
           width == CandleWidth(n)
<1>1. /\ Available \in Nat /\ PlotWidth = Available + 70 /\ Available >= 90
      /\ gap \in Nat /\ n * gap <= Available /\ Available < n * gap + n
  BY Spacing
<1>2. i \in Nat /\ n \in Nat /\ i + 1 <= n
  OBVIOUS
<1>3. i * gap \in Nat /\ n * gap \in Nat /\ i * gap + gap <= n * gap
  <2>1. \A a, b, g \in Nat : a + 1 <= b => a * g \in Nat /\ b * g \in Nat /\ a * g + g <= b * g
    BY Z3
  <2> HIDE DEF gap
  <2> QED
    BY <1>1, <1>2, <2>1
<1>4. width \in Nat /\ width = IF 6 >= gap - 2 THEN 6 ELSE gap - 2
  <2> QED
    BY <1>1 DEF CandleWidth, Larger
<1>5. /\ LeftEdge2(n, i) = 2 * (70 + i * gap) + gap - width
      /\ RightEdge2(n, i) = 2 * (70 + i * gap) + gap + width
  <2>1. LeftEdge2(n, i) = 2 * (70 + i * gap) + gap - width
    BY DEF LeftEdge2, YAxisWidth
  <2>2. RightEdge2(n, i) = LeftEdge2(n, i) + 2 * width
    BY DEF RightEdge2
  <2> HIDE DEF gap, width
  <2> QED
    BY <2>1, <2>2, <1>1, <1>3, <1>4
<1>6. ContentWidth(n) >= PlotWidth /\ ContentWidth(n) >= n * gap + 5 * n
  <2>1. n * (gap + 5) = n * gap + 5 * n
    <3> HIDE DEF gap
    <3> QED
      BY <1>1, <1>2
  <2>2. n * (gap + 5) \in Int /\ PlotWidth \in Int
    <3> HIDE DEF gap
    <3> QED
      BY <1>1, <1>2, <1>3, <2>1
  <2>3. ContentWidth(n) = Larger(PlotWidth, n * (gap + 5))
    BY DEF ContentWidth
  <2> HIDE DEF gap
  <2> QED
    BY <2>1, <2>2, <2>3 DEF Larger
<1>7. gap <= 5 => n >= 15
  <2>1. \A g, m \in Nat : g <= 5 => m * g <= 5 * m
    BY Z3
  <2> HIDE DEF gap
  <2> QED
    BY <1>1, <1>2, <1>3, <2>1
<1>8. ContentWidth(n) \in Int
  BY <1>1, <1>2 DEF ContentWidth, Larger
<1> HIDE DEF gap, width
<1> QED
  BY ONLY <1>1, <1>2, <1>3, <1>4, <1>5, <1>6, <1>7, <1>8 DEF YAxisWidth

=============================================================================

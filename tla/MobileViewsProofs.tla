---------------------------- MODULE MobileViewsProofs ----------------------------
(***************************************************************************)
(* Theorems about the screens of the mobile client, for any stocks, any    *)
(* number of requests under way and any timeouts, drags and touches.       *)
(***************************************************************************)
EXTENDS MobileViews, MobileChartsProofs

-----------------------------------------------------------------------------
(* The invariant                                                           *)

(* With an interval, a load for anything but the key is on its way only in *)
(* times of doubt, and ends before the doubt does.                         *)
OthersAreDoubted ==
    Polls(view) => \A l \in loads : l.of # key => l.age + doubt >= Old

MoreIsOfTheChart == \A l \in loads : l.by = "more" => view = "pricechart"

CancelsFromHistory ==
    \A c \in Commands : cmd[c].what = "cancel" =>
        cmd[c].reach = "gone" \/ (cmd[c].reach = "screen" /\ view = "history")

(* Without titles to change, an item is only ever what its slot says.      *)
KeptInItsSlot ==
    view \in Tabs => \A s \in Slots : data[s] # None => data[s].of = {s}

(* A blank screen hides within the period: the next poll shows the spinner.*)
BlankIsDoubted == Blank => view = "history" /\ doubt >= IF polled THEN 2 ELSE 1

(* A load for the key is on its way and ends before something so old gets  *)
(* older than Bound.                                                       *)
Renewed(age) ==
    \/ age <= Duration[view] + IF polled THEN 0 ELSE 1
    \/ \E l \in loads : l.of = key /\ age <= l.age + Duration[view] + 1

(* A load for the key is on its way, or will be, and ends before the doubt.*)
Excused ==
    \/ doubt >= Duration[view] + IF polled THEN 2 ELSE 1
    \/ \E l \in loads : l.of = key /\ l.age + doubt >= Duration[view] + 1

ShownIsRenewed ==
    Polls(view) /\ ~loading /\ ~error /\ data[Slot(key)] # None =>
        \/ Excused
        \/ TitleFits /\ Renewed(data[Slot(key)].age)

(* Whatever does not fit its title has one of two causes.                  *)
TitleExplained ==
    ~loading /\ ~error /\ data[Slot(key)] # None => TitleFits \/ OwnAwaited \/ overtaken

(* The chart is a child of the popup.                                      *)
ChartFollowsPopup == ChartShown <=> showModalChart /\ PopupShown

LingeringExplained ==
    /\ showModalChart => asked \/ lingering
    /\ showModalChart /\ ~PopupShown => lingering

ViewsInv ==
    /\ TypeOK
    /\ OthersAreDoubted /\ MoreIsOfTheChart /\ CancelsFromHistory
    /\ KeptInItsSlot /\ BlankIsDoubted /\ ShownIsRenewed /\ TitleExplained
    /\ ChartFollowsPopup /\ LingeringExplained

-----------------------------------------------------------------------------
(* TypeOK in parts, each about what some actions leave alone together      *)

Loads == [of : Keys(view), age : 0..Duration[view], by : {"view", "command", "more"}]
Kept == [of : SUBSET Keys(view), age : 0..Old, windows : 1..MaxWindows]
Asked == [what : Transfers \cup {"nothing", "order", "cancel"},
          reach : {"form", "screen", "gone"}, alert : BOOLEAN]

PaneOK ==
    /\ view \in Components /\ key \in Keys(view)
    /\ loads \subseteq Loads /\ polled \in BOOLEAN
    /\ data \in [Slots -> {None} \cup Kept]
    /\ loading \in BOOLEAN /\ error \in BOOLEAN
    /\ doubt \in 0..Old /\ overtaken \in BOOLEAN

PopupOK ==
    /\ selectedStock \in Stocks \cup {None}
    /\ showStockModal \in BOOLEAN /\ showModalChart \in BOOLEAN
    /\ chart \in {None} \cup Charts
    /\ asked \in BOOLEAN /\ lingering \in BOOLEAN

FormsOK == modal \in Transfers \cup {"none", "choose"} /\ selectedPoint \in Stocks \cup {None}

CmdOK == cmd \in [Commands -> Asked]

LEMMA TypeParts == TypeOK <=> PaneOK /\ PopupOK /\ FormsOK /\ CmdOK
  BY DEF TypeOK, PaneOK, PopupOK, FormsOK, CmdOK, Loads, Kept, Asked

LEMMA TypePartsNext == TypeOK' <=> PaneOK' /\ PopupOK' /\ FormsOK' /\ CmdOK'
  BY DEF TypeOK, PaneOK, PopupOK, FormsOK, CmdOK, Loads, Kept, Asked

LEMMA KeysAndSlots ==
    ASSUME NEW v \in Components, NEW k \in Keys(v)
    PROVE  /\ Slot(k) \in Slots
           /\ v \in Tabs => k \in Slots /\ Slot(k) = k
           /\ v \notin Tabs => Slot(k) = "all" /\ k \in Stocks
  BY ViewsAssumption DEF Keys, Slot, Slots, Components, Tabs

LEMMA Periods ==
    ASSUME NEW v \in Components
    PROVE  Duration[v] \in Nat \ {0} /\ Bound(v) = 2 * Duration[v] + 1 /\ Bound(v) \in Nat
  BY ViewsAssumption DEF Bound

LEMMA KeptIsSomething ==
    ASSUME view \in Components, NEW d \in Kept
    PROVE  d # None
<1>1. Keys(view) \subseteq AllKeys /\ Old \in Nat
  BY Periods DEF AllKeys, Old
<1>2. d \in Items
  BY <1>1 DEF Kept, Items
<1> QED
  BY <1>2, ViewsAssumption

(* The parts of the invariant that are about the component and its loads.  *)
PaneInv ==
    /\ PaneOK
    /\ OthersAreDoubted /\ MoreIsOfTheChart
    /\ KeptInItsSlot /\ BlankIsDoubted /\ ShownIsRenewed /\ TitleExplained

PopupInv == PopupOK /\ ChartFollowsPopup /\ LingeringExplained

CmdInv == CmdOK /\ CancelsFromHistory

LEMMA InvParts == ViewsInv <=> PaneInv /\ PopupInv /\ FormsOK /\ CmdInv
  BY TypeParts DEF ViewsInv, PaneInv, PopupInv, CmdInv

LEMMA InvPartsNext == ViewsInv' <=> PaneInv' /\ PopupInv' /\ FormsOK' /\ CmdInv'
  BY TypePartsNext DEF ViewsInv, PaneInv, PopupInv, CmdInv

LEMMA PaneFrame == PaneInv /\ UNCHANGED <<pane, content>> => PaneInv'
  BY DEF PaneInv, PaneOK, Loads, Kept, OthersAreDoubted, MoreIsOfTheChart, KeptInItsSlot,
         BlankIsDoubted, Blank, ShownIsRenewed, Excused, Renewed, TitleFits, TitleExplained,
         OwnAwaited, pane, content, Old, Bound, Polls, Slot

LEMMA PopupFrame == PopupInv /\ UNCHANGED popup => PopupInv'
  BY DEF PopupInv, PopupOK, ChartFollowsPopup, ChartShown, PopupShown, LingeringExplained, popup

LEMMA FormsFrame == FormsOK /\ UNCHANGED forms => FormsOK'
  BY DEF FormsOK, forms

LEMMA CmdFrame == CmdInv /\ UNCHANGED <<view, cmd>> => CmdInv'
  BY DEF CmdInv, CmdOK, CancelsFromHistory

-----------------------------------------------------------------------------
(* Loads                                                                   *)

LEMMA Facts ==
    ASSUME PaneInv
    PROVE  /\ view \in Components /\ key \in Keys(view)
           /\ Slot(key) \in Slots
           /\ Duration[view] \in Nat \ {0} /\ Old = 2 * Duration[view] + 2
           /\ doubt \in 0..Old /\ polled \in BOOLEAN
           /\ loading \in BOOLEAN /\ error \in BOOLEAN /\ overtaken \in BOOLEAN
           /\ \A l \in loads :
                 /\ l \in Loads
                 /\ l.of \in Keys(view) /\ l.age \in 0..Duration[view]
                 /\ l.by \in {"view", "command", "more"}
           /\ \A s \in Slots : data[s] # None =>
                 /\ data[s] \in Kept
                 /\ data[s].of \subseteq Keys(view) /\ data[s].age \in 0..Old
                 /\ data[s].windows \in 1..MaxWindows
<1>1. PaneOK
  BY DEF PaneInv
<1>2. view \in Components /\ key \in Keys(view)
  BY <1>1 DEF PaneOK
<1>3. Duration[view] \in Nat \ {0} /\ Old = 2 * Duration[view] + 2
  BY <1>2, Periods DEF Old
<1>4. Slot(key) \in Slots
  BY <1>2, KeysAndSlots
<1>5. ASSUME NEW l \in loads
      PROVE  /\ l \in Loads
             /\ l.of \in Keys(view) /\ l.age \in 0..Duration[view]
             /\ l.by \in {"view", "command", "more"}
  BY <1>1 DEF PaneOK, Loads
<1>6. ASSUME NEW s \in Slots, data[s] # None
      PROVE  /\ data[s] \in Kept
             /\ data[s].of \subseteq Keys(view) /\ data[s].age \in 0..Old
             /\ data[s].windows \in 1..MaxWindows
  BY <1>1, <1>6 DEF PaneOK, Kept
<1> QED
  BY <1>1, <1>2, <1>3, <1>4, <1>5, <1>6 DEF PaneOK

LEMMA LoadFacts ==
    ASSUME NEW k, NEW by
    PROVE  Load(k, by).of = k /\ Load(k, by).age = 0 /\ Load(k, by).by = by
  BY DEF Load

LEMMA LoadTyped ==
    ASSUME view \in Components, NEW k \in Keys(view), NEW by \in {"view", "command", "more"}
    PROVE  Load(k, by) \in Loads
  BY Periods DEF Load, Loads

(* One more load for the key, without a change on the screen.              *)
LEMMA OwnLoadKeeps ==
    ASSUME PaneInv, NEW by \in {"view", "command", "more"}, by = "more" => view = "pricechart",
           loads' = loads \cup {Load(key, by)}, UNCHANGED <<pane, data, loading, error>>
    PROVE  PaneInv'
<1>1. UNCHANGED <<view, key, polled, doubt, overtaken, data, loading, error>>
  BY DEF pane
<1>2. PaneOK'
  BY Facts, LoadTyped, <1>1 DEF PaneInv, PaneOK, Loads, Kept, Old, Bound
<1>3. OthersAreDoubted'
  BY <1>1, LoadFacts DEF PaneInv, OthersAreDoubted, Polls, Old, Bound
<1>4. MoreIsOfTheChart' /\ KeptInItsSlot' /\ BlankIsDoubted'
  BY <1>1, LoadFacts DEF PaneInv, MoreIsOfTheChart, KeptInItsSlot, BlankIsDoubted, Blank, Slot
<1>5. ShownIsRenewed'
  BY <1>1 DEF PaneInv, ShownIsRenewed, Excused, Renewed, TitleFits, Polls, Slot
<1>6. TitleExplained'
  BY <1>1 DEF PaneInv, TitleExplained, TitleFits, OwnAwaited, Slot
<1> QED
  BY <1>2, <1>3, <1>4, <1>5, <1>6 DEF PaneInv

LEMMA LoadMoreKeeps == PaneInv /\ LoadMore => PaneInv'
  BY OwnLoadKeeps DEF LoadMore, CandlesShown

LEMMA PollKeeps == PaneInv /\ Poll => PaneInv'
<1> SUFFICES ASSUME PaneInv, Poll PROVE PaneInv'
  OBVIOUS
<1>1. /\ Polls(view) /\ ~polled /\ polled' = TRUE
      /\ loads' = loads \cup {Load(key, "view")}
      /\ loading' = (loading \/ HidesWhileLoading)
      /\ UNCHANGED <<view, key, doubt, overtaken, data, error>>
  BY DEF Poll
<1>2. PaneOK'
  BY Facts, LoadTyped, <1>1 DEF PaneInv, PaneOK, Loads, Kept, Old, Bound, HidesWhileLoading
<1>3. OthersAreDoubted'
  BY <1>1, LoadFacts DEF PaneInv, OthersAreDoubted, Polls, Old, Bound
<1>4. MoreIsOfTheChart' /\ KeptInItsSlot'
  BY <1>1, LoadFacts DEF PaneInv, MoreIsOfTheChart, KeptInItsSlot
<1>5. BlankIsDoubted'
  BY <1>1 DEF PaneInv, BlankIsDoubted, Blank, Slot, HidesWhileLoading
<1>6. ShownIsRenewed'
  <2> SUFFICES ASSUME ~loading', ~error', data'[Slot(key')] # None
               PROVE  Excused' \/ (TitleFits' /\ Renewed(data[Slot(key)].age)')
    BY <1>1 DEF ShownIsRenewed, Slot
  <2>1. Excused \/ (TitleFits /\ Renewed(data[Slot(key)].age))
    BY <1>1 DEF PaneInv, ShownIsRenewed, Slot
  <2>2. Load(key, "view") \in loads' /\ Load(key, "view").of = key /\ Load(key, "view").age = 0
    BY <1>1, LoadFacts
  <2>3. CASE Excused
    BY <1>1, <2>2, <2>3, Facts DEF Excused, Polls
  <2>4. CASE TitleFits /\ Renewed(data[Slot(key)].age)
    <3>1. TitleFits'
      BY <1>1, <2>4 DEF TitleFits, Slot
    <3>2. CASE data[Slot(key)].age <= Duration[view] + 1
      BY <1>1, <2>2, <3>1, <3>2, Facts DEF Renewed, Slot
    <3>3. CASE \E l \in loads : l.of = key /\ data[Slot(key)].age <= l.age + Duration[view] + 1
      BY <1>1, <3>1, <3>3 DEF Renewed, Slot
    <3> QED
      BY <1>1, <2>4, <3>2, <3>3 DEF Renewed
  <2> QED
    BY <2>1, <2>3, <2>4
<1>7. TitleExplained'
  BY <1>1, LoadFacts DEF TitleExplained, OwnAwaited
<1> QED
  BY <1>2, <1>3, <1>4, <1>5, <1>6, <1>7 DEF PaneInv

LEMMA SetActiveViewKeeps ==
    ASSUME PaneInv, NEW v \in Tabs, SetActiveView(v)
    PROVE  PaneInv'
<1>1. /\ view' = v /\ key' = (IF v = "history" THEN "trades" ELSE "all")
      /\ loads' = {Load(key', "view")} /\ polled' = TRUE
      /\ data' = [s \in Slots |-> None] /\ loading' = TRUE /\ error' = FALSE
      /\ doubt' = 0 /\ overtaken' = FALSE
  BY DEF SetActiveView
<1>2. view' \in Components /\ key' \in Keys(view')
  BY <1>1 DEF Components, Tabs, Keys
<1>3. Load(key', "view") \in Loads'
  <2>1. Duration[view'] \in Nat
    BY <1>2, Periods
  <2> QED
    BY <1>2, <2>1 DEF Load, Loads
<1>4. 0 \in 0..Old'
  <2>1. Old' \in Nat
    BY <1>2, Periods DEF Old
  <2> QED
    BY <2>1
<1>5. PaneOK'
  BY <1>1, <1>2, <1>3, <1>4 DEF PaneOK
<1>6. OthersAreDoubted' /\ MoreIsOfTheChart'
  BY <1>1, LoadFacts DEF OthersAreDoubted, MoreIsOfTheChart
<1>7. KeptInItsSlot' /\ BlankIsDoubted' /\ ShownIsRenewed' /\ TitleExplained'
  BY <1>1 DEF KeptInItsSlot, BlankIsDoubted, Blank, ShownIsRenewed, TitleExplained
<1> QED
  BY <1>5, <1>6, <1>7 DEF PaneInv

LEMMA ChangeKeyKeeps ==
    ASSUME PaneInv, NEW k \in AllKeys, ChangeKey(k)
    PROVE  PaneInv'
<1>1. /\ k \in Keys(view) /\ k # key /\ key' = k
      /\ loads' = loads \cup {Load(k, "view")} /\ polled' = TRUE
      /\ loading' = (loading \/ HidesWhileLoading)
      /\ doubt' = (IF Polls(view) /\ (loads # {} \/ view = "orderbook") THEN Old ELSE 0)
      /\ overtaken' = FALSE
      /\ data' = Aside
      /\ UNCHANGED <<view, error>>
  BY DEF ChangeKey
<1>2. /\ Load(k, "view") \in loads' /\ Load(k, "view") \in Loads
      /\ Load(k, "view").of = k /\ Load(k, "view").age = 0 /\ Load(k, "view").by = "view"
  BY <1>1, Facts, LoadFacts, LoadTyped
<1>3. view \in {"history", "orderbook", "pricechart"} /\ (view \in Tabs => view = "history")
  BY <1>1, Facts DEF Keys, Components, Tabs
<1>4. \A s \in Slots : /\ data'[s] # None <=> data[s] # None
                       /\ data[s] # None => data'[s] = [data[s] EXCEPT !.age = Old]
  <2>1. ASSUME NEW s \in Slots, data[s] # None
        PROVE  [data[s] EXCEPT !.age = Old] # None
    <3>1. data[s] \in Kept
      BY <2>1, Facts
    <3>2. Old \in 0..Old /\ view \in Components
      BY Facts
    <3>3. [data[s] EXCEPT !.age = Old] \in Kept
      BY ONLY <3>1, <3>2 DEF Kept
    <3> QED
      BY <3>2, <3>3, KeptIsSomething
  <2> QED
    BY <1>1, <2>1 DEF Aside
<1>5. PaneOK'
  <2>1. data' \in [Slots -> {None} \cup Kept]
    BY <1>1, Facts DEF Aside, Kept
  <2>2. doubt' \in 0..Old /\ loading' \in BOOLEAN
    BY <1>1, Facts DEF HidesWhileLoading
  <2> QED
    BY <1>1, <1>2, <2>1, <2>2 DEF PaneInv, PaneOK, Loads, Kept, Old, Bound
<1>6. OthersAreDoubted'
  <2> SUFFICES ASSUME Polls(view), NEW l \in loads', l.of # key'
               PROVE  l.age + doubt' >= Old
    BY <1>1 DEF OthersAreDoubted, Polls, Old, Bound
  <2>1. l \in loads /\ doubt' = Old
    BY <1>1, <1>2
  <2> QED
    BY <2>1, Facts
<1>7. MoreIsOfTheChart'
  BY <1>1, <1>2 DEF PaneInv, MoreIsOfTheChart
<1>8. KeptInItsSlot'
  <2>1. \A s \in Slots : data[s] # None => data'[s].of = data[s].of
    BY <1>4, Facts DEF Kept
  <2> QED
    BY <1>1, <1>4, <2>1 DEF PaneInv, KeptInItsSlot
<1>9. BlankIsDoubted'
  <2> SUFFICES ASSUME Blank' PROVE FALSE
    BY DEF BlankIsDoubted
  <2>1. ~loading /\ view = "orderbook" /\ ~error /\ data'[Slot(k)] = None
    BY <1>1, <1>3 DEF Blank, HidesWhileLoading, Slot
  <2>2. Slot(k) = Slot(key) /\ Slot(key) \in Slots
    BY <1>1, <2>1, Facts, KeysAndSlots DEF Components, Tabs
  <2>3. Blank
    BY <1>4, <2>1, <2>2 DEF Blank
  <2> QED
    BY <2>1, <2>3 DEF PaneInv, BlankIsDoubted
<1>10. ShownIsRenewed'
  <2> SUFFICES ASSUME Polls(view'), ~loading' PROVE Excused'
    BY DEF ShownIsRenewed
  <2>1. view = "orderbook" /\ doubt' = Old
    BY <1>1, <1>3 DEF HidesWhileLoading, Polls
  <2> QED
    BY <1>1, <1>2, <2>1, Facts DEF Excused
<1>11. TitleExplained'
  BY <1>1, <1>2 DEF TitleExplained, OwnAwaited
<1> QED
  BY <1>5, <1>6, <1>7, <1>8, <1>9, <1>10, <1>11 DEF PaneInv

LEMMA FailKeeps ==
    ASSUME PaneInv, NEW l \in loads, Fail(l)
    PROVE  PaneInv'
<1>1. /\ loads' = loads \ {l}
      /\ UNCHANGED <<view, key, polled, doubt, overtaken, data>>
      /\ IF l.by = "more" THEN UNCHANGED <<loading, error>> ELSE loading' = FALSE /\ error' = TRUE
  BY DEF Fail, pane
<1>2. PaneOK'
  BY <1>1 DEF PaneInv, PaneOK, Loads, Kept, Old, Bound
<1>3. OthersAreDoubted' /\ MoreIsOfTheChart' /\ KeptInItsSlot'
  BY <1>1 DEF PaneInv, OthersAreDoubted, MoreIsOfTheChart, KeptInItsSlot, Polls, Old, Bound
<1>4. BlankIsDoubted'
  BY <1>1 DEF PaneInv, BlankIsDoubted, Blank, Slot
<1>5. ShownIsRenewed'
  <2>1. CASE l.by # "more"
    BY <1>1, <2>1 DEF ShownIsRenewed
  <2>2. CASE l.by = "more"
    BY <1>1, <2>2 DEF PaneInv, MoreIsOfTheChart, ShownIsRenewed, Polls
  <2> QED
    BY <2>1, <2>2
<1>6. TitleExplained'
  BY <1>1 DEF PaneInv, TitleExplained, OwnAwaited, TitleFits, Slot
<1> QED
  BY <1>2, <1>3, <1>4, <1>5, <1>6 DEF PaneInv

(* A further window of candles.                                            *)
LEMMA ArriveMoreKeeps ==
    ASSUME PaneInv, NEW l \in loads, NEW readAge \in 0..l.age, Arrive(l, readAge), l.by = "more"
    PROVE  PaneInv'
<1> DEFINE old == data["all"]
           grown == [old EXCEPT !.of = old.of \cup {l.of}, !.windows = old.windows + 1]
           grows == old # None /\ old.windows # MaxWindows
<1>0. overtaken' = (IF l.of = key THEN overtaken
                    ELSE overtaken \/ (Slot(l.of) = Slot(key) /\ ~OwnAwaited))
  BY Facts DEF Arrive
<1>1. /\ loads' = loads \ {l}
      /\ UNCHANGED <<view, key, polled, doubt, loading, error>>
  BY DEF Arrive
<1>2. view = "pricechart" /\ ~Polls(view)
  BY DEF PaneInv, MoreIsOfTheChart, Polls
<1>3. "all" \in Slots /\ Slot(key) = "all"
  BY <1>2, Facts, KeysAndSlots DEF Slots, Tabs
<1>4. data \in [Slots -> {None} \cup Kept]
  BY DEF PaneInv, PaneOK
<1>5. grows => /\ grown \in Kept /\ grown # None
               /\ old.of = {l.of} => grown.of = {l.of}
  <2> SUFFICES ASSUME grows
               PROVE  grown \in Kept /\ grown # None /\ (old.of = {l.of} => grown.of = {l.of})
    OBVIOUS
  <2>1. /\ old \in Kept /\ old.of \subseteq Keys(view) /\ old.windows \in 1..MaxWindows
        /\ l.of \in Keys(view) /\ old.windows + 1 \in 1..MaxWindows
    BY <1>3, Facts, ViewsAssumption
  <2>2. old.of \cup {l.of} \in SUBSET Keys(view)
    BY <2>1
  <2>3. grown \in Kept
    <3> HIDE DEF old
    <3> QED
      BY ONLY <2>1, <2>2 DEF Kept
  <2>4. grown # None
    BY <2>3, KeptIsSomething, Facts
  <2>5. grown.of = old.of \cup {l.of}
    <3> HIDE DEF old
    <3> QED
      BY ONLY <2>1 DEF Kept
  <2> QED
    BY <2>3, <2>4, <2>5
<1>6. data' = [data EXCEPT !["all"] = IF grows THEN grown ELSE old]
  <2>1. data' = [data EXCEPT !["all"] = Appended(old, l.of)]
    BY DEF Arrive
  <2>2. Appended(old, l.of) = IF grows THEN grown ELSE old
    BY DEF Appended
  <2> QED
    BY <2>1, <2>2
<1> HIDE DEF grown, grows
<1>7. data' \in [Slots -> {None} \cup Kept] /\ data'["all"] = (IF grows THEN grown ELSE old)
  BY <1>3, <1>4, <1>5, <1>6
<1>8. PaneOK'
  <2>1. overtaken' \in BOOLEAN
    BY <1>0, Facts
  <2> QED
    BY <1>1, <1>7, <2>1 DEF PaneInv, PaneOK, Loads, Kept, Old, Bound
<1>9. OthersAreDoubted' /\ MoreIsOfTheChart'
  BY <1>1 DEF PaneInv, OthersAreDoubted, MoreIsOfTheChart, Polls, Old, Bound
<1>10. KeptInItsSlot'
  BY <1>1, <1>2 DEF KeptInItsSlot, Tabs
<1>11. old = None <=> data'["all"] = None
  BY <1>5, <1>7 DEF grows
<1>12. BlankIsDoubted'
  BY <1>1, <1>3, <1>11 DEF PaneInv, BlankIsDoubted, Blank, Slot
<1>13. ShownIsRenewed'
  BY <1>1, <1>2 DEF ShownIsRenewed, Polls
<1>14. TitleExplained'
  <2> SUFFICES ASSUME ~loading', ~error', data'["all"] # None, ~OwnAwaited', ~overtaken'
               PROVE  data'["all"].of = {key}
    BY <1>1, <1>3 DEF TitleExplained, TitleFits, Slot
  <2>1. ~OwnAwaited
    BY <1>1 DEF OwnAwaited
  <2>2. l.of = key /\ ~overtaken
    <3>1. Slot(l.of) = Slot(key)
      BY <1>2, <1>3, Facts, KeysAndSlots DEF Tabs
    <3> QED
      BY <1>0, <2>1, <3>1
  <2>3. old.of = {key}
    BY <1>1, <1>3, <1>11, <2>1, <2>2 DEF PaneInv, TitleExplained, TitleFits
  <2> QED
    BY <1>5, <1>7, <2>2, <2>3
<1> QED
  BY <1>8, <1>9, <1>10, <1>12, <1>13, <1>14 DEF PaneInv

LEMMA ArriveKeeps ==
    ASSUME PaneInv, NEW l \in loads, NEW readAge \in 0..l.age, Arrive(l, readAge), l.by # "more"
    PROVE  PaneInv'
<1> DEFINE new == Converted(l, readAge)
<1>0. overtaken' = (l.of # key /\ (overtaken \/ (Slot(l.of) = Slot(key) /\ ~OwnAwaited)))
  BY DEF Arrive
<1>1. /\ loads' = loads \ {l}
      /\ UNCHANGED <<view, key, polled, doubt>>
      /\ data' = [data EXCEPT ![Slot(l.of)] = new]
      /\ loading' = FALSE /\ error' = FALSE
  BY DEF Arrive
<1>2. /\ view \in Components /\ l.of \in Keys(view) /\ key \in Keys(view)
      /\ Slot(l.of) \in Slots /\ Slot(key) \in Slots
      /\ l.age \in 0..Duration[view] /\ readAge \in 0..Duration[view]
      /\ Duration[view] \in Nat \ {0} /\ Old = 2 * Duration[view] + 2
  BY Facts, KeysAndSlots
<1>3. /\ new.of = {l.of} /\ new.windows = 1 /\ new.age \in 0..Old
      /\ Slot(l.of) = Slot(key) => new.age = readAge
      /\ new \in Kept /\ new # None
  <2>1. new = [of |-> {l.of}, windows |-> 1,
               age |-> IF Slot(l.of) = Slot(key) THEN readAge ELSE Old]
    BY DEF Converted
  <2>2. new.age \in 0..Old /\ new.of = {l.of} /\ new.windows = 1
    BY <1>2, <2>1
  <2>3. new \in Kept
    <3>1. 1 \in 1..MaxWindows
      BY ViewsAssumption
    <3>2. (IF Slot(l.of) = Slot(key) THEN readAge ELSE Old) \in 0..Old
      BY <1>2
    <3> QED
      BY <1>2, <2>1, <3>1, <3>2 DEF Kept
  <2>4. new # None
    BY <1>2, <2>3, KeptIsSomething
  <2>5. Slot(l.of) = Slot(key) => new.age = readAge
    BY <2>1
  <2> QED
    BY <2>2, <2>3, <2>4, <2>5
<1>4. data \in [Slots -> {None} \cup Kept]
  BY DEF PaneInv, PaneOK
<1> HIDE DEF new
<1>5. /\ data' \in [Slots -> {None} \cup Kept] /\ data'[Slot(l.of)] = new
      /\ \A s \in Slots \ {Slot(l.of)} : data'[s] = data[s]
  BY <1>1, <1>2, <1>3, <1>4
<1>6. PaneOK'
  BY <1>0, <1>1, <1>5 DEF PaneInv, PaneOK, Loads, Kept, Old, Bound
<1>7. OthersAreDoubted' /\ MoreIsOfTheChart'
  BY <1>1 DEF PaneInv, OthersAreDoubted, MoreIsOfTheChart, Polls, Old, Bound
<1>8. KeptInItsSlot'
  <2> SUFFICES ASSUME view \in Tabs, NEW s \in Slots, data'[s] # None
               PROVE  data'[s].of = {s}
    BY <1>1 DEF KeptInItsSlot
  <2>1. Slot(l.of) = l.of
    BY <1>2, KeysAndSlots
  <2> QED
    BY <1>3, <1>5, <2>1 DEF PaneInv, KeptInItsSlot
<1>9. CASE Slot(l.of) = Slot(key) /\ l.of = key
  <2>1. data'[Slot(key)] = new /\ new.of = {key} /\ new.age \in 0..Duration[view]
    BY <1>2, <1>3, <1>5, <1>9
  <2>2. BlankIsDoubted'
    BY <1>1, <1>3, <2>1 DEF BlankIsDoubted, Blank, Slot
  <2>3. Renewed(data[Slot(key)].age)' /\ TitleFits'
    <3>1. new.age <= Duration[view] + IF polled THEN 0 ELSE 1
      BY <1>2, <2>1
    <3> QED
      BY <1>1, <2>1, <3>1 DEF Renewed, TitleFits, Slot
  <2> QED
    BY <1>6, <1>7, <1>8, <2>2, <2>3 DEF PaneInv, ShownIsRenewed, TitleExplained
<1>10. CASE l.of # key
  <2>1. Polls(view) => l.age + doubt >= Old
    BY <1>10 DEF PaneInv, OthersAreDoubted
  <2>2. doubt \in Nat /\ polled \in BOOLEAN
    BY Facts
  <2>3. ShownIsRenewed'
    BY <1>1, <1>2, <2>1, <2>2 DEF ShownIsRenewed, Excused, Polls
  <2>4. BlankIsDoubted'
    <3> SUFFICES ASSUME data'[Slot(key)] = None
                 PROVE  view = "history" /\ doubt >= 2
      BY <1>1, <2>2 DEF BlankIsDoubted, Blank, Slot
    <3>1. Slot(l.of) # Slot(key)
      BY <1>3, <1>5
    <3>2. view = "history"
      BY <1>2, <1>10, <3>1, KeysAndSlots DEF Components, Tabs, Keys
    <3> QED
      BY <1>2, <2>1, <2>2, <3>2 DEF Polls
  <2>5. TitleExplained'
    <3>1. CASE Slot(l.of) = Slot(key)
      <4>1. OwnAwaited => OwnAwaited'
        BY <1>1, <1>10 DEF OwnAwaited
      <4> QED
        BY <1>0, <1>10, <3>1, <4>1 DEF TitleExplained
    <3>2. CASE Slot(l.of) # Slot(key)
      <4>1. view \in Tabs
        BY <1>2, <3>2, KeysAndSlots
      <4>2. Slot(key) = key
        BY <1>2, <4>1, KeysAndSlots
      <4>3. data'[Slot(key)] # None => data'[Slot(key)].of = {key}
        BY <1>1, <1>2, <1>8, <4>1, <4>2 DEF KeptInItsSlot
      <4> QED
        BY <1>1, <4>3 DEF TitleExplained, TitleFits, Slot
    <3> QED
      BY <3>1, <3>2
  <2> QED
    BY <1>6, <1>7, <1>8, <2>3, <2>4, <2>5 DEF PaneInv
<1> QED
  BY <1>9, <1>10

LEMMA TickKeeps == PaneInv /\ Tick => PaneInv'
<1> SUFFICES ASSUME PaneInv, Tick PROVE PaneInv'
  OBVIOUS
<1> DEFINE aged(l) == [l EXCEPT !.age = l.age + 1]
           older(d) == [d EXCEPT !.age = Older(d.age)]
<1>1. /\ polled /\ \A l \in loads : l.age < Duration[view]
      /\ loads' = {aged(l) : l \in loads}
      /\ data' = [s \in Slots |-> IF data[s] = None THEN None ELSE older(data[s])]
      /\ doubt' = (IF Polls(view) /\ doubt > 0 THEN doubt - 1 ELSE doubt)
      /\ polled' = ~Polls(view)
      /\ UNCHANGED <<view, key, overtaken, loading, error>>
  BY DEF Tick
<1>2. /\ view \in Components /\ Slot(key) \in Slots
      /\ Duration[view] \in Nat \ {0} /\ Old = 2 * Duration[view] + 2 /\ doubt \in 0..Old
  BY Facts
<1>13. /\ Polls(view) => polled' = FALSE
       /\ Polls(view) /\ doubt > 0 => doubt' = doubt - 1
       /\ ~(Polls(view) /\ doubt > 0) => doubt' = doubt
  <2>1. Polls(view) => polled' = FALSE
    BY <1>1
  <2>2. doubt' = (IF Polls(view) /\ doubt > 0 THEN doubt - 1 ELSE doubt)
    BY <1>1
  <2> QED
    BY ONLY <2>1, <2>2
<1>3. ASSUME NEW l \in loads
      PROVE  /\ aged(l) \in Loads /\ aged(l).of = l.of /\ aged(l).by = l.by
             /\ aged(l).age = l.age + 1 /\ l.age \in Nat
  <2>1. l \in Loads /\ l.age \in 0..Duration[view] /\ l.age < Duration[view]
    BY <1>1, Facts
  <2>2. l.age + 1 \in 0..Duration[view] /\ l.age \in Nat
    BY <1>2, <2>1
  <2> QED
    BY ONLY <2>1, <2>2 DEF Loads
<1>4. ASSUME NEW s \in Slots, data[s] # None
      PROVE  /\ older(data[s]) \in Kept /\ older(data[s]).of = data[s].of
             /\ older(data[s]) # None
             /\ older(data[s]).age <= data[s].age + 1 /\ data[s].age \in Nat
             /\ older(data[s]).age \in Nat
  <2>1. data[s] \in Kept /\ data[s].age \in 0..Old
    BY <1>4, Facts
  <2>2. /\ Older(data[s].age) \in 0..Old /\ Older(data[s].age) <= data[s].age + 1
    BY <1>2, <2>1 DEF Older
  <2>3. /\ older(data[s]) \in Kept /\ older(data[s]).of = data[s].of
        /\ older(data[s]).age = Older(data[s].age)
    BY ONLY <2>1, <2>2 DEF Kept
  <2>4. older(data[s]) # None
    BY <1>2, <2>3, KeptIsSomething
  <2> QED
    BY <1>2, <2>1, <2>2, <2>3, <2>4
<1> HIDE DEF aged, older
<1>5. \A s \in Slots : data'[s] = IF data[s] = None THEN None ELSE older(data[s])
  BY <1>1
<1>6. PaneOK'
  <2>1. doubt' \in 0..Old
    BY <1>1, <1>2
  <2>2. loads' \subseteq Loads /\ polled' \in BOOLEAN
    BY <1>1, <1>3 DEF Polls
  <2>3. data' \in [Slots -> {None} \cup Kept]
    BY <1>1, <1>4
  <2> QED
    BY <1>1, <2>1, <2>2, <2>3 DEF PaneInv, PaneOK, Loads, Kept, Old, Bound
<1>7. OthersAreDoubted'
  <2> SUFFICES ASSUME Polls(view), NEW l \in loads, l.of # key
               PROVE  l.age + 1 + doubt' >= Old
    BY <1>1, <1>3 DEF OthersAreDoubted, Polls, Old, Bound
  <2>1. l.age + doubt >= Old
    BY DEF PaneInv, OthersAreDoubted
  <2>2. l.age \in Nat
    BY <1>3
  <2> QED
    BY <1>1, <1>2, <2>1, <2>2
<1>8. MoreIsOfTheChart'
  BY <1>1, <1>3 DEF PaneInv, MoreIsOfTheChart
<1>9. KeptInItsSlot'
  BY <1>1, <1>4, <1>5 DEF PaneInv, KeptInItsSlot
<1>10. data'[Slot(key)] = None <=> data[Slot(key)] = None
  BY <1>2, <1>4, <1>5
<1>11. BlankIsDoubted'
  <2> SUFFICES ASSUME Blank'
               PROVE  view = "history" /\ doubt' >= IF polled' THEN 2 ELSE 1
    BY <1>1 DEF BlankIsDoubted
  <2>1. Blank
    BY <1>1, <1>10 DEF Blank, Slot
  <2>2. view = "history" /\ doubt >= 2
    BY <1>1, <2>1 DEF PaneInv, BlankIsDoubted
  <2>3. polled' = FALSE /\ doubt' = doubt - 1
    <3>1. Polls(view)
      BY <2>2 DEF Polls
    <3>2. doubt > 0
      BY <1>2, <2>2
    <3> QED
      BY <1>13, <3>1, <3>2
  <2> QED
    BY <1>2, <2>2, <2>3
<1>14. /\ data'[Slot(key)].of = data[Slot(key)].of \/ data[Slot(key)] = None
       /\ data[Slot(key)] # None => data'[Slot(key)].age <= data[Slot(key)].age + 1
       /\ data[Slot(key)] # None => data[Slot(key)].age \in Nat /\ data'[Slot(key)].age \in Nat
  BY <1>2, <1>4, <1>5
<1>12. ShownIsRenewed'
  <2> DEFINE now == data[Slot(key)]
             next == data'[Slot(key)]
  <2> SUFFICES ASSUME Polls(view), ~loading, ~error, now # None
               PROVE  Excused' \/ (TitleFits' /\ Renewed(data[Slot(key)].age)')
    BY <1>1, <1>10 DEF ShownIsRenewed, Slot, Polls
  <2>1. /\ next.of = now.of /\ next.age <= now.age + 1
        /\ now.age \in Nat /\ next.age \in Nat
    BY <1>14
  <2>2. Excused \/ (TitleFits /\ Renewed(now.age))
    BY DEF PaneInv, ShownIsRenewed
  <2>3. polled' = FALSE
    BY <1>13
  <2> HIDE DEF now, next
  <2>4. CASE doubt >= Duration[view] + 2
    <3>1. doubt' = doubt - 1
      <4>1. doubt > 0
        BY <1>2, <2>4
      <4> QED
        BY <1>13, <4>1
    <3>2. doubt' >= Duration[view] + IF polled' THEN 2 ELSE 1
      BY <1>2, <2>3, <2>4, <3>1
    <3> QED
      BY <1>1, <3>2 DEF Excused
  <2>5. CASE \E l \in loads : l.of = key /\ l.age + doubt >= Duration[view] + 1
    <3>1. PICK l \in loads : l.of = key /\ l.age + doubt >= Duration[view] + 1
      BY <2>5
    <3>2. /\ aged(l) \in loads' /\ aged(l).of = key'
          /\ aged(l).age + doubt' >= Duration[view] + 1
      BY <1>1, <1>2, <1>3, <3>1
    <3> QED
      BY <1>1, <3>2 DEF Excused
  <2>6. CASE TitleFits /\ Renewed(now.age)
    <3>1. TitleFits'
      BY <1>1, <2>1, <2>6 DEF TitleFits, Slot, now, next
    <3>2. CASE now.age <= Duration[view]
      <4>1. next.age <= Duration[view] + 1
        BY <1>2, <2>1, <3>2
      <4> QED
        BY <1>1, <2>3, <3>1, <4>1 DEF Renewed, Slot, next
    <3>3. CASE \E l \in loads : l.of = key /\ now.age <= l.age + Duration[view] + 1
      <4>1. PICK l \in loads : l.of = key /\ now.age <= l.age + Duration[view] + 1
        BY <3>3
      <4>2. /\ aged(l) \in loads' /\ aged(l).of = key'
            /\ next.age <= aged(l).age + Duration[view] + 1
        BY <1>1, <1>2, <1>3, <2>1, <4>1
      <4> QED
        BY <1>1, <3>1, <4>2 DEF Renewed, Slot, next
    <3> QED
      BY <1>1, <1>2, <2>1, <2>6, <3>2, <3>3 DEF Renewed
  <2> QED
    BY <1>1, <2>2, <2>4, <2>5, <2>6 DEF Excused
<1>15. TitleExplained'
  <2> SUFFICES ASSUME ~loading, ~error, data[Slot(key)] # None
               PROVE  TitleFits' \/ OwnAwaited' \/ overtaken'
    BY <1>1, <1>10 DEF TitleExplained, Slot
  <2>1. CASE TitleFits
    BY <1>1, <1>14, <2>1 DEF TitleFits, Slot
  <2>2. CASE OwnAwaited
    <3>1. PICK l \in loads : l.of = key /\ l.by # "more"
      BY <2>2 DEF OwnAwaited
    <3>2. aged(l) \in loads' /\ aged(l).of = key' /\ aged(l).by # "more"
      BY <1>1, <1>3, <3>1
    <3> QED
      BY <3>2 DEF OwnAwaited
  <2>3. CASE overtaken
    BY <1>1, <2>3
  <2> QED
    BY <2>1, <2>2, <2>3 DEF PaneInv, TitleExplained
<1> QED
  BY <1>6, <1>7, <1>8, <1>9, <1>11, <1>12, <1>15 DEF PaneInv

LEMMA ConfirmKeeps ==
    ASSUME PaneInv, NEW c \in Commands, Confirm(c)
    PROVE  PaneInv'
<1>1. CASE UNCHANGED loads
  BY <1>1, PaneFrame DEF Confirm, content
<1>2. CASE loads' = loads \cup {Load(key, "command")}
  BY <1>2, OwnLoadKeeps DEF Confirm
<1> QED
  BY <1>1, <1>2 DEF Confirm

LEMMA CancelAnsweredKeeps ==
    ASSUME PaneInv, CmdInv, NEW c \in Commands, CancelAnswered(c)
    PROVE  PaneInv'
<1>1. UNCHANGED <<view, key, polled, overtaken, data>>
  BY DEF CancelAnswered
<1>2. CASE UNCHANGED <<loads, loading, error, doubt>>
  BY <1>1, <1>2, PaneFrame DEF pane, content
<1>3. CASE error' = TRUE /\ UNCHANGED <<loads, loading, doubt>>
  <2>1. PaneOK'
    BY <1>1, <1>3 DEF PaneInv, PaneOK, Loads, Kept, Old, Bound
  <2>2. OthersAreDoubted' /\ MoreIsOfTheChart' /\ KeptInItsSlot'
    BY <1>1, <1>3 DEF PaneInv, OthersAreDoubted, MoreIsOfTheChart, KeptInItsSlot, Polls, Old, Bound
  <2>3. BlankIsDoubted' /\ ShownIsRenewed' /\ TitleExplained'
    BY <1>3 DEF BlankIsDoubted, Blank, ShownIsRenewed, TitleExplained
  <2> QED
    BY <2>1, <2>2, <2>3 DEF PaneInv
<1>4. CASE /\ cmd[c].reach = "screen"
           /\ loads' = loads \cup {Load("orders", "command")} /\ loading' = TRUE
           /\ doubt' = IF key = "orders" THEN doubt ELSE Old
           /\ UNCHANGED error
  <2>1. view = "history" /\ Polls(view) /\ "orders" \in Keys(view)
    <3>1. view = "history"
      BY <1>4 DEF CmdInv, CancelsFromHistory, CancelAnswered
    <3> QED
      BY <3>1 DEF Polls, Keys
  <2>2. PaneOK'
    <3>1. doubt' \in 0..Old
      BY <1>4, Facts
    <3>2. loads' \subseteq Loads
      <4>1. Load("orders", "command") \in Loads
        BY <2>1, Facts, LoadTyped
      <4> QED
        BY <1>4, <4>1, Facts
    <3> QED
      BY <1>1, <1>4, <3>1, <3>2 DEF PaneInv, PaneOK, Loads, Kept, Old, Bound
  <2>3. OthersAreDoubted'
    <3> SUFFICES ASSUME NEW l \in loads', l.of # key
                 PROVE  l.age + doubt' >= Old
      BY <1>1, <2>1 DEF OthersAreDoubted, Polls, Old, Bound
    <3>1. CASE l \in loads
      BY <1>4, <2>1, <3>1, Facts DEF PaneInv, OthersAreDoubted
    <3>2. CASE l = Load("orders", "command")
      BY <1>4, <3>2, Facts, LoadFacts
    <3> QED
      BY <1>4, <3>1, <3>2
  <2>4. MoreIsOfTheChart' /\ KeptInItsSlot'
    BY <1>1, <1>4, LoadFacts DEF PaneInv, MoreIsOfTheChart, KeptInItsSlot
  <2>5. BlankIsDoubted' /\ ShownIsRenewed' /\ TitleExplained'
    BY <1>4 DEF BlankIsDoubted, Blank, ShownIsRenewed, TitleExplained
  <2> QED
    BY <2>2, <2>3, <2>4, <2>5 DEF PaneInv
<1> QED
  BY <1>2, <1>3, <1>4 DEF CancelAnswered

-----------------------------------------------------------------------------
(* The popup                                                               *)

LEMMA ChartIsSomething == \A d \in Charts : d # None
  BY ViewsAssumption

LEMMA SelectKeeps ==
    ASSUME PopupInv, NEW s \in Stocks, Select(s)
    PROVE  PopupInv'
<1>1. Reload(Daily) \in Charts
  BY ReloadInside, ChartsAssumption
<1>2. s # None
  BY ViewsAssumption
<1> QED
  BY <1>1, <1>2, ChartIsSomething
     DEF Select, PopupInv, PopupOK, ChartFollowsPopup, ChartShown, PopupShown, LingeringExplained

LEMMA OpenChartKeeps == PopupInv /\ OpenChart => PopupInv'
<1>1. Reload(Daily) \in Charts
  BY ReloadInside, ChartsAssumption
<1> QED
  BY <1>1, ChartIsSomething
     DEF OpenChart, OnPopup, PopupInv, PopupOK, ChartFollowsPopup, ChartShown, PopupShown,
         LingeringExplained

LEMMA ClosePopupKeeps == PopupInv /\ ClosePopup => PopupInv'
  BY DEF ClosePopup, OnPopup, PopupInv, PopupOK, ChartFollowsPopup, ChartShown, PopupShown,
         LingeringExplained

LEMMA CloseFormKeeps == PopupInv /\ CloseForm => PopupInv'
<1> SUFFICES ASSUME PopupInv, CloseForm PROVE PopupInv'
  OBVIOUS
<1>1. /\ selectedStock' = None /\ showStockModal' = FALSE
      /\ UNCHANGED <<showModalChart, chart, asked, lingering>>
  BY DEF CloseForm
<1>2. chart = None /\ ~showModalChart
  BY DEF CloseForm, OnPopup, ChartShown, PopupInv, ChartFollowsPopup
<1>3. PopupOK'
  BY <1>1 DEF PopupInv, PopupOK
<1> QED
  BY <1>1, <1>2, <1>3 DEF PopupInv, ChartFollowsPopup, ChartShown, PopupShown, LingeringExplained

LEMMA CloseChartKeeps == PopupInv /\ CloseChart => PopupInv'
  BY DEF CloseChart, PopupInv, PopupOK, ChartFollowsPopup, ChartShown, PopupShown,
         LingeringExplained

LEMMA OrderAcceptedKeeps ==
    ASSUME PopupInv, NEW c \in Commands, OrderAccepted(c)
    PROVE  PopupInv'
  BY DEF OrderAccepted, PopupInv, PopupOK, ChartFollowsPopup, ChartShown, PopupShown,
         LingeringExplained

LEMMA GestureKeeps == PopupInv /\ Gesture => PopupInv'
<1> SUFFICES ASSUME PopupInv, Gesture PROVE PopupInv'
  OBVIOUS
<1>1. chart \in Charts
  BY DEF PopupInv, PopupOK, Gesture, OnChart, ChartShown
<1>2. chart' \in Charts
  <2>1. Drags \subseteq Int /\ Touches \subseteq Int
    BY ViewsAssumption
  <2> QED
    BY <1>1, <2>1, GesturesStayInside DEF Gesture
<1> QED
  BY <1>1, <1>2, ChartIsSomething
     DEF Gesture, PopupInv, PopupOK, ChartFollowsPopup, ChartShown, PopupShown, LingeringExplained

-----------------------------------------------------------------------------
(* Forms and requests                                                      *)

(* Whatever else is done to cmd, the cancellations stay as they are.       *)
LEMMA CmdStep ==
    ASSUME CmdInv, UNCHANGED view, cmd' \in [Commands -> Asked],
           \A c \in Commands : cmd'[c].what = "cancel" =>
               cmd'[c] = cmd[c] \/ cmd'[c].reach = "gone" \/ (cmd'[c].reach = "screen" /\ view = "history")
    PROVE  CmdInv'
  BY DEF CmdInv, CmdOK, CancelsFromHistory

LEMMA IdleTyped == Idle \in Asked /\ Idle.what = "nothing"
  BY DEF Idle, Asked

LEMMA FormGoneKeeps ==
    ASSUME CmdInv, NEW these
    PROVE  /\ FormGone(these) \in [Commands -> Asked]
           /\ \A c \in Commands : FormGone(these)[c].what = "cancel" => FormGone(these)[c] = cmd[c]
<1> SUFFICES ASSUME NEW c \in Commands
             PROVE  /\ FormGone(these)[c] \in Asked
                    /\ FormGone(these)[c].what = "cancel" => FormGone(these)[c] = cmd[c]
  BY DEF FormGone
<1> DEFINE was == cmd[c]
           moved == [was EXCEPT !.reach = "screen"]
<1>1. was \in Asked
  BY DEF CmdInv, CmdOK
<1>2. was.what = "cancel" => was.reach # "form"
  BY DEF CmdInv, CancelsFromHistory
<1>3. FormGone(these)[c] = IF was.what \in these /\ was.reach = "form" THEN moved ELSE was
  BY DEF FormGone
<1>4. moved \in Asked /\ moved.what = was.what
  <2> HIDE DEF was
  <2> QED
    BY ONLY <1>1 DEF Asked
<1> HIDE DEF was, moved
<1> QED
  BY <1>1, <1>2, <1>3, <1>4 DEF was

LEMMA FormGoneFirst ==
    ASSUME CmdInv, UNCHANGED view, NEW these, NEW c \in Commands,
           cmd' = [FormGone(these) EXCEPT ![c] = Idle]
    PROVE  CmdInv'
<1>1. cmd' \in [Commands -> Asked]
  BY FormGoneKeeps, IdleTyped
<1>2. \A d \in Commands : cmd'[d] = FormGone(these)[d] \/ cmd'[d] = Idle
  BY FormGoneKeeps
<1>3. \A d \in Commands : cmd'[d].what = "cancel" => cmd'[d] = cmd[d]
  BY <1>2, FormGoneKeeps, IdleTyped
<1> QED
  BY <1>1, <1>3, CmdStep

LEMMA FormGoneOnly ==
    ASSUME CmdInv, UNCHANGED view, NEW these, cmd' = FormGone(these)
    PROVE  CmdInv'
<1>1. cmd' \in [Commands -> Asked] /\ \A d \in Commands : cmd'[d].what = "cancel" => cmd'[d] = cmd[d]
  BY FormGoneKeeps
<1> QED
  BY <1>1, CmdStep

LEMMA IdleAgain ==
    ASSUME CmdInv, UNCHANGED view, NEW c \in Commands, cmd' = [cmd EXCEPT ![c] = Idle]
    PROVE  CmdInv'
<1>1. cmd' \in [Commands -> Asked]
  BY IdleTyped DEF CmdInv, CmdOK
<1>2. \A d \in Commands : cmd'[d] = cmd[d] \/ cmd'[d] = Idle
  BY DEF CmdInv, CmdOK
<1> QED
  BY <1>1, <1>2, IdleTyped, CmdStep

LEMMA SendKeeps ==
    ASSUME CmdInv, UNCHANGED view, NEW c \in Commands,
           NEW what \in Transfers \cup {"order", "cancel"}, NEW reach \in {"form", "screen"},
           Send(c, what, reach), what = "cancel" => reach = "screen" /\ view = "history"
    PROVE  CmdInv'
<1> DEFINE sent == [what |-> what, reach |-> reach, alert |-> FALSE]
<1>1. sent \in Asked /\ sent.what = what /\ sent.reach = reach
  BY DEF Asked
<1>2. cmd' = [cmd EXCEPT ![c] = sent]
  BY DEF Send
<1> HIDE DEF sent
<1>3. cmd' \in [Commands -> Asked] /\ \A d \in Commands : cmd'[d] = cmd[d] \/ cmd'[d] = sent
  BY <1>1, <1>2 DEF CmdInv, CmdOK
<1> QED
  BY <1>1, <1>3, CmdStep

LEMMA TransferAcceptedKeeps ==
    ASSUME CmdInv, NEW c \in Commands, TransferAccepted(c)
    PROVE  CmdInv'
<1> DEFINE was == cmd[c]
           told == [was EXCEPT !.alert = TRUE]
<1>1. was \in Asked /\ was.what # "cancel"
  BY DEF CmdInv, CmdOK, TransferAccepted, Transfers
<1>2. cmd' = [cmd EXCEPT ![c] = told]
  BY DEF TransferAccepted
<1>3. told \in Asked /\ told.what = was.what
  <2> HIDE DEF was
  <2> QED
    BY ONLY <1>1 DEF Asked
<1> HIDE DEF told
<1>4. cmd' \in [Commands -> Asked] /\ \A d \in Commands : cmd'[d] = cmd[d] \/ cmd'[d] = told
  BY <1>2, <1>3 DEF CmdInv, CmdOK
<1>5. view' = view
  BY DEF TransferAccepted, pane
<1> QED
  BY <1>1, <1>3, <1>4, <1>5, CmdStep

LEMMA LeavingKeeps ==
    ASSUME CmdInv, NEW v \in Tabs, SetActiveView(v)
    PROVE  CmdInv'
<1> SUFFICES ASSUME NEW c \in Commands
             PROVE  /\ cmd'[c] \in Asked
                    /\ cmd'[c].what = "cancel" => cmd'[c].reach = "gone"
  BY DEF SetActiveView, CmdInv, CmdOK, CancelsFromHistory
<1> DEFINE was == cmd[c]
           left == [was EXCEPT !.reach = "gone"]
<1>1. was \in Asked
  BY DEF CmdInv, CmdOK
<1>2. cmd'[c] = IF was.what = "order" THEN was ELSE left
  BY DEF SetActiveView
<1>3. left \in Asked /\ left.what = was.what /\ left.reach = "gone"
  <2> HIDE DEF was
  <2> QED
    BY ONLY <1>1 DEF Asked
<1> HIDE DEF was, left
<1> QED
  BY <1>1, <1>2, <1>3

-----------------------------------------------------------------------------
(* The steps                                                               *)

LEMMA InitEstablishes == Init => ViewsInv
<1> SUFFICES ASSUME Init PROVE ViewsInv
  OBVIOUS
<1>1. view \in Components /\ key \in Keys(view)
  BY DEF Init, Components, Tabs
<1>2. Load(key, "view") \in Loads
  BY <1>1, LoadTyped
<1>3. doubt \in 0..Old
  BY <1>1, Periods DEF Init, Old
<1>4. PaneOK
  BY <1>1, <1>2, <1>3 DEF Init, PaneOK
<1>5. OthersAreDoubted /\ MoreIsOfTheChart
  BY LoadFacts DEF Init, OthersAreDoubted, MoreIsOfTheChart
<1>6. KeptInItsSlot /\ BlankIsDoubted /\ ShownIsRenewed /\ TitleExplained
  BY DEF Init, KeptInItsSlot, BlankIsDoubted, Blank, ShownIsRenewed, TitleExplained
<1>7. PopupInv /\ FormsOK
  BY DEF Init, PopupInv, PopupOK, ChartFollowsPopup, ChartShown, PopupShown, LingeringExplained,
         FormsOK
<1>8. CmdInv
  BY IdleTyped DEF Init, CmdInv, CmdOK, CancelsFromHistory
<1> QED
  BY <1>4, <1>5, <1>6, <1>7, <1>8, InvParts DEF PaneInv

(* Screens and their loads.                                                *)
LEMMA ScreenStep ==
    ASSUME ViewsInv,
           \/ \E v \in Tabs : SetActiveView(v)
           \/ \E k \in AllKeys : ChangeKey(k)
           \/ Poll \/ LoadMore \/ SelectPoint \/ Finish \/ Tick
    PROVE  ViewsInv'
<1>1. PaneInv /\ PopupInv /\ FormsOK /\ CmdInv
  BY InvParts
<1>2. CASE \E v \in Tabs : SetActiveView(v)
  <2>1. PICK v \in Tabs : SetActiveView(v)
    BY <1>2
  <2>2. PaneInv' /\ CmdInv'
    BY <1>1, <2>1, SetActiveViewKeeps, LeavingKeeps
  <2>3. PopupInv'
    BY <1>1, <2>1, PopupFrame DEF SetActiveView
  <2>4. FormsOK'
    BY <1>1, <2>1 DEF FormsOK, SetActiveView
  <2> QED
    BY <2>2, <2>3, <2>4, InvPartsNext
<1>3. CASE \E k \in AllKeys : ChangeKey(k)
  <2>1. PICK k \in AllKeys : ChangeKey(k)
    BY <1>3
  <2>2. PaneInv'
    BY <1>1, <2>1, ChangeKeyKeeps
  <2>3. UNCHANGED <<popup, forms, view, cmd>>
    BY <2>1 DEF ChangeKey
  <2> QED
    BY <1>1, <2>2, <2>3, PopupFrame, FormsFrame, CmdFrame, InvPartsNext
<1>4. CASE Poll
  <2>1. UNCHANGED <<popup, forms, view, cmd>>
    BY <1>4 DEF Poll
  <2> QED
    BY <1>1, <1>4, <2>1, PollKeeps, PopupFrame, FormsFrame, CmdFrame, InvPartsNext
<1>5. CASE LoadMore
  <2>1. UNCHANGED <<popup, forms, view, cmd>>
    BY <1>5 DEF LoadMore, pane
  <2> QED
    BY <1>1, <1>5, <2>1, LoadMoreKeeps, PopupFrame, FormsFrame, CmdFrame, InvPartsNext
<1>6. CASE SelectPoint
  <2>1. UNCHANGED <<pane, content, popup, view, cmd, modal>>
    BY <1>6 DEF SelectPoint, pane
  <2>2. data["all"].of \subseteq Stocks
    <3>1. view = "pricechart" /\ data["all"] # None /\ "all" \in Slots
      BY <1>6 DEF SelectPoint, CandlesShown, Slots
    <3>2. data["all"].of \subseteq Keys(view)
      BY <1>1, <3>1, Facts
    <3> QED
      BY <3>1, <3>2 DEF Keys
  <2>3. FormsOK'
    BY <1>1, <1>6, <2>1, <2>2 DEF FormsOK, SelectPoint
  <2> QED
    BY <1>1, <2>1, <2>3, PaneFrame, PopupFrame, CmdFrame, InvPartsNext
<1>7. CASE \E l \in loads : Fail(l)
  <2>1. PICK l \in loads : Fail(l)
    BY <1>7
  <2>2. PaneInv'
    BY <1>1, <2>1, FailKeeps
  <2>3. UNCHANGED <<popup, forms, view>>
    BY <2>1 DEF Fail, pane
  <2>4. CmdInv'
    BY <1>1, <2>1, <2>3, CmdFrame, FormGoneOnly DEF Fail
  <2> QED
    BY <1>1, <2>2, <2>3, <2>4, PopupFrame, FormsFrame, InvPartsNext
<1>8. CASE \E l \in loads, a \in Nat : a \in 0..l.age /\ Arrive(l, a)
  <2>1. PICK l \in loads, a \in Nat : a \in 0..l.age /\ Arrive(l, a)
    BY <1>8
  <2>2. PaneInv'
    BY <1>1, <2>1, ArriveMoreKeeps, ArriveKeeps
  <2>3. UNCHANGED <<popup, forms, view, cmd>>
    BY <2>1 DEF Arrive, pane
  <2> QED
    BY <1>1, <2>2, <2>3, PopupFrame, FormsFrame, CmdFrame, InvPartsNext
<1>9. CASE Tick
  <2>1. UNCHANGED <<popup, forms, view, cmd>>
    BY <1>9 DEF Tick
  <2> QED
    BY <1>1, <1>9, <2>1, TickKeeps, PopupFrame, FormsFrame, CmdFrame, InvPartsNext
<1>10. Finish => (\E l \in loads : Fail(l)) \/ (\E l \in loads, a \in Nat : a \in 0..l.age /\ Arrive(l, a))
  BY DEF Finish
<1> QED
  BY <1>2, <1>3, <1>4, <1>5, <1>6, <1>7, <1>8, <1>9, <1>10

(* The popup of a stock, its chart, and the order form in it.              *)
LEMMA PopupStep ==
    ASSUME ViewsInv,
           \/ \E s \in Stocks : Select(s)
           \/ ClosePopup \/ CloseForm \/ OpenChart \/ CloseChart \/ Gesture
           \/ \E c \in Commands : OrderAccepted(c)
    PROVE  ViewsInv'
<1>1. PaneInv /\ PopupInv /\ FormsOK /\ CmdInv
  BY InvParts
<1>2. UNCHANGED <<pane, content, forms>>
  BY DEF Select, ClosePopup, CloseForm, OpenChart, CloseChart, Gesture, OrderAccepted
<1>3. view' = view
  BY <1>2 DEF pane
<1>4. PopupInv'
  BY <1>1, SelectKeeps, ClosePopupKeeps, CloseFormKeeps, OpenChartKeeps, CloseChartKeeps,
     GestureKeeps, OrderAcceptedKeeps
<1>5. CmdInv'
  <2>1. CASE UNCHANGED cmd
    BY <1>1, <1>3, <2>1, CmdFrame
  <2>2. CASE cmd' = FormGone({"order"})
    BY <1>1, <1>3, <2>2, FormGoneOnly
  <2>3. CASE \E c \in Commands : cmd' = [FormGone({"order"}) EXCEPT ![c] = Idle]
    BY <1>1, <1>3, <2>3, FormGoneFirst
  <2> QED
    BY <2>1, <2>2, <2>3
       DEF Select, ClosePopup, CloseForm, OpenChart, CloseChart, Gesture, OrderAccepted
<1> QED
  BY <1>1, <1>2, <1>4, <1>5, PaneFrame, FormsFrame, InvPartsNext

(* The modals of the portfolio, and requests that change something.        *)
LEMMA RequestStep ==
    ASSUME ViewsInv,
           \/ \E to \in Transfers \cup {"none", "choose"} : SetModal(to)
           \/ \E c \in Commands :
                 \/ SubmitDeposit(c) \/ SubmitWithdraw(c) \/ TransferAccepted(c) \/ Confirm(c)
                 \/ SubmitOrder(c) \/ Refused(c) \/ SubmitCancel(c) \/ CancelAnswered(c)
    PROVE  ViewsInv'
<1>1. PaneInv /\ PopupInv /\ FormsOK /\ CmdInv
  BY InvParts
<1>2. CASE \E to \in Transfers \cup {"none", "choose"} : SetModal(to)
  <2>1. PICK to \in Transfers \cup {"none", "choose"} : SetModal(to)
    BY <1>2
  <2>2. /\ UNCHANGED <<pane, content, popup, selectedPoint, view>>
        /\ modal' = to /\ cmd' = FormGone(Transfers)
    BY <2>1 DEF SetModal, pane
  <2>3. FormsOK'
    BY <1>1, <2>2 DEF FormsOK
  <2> QED
    BY <1>1, <2>2, <2>3, PaneFrame, PopupFrame, FormGoneOnly, InvPartsNext
<1>3. ASSUME NEW c \in Commands,
             SubmitDeposit(c) \/ SubmitWithdraw(c) \/ TransferAccepted(c) \/ SubmitOrder(c)
                 \/ Refused(c) \/ SubmitCancel(c)
      PROVE  ViewsInv'
  <2>1. UNCHANGED <<pane, content, popup, forms, view>>
    BY <1>3 DEF SubmitDeposit, SubmitWithdraw, SubmitTransfer, TransferAccepted, SubmitOrder,
                Refused, SubmitCancel, pane
  <2>2. CmdInv'
    <3>1. CASE SubmitDeposit(c)
      BY <1>1, <2>1, <3>1, SendKeeps DEF SubmitDeposit, SubmitTransfer, Transfers
    <3>2. CASE SubmitWithdraw(c)
      BY <1>1, <2>1, <3>2, SendKeeps DEF SubmitWithdraw, SubmitTransfer, Transfers
    <3>3. CASE TransferAccepted(c)
      BY <1>1, <3>3, TransferAcceptedKeeps
    <3>4. CASE SubmitOrder(c)
      BY <1>1, <2>1, <3>4, SendKeeps DEF SubmitOrder
    <3>5. CASE Refused(c)
      BY <1>1, <2>1, <3>5, IdleAgain DEF Refused
    <3>6. CASE SubmitCancel(c)
      BY <1>1, <2>1, <3>6, SendKeeps DEF SubmitCancel
    <3> QED
      BY <1>3, <3>1, <3>2, <3>3, <3>4, <3>5, <3>6
  <2> QED
    BY <1>1, <2>1, <2>2, PaneFrame, PopupFrame, FormsFrame, InvPartsNext
<1>4. ASSUME NEW c \in Commands, Confirm(c)
      PROVE  ViewsInv'
  <2>1. UNCHANGED <<popup, view, selectedPoint>>
    BY <1>4 DEF Confirm, pane
  <2>2. FormsOK'
    BY <1>1, <1>4, <2>1 DEF FormsOK, Confirm
  <2>3. CmdInv'
    BY <1>1, <1>4, <2>1, IdleAgain, FormGoneFirst DEF Confirm
  <2> QED
    BY <1>1, <1>4, <2>1, <2>2, <2>3, ConfirmKeeps, PopupFrame, InvPartsNext
<1>5. ASSUME NEW c \in Commands, CancelAnswered(c)
      PROVE  ViewsInv'
  <2>1. UNCHANGED <<popup, forms, view>> /\ cmd' = [cmd EXCEPT ![c] = Idle]
    BY <1>5 DEF CancelAnswered
  <2> QED
    BY <1>1, <1>5, <2>1, CancelAnsweredKeeps, IdleAgain, PopupFrame, FormsFrame, InvPartsNext
<1> QED
  BY <1>2, <1>3, <1>4, <1>5

LEMMA NextKeeps == ViewsInv /\ [Next]_vars => ViewsInv'
<1> SUFFICES ASSUME ViewsInv, [Next]_vars PROVE ViewsInv'
  OBVIOUS
<1>1. CASE Next
  BY <1>1, ScreenStep, PopupStep, RequestStep DEF Next
<1>2. CASE UNCHANGED vars
  <2>1. UNCHANGED <<pane, content, popup, forms, cmd>>
    BY <1>2 DEF vars
  <2>2. view' = view
    BY <2>1 DEF pane
  <2> QED
    BY <2>1, <2>2, InvParts, PaneFrame, PopupFrame, FormsFrame, CmdFrame, InvPartsNext
<1> QED
  BY <1>1, <1>2

-----------------------------------------------------------------------------
(* Theorems                                                                *)

(* The invariant: loads for anything but what the screen is titled with    *)
(* end before the doubt does, and what is shown is always about to be      *)
(* renewed by a load that ends in time.                                    *)
THEOREM Invariance == Spec => []ViewsInv
<1>1. Init => ViewsInv
  BY InitEstablishes
<1>2. ViewsInv /\ [Next]_vars => ViewsInv'
  BY NextKeeps
<1> QED
  BY <1>1, <1>2, PTL DEF Spec

(* Every variable keeps its type; above all, no load outlives its timeout  *)
(* and the chart never leaves Charts (request, ModalChart).                *)
THEOREM TypeCorrect == Spec => []TypeOK
<1>1. ViewsInv => TypeOK
  BY DEF ViewsInv
<1> QED
  BY <1>1, Invariance, PTL

(* However its loads overtake each other, what a screen shows without an   *)
(* error is what its title says, unless the load for the title is still on *)
(* its way or an answer for the stock before came after it.  With an       *)
(* interval neither lasts: when the loads from before the change have      *)
(* ended, the title fits and the age is at most twice the timeout and one  *)
(* period (loadStocks, loadPortfolio, loadData, loadOrderBook,             *)
(* loadInitialData).                                                       *)
THEOREM ShownIsRecentHolds == Spec => []ShownIsRecent
<1>1. ViewsInv => ShownIsRecent
  <2> SUFFICES ASSUME PaneInv, Shown, ~error, data[Slot(key)] # None
               PROVE  /\ TitleFits \/ OwnAwaited \/ overtaken
                      /\ Polls(view) /\ doubt = 0 =>
                            TitleFits /\ data[Slot(key)].age <= Bound(view)
    BY InvParts DEF ShownIsRecent
  <2>1. TitleFits \/ OwnAwaited \/ overtaken
    BY DEF PaneInv, TitleExplained, Shown
  <2>2. ASSUME Polls(view), doubt = 0
        PROVE  TitleFits /\ data[Slot(key)].age <= Bound(view)
    <3>1. /\ Duration[view] \in Nat \ {0}
          /\ Bound(view) = 2 * Duration[view] + 1
          /\ data[Slot(key)].age \in Nat /\ polled \in BOOLEAN
          /\ \A l \in loads : l.age \in 0..Duration[view]
      BY Facts, Periods
    <3>2. ~Excused
      BY <2>2, <3>1 DEF Excused
    <3>3. TitleFits /\ Renewed(data[Slot(key)].age)
      BY <2>2, <3>2 DEF PaneInv, ShownIsRenewed, Shown
    <3>4. Renewed(data[Slot(key)].age) => data[Slot(key)].age <= Bound(view)
      BY <3>1 DEF Renewed
    <3> QED
      BY <3>3, <3>4
  <2> QED
    BY <2>1, <2>2
<1> QED
  BY <1>1, Invariance, PTL

(* No screen looks empty before its first load has come, except a tab of   *)
(* the history that was chosen with other loads on their way (loadData).   *)
THEOREM NoFalseEmptyHolds == Spec => []NoFalseEmpty
<1>1. ViewsInv => NoFalseEmpty
  <2> SUFFICES ASSUME PaneInv, Blank PROVE view = "history" /\ doubt > 0
    BY InvParts DEF NoFalseEmpty
  <2>1. doubt \in Nat /\ polled \in BOOLEAN
    BY Facts
  <2> QED
    BY <2>1 DEF PaneInv, BlankIsDoubted
<1> QED
  BY <1>1, Invariance, PTL

(* The chart opens for a newly selected stock without being asked for only *)
(* when an order was accepted with the chart of its stock open             *)
(* (handleStockSelect, handleOrderCreated).                                *)
THEOREM ChartWhenAskedHolds == Spec => []ChartWhenAsked
<1>1. ViewsInv => ChartWhenAsked
  BY DEF ViewsInv, ChartFollowsPopup, LingeringExplained, ChartWhenAsked
<1> QED
  BY <1>1, Invariance, PTL

-----------------------------------------------------------------------------
(* The figures of a portfolio, for every price, quantity and balance       *)

(* A rounded figure is within half a cent of the exact one.                *)
LEMMA FixedRounds ==
    ASSUME NEW d \in Int
    PROVE  Fixed(d) \in Int /\ 100 * Fixed(d) - d \in -50..50
<1>1. CASE d >= 0
  BY <1>1, SMTT(40) DEF Fixed
<1>2. CASE d < 0
  BY <1>2, SMTT(40) DEF Fixed
<1> QED
  BY <1>1, <1>2

(* So a sum of two figures is within a cent of their rounded sum.          *)
LEMMA FixedSum ==
    ASSUME NEW a \in Int, NEW b \in Int
    PROVE  Fixed(a + b) - (Fixed(a) + Fixed(b)) \in -1..1
<1>1. Fixed(a) \in Int /\ Fixed(b) \in Int /\ Fixed(a + b) \in Int
  BY FixedRounds
<1>2. /\ 100 * Fixed(a) - a \in -50..50
      /\ 100 * Fixed(b) - b \in -50..50
      /\ 100 * Fixed(a + b) - (a + b) \in -50..50
  BY FixedRounds
<1> QED
  BY <1>1, <1>2

LEMMA FixedSign ==
    ASSUME NEW d \in Int
    PROVE  (d >= 0 => Fixed(d) >= 0) /\ (d <= 0 => Fixed(d) <= 0)
BY SMTT(40) DEF Fixed

(* A position as the table holds it: the quantity is never negative, and   *)
(* neither is a price.                                                     *)
StoredPosition == [symbol : Stocks, quantity : Nat, avgPrice : Nat, realizedPnl : Int]

(* The figures of one position agree to a cent although each is rounded on *)
(* its own: the total result is the sum of its parts, the market value is  *)
(* what was paid plus what was gained, and without a price nothing is      *)
(* gained (buildPositionResponse).                                         *)
THEOREM FiguresAgreeToACent ==
    ASSUME NEW p \in StoredPosition, NEW price \in Nat \cup {None}, None \notin Nat
    PROVE  LET v == Valued(p, price) IN
           /\ v.totalPnl - (v.realizedPnl + v.unrealizedPnl) \in -1..1
           /\ v.marketValue - (Fixed(p.avgPrice * p.quantity) + v.unrealizedPnl) \in -1..1
           /\ v.marketValue >= 0
           /\ price = None => v.unrealizedPnl = 0 /\ v.totalPnl = v.realizedPnl
<1> DEFINE current == IF price = None THEN p.avgPrice ELSE price
           gain == (current - p.avgPrice) * p.quantity
           paid == p.avgPrice * p.quantity
           v == Valued(p, price)
<1>1. /\ p.quantity \in Nat /\ p.avgPrice \in Nat /\ p.realizedPnl \in Int /\ current \in Nat
  BY DEF StoredPosition
<1>2. ASSUME NEW q \in Nat, NEW a \in Nat, NEW c \in Nat
      PROVE  /\ (c - a) * q \in Int /\ a * q \in Nat /\ c * q \in Nat
             /\ c * q = a * q + (c - a) * q
             /\ c = a => (c - a) * q = 0
  OBVIOUS
<1>3. /\ gain \in Int /\ paid \in Nat /\ current * p.quantity \in Nat
      /\ current * p.quantity = paid + gain
      /\ price = None => gain = 0
  BY <1>1, <1>2
<1>4. /\ v.totalPnl = Fixed(p.realizedPnl + gain) /\ v.realizedPnl = Fixed(p.realizedPnl)
      /\ v.unrealizedPnl = Fixed(gain) /\ v.marketValue = Fixed(current * p.quantity)
  BY DEF Valued
<1> HIDE DEF current, gain, paid, v
<1>5. v.totalPnl - (v.realizedPnl + v.unrealizedPnl) \in -1..1
  BY <1>1, <1>3, <1>4, FixedSum
<1>6. v.marketValue - (Fixed(paid) + v.unrealizedPnl) \in -1..1
  BY <1>3, <1>4, FixedSum
<1>7. v.marketValue >= 0
  BY <1>3, <1>4, FixedSign
<1>8. price = None => v.unrealizedPnl = 0 /\ v.totalPnl = v.realizedPnl
  <2>1. Fixed(0) = 0
    BY SMTT(40) DEF Fixed
  <2> QED
    BY <1>1, <1>3, <1>4, <2>1
<1> QED
  BY <1>5, <1>6, <1>7, <1>8 DEF v, paid

(* The equity of a portfolio is its cash plus its market value, as the     *)
(* answer shows both: to the cent when the cash is not overdrawn, and      *)
(* within a cent when it is (GetPortfolio rounds the cash on its own and   *)
(* once more in the sum).                                                  *)
THEOREM EquityAddsUp ==
    ASSUME NEW cash \in Int, NEW rows, PortfolioAnswer(cash, rows).totalMarketValue \in Nat
    PROVE  LET a == PortfolioAnswer(cash, rows)
               excess == a.totalEquity - (a.cashBalance + a.totalMarketValue)
           IN  excess \in -1..1 /\ (cash >= 0 => excess = 0)
<1> DEFINE a == PortfolioAnswer(cash, rows)
           value == a.totalMarketValue
<1>1. /\ a.cashBalance = Fixed(cash) /\ a.totalEquity = Fixed(cash + 100 * value)
      /\ value \in Nat
  BY DEF PortfolioAnswer
<1> HIDE DEF a, value
<1>2. Fixed(100 * value) = value
  BY <1>1, SMTT(40) DEF Fixed
<1>3. a.totalEquity - (a.cashBalance + value) \in -1..1
  BY <1>1, <1>2, FixedSum
<1>4. cash >= 0 => a.totalEquity = a.cashBalance + value
  <2>1. ASSUME NEW x \in Nat, NEW y \in Nat PROVE (x + 100 * y + 50) \div 100 = (x + 50) \div 100 + y
    BY <2>1, SMTT(40)
  <2> QED
    BY <1>1, <2>1 DEF Fixed
<1> QED
  BY <1>1, <1>3, <1>4, FixedRounds DEF value, a

=============================================================================

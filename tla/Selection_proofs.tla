-------------------------- MODULE Selection_proofs --------------------------
(***************************************************************************)
(* Proofs about Selection, for any columns, values, objects and clicks.    *)
(***************************************************************************)
EXTENDS Selection, TLAPS

\* TypeOK in two parts: what holds the selection, and the clicks.
HoldersOK ==
  /\ content \in [Objects -> Contents]
  /\ made \in Objects
  /\ home \in 1..made /\ tabs \in 1..made /\ charts \in 1..made
  /\ tab \in {"explore", "filter"}
  /\ render \in Nat
  /\ panel \in Panels
  /\ drawn \in Contents /\ alert \in BOOLEAN
  /\ held \in BOOLEAN /\ empty \in BOOLEAN
  /\ chosen \subseteq Columns \X Values
  /\ late \in BOOLEAN
ClicksOK ==
  /\ timers \subseteq Timers
  /\ clicks \in 0..MaxClicks /\ latest \in 0..MaxClicks

\* An object that is not made yet is empty.
Unmade == \A o \in Objects : o > made => content[o] = Nothing

\* A click waits with an object that was made. The last one can be cleared by
\* a second click until the charts are rendered again.
Waiting(t) ==
  /\ t.object <= made /\ t.id <= clicks /\ t.render <= render
  /\ t.id = clicks => latest = clicks \/ t.render < render
  /\ t.doubled => t.render < render
ClicksInv == \A t \in timers : Waiting(t)

\* A draw without a line, of what is not drawn as it should be, has no results.
Redrawable ==
  ~empty => drawn = content[home] \/ held \/ ~Inside(drawn, content[home])
MapInv == MapFollowsSelection /\ Redrawable

IInv ==
  /\ HoldersOK /\ ClicksOK /\ Unmade /\ ClicksInv
  /\ HoldersAgree /\ MapInv

LEMMA TypeParts == TypeOK <=> HoldersOK /\ ClicksOK
BY Zenon DEF TypeOK, HoldersOK, ClicksOK

-----------------------------------------------------------------------------
(* The operators.                                                          *)

LEMMA NothingIs == Nothing \in Contents /\ Pairs(Nothing) = {}
BY DEF Nothing, Contents, Pairs

LEMMA NewPanelIs == ASSUME NEW s \in Contents PROVE NewPanel(s) \in Panels
<1>1. Keys(s) \in SUBSET Columns
  BY DEF Keys
<1>2. Nothing \in Contents
  BY NothingIs
<1> QED BY <1>1, <1>2 DEF NewPanel, Panels

LEMMA StaleIs == ASSUME panel \in Panels PROVE Stale \in Panels
BY DEF Stale, Panels

\* What a Put may add to the selection, and where.
LEMMA PutIs ==
  ASSUME content \in [Objects -> Contents], NEW object \in Objects,
         NEW column \in Columns, NEW vals \in SUBSET Values
  PROVE  LET objects == Put(object, column, vals)
         IN /\ objects \in [Objects -> Contents]
            /\ \A o \in Objects : o # object => objects[o] = content[o]
            /\ Pairs(objects[object]) \subseteq
                 Pairs(content[object]) \union ({column} \X vals)
<1> DEFINE objects == Put(object, column, vals)
<1>1. content[object] \in Contents
  OBVIOUS
<1>2. [content[object] EXCEPT ![column] = vals] \in Contents
  BY <1>1 DEF Contents
<1>3. objects = [content EXCEPT ![object] = [content[object] EXCEPT ![column] = vals]]
  BY DEF Put
<1>4. objects \in [Objects -> Contents]
  BY <1>2, <1>3
<1>5. objects[object] = [content[object] EXCEPT ![column] = vals]
  BY <1>3
<1>6. \A c \in Columns : objects[object][c] = IF c = column THEN vals ELSE content[object][c]
  BY <1>1, <1>5 DEF Contents
<1>7. Pairs(objects[object]) \subseteq Pairs(content[object]) \union ({column} \X vals)
  BY <1>6 DEF Pairs
<1> QED BY <1>3, <1>4, <1>7

LEMMA NarrowedIs ==
  ASSUME NEW a \in Contents, NEW b \in Contents
  PROVE  /\ Narrowed(a, b) \in Contents
         /\ Compatible(a, b) => Inside(Narrowed(a, b), b)
         /\ Inside(b, b)
<1>1. \A c \in Columns : a[c] \in SUBSET Values /\ b[c] \in SUBSET Values
  BY DEF Contents
<1>2. \A c \in Columns : Narrowed(a, b)[c] =
        IF a[c] = {} THEN b[c] ELSE IF b[c] = {} THEN a[c] ELSE a[c] \cap b[c]
  BY DEF Narrowed
<1>3. Narrowed(a, b) \in Contents
  <2>1. \A c \in Columns :
          (IF a[c] = {} THEN b[c] ELSE IF b[c] = {} THEN a[c] ELSE a[c] \cap b[c])
             \in SUBSET Values
    BY <1>1
  <2> QED BY <2>1 DEF Narrowed, Contents
<1>4. ASSUME Compatible(a, b) PROVE Inside(Narrowed(a, b), b)
  BY <1>2, <1>4 DEF Compatible, Inside
<1>5. Inside(b, b)
  BY DEF Inside
<1> QED BY <1>3, <1>4, <1>5

\* What the map is filtered by, after a draw that has results.
LEMMA FiltersIs ==
  ASSUME drawn \in Contents, NEW new \in Contents, NEW holding \in BOOLEAN,
         Filters(new, holding)
  PROVE  /\ drawn' \in Contents /\ alert' = FALSE /\ Inside(drawn', new)
         /\ ~holding => drawn' = new
<1>1. /\ holding => Compatible(drawn, new)
      /\ drawn' = IF holding THEN Narrowed(drawn, new) ELSE new
      /\ alert' = FALSE
  BY DEF Filters
<1> QED BY <1>1, NarrowedIs

\* A draw of the object that Home then holds leaves a map that follows it.
LEMMA MapDrawn ==
  ASSUME Inside(drawn', content[home]'), ~held' => drawn' = content[home]'
  PROVE  MapInv'
BY DEF MapInv, MapFollowsSelection, Redrawable, Inside

\* So does a draw that has none, as the sidebar says so.
LEMMA MapNotDrawn ==
  ASSUME ~empty' => alert' /\ ~Inside(drawn', content[home]')
  PROVE  MapInv'
BY DEF MapInv, MapFollowsSelection, Redrawable, Inside

LEMMA MapKept ==
  ASSUME MapInv, UNCHANGED map, content[home]' = content[home]
  PROVE  MapInv'
BY DEF MapInv, MapFollowsSelection, Redrawable, Inside, map

-----------------------------------------------------------------------------
(* A selection, of any object that was made.                               *)

\* The charts render, and the clicks forget their timer, or they do not.
Rendered ==
  \/ render' = render /\ latest' = latest
  \/ render' = render + 1 /\ latest' = 0

LEMMA SelectKeeps ==
  ASSUME IInv, NEW objects \in [Objects -> Contents], NEW object \in 1..made,
         NEW multi \in BOOLEAN, NEW kept \in Panels,
         Select(objects, object, multi, kept),
         \A o \in Objects : o # object => objects[o] = content[o]
  PROVE  /\ content' = objects /\ made' = made /\ tab' = tab
         /\ held' = held /\ empty' = empty
         /\ home' \in {home, object} /\ (empty => home' = home)
         /\ tabs' \in {tabs, home'} /\ charts' \in {charts, home'}
         /\ render' \in Nat /\ Rendered
         /\ panel' \in Panels /\ drawn' \in Contents /\ alert' \in BOOLEAN
         /\ MapInv'
<1> DEFINE to == IF multi THEN object ELSE home
<1>1. /\ made \in Nat /\ 1..made \subseteq Objects
      /\ home \in 1..made /\ render \in Nat /\ drawn \in Contents
      /\ alert \in BOOLEAN /\ held \in BOOLEAN /\ empty \in BOOLEAN
  BY SelectionAssumption DEF IInv, HoldersOK, Objects
<1>2. to \in {home, object} /\ objects[to] \in Contents /\ home \in Objects
  BY <1>1
<1>3. /\ content' = objects /\ made' = made /\ tab' = tab
      /\ held' = held /\ empty' = empty
  BY DEF Select
<1>4. \/ /\ Filters(objects[to], held) /\ home' = to
         /\ Sleep(kept) \/ Rerender(objects, to)
      \/ /\ FiltersNone(objects[to]) /\ Sleep(kept)
         /\ home' = home
  BY DEF Select, Adopted
<1>5. /\ home' \in {home, object} /\ (empty => home' = home)
      /\ drawn' \in Contents /\ alert' \in BOOLEAN
      /\ MapInv'
  <2>1. CASE /\ Filters(objects[to], held) /\ home' = to
    <3> DEFINE new == objects[to]
    <3>1. new \in Contents /\ Filters(new, held)
      BY <1>2, <2>1
    <3>2. content[home]' = new
      BY <1>3, <2>1
    <3> HIDE DEF new
    <3>3. drawn' \in Contents /\ alert' = FALSE /\ Inside(drawn', new)
          /\ (~held => drawn' = new)
      BY <1>1, <3>1, FiltersIs
    <3>4. MapInv'
      BY <1>3, <3>2, <3>3, MapDrawn
    <3>5. ~empty
      BY <3>1 DEF Filters
    <3> QED BY <1>2, <2>1, <3>3, <3>4, <3>5
  <2>2. CASE /\ FiltersNone(objects[to]) /\ home' = home
    <3>1. /\ empty \/ ~Inside(drawn, objects[to])
          /\ alert' = TRUE \/ (empty /\ alert' = alert)
          /\ drawn' = drawn
      BY <2>2 DEF FiltersNone
    <3>2. CASE object = home \/ ~multi
      <4>1. content[home]' = objects[to]
        BY <1>3, <2>2, <3>2
      <4>2. ~empty' => alert' /\ ~Inside(drawn', content[home]')
        BY <1>3, <3>1, <4>1
      <4>3. MapInv'
        BY <4>2, MapNotDrawn
      <4> QED BY <1>1, <2>2, <3>1, <4>3
    <3>3. CASE object # home
      <4>1. content[home]' = content[home]
        BY <1>2, <1>3, <2>2, <3>3
      <4>2. MapInv
        BY DEF IInv
      <4>3. MapInv'
        BY <1>3, <3>1, <4>1, <4>2 DEF MapInv, MapFollowsSelection, Redrawable, Inside
      <4> QED BY <1>1, <2>2, <3>1, <4>3
    <3> QED BY <3>2, <3>3
  <2> QED BY <1>4, <2>1, <2>2
<1>7. CASE Sleep(kept)
  <2>1. panel' = kept /\ tabs' = tabs /\ charts' = charts /\ render' = render
        /\ latest' = latest
    BY <1>7 DEF Sleep, holders
  <2> QED BY <1>1, <1>3, <1>5, <2>1 DEF Rendered
<1>8. CASE Rerender(objects, to) /\ home' = to
  <2>1. /\ panel' = NewPanel(objects[to]) /\ tabs' = to /\ charts' = to
        /\ render' = render + 1 /\ latest' = 0
    BY <1>8 DEF Rerender
  <2>2. panel' \in Panels
    BY <1>2, <2>1, NewPanelIs
  <2> QED BY <1>1, <1>3, <1>5, <1>8, <2>1, <2>2 DEF Rendered
<1> QED BY <1>4, <1>7, <1>8

\* The clicks that wait, when none is added.
LEMMA ClicksKept ==
  ASSUME IInv, Rendered, timers' \subseteq timers, clicks' = clicks,
         made' \in Nat, made' >= made
  PROVE  ClicksOK' /\ ClicksInv'
<1>1. ClicksOK'
  BY SelectionAssumption DEF IInv, ClicksOK, Rendered
<1>2. ASSUME NEW t \in timers' PROVE Waiting(t)'
  <2>1. t \in timers /\ t \in Timers /\ Waiting(t)
    BY DEF IInv, ClicksOK, ClicksInv
  <2>2. t.object \in Nat /\ t.id \in 1..MaxClicks /\ t.render \in Nat
    BY <2>1, SelectionAssumption DEF Timers, Objects
  <2>3. clicks \in Nat /\ made \in Nat /\ render \in Nat
    BY SelectionAssumption DEF IInv, ClicksOK, HoldersOK, Objects
  <2> QED BY <2>1, <2>2, <2>3 DEF Waiting, Rendered
<1> QED BY <1>1, <1>2 DEF ClicksInv

\* A step that selects from an object, of which it may add what was chosen.
LEMMA StepKeeps ==
  ASSUME IInv, NEW objects \in [Objects -> Contents], NEW object \in 1..made,
         NEW multi \in BOOLEAN, NEW kept \in Panels,
         Select(objects, object, multi, kept),
         \A o \in Objects : o # object => objects[o] = content[o],
         chosen \subseteq chosen', chosen' \subseteq Columns \X Values,
         Pairs(objects[object]) \subseteq Pairs(content[object]) \union chosen',
         late' \in BOOLEAN, ~late' => ~late /\ (object = home \/ empty),
         timers' \subseteq timers, clicks' = clicks
  PROVE  IInv'
<1>1. /\ content' = objects /\ made' = made /\ tab' = tab
      /\ held' = held /\ empty' = empty
      /\ home' \in {home, object} /\ (empty => home' = home)
      /\ tabs' \in {tabs, home'} /\ charts' \in {charts, home'}
      /\ render' \in Nat /\ Rendered
      /\ panel' \in Panels /\ drawn' \in Contents /\ alert' \in BOOLEAN
      /\ MapInv'
  BY SelectKeeps
<1>2. HoldersOK
  BY DEF IInv
<1>3. made \in Objects /\ made \in Nat
  BY <1>2, SelectionAssumption DEF HoldersOK, Objects
<1>5. HoldersOK'
  BY <1>1, <1>2 DEF HoldersOK
<1>6. ClicksOK' /\ ClicksInv'
  BY <1>1, <1>3, ClicksKept
<1>7. Unmade'
  BY <1>1, <1>3 DEF IInv, Unmade, Objects
<1>8. HoldersAgree'
  <2> SUFFICES ASSUME ~late'
               PROVE  /\ ~empty' => tabs' = home' /\ charts' = home'
                      /\ Pairs(content[home])' \subseteq chosen'
    BY DEF HoldersAgree
  <2>1. ~late /\ (object = home \/ empty) /\ home \in Objects
    BY <1>2, <1>3, SelectionAssumption DEF HoldersOK, Objects
  <2>2. /\ ~empty => tabs = home /\ charts = home
        /\ Pairs(content[home]) \subseteq chosen
    BY <2>1 DEF IInv, HoldersAgree
  <2>3. home' = home
    BY <1>1, <2>1
  <2>4. Pairs(objects[home]) \subseteq chosen'
    BY <2>1, <2>2
  <2>5. Pairs(content[home])' = Pairs(objects[home])
    BY <1>1, <2>3 DEF Pairs
  <2> QED BY <1>1, <2>2, <2>3, <2>4, <2>5
<1> QED BY <1>1, <1>5, <1>6, <1>7, <1>8 DEF IInv

-----------------------------------------------------------------------------
(* The actions.                                                            *)

\* FilterOrReset, of a chart or of a timer.
LEMMA FilterOrResetKeeps ==
  ASSUME IInv, NEW object \in 1..made, NEW column \in Columns,
         NEW vals \in SUBSET Values, FilterOrReset(object, column, vals),
         late' \in BOOLEAN, ~late' => ~late /\ (object = home \/ empty),
         timers' \subseteq timers, clicks' = clicks
  PROVE  IInv'
<1>1. /\ content \in [Objects -> Contents] /\ chosen \subseteq Columns \X Values
      /\ panel \in Panels /\ object \in Objects
  BY SelectionAssumption DEF IInv, HoldersOK, Objects
<1>2. Stale \in Panels
  BY <1>1, StaleIs
<1>3. CASE content[object][column] # {}
  <2> DEFINE objects == Put(object, column, {})
  <2>1. Select(objects, object, FALSE, Stale) /\ chosen' = chosen
    BY <1>3 DEF FilterOrReset
  <2>2. /\ objects \in [Objects -> Contents]
        /\ \A o \in Objects : o # object => objects[o] = content[o]
        /\ Pairs(objects[object]) \subseteq Pairs(content[object]) \union ({column} \X {})
    BY <1>1, PutIs
  <2>3. Pairs(objects[object]) \subseteq Pairs(content[object]) \union chosen'
    BY <2>2
  <2> HIDE DEF objects
  <2> QED BY <1>1, <1>2, <2>1, <2>2, <2>3, StepKeeps
<1>4. CASE content[object][column] = {}
  <2> DEFINE objects == Put(object, column, vals)
  <2>1. Select(objects, object, TRUE, Stale) /\ chosen' = chosen \union ({column} \X vals)
    BY <1>4 DEF FilterOrReset
  <2>2. /\ objects \in [Objects -> Contents]
        /\ \A o \in Objects : o # object => objects[o] = content[o]
        /\ Pairs(objects[object]) \subseteq Pairs(content[object]) \union ({column} \X vals)
    BY <1>1, PutIs
  <2>3. Pairs(objects[object]) \subseteq Pairs(content[object]) \union chosen'
    BY <2>1, <2>2
  <2>4. chosen' \subseteq Columns \X Values /\ chosen \subseteq chosen'
    BY <1>1, <2>1
  <2> HIDE DEF objects
  <2> QED BY <1>2, <2>1, <2>2, <2>3, <2>4, StepKeeps
<1> QED BY <1>3, <1>4

\* The object of the tabs or of the charts is that of Home, if no click was
\* late and something is drawn.
LEMMA HeldIsHome ==
  ASSUME IInv, NEW object \in {tabs, charts}, late' = late
  PROVE  /\ object \in 1..made /\ late' \in BOOLEAN
         /\ ~late' => ~late /\ (object = home \/ empty)
<1>1. late \in BOOLEAN /\ object \in 1..made
  BY DEF IInv, HoldersOK
<1>2. ~late => object = home \/ empty
  BY DEF IInv, HoldersAgree
<1> QED BY <1>1, <1>2

\* SelectOrNothing, of an object in which a column was put.
LEMMA PutKeeps ==
  ASSUME IInv, NEW object \in {tabs, charts}, NEW column \in Columns,
         NEW vals \in SUBSET Values, NEW kept \in Panels,
         SelectOrNothing(Put(object, column, vals), object, kept),
         chosen \subseteq chosen', chosen' \subseteq Columns \X Values,
         {column} \X vals \subseteq chosen',
         UNCHANGED <<timers, clicks, late>>
  PROVE  IInv'
<1> DEFINE objects == Put(object, column, vals)
<1>1. /\ object \in 1..made /\ late' \in BOOLEAN
      /\ ~late' => ~late /\ (object = home \/ empty)
  BY HeldIsHome
<1>2. content \in [Objects -> Contents] /\ object \in Objects
  BY <1>1, SelectionAssumption DEF IInv, HoldersOK, Objects
<1>3. /\ objects \in [Objects -> Contents]
      /\ \A o \in Objects : o # object => objects[o] = content[o]
      /\ Pairs(objects[object]) \subseteq Pairs(content[object]) \union ({column} \X vals)
  BY <1>2, PutIs
<1>4. Select(objects, object, objects[object] # Nothing, kept)
  BY DEF SelectOrNothing
<1>5. Pairs(objects[object]) \subseteq Pairs(content[object]) \union chosen'
  BY <1>3
<1> HIDE DEF objects
<1> QED BY <1>1, <1>3, <1>4, <1>5, StepKeeps

LEMMA ClickKeeps ==
  ASSUME IInv, NEW column \in Columns, NEW value \in Values, Click(column, value)
  PROVE  IInv'
<1>1. /\ made \in Nat /\ render \in Nat /\ clicks \in Nat /\ MaxClicks \in Nat
      /\ charts \in 1..made /\ made <= MaxObjects
      /\ latest \in 0..MaxClicks /\ clicks < MaxClicks /\ timers \subseteq Timers
  BY SelectionAssumption DEF IInv, HoldersOK, ClicksOK, Objects, Click
<1> DEFINE new == [id |-> clicks', object |-> charts, column |-> column,
                   values |-> {value}, render |-> render, doubled |-> FALSE]
<1>2. /\ clicks' = clicks + 1 /\ latest' = clicks + 1
      /\ timers' = timers \union {new}
      /\ UNCHANGED <<content, made, home, drawn, alert, held, empty, tab, tabs, charts, render,
                     panel, chosen, late>>
  BY DEF Click, map
<1>3. new \in Timers
  <2>1. clicks' \in 1..MaxClicks /\ charts \in Objects
    BY <1>1, <1>2, SelectionAssumption DEF Objects
  <2> QED BY <1>1, <2>1 DEF Timers
<1>4. ClicksOK'
  <2>1. timers' \subseteq Timers
    BY <1>1, <1>2, <1>3
  <2>2. clicks' \in 0..MaxClicks /\ latest' \in 0..MaxClicks
    BY <1>1, <1>2
  <2> QED BY <2>1, <2>2 DEF ClicksOK
<1>5. ClicksInv'
  <2> SUFFICES ASSUME NEW t \in timers' PROVE Waiting(t)'
    BY DEF ClicksInv
  <2>1. CASE t = new
    BY <1>1, <1>2, <2>1 DEF Waiting
  <2>2. CASE t \in timers
    <3>1. t \in Timers /\ Waiting(t)
      BY <1>1, <2>2 DEF IInv, ClicksInv
    <3>2. t.id \in Nat
      BY <1>1, <3>1 DEF Timers
    <3> QED BY <1>1, <1>2, <3>1, <3>2 DEF Waiting
  <2> QED BY <1>2, <2>1, <2>2
<1>6. HoldersOK' /\ Unmade' /\ HoldersAgree' /\ MapInv'
  <2>1. HoldersOK' /\ Unmade'
    BY <1>2 DEF IInv, HoldersOK, Unmade
  <2>2. HoldersAgree' /\ MapInv'
    BY <1>2 DEF IInv, HoldersAgree, MapInv, MapFollowsSelection,
       Redrawable, Inside, Pairs
  <2> QED BY <2>1, <2>2
<1> QED BY <1>4, <1>5, <1>6 DEF IInv

LEMMA SecondClickKeeps == ASSUME IInv, SecondClick PROVE IInv'
<1> PICK t \in timers :
      /\ t.id = clicks /\ ~t.doubled
      /\ timers' = (timers \ {t}) \union
           (IF t.id = latest THEN {} ELSE {[t EXCEPT !.doubled = TRUE]})
  BY DEF SecondClick
<1> DEFINE doubled == [t EXCEPT !.doubled = TRUE]
<1>1. UNCHANGED <<content, made, home, drawn, alert, held, empty, tab, tabs, charts, render,
                  latest, panel, chosen, late, clicks>>
  BY DEF SecondClick, map, holders
<1>2. timers \subseteq Timers /\ t \in Timers /\ Waiting(t)
  BY DEF IInv, ClicksOK, ClicksInv
<1>3. /\ doubled \in Timers /\ doubled.id = t.id /\ doubled.object = t.object
      /\ doubled.render = t.render /\ doubled.doubled
  BY <1>2 DEF Timers
<1>4. ClicksOK'
  BY <1>1, <1>2, <1>3 DEF IInv, ClicksOK
<1>5. ClicksInv'
  <2> SUFFICES ASSUME NEW u \in timers' PROVE Waiting(u)'
    BY DEF ClicksInv
  <2>1. CASE u = doubled /\ t.id # latest
    <3>1. t.render < render
      BY <1>2, <2>1 DEF Waiting
    <3> QED BY <1>1, <1>2, <1>3, <2>1, <3>1 DEF Waiting
  <2>2. CASE u \in timers
    BY <1>1, <2>2 DEF IInv, ClicksInv, Waiting
  <2> QED BY <2>1, <2>2
<1>6. HoldersOK' /\ Unmade'
  BY <1>1 DEF IInv, HoldersOK, Unmade
<1>7. HoldersAgree' /\ MapInv'
  BY <1>1 DEF IInv, HoldersAgree, MapInv, MapFollowsSelection,
       Redrawable, Inside, Pairs
<1> QED BY <1>4, <1>5, <1>6, <1>7 DEF IInv

LEMMA TimerKeeps == ASSUME IInv, NEW t \in timers, TimerFires(t) PROVE IInv'
<1>1. /\ timers' = timers \ {t}
      /\ FilterOrReset(t.object, t.column, t.values)
      /\ late' = (late \/ t.object # home) /\ clicks' = clicks
  BY DEF TimerFires
<1>2. t \in Timers /\ Waiting(t)
  BY DEF IInv, ClicksOK, ClicksInv
<1>3. t.column \in Columns /\ t.values \in SUBSET Values /\ t.object \in Objects
      /\ t.object <= made
  BY <1>2 DEF Timers, Waiting
<1>4. t.object \in 1..made /\ late \in BOOLEAN
  BY <1>3, SelectionAssumption DEF IInv, HoldersOK, Objects
<1>5. late' \in BOOLEAN /\ (~late' => ~late /\ (t.object = home \/ empty))
  BY <1>1, <1>4
<1> QED BY <1>1, <1>3, <1>4, <1>5, FilterOrResetKeeps

LEMMA LassoKeeps ==
  ASSUME IInv, NEW column \in Columns, NEW vals \in SUBSET Values, Lasso(column, vals)
  PROVE  IInv'
<1>1. /\ FilterOrReset(charts, column, vals)
      /\ late' = late /\ timers' = timers /\ clicks' = clicks
  BY DEF Lasso
<1>2. /\ charts \in 1..made /\ late' \in BOOLEAN
      /\ ~late' => ~late /\ (charts = home \/ empty)
  BY <1>1, HeldIsHome
<1> QED BY <1>1, <1>2, FilterOrResetKeeps

LEMMA SeverityClickKeeps ==
  ASSUME IInv, NEW value \in Values, SeverityClick(value)
  PROVE  IInv'
<1> DEFINE has == value \in content[charts][Severity]
           vals == IF has THEN {} ELSE {value}
<1>1. /\ SelectOrNothing(Put(charts, Severity, vals), charts, Stale)
      /\ chosen' = IF has THEN chosen ELSE chosen \union {<<Severity, value>>}
      /\ UNCHANGED <<timers, clicks, late>>
  BY DEF SeverityClick
<1>2. Severity \in Columns /\ vals \in SUBSET Values
  BY SelectionAssumption
<1>3. Stale \in Panels
  BY StaleIs DEF IInv, HoldersOK
<1>4. /\ chosen \subseteq chosen' /\ chosen' \subseteq Columns \X Values
      /\ {Severity} \X vals \subseteq chosen'
  BY <1>1, <1>2 DEF IInv, HoldersOK
<1> HIDE DEF vals
<1> QED BY <1>1, <1>2, <1>3, <1>4, PutKeeps

LEMMA DisplayedIs ==
  ASSUME panel \in Panels, NEW column \in Columns
  PROVE  Displayed(column) \in SUBSET Values
BY DEF Displayed, Panels, Contents

LEMMA MultiSelectKeeps ==
  ASSUME IInv, NEW column \in Columns, NEW vals \in SUBSET Values,
         MultiSelectChange(column, vals)
  PROVE  IInv'
<1>1. /\ SelectOrNothing(Put(tabs, column, vals), tabs, Kept(column, vals))
      /\ chosen' = chosen \union ({column} \X vals)
      /\ UNCHANGED <<timers, clicks, late>>
  BY DEF MultiSelectChange
<1>2. Kept(column, vals) \in Panels
  BY DEF Kept, Panels, Contents, IInv, HoldersOK
<1>3. chosen \subseteq chosen' /\ chosen' \subseteq Columns \X Values
  BY <1>1 DEF IInv, HoldersOK
<1> QED BY <1>1, <1>2, <1>3, PutKeeps

LEMMA VariablesKeeps ==
  ASSUME IInv, NEW cols \in SUBSET Columns, VariablesChange(cols)
  PROVE  IInv'
<1> DEFINE Within(s) == [c \in Columns |-> IF c \in cols THEN s[c] ELSE {}]
           objects == [content EXCEPT ![tabs] = Within(content[tabs])]
           rendered == [columns |-> cols, shown |-> objects[tabs],
                        local |-> Within(panel.local), fresh |-> panel.fresh]
<1>1. /\ UNCHANGED <<timers, clicks, chosen, late>>
      /\ IF objects # content THEN SelectOrNothing(objects, tabs, rendered)
         ELSE Sleep(rendered) /\ UNCHANGED <<content, made, map, tab>>
  BY DEF VariablesChange
<1>2. /\ content \in [Objects -> Contents] /\ tabs \in Objects /\ panel \in Panels
      /\ chosen \subseteq Columns \X Values
  BY SelectionAssumption DEF IInv, HoldersOK, Objects
<1>3. \A s \in Contents : Within(s) \in Contents /\ Pairs(Within(s)) \subseteq Pairs(s)
  BY DEF Contents, Pairs
<1>4. content[tabs] \in Contents /\ panel.local \in Contents
  BY <1>2 DEF Panels
<1>5. /\ objects \in [Objects -> Contents]
      /\ objects[tabs] = Within(content[tabs])
      /\ \A o \in Objects : o # tabs => objects[o] = content[o]
  BY <1>2, <1>3, <1>4
<1>6. rendered \in Panels
  <2>1. objects[tabs] \in Contents /\ Within(panel.local) \in Contents
    BY <1>3, <1>4, <1>5
  <2> HIDE DEF Within, objects
  <2> QED BY <1>2, <2>1 DEF Panels
<1>7. /\ tabs \in 1..made /\ late' \in BOOLEAN
      /\ ~late' => ~late /\ (tabs = home \/ empty)
  BY <1>1, HeldIsHome
<1>8. Pairs(objects[tabs]) \subseteq Pairs(content[tabs]) \union chosen'
  BY <1>3, <1>4, <1>5
<1> HIDE DEF Within, objects, rendered
<1>9. CASE objects # content
  <2>1. Select(objects, tabs, objects[tabs] # Nothing, rendered)
    BY <1>1, <1>9 DEF SelectOrNothing
  <2> QED BY <1>1, <1>2, <1>5, <1>6, <1>7, <1>8, <2>1, StepKeeps
<1>10. CASE objects = content
  <2>1. /\ panel' = rendered
        /\ UNCHANGED <<content, made, home, drawn, alert, held, empty, tab, tabs, charts,
                       render, latest, timers, clicks, chosen, late>>
    BY <1>1, <1>10 DEF Sleep, holders, map
  <2>2. HoldersOK' /\ Unmade'
    BY <1>6, <2>1 DEF IInv, HoldersOK, Unmade
  <2>3. ClicksOK' /\ ClicksInv'
    BY <2>1 DEF IInv, ClicksOK, ClicksInv, Waiting
  <2>4. HoldersAgree' /\ MapInv'
    BY <2>1 DEF IInv, HoldersAgree, MapInv, MapFollowsSelection,
       Redrawable, Inside, Pairs
  <2> QED BY <2>2, <2>3, <2>4 DEF IInv
<1> QED BY <1>9, <1>10

LEMMA ShowTabKeeps == ASSUME IInv, ShowTab PROVE IInv'
<1>1. /\ tab' \in {"explore", "filter"}
      /\ charts' = tabs /\ latest' = 0 /\ render' = render + 1
      /\ panel' = NewPanel(content[tabs])
      /\ UNCHANGED <<content, made, home, drawn, alert, held, empty, tabs, timers, clicks,
                     chosen, late>>
  BY DEF ShowTab, map
<1>2. /\ made \in Nat /\ tabs \in Objects /\ content \in [Objects -> Contents]
      /\ render \in Nat
  BY SelectionAssumption DEF IInv, HoldersOK, Objects
<1>3. panel' \in Panels
  BY <1>1, <1>2, NewPanelIs
<1>4. HoldersOK' /\ Unmade'
  BY <1>1, <1>2, <1>3 DEF IInv, HoldersOK, Unmade
<1>5. ClicksOK' /\ ClicksInv'
  BY <1>1, <1>2, ClicksKept DEF Rendered
<1>6. HoldersAgree' /\ MapInv'
  BY <1>1 DEF IInv, HoldersAgree, MapInv, MapFollowsSelection,
       Redrawable, Inside, Pairs
<1> QED BY <1>4, <1>5, <1>6 DEF IInv

LEMMA TabsRenderKeeps == ASSUME IInv, TabsRender PROVE IInv'
<1>1. /\ tabs' = home /\ charts' = home /\ latest' = 0 /\ render' = render + 1
      /\ panel' = NewPanel(content[home])
      /\ UNCHANGED <<content, made, home, drawn, alert, held, empty, tab, timers, clicks,
                     chosen, late>>
  BY DEF TabsRender, Rerender, map
<1>2. /\ made \in Nat /\ home \in Objects /\ content \in [Objects -> Contents]
      /\ render \in Nat
  BY SelectionAssumption DEF IInv, HoldersOK, Objects
<1>3. panel' \in Panels
  BY <1>1, <1>2, NewPanelIs
<1>4. HoldersOK' /\ Unmade'
  BY <1>1, <1>2, <1>3 DEF IInv, HoldersOK, Unmade
<1>5. ClicksOK' /\ ClicksInv'
  BY <1>1, <1>2, ClicksKept DEF Rendered
<1>6. HoldersAgree' /\ MapInv'
  BY <1>1 DEF IInv, HoldersAgree, MapInv, MapFollowsSelection,
       Redrawable, Inside, Pairs
<1> QED BY <1>4, <1>5, <1>6 DEF IInv

\* A step that draws, or tries to, of the object Home has: the tabs sleep or
\* render with it, and no click is added.
LEMMA DrawKeeps ==
  ASSUME IInv, Sleep(panel) \/ Rerender(content, home),
         UNCHANGED <<content, made, home, tab, timers, clicks, chosen, late>>,
         drawn' \in Contents, alert' \in BOOLEAN, held' \in BOOLEAN,
         empty' \in BOOLEAN,
         empty' \/ ~empty \/ Rerender(content, home),
         MapInv'
  PROVE  IInv'
<1>1. /\ made \in Nat /\ home \in Objects /\ content \in [Objects -> Contents]
      /\ render \in Nat /\ home \in 1..made /\ panel \in Panels
      /\ tabs \in 1..made /\ charts \in 1..made
  BY SelectionAssumption DEF IInv, HoldersOK, Objects
<1>2. /\ tabs' \in {tabs, home} /\ charts' \in {charts, home}
      /\ panel' \in {panel, NewPanel(content[home])}
      /\ render' \in Nat /\ Rendered
      /\ Rerender(content, home) => tabs' = home /\ charts' = home
  BY <1>1 DEF Sleep, holders, Rerender, Rendered
<1>3. panel' \in Panels
  <2>1. NewPanel(content[home]) \in Panels
    BY <1>1, NewPanelIs
  <2> QED BY <1>1, <1>2, <2>1
<1>4. HoldersOK' /\ Unmade'
  BY <1>1, <1>2, <1>3 DEF IInv, HoldersOK, Unmade
<1>5. ClicksOK' /\ ClicksInv'
  BY <1>1, <1>2, ClicksKept
<1>6. HoldersAgree'
  BY <1>2 DEF IInv, HoldersAgree, Pairs
<1> QED BY <1>4, <1>5, <1>6 DEF IInv

LEMMA DrawnType ==
  ASSUME IInv
  PROVE  /\ content \in [Objects -> Contents] /\ home \in Objects
         /\ content[home] \in Contents /\ drawn \in Contents
         /\ alert \in BOOLEAN /\ held \in BOOLEAN /\ empty \in BOOLEAN
BY SelectionAssumption DEF IInv, HoldersOK, Objects

LEMMA RedrawKeeps == ASSUME IInv, Redraw PROVE IInv'
<1>1. /\ ~empty /\ alert' = ~Inside(drawn, content[home])
      /\ (Sleep(panel) \/ Rerender(content, home))
      /\ UNCHANGED <<content, made, home, drawn, held, empty, tab, timers, clicks,
                     chosen, late>>
  BY DEF Redraw
<1>2. drawn' \in Contents /\ held' \in BOOLEAN /\ empty' \in BOOLEAN
  BY <1>1, DrawnType
<1>3. alert' \in BOOLEAN
  BY <1>1
<1>4. MapInv'
  <2>1. CASE Inside(drawn, content[home])
    <3>1. ~held => drawn = content[home]
      BY <1>1, <2>1 DEF IInv, MapInv, Redrawable
    <3> QED BY <1>1, <2>1, <3>1, MapDrawn
  <2>2. CASE ~Inside(drawn, content[home])
    BY <1>1, <2>2, MapNotDrawn
  <2> QED BY <2>1, <2>2
<1> QED BY <1>1, <1>2, <1>3, <1>4, DrawKeeps

\* A draw of Home's object that has results, or has none.
LEMMA FiltersKeeps ==
  ASSUME IInv, NEW holding \in BOOLEAN, held' \in BOOLEAN,
         \/ Filters(content[home], holding) /\ (~held' => ~holding)
         \/ FiltersNone(content[home]) /\ ~empty,
         UNCHANGED <<content, home, empty>>
  PROVE  drawn' \in Contents /\ alert' \in BOOLEAN /\ MapInv'
<1>1. content[home] \in Contents /\ drawn \in Contents /\ content[home]' = content[home]
  BY DrawnType
<1>2. CASE Filters(content[home], holding) /\ (~held' => ~holding)
  <2>1. /\ drawn' \in Contents /\ alert' = FALSE /\ Inside(drawn', content[home])
        /\ ~holding => drawn' = content[home]
    BY <1>1, <1>2, FiltersIs
  <2>2. MapInv'
    BY <1>1, <1>2, <2>1, MapDrawn
  <2> QED BY <2>1, <2>2
<1>3. CASE FiltersNone(content[home]) /\ ~empty
  <2>1. alert' = TRUE /\ drawn' = drawn /\ ~Inside(drawn, content[home])
    BY <1>3 DEF FiltersNone
  <2>2. MapInv'
    BY <1>1, <2>1, MapNotDrawn
  <2> QED BY <1>1, <2>1, <2>2
<1> QED BY <1>2, <1>3

LEMMA ClickLineKeeps == ASSUME IInv, ClickLine PROVE IInv'
<1>1. /\ ~empty /\ (Sleep(panel) \/ Rerender(content, home))
      /\ UNCHANGED <<content, made, home, empty, tab, timers, clicks, chosen, late>>
  BY DEF ClickLine
<1>2. held \in BOOLEAN /\ empty \in BOOLEAN
  BY DrawnType
<1>3. /\ held' \in BOOLEAN
      /\ \/ Filters(content[home], held) /\ (~held' => ~held)
         \/ FiltersNone(content[home]) /\ ~empty
  BY <1>1, <1>2 DEF ClickLine
<1>4. drawn' \in Contents /\ alert' \in BOOLEAN /\ MapInv'
  BY <1>1, <1>2, <1>3, FiltersKeeps
<1> QED BY <1>1, <1>2, <1>3, <1>4, DrawKeeps

LEMMA ClickBackgroundKeeps ==
  ASSUME IInv, NEW stale \in BOOLEAN, ClickBackground(stale)
  PROVE  IInv'
<1>1. /\ ~empty /\ (Sleep(panel) \/ Rerender(content, home))
      /\ UNCHANGED <<content, made, home, empty, tab, timers, clicks, chosen, late>>
  BY DEF ClickBackground
<1>2. /\ held' \in BOOLEAN
      /\ \/ Filters(content[home], stale) /\ (~held' => ~stale)
         \/ FiltersNone(content[home]) /\ ~empty
  <2>1. \/ Filters(content[home], stale) /\ held' = stale
        \/ FiltersNone(content[home]) /\ held' = FALSE
    BY DEF ClickBackground
  <2> QED BY <1>1, <2>1
<1>3. drawn' \in Contents /\ alert' \in BOOLEAN /\ MapInv'
  BY <1>1, <1>2, FiltersKeeps
<1>4. empty' \in BOOLEAN
  BY <1>1, DrawnType
<1> QED BY <1>1, <1>2, <1>3, <1>4, DrawKeeps

LEMMA DataComesKeeps == ASSUME IInv, DataComes PROVE IInv'
<1>1. /\ empty' = FALSE /\ drawn' = content[home] /\ alert' = FALSE
      /\ Rerender(content, home)
      /\ UNCHANGED <<content, made, home, held, tab, timers, clicks, chosen, late>>
  BY DEF DataComes
<1>2. content[home] \in Contents /\ held \in BOOLEAN
  BY DrawnType
<1>3. Inside(content[home], content[home])
  BY <1>2, NarrowedIs
<1>4. MapInv'
  BY <1>1, <1>3, MapDrawn
<1> QED BY <1>1, <1>2, <1>4, DrawKeeps

LEMMA UrlCallbackKeeps ==
  ASSUME IInv, NEW results \in BOOLEAN, UrlCallback(results)
  PROVE  IInv'
<1> DEFINE new == made + 1
<1>1. /\ made < MaxObjects /\ made' = new /\ home' = new
      /\ drawn' = content[new] /\ alert' \in BOOLEAN
      /\ held' = FALSE /\ empty' = ~results
      /\ IF empty /\ ~results THEN Sleep(panel) ELSE Rerender(content, new)
      /\ chosen' = {}
      /\ UNCHANGED <<content, tab, timers, clicks, late>>
  BY DEF UrlCallback, NewSelection
<1>2. /\ made \in Nat /\ new \in Objects /\ content \in [Objects -> Contents]
      /\ render \in Nat /\ content[new] \in Contents /\ panel \in Panels
      /\ tabs \in 1..made /\ charts \in 1..made
  BY <1>1, SelectionAssumption DEF IInv, HoldersOK, Objects
<1>3. NewPanel(content[new]) \in Panels
  BY <1>2, NewPanelIs
<1>4. content[new] = Nothing
  BY <1>2 DEF IInv, Unmade
<1>5. /\ tabs' \in 1..new /\ charts' \in 1..new /\ panel' \in Panels
      /\ render' \in Nat /\ Rendered
      /\ ~empty' => tabs' = new /\ charts' = new
  <2>1. CASE empty /\ ~results
    <3>1. /\ tabs' = tabs /\ charts' = charts /\ panel' = panel /\ render' = render
          /\ latest' = latest
      BY <1>1, <2>1 DEF Sleep, holders
    <3>2. empty'
      BY <1>1, <2>1
    <3> QED BY <1>2, <3>1, <3>2 DEF Rendered
  <2>2. CASE ~(empty /\ ~results)
    BY <1>1, <1>2, <1>3, <2>2 DEF Rerender, Rendered
  <2> QED BY <2>1, <2>2
<1>6. HoldersOK'
  <2>1. new \in 1..new /\ empty' \in BOOLEAN /\ held' \in BOOLEAN
    <3>1. empty' = ~results /\ held' = FALSE
      BY <1>1
    <3>2. new \in 1..new
      BY <1>2
    <3> QED BY <3>1, <3>2
  <2>2. HoldersOK
    BY DEF IInv
  <2> HIDE DEF new
  <2> QED BY <1>1, <1>2, <1>5, <2>1, <2>2 DEF HoldersOK
<1>7. Unmade'
  BY <1>1, <1>2 DEF IInv, Unmade, Objects
<1>8. ClicksOK' /\ ClicksInv'
  BY <1>1, <1>2, <1>5, ClicksKept
<1>9. HoldersAgree'
  <2>1. Pairs(content[home])' = {}
    BY <1>1, <1>4, NothingIs DEF Pairs
  <2> QED BY <1>1, <1>5, <2>1 DEF HoldersAgree
<1>10. MapInv'
  <2>1. Inside(content[new], content[new])
    BY <1>2, NarrowedIs
  <2> QED BY <1>1, <2>1, MapDrawn
<1> QED BY <1>6, <1>7, <1>8, <1>9, <1>10 DEF IInv

-----------------------------------------------------------------------------
LEMMA InitInv == Init => IInv
<1> SUFFICES ASSUME Init PROVE IInv
  OBVIOUS
<1>1. PICK vs \in SUBSET Values :
        content = [o \in Objects |->
                     IF o = 1 THEN [Nothing EXCEPT ![Severity] = vs] ELSE Nothing]
  BY DEF Init
<1>2. /\ made = 1 /\ home = 1 /\ tabs = 1 /\ charts = 1
      /\ tab = "explore" /\ render = 0
      /\ panel = NewPanel(content[1])
      /\ drawn = content[1] /\ alert = FALSE
      /\ held = FALSE /\ empty \in BOOLEAN
      /\ timers = {} /\ clicks = 0 /\ latest = 0
      /\ chosen = Pairs(content[1]) /\ late = FALSE
  BY DEF Init
<1>3. Nothing \in Contents /\ [Nothing EXCEPT ![Severity] = vs] \in Contents
  BY NothingIs, SelectionAssumption DEF Contents
<1>4. content \in [Objects -> Contents] /\ 1 \in Objects
  BY <1>1, <1>3, SelectionAssumption DEF Objects
<1>5. content[1] \in Contents /\ panel \in Panels /\ chosen \subseteq Columns \X Values
  BY <1>2, <1>4, NewPanelIs DEF Pairs
<1>6. HoldersOK
  <2>1. 1 \in 1..1 /\ 0 \in Nat
    OBVIOUS
  <2> QED BY <1>2, <1>4, <1>5, <2>1, Zenon DEF HoldersOK
<1>7. ClicksOK /\ ClicksInv
  BY <1>2, SelectionAssumption DEF ClicksOK, ClicksInv
<1>8. Unmade
  BY <1>1, <1>2 DEF Unmade, Objects
<1>9. HoldersAgree /\ MapInv
  BY <1>2 DEF HoldersAgree, MapInv, MapFollowsSelection, Redrawable
<1> QED BY <1>6, <1>7, <1>8, <1>9 DEF IInv

LEMMA NextInv == IInv /\ [Next]_vars => IInv'
<1> SUFFICES ASSUME IInv, [Next]_vars PROVE IInv'
  OBVIOUS
<1>1. ASSUME NEW c \in Columns, NEW v \in Values, Click(c, v) PROVE IInv'
  BY <1>1, ClickKeeps
<1>2. CASE SecondClick
  BY <1>2, SecondClickKeeps
<1>3. ASSUME NEW t \in timers, TimerFires(t) PROVE IInv'
  BY <1>3, TimerKeeps
<1>4. ASSUME NEW c \in Columns, NEW vs \in SUBSET Values \ {{}}, Lasso(c, vs) PROVE IInv'
  BY <1>4, LassoKeeps
<1>5. ASSUME NEW v \in Values, SeverityClick(v) PROVE IInv'
  BY <1>5, SeverityClickKeeps
<1>6. ASSUME NEW c \in Columns, NEW v \in Values,
             \/ MultiSelectChange(c, Displayed(c) \union {v})
             \/ v \in Displayed(c) /\ MultiSelectChange(c, Displayed(c) \ {v})
             \/ Displayed(c) # {} /\ MultiSelectChange(c, {})
      PROVE  IInv'
  <2>1. Displayed(c) \in SUBSET Values
    BY DisplayedIs DEF IInv, HoldersOK
  <2>2. PICK vals \in SUBSET Values : MultiSelectChange(c, vals)
    BY <1>6, <2>1
  <2> QED BY <2>2, MultiSelectKeeps
<1>7. ASSUME NEW cols \in SUBSET Columns, VariablesChange(cols) PROVE IInv'
  BY <1>7, VariablesKeeps
<1>8. CASE ShowTab
  BY <1>8, ShowTabKeeps
<1>9. CASE TabsRender
  BY <1>9, TabsRenderKeeps
<1>10. ASSUME NEW results \in BOOLEAN, UrlCallback(results) PROVE IInv'
  BY <1>10, UrlCallbackKeeps
<1>11. CASE Redraw
  BY <1>11, RedrawKeeps
<1>12. CASE ClickLine
  BY <1>12, ClickLineKeeps
<1>13. ASSUME NEW stale \in BOOLEAN, ClickBackground(stale) PROVE IInv'
  BY <1>13, ClickBackgroundKeeps
<1>14. CASE DataComes
  BY <1>14, DataComesKeeps
<1>15. CASE UNCHANGED vars
  <2>1. UNCHANGED <<content, made, home, tabs, charts, tab, render, panel, drawn,
                    alert, held, empty, timers, clicks, latest, chosen, late>>
    BY <1>15 DEF vars
  <2>2. HoldersOK' /\ Unmade'
    BY <2>1 DEF IInv, HoldersOK, Unmade
  <2>3. ClicksOK' /\ ClicksInv'
    BY <2>1 DEF IInv, ClicksOK, ClicksInv, Waiting
  <2>4. HoldersAgree' /\ MapInv'
    BY <2>1 DEF IInv, HoldersAgree, MapInv, MapFollowsSelection,
       Redrawable, Inside, Pairs
  <2> QED BY <2>2, <2>3, <2>4 DEF IInv
<1> QED
  BY <1>1, <1>2, <1>3, <1>4, <1>5, <1>6, <1>7, <1>8, <1>9, <1>10, <1>11, <1>12,
     <1>13, <1>14, <1>15 DEF Next

\* The invariant the others are parts of: who holds which object, what the
\* objects not yet made hold, and what the clicks that wait remember.
THEOREM Invariance == Spec => []IInv
BY InitInv, NextInv, PTL DEF Spec

\* The state of Home, the tabs and the charts keeps its types.
THEOREM TypeCorrect == Spec => []TypeOK
<1>1. IInv => TypeOK
  BY TypeParts DEF IInv
<1> QED BY Invariance, <1>1, PTL

\* Until a click of before an "Add data" or a Reset comes through, Home, the
\* tabs and the charts hold one object, with what was chosen since.
THEOREM OneSelection == Spec => []HoldersAgree
<1>1. IInv => HoldersAgree
  BY DEF IInv
<1> QED BY Invariance, <1>1, PTL

\* The map is filtered by the object Home holds, whoever changed it in place,
\* and while a line is held by no less than that object, unless the sidebar
\* says that the last filter has no results.
THEOREM MapFollows == Spec => []MapFollowsSelection
<1>1. IInv => MapFollowsSelection
  BY DEF IInv, MapInv
<1> QED BY Invariance, <1>1, PTL

\* A double click reaches the map only where the charts were rendered between
\* its two clicks.
THEOREM DoubleClicks == Spec => []DoubleClickIgnored
<1>1. IInv => DoubleClickIgnored
  BY DEF IInv, ClicksInv, Waiting, DoubleClickIgnored
<1> QED BY Invariance, <1>1, PTL

-----------------------------------------------------------------------------
(* What the selects show. This invariant is inductive only beside the one  *)
(* above, whose types say that a panel has all columns.                    *)

\* The panel p shows the selection s, if nothing has passed it by.
Shows(p, s) ==
  p.fresh =>
    \A c \in Columns :
      (IF p.shown[c] # {} THEN p.shown[c] ELSE p.local[c]) = s[c]

LEMMA ShownByPanel ==
  ShownIsSelected <=> (tab = "filter" => Shows(panel, content[tabs]))
BY DEF ShownIsSelected, Shows, Displayed

LEMMA NewPanelShows == ASSUME NEW s \in Contents PROVE Shows(NewPanel(s), s)
BY DEF Shows, NewPanel, Nothing, Contents

\* However a selection ends, the panel shows it, if the panel it would keep
\* does: the tabs keep that one, or make a new one of their new object.
LEMMA SelectShows ==
  ASSUME IInv, NEW objects \in [Objects -> Contents], NEW object \in 1..made,
         NEW multi \in BOOLEAN, NEW kept,
         Select(objects, object, multi, kept),
         tab = "filter" => Shows(kept, objects[tabs])
  PROVE  ShownIsSelected'
<1> DEFINE to == IF multi THEN object ELSE home
<1>1. to \in Objects
  BY SelectionAssumption DEF IInv, HoldersOK, Objects
<1>2. /\ content' = objects /\ tab' = tab
      /\ Sleep(kept) \/ Rerender(objects, to)
  BY DEF Select, Adopted
<1>3. CASE Sleep(kept)
  <2>1. panel' = kept /\ tabs' = tabs
    BY <1>3 DEF Sleep, holders
  <2> QED BY <1>2, <2>1 DEF ShownIsSelected, Shows, Displayed
<1>4. CASE Rerender(objects, to)
  <2>1. panel' = NewPanel(objects[to]) /\ tabs' = to
    BY <1>4 DEF Rerender
  <2>2. Shows(NewPanel(objects[to]), objects[to])
    BY <1>1, NewPanelShows
  <2> HIDE DEF to
  <2> QED BY <1>2, <2>1, <2>2 DEF ShownIsSelected, Shows, Displayed
<1> QED BY <1>2, <1>3, <1>4

\* A chart leaves a panel that is not fresh.
LEMMA StaleShows == ASSUME panel \in Panels, NEW s PROVE Shows(Stale, s)
BY DEF Stale, Panels, Shows

LEMMA FilterOrResetShows ==
  ASSUME IInv, NEW object \in 1..made, NEW column \in Columns,
         NEW vals \in SUBSET Values, FilterOrReset(object, column, vals)
  PROVE  ShownIsSelected'
<1>1. content \in [Objects -> Contents] /\ panel \in Panels /\ object \in Objects
  BY SelectionAssumption DEF IInv, HoldersOK, Objects
<1>2. \A vs \in SUBSET Values : Put(object, column, vs) \in [Objects -> Contents]
  BY <1>1, PutIs
<1>3. PICK vs \in SUBSET Values, multi \in BOOLEAN :
        Select(Put(object, column, vs), object, multi, Stale)
  BY DEF FilterOrReset
<1> DEFINE objects == Put(object, column, vs)
<1>4. objects \in [Objects -> Contents] /\ Shows(Stale, objects[tabs])
  BY <1>1, <1>2, StaleShows
<1>5. Select(objects, object, multi, Stale)
  BY <1>3
<1> HIDE DEF objects
<1> QED BY <1>4, <1>5, SelectShows

LEMMA SeverityClickShows ==
  ASSUME IInv, NEW value \in Values, SeverityClick(value)
  PROVE  ShownIsSelected'
<1>1. /\ content \in [Objects -> Contents] /\ panel \in Panels
      /\ charts \in Objects /\ charts \in 1..made
  BY SelectionAssumption DEF IInv, HoldersOK, Objects
<1>2. PICK vs \in SUBSET Values :
        SelectOrNothing(Put(charts, Severity, vs), charts, Stale)
  BY DEF SeverityClick
<1> DEFINE objects == Put(charts, Severity, vs)
<1>3. objects \in [Objects -> Contents] /\ Shows(Stale, objects[tabs])
  BY <1>1, PutIs, StaleShows, SelectionAssumption
<1>4. Select(objects, charts, objects[charts] # Nothing, Stale)
  BY <1>2 DEF SelectOrNothing
<1> HIDE DEF objects
<1> QED BY <1>1, <1>3, <1>4, SelectShows

\* A select shows the values it keeps itself where it is given none.
LEMMA KeptShows ==
  ASSUME panel \in Panels, NEW column \in Columns, NEW vals \in SUBSET Values,
         NEW s, NEW t, Shows(panel, s),
         \A c \in Columns : t[c] = IF c = column THEN vals ELSE s[c]
  PROVE  Shows(Kept(column, vals), t)
<1> SUFFICES ASSUME Kept(column, vals).fresh, NEW c \in Columns
             PROVE  (IF Kept(column, vals).shown[c] # {} THEN Kept(column, vals).shown[c]
                     ELSE Kept(column, vals).local[c]) = t[c]
  BY DEF Shows
<1>1. panel.fresh \in BOOLEAN /\ panel.shown \in Contents /\ panel.local \in Contents
  BY DEF Panels
<1>2. /\ panel.fresh /\ panel.shown[column] = {}
      /\ Kept(column, vals).shown = panel.shown
      /\ Kept(column, vals).local = [panel.local EXCEPT ![column] = vals]
  BY DEF Kept, Panels
<1>3. (IF panel.shown[c] # {} THEN panel.shown[c] ELSE panel.local[c]) = s[c]
  BY <1>2 DEF Shows
<1>4. Kept(column, vals).local[c] = IF c = column THEN vals ELSE panel.local[c]
  BY <1>1, <1>2 DEF Contents
<1> QED BY <1>2, <1>3, <1>4

LEMMA MultiSelectShows ==
  ASSUME IInv, ShownIsSelected, NEW column \in Columns, NEW vals \in SUBSET Values,
         MultiSelectChange(column, vals)
  PROVE  ShownIsSelected'
<1> DEFINE objects == Put(tabs, column, vals)
<1>1. /\ content \in [Objects -> Contents] /\ panel \in Panels
      /\ tabs \in Objects /\ tabs \in 1..made
  BY SelectionAssumption DEF IInv, HoldersOK, Objects
<1>2. tab = "filter" /\ Select(objects, tabs, objects[tabs] # Nothing, Kept(column, vals))
  BY DEF MultiSelectChange, SelectOrNothing
<1>3. objects \in [Objects -> Contents]
  BY <1>1, PutIs
<1>4. \A c \in Columns :
        objects[tabs][c] = IF c = column THEN vals ELSE content[tabs][c]
  <2>1. content[tabs] \in Contents
    BY <1>1
  <2> QED BY <1>1, <2>1 DEF Put, Contents
<1>5. Shows(panel, content[tabs])
  BY <1>2, ShownByPanel
<1>6. Shows(Kept(column, vals), objects[tabs])
  BY <1>1, <1>4, <1>5, KeptShows
<1> HIDE DEF objects
<1> QED BY <1>1, <1>2, <1>3, <1>6, SelectShows

\* Without the columns that are taken out, the panel shows what is left.
LEMMA RenderedShows ==
  ASSUME NEW cols \in SUBSET Columns, NEW p, NEW s, Shows(p, s), NEW q, NEW t,
         q.fresh = p.fresh, q.shown = t,
         \A c \in Columns : t[c] = IF c \in cols THEN s[c] ELSE {},
         \A c \in Columns : q.local[c] = IF c \in cols THEN p.local[c] ELSE {}
  PROVE  Shows(q, t)
BY DEF Shows

LEMMA VariablesShows ==
  ASSUME IInv, ShownIsSelected, NEW cols \in SUBSET Columns, VariablesChange(cols)
  PROVE  ShownIsSelected'
<1> DEFINE Within(s) == [c \in Columns |-> IF c \in cols THEN s[c] ELSE {}]
           objects == [content EXCEPT ![tabs] = Within(content[tabs])]
           rendered == [columns |-> cols, shown |-> objects[tabs],
                        local |-> Within(panel.local), fresh |-> panel.fresh]
<1>1. /\ tab = "filter"
      /\ IF objects # content THEN SelectOrNothing(objects, tabs, rendered)
         ELSE Sleep(rendered) /\ UNCHANGED <<content, made, map, tab>>
  BY DEF VariablesChange
<1>2. /\ content \in [Objects -> Contents] /\ panel \in Panels
      /\ tabs \in Objects /\ tabs \in 1..made
  BY SelectionAssumption DEF IInv, HoldersOK, Objects
<1>3. Shows(panel, content[tabs])
  BY <1>1, ShownByPanel
<1>4. content[tabs] \in Contents /\ Within(content[tabs]) \in Contents
  BY <1>2 DEF Contents
<1>5. objects \in [Objects -> Contents] /\ objects[tabs] = Within(content[tabs])
  BY <1>2, <1>4
<1>6. /\ rendered.fresh = panel.fresh /\ rendered.shown = objects[tabs]
      /\ \A c \in Columns : objects[tabs][c] = IF c \in cols THEN content[tabs][c] ELSE {}
      /\ \A c \in Columns : rendered.local[c] = IF c \in cols THEN panel.local[c] ELSE {}
  BY <1>5
<1>7. Shows(rendered, objects[tabs])
  <2> SUFFICES ASSUME rendered.fresh, NEW c \in Columns
               PROVE  (IF rendered.shown[c] # {} THEN rendered.shown[c]
                       ELSE rendered.local[c]) = objects[tabs][c]
    BY DEF Shows
  <2>1. (IF panel.shown[c] # {} THEN panel.shown[c] ELSE panel.local[c])
          = content[tabs][c]
    BY <1>3, <1>6 DEF Shows
  <2> QED BY <1>6, <2>1
<1> HIDE DEF objects, rendered
<1>8. CASE objects # content
  <2>1. Select(objects, tabs, objects[tabs] # Nothing, rendered)
    BY <1>1, <1>8 DEF SelectOrNothing
  <2> QED BY <1>2, <1>5, <1>7, <2>1, SelectShows
<1>9. CASE objects = content
  <2>1. panel' = rendered /\ tabs' = tabs /\ content' = content
    BY <1>1, <1>9 DEF Sleep, holders
  <2> QED BY <1>7, <1>9, <2>1 DEF ShownIsSelected, Shows, Displayed
<1> QED BY <1>8, <1>9

LEMMA NextShows == IInv /\ ShownIsSelected /\ [Next]_vars => ShownIsSelected'
<1> SUFFICES ASSUME IInv, ShownIsSelected, [Next]_vars PROVE ShownIsSelected'
  OBVIOUS
<1>1. /\ content \in [Objects -> Contents] /\ made \in Nat
      /\ home \in Objects /\ tabs \in Objects /\ panel \in Panels
  BY SelectionAssumption DEF IInv, HoldersOK, Objects
<1>2. ASSUME UNCHANGED <<tab, panel, content, tabs>> PROVE ShownIsSelected'
  BY <1>2 DEF ShownIsSelected, Displayed
<1>3. ASSUME NEW object \in Objects, panel' = NewPanel(content[object]),
             tabs' = object, content' = content
      PROVE  ShownIsSelected'
  <2>1. Shows(NewPanel(content[object]), content[object])
    BY <1>1, NewPanelShows
  <2> QED BY <1>3, <2>1 DEF ShownIsSelected, Shows, Displayed
<1>4. ASSUME NEW c \in Columns, NEW v \in Values, Click(c, v) PROVE ShownIsSelected'
  BY <1>2, <1>4 DEF Click
<1>5. CASE SecondClick
  BY <1>2, <1>5 DEF SecondClick, holders
<1>6. ASSUME NEW t \in timers, TimerFires(t) PROVE ShownIsSelected'
  <2>1. t \in Timers /\ Waiting(t)
    BY DEF IInv, ClicksOK, ClicksInv
  <2>2. /\ t.column \in Columns /\ t.values \in SUBSET Values
        /\ t.object \in Objects /\ t.object <= made
    BY <2>1 DEF Timers, Waiting
  <2>3. t.object \in 1..made
    BY <1>1, <2>2, SelectionAssumption DEF Objects
  <2> QED BY <1>6, <2>2, <2>3, FilterOrResetShows DEF TimerFires
<1>7. ASSUME NEW c \in Columns, NEW vs \in SUBSET Values \ {{}}, Lasso(c, vs)
      PROVE  ShownIsSelected'
  <2>1. charts \in 1..made
    BY DEF IInv, HoldersOK
  <2> QED BY <1>7, <2>1, FilterOrResetShows DEF Lasso
<1>8. ASSUME NEW v \in Values, SeverityClick(v) PROVE ShownIsSelected'
  BY <1>8, SeverityClickShows
<1>9. ASSUME NEW c \in Columns, NEW v \in Values,
             \/ MultiSelectChange(c, Displayed(c) \union {v})
             \/ v \in Displayed(c) /\ MultiSelectChange(c, Displayed(c) \ {v})
             \/ Displayed(c) # {} /\ MultiSelectChange(c, {})
      PROVE  ShownIsSelected'
  <2>1. Displayed(c) \in SUBSET Values
    BY <1>1, DisplayedIs
  <2>2. PICK vals \in SUBSET Values : MultiSelectChange(c, vals)
    BY <1>9, <2>1
  <2> QED BY <2>2, MultiSelectShows
<1>10. ASSUME NEW cols \in SUBSET Columns, VariablesChange(cols) PROVE ShownIsSelected'
  BY <1>10, VariablesShows
<1>11. CASE ShowTab
  BY <1>1, <1>3, <1>11 DEF ShowTab
<1>12. CASE TabsRender
  BY <1>1, <1>3, <1>12 DEF TabsRender, Rerender
<1>13. ASSUME NEW results \in BOOLEAN, UrlCallback(results) PROVE ShownIsSelected'
  <2>1. NewSelection \in Objects
    BY <1>1, <1>13, SelectionAssumption DEF UrlCallback, NewSelection, Objects
  <2>2. Sleep(panel) \/ Rerender(content, NewSelection)
    BY <1>13 DEF UrlCallback
  <2>3. UNCHANGED <<content, tab>>
    BY <1>13 DEF UrlCallback
  <2> QED BY <1>2, <1>3, <2>1, <2>2, <2>3 DEF Sleep, holders, Rerender
<1>15. ASSUME UNCHANGED <<content, home, tab>>, Sleep(panel) \/ Rerender(content, home)
       PROVE  ShownIsSelected'
  BY <1>1, <1>2, <1>3, <1>15 DEF Sleep, holders, Rerender
<1>16. CASE Redraw \/ ClickLine \/ DataComes
  <2>1. UNCHANGED <<content, home, tab>> /\ (Sleep(panel) \/ Rerender(content, home))
    BY <1>16 DEF Redraw, ClickLine, DataComes
  <2> QED BY <1>15, <2>1
<1>17. ASSUME NEW stale \in BOOLEAN, ClickBackground(stale) PROVE ShownIsSelected'
  <2>1. UNCHANGED <<content, home, tab>> /\ (Sleep(panel) \/ Rerender(content, home))
    BY <1>17 DEF ClickBackground
  <2> QED BY <1>15, <2>1
<1>14. CASE UNCHANGED vars
  BY <1>2, <1>14 DEF vars
<1> QED
  BY <1>4, <1>5, <1>6, <1>7, <1>8, <1>9, <1>10, <1>11, <1>12, <1>13, <1>14, <1>16,
     <1>17 DEF Next

\* The selects start from what is selected, as long as the tabs have not
\* slept through a change (Variables, MultiSelect and the memo of the tabs).
THEOREM SelectsShow == Spec => []ShownIsSelected
<1>1. Init => ShownIsSelected
  BY DEF Init, ShownIsSelected
<1> QED BY <1>1, Invariance, NextShows, PTL DEF Spec
=============================================================================

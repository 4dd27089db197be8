------------------------- MODULE InitialView_proofs -------------------------
(***************************************************************************)
(* The browser history grows by one entry at most, and an entry that TGVE  *)
(* wrote brings the place back, for all defaults, props, queries and moves *)
(* of the map.                                                             *)
(***************************************************************************)
EXTENDS InitialView, TLAPS

\* An entry that was written for a view has this view in its query.
Faithful(entry) ==
  entry.of # NoViewport => entry.of \in Views /\ entry.search = Written(entry.of)

FaithfulInv ==
  /\ \A i \in DOMAIN stack : Faithful(stack[i])
  /\ Faithful(opened)

IInv ==
  /\ TypeOK
  /\ OneEntryAdded
  /\ FaithfulInv
  /\ PlaceSurvivesReload

Kept == Place \union {"zoom"}

-----------------------------------------------------------------------------
\* A value written to the URL is the value, or one half unit above it.
LEMMA Rounding ==
  ASSUME NEW n \in Nat
  PROVE  /\ 2 * ((n + 1) \div 2) \in Nat
         /\ 2 * ((n + 1) \div 2) - n \in {0, 1}
OBVIOUS

\* What is written of a view is a query, and not the empty one.
LEMMA WrittenQuery ==
  ASSUME NEW view \in Views
  PROVE  /\ Written(view) \in SomeOf(QueryKeys)
         /\ Written(view) # Empty
         /\ DOMAIN Written(view) = QueryKeys
         /\ \A key \in Kept :
              /\ Written(view)[key] \in Nat
              /\ Written(view)[key] - view[key] \in {0, 1}
<1>1. view \in [Keys -> Nat]
  BY ViewAssumption
<1>2. \A key \in Keys : 2 * ((view[key] + 1) \div 2) \in Nat
  BY <1>1, Rounding
<1>3. Place \union {"zoom"} \subseteq Keys
  BY DEF Place, Keys
<1>4. \A key \in QueryKeys : Written(view)[key] \in Nat \union {Absent}
  BY <1>1, <1>2, <1>3 DEF Written
<1>5. Written(view) \in SomeOf(QueryKeys)
  BY <1>4 DEF Written, SomeOf
<1>6. DOMAIN Written(view) = QueryKeys
  BY DEF Written
<1>7. Written(view) # Empty
  <2>1. "zoom" \in QueryKeys /\ "zoom" \in Keys
    BY DEF QueryKeys, Keys
  <2>2. Written(view)["zoom"] \in Nat
    BY <2>1, <1>2 DEF Written
  <2>3. Empty["zoom"] = -1
    BY <2>1 DEF Empty, Absent
  <2> QED BY <2>2, <2>3
<1>8. ASSUME NEW key \in Kept
      PROVE  Written(view)[key] \in Nat /\ Written(view)[key] - view[key] \in {0, 1}
  <2>1. key \in Keys /\ Written(view)[key] = 2 * ((view[key] + 1) \div 2)
    BY <1>3 DEF Kept, Keys, QueryKeys, Written
  <2> QED BY <2>1, <1>1, Rounding
<1> QED BY <1>5, <1>6, <1>7, <1>8

\* The view that Home opens with has a number for every key.
LEMMA InitViewStateType ==
  ASSUME TypeOK, NEW given \in ViewportProps, NEW flat \in BOOLEAN
  PROVE  InitViewState(given, flat) \in [Keys -> Nat]
<1>1. given \in SomeOf(Keys) /\ Default \in [Keys -> Nat]
  BY ViewAssumption
<1>2. search \in SomeOf(QueryKeys)
  <2>1. stack[at] \in Entries
    BY DEF TypeOK
  <2> QED BY <2>1 DEF search, Entries
<1>3. \A key \in Given(given) : given[key] \in Nat
  BY <1>1 DEF SomeOf, Given
<1>4. \A key \in Given(search) : search[key] \in Nat
  BY <1>2 DEF SomeOf, Given
<1>5. ASSUME NEW key \in Keys PROVE Param(key) \in Nat
  <2>1. Default[key] \in Nat
    BY <1>1
  <2> QED BY <2>1, <1>4 DEF Param
<1>6. \A key \in Keys : deckglInit[key] \in Nat
  BY DEF TypeOK
<1> QED BY <1>3, <1>5, <1>6 DEF InitViewState

\* Home opens where an entry that TGVE wrote says.
LEMMA OpensThere ==
  ASSUME NEW given \in ViewportProps, NEW flat \in BOOLEAN,
         Faithful(stack[at]), stack[at].of # NoViewport, NEW key \in Kept
  PROVE  \/ InitViewState(given, flat)[key] - stack[at].of[key] \in {0, 1}
         \/ key = "zoom" /\ stack[at].of[key] = 0
<1> DEFINE view == stack[at].of
<1>1. view \in Views /\ search = Written(view)
  BY DEF Faithful, search
<1>2. key \in Keys /\ key # "pitch"
  BY DEF Kept, Place, Keys
<1>3. InitViewState(given, flat)[key] = Param(key)
  BY <1>1, <1>2, WrittenQuery, Zenon DEF InitViewState, Kept
<1>4. view[key] \in Nat
  BY <1>1, <1>2, ViewAssumption
<1>5. /\ key \in Given(search)
      /\ search[key] \in Nat /\ search[key] - view[key] \in {0, 1}
  BY <1>1, <1>2, WrittenQuery DEF Given, QueryKeys, Absent
<1>6. \/ Param(key) = search[key]
      \/ key = "zoom" /\ search[key] = 0
  <2>1. CASE key \in Place
    BY <2>1, <1>5 DEF Param
  <2>2. CASE key = "zoom"
    BY <2>2, <1>5 DEF Param, Place
  <2> QED BY <2>1, <2>2 DEF Kept
<1> QED BY <1>3, <1>4, <1>5, <1>6

\* A write leaves at most one entry added, all of them as they should be.
LEMMA UpdateHistoryKeeps ==
  ASSUME TypeOK, OneEntryAdded, \A i \in DOMAIN stack : Faithful(stack[i]),
         NEW view \in Views, Gated(view)
  PROVE  /\ stack' \in Seq(Entries) /\ at' \in DOMAIN stack'
         /\ OneEntryAdded'
         /\ \A i \in DOMAIN stack' : Faithful(stack'[i])
<1> DEFINE entry == Entry(Written(view), view)
<1>1. entry \in Entries /\ Faithful(entry) /\ entry.search # Empty
  BY WrittenQuery DEF Entry, Entries, Faithful
<1>2. stack \in Seq(Entries) /\ at \in 1..Len(stack) /\ Len(stack) \in Nat
  BY DEF TypeOK
<1>3. CASE UNCHANGED <<stack, at>>
  BY <1>3 DEF TypeOK, OneEntryAdded, Faithful
<1>4. CASE search = Empty /\ UpdateHistory(view)
  <2>1. at = 1
    BY <1>2, <1>4 DEF OneEntryAdded, search
  <2>2. stack' = Append(SubSeq(stack, 1, 1), entry) /\ at' = 2
    BY <1>4, <2>1 DEF UpdateHistory
  <2>3. /\ SubSeq(stack, 1, 1) \in Seq(Entries) /\ Len(SubSeq(stack, 1, 1)) = 1
        /\ SubSeq(stack, 1, 1)[1] = stack[1]
    BY <1>2
  <2>4. stack' \in Seq(Entries) /\ Len(stack') = 2 /\ stack'[1] = stack[1] /\ stack'[2] = entry
    BY <2>2, <2>3, <1>1
  <2>5. DOMAIN stack' = 1..2
    BY <2>4
  <2>6. Faithful(stack[1])
    BY <1>2
  <2> HIDE DEF entry
  <2>7. \A i \in DOMAIN stack' : i = 1 \/ i = 2
    BY <2>5
  <2>8. \A i \in DOMAIN stack' : Faithful(stack'[i])
    BY <2>4, <2>6, <2>7, <1>1
  <2>9. OneEntryAdded'
    <3>1. \A i \in 2..2 : i = 2
      OBVIOUS
    <3> QED BY <3>1, <2>4, <1>1 DEF OneEntryAdded
  <2> QED BY <2>2, <2>4, <2>5, <2>8, <2>9
<1>5. CASE search # Empty /\ UpdateHistory(view)
  <2>1. stack' = [stack EXCEPT ![at] = entry] /\ at' = at
    BY <1>5 DEF UpdateHistory
  <2> HIDE DEF entry
  <2>2. stack' \in Seq(Entries) /\ Len(stack') = Len(stack) /\ DOMAIN stack' = DOMAIN stack
    BY <2>1, <1>1, <1>2
  <2>3. \A i \in DOMAIN stack' : stack'[i] = IF i = at THEN entry ELSE stack[i]
    BY <2>1, <1>2
  <2>4. OneEntryAdded'
    BY <2>2, <2>3, <1>1, <1>2 DEF OneEntryAdded
  <2> QED BY <2>1, <2>2, <2>3, <2>4, <1>1 DEF TypeOK
<1> QED BY <1>3, <1>4, <1>5 DEF Gated

-----------------------------------------------------------------------------
\* The invariant holds when the page is opened.
LEMMA InitIInv == Init => IInv
<1> SUFFICES ASSUME Init PROVE IInv
  OBVIOUS
<1>1. PICK query \in Queries :
        stack = <<Entry(query, NoViewport)>> /\ opened = Entry(query, NoViewport)
  BY DEF Init
<1>2. Entry(query, NoViewport) \in Entries
  BY ViewAssumption DEF Entry, Entries
<1>3. stack \in Seq(Entries) /\ Len(stack) = 1 /\ DOMAIN stack = 1..1
  BY <1>1, <1>2
<1>4. TypeOK
  <2>1. /\ deckglInit = Default /\ at = 1 /\ mounted = FALSE
        /\ viewport = NoViewport /\ args = NoViewport /\ left = {}
    BY DEF Init
  <2>2. Default \in [Keys -> Nat]
    BY ViewAssumption
  <2>3. opened \in Entries
    BY <1>1, <1>2
  <2>4. mounted \in BOOLEAN
    BY <2>1
  <2>5. at \in DOMAIN stack
    BY <2>1, <1>3
  <2> QED BY <2>1, <2>2, <2>3, <2>4, <2>5, <1>3 DEF TypeOK
<1>5. OneEntryAdded
  BY <1>3 DEF OneEntryAdded
<1>6. FaithfulInv
  BY <1>1, <1>3 DEF FaithfulInv, Faithful, Entry
<1>7. PlaceSurvivesReload
  BY DEF Init, PlaceSurvivesReload, fresh
<1> QED BY <1>4, <1>5, <1>6, <1>7 DEF IInv

\* Home opened.
LEMMA MountKeeps ==
  ASSUME IInv, NEW given \in ViewportProps, NEW flat \in BOOLEAN,
         Mount(given, flat)
  PROVE  IInv'
<1>1. /\ deckglInit' = InitViewState(given, flat) /\ opened' = stack[at]
      /\ mounted' = TRUE /\ viewport' = NoViewport
      /\ stack' = stack /\ at' = at /\ args' = args /\ left' = left
  BY DEF Mount, throttles
<1>2. stack[at] \in Entries /\ Faithful(stack[at])
  BY DEF IInv, TypeOK, FaithfulInv
<1>3. TypeOK'
  BY <1>1, <1>2, InitViewStateType DEF IInv, TypeOK
<1>4. OneEntryAdded'
  BY <1>1 DEF IInv, OneEntryAdded
<1>5. FaithfulInv'
  BY <1>1, <1>2 DEF IInv, FaithfulInv, Faithful
<1>6. PlaceSurvivesReload'
  BY <1>1, <1>2, OpensThere DEF PlaceSurvivesReload, Kept
<1> QED BY <1>3, <1>4, <1>5, <1>6 DEF IInv

\* A write, and what else a call of the throttle changes.
LEMMA GatedKeeps ==
  ASSUME IInv, NEW view \in Views, Gated(view),
         UNCHANGED <<deckglInit, mounted, opened>>,
         viewport' \in Views \/ viewport' = viewport,
         args' \in Views \union {NoViewport}, left' \subseteq Views
  PROVE  IInv'
<1>1. /\ stack' \in Seq(Entries) /\ at' \in DOMAIN stack' /\ OneEntryAdded'
      /\ \A i \in DOMAIN stack' : Faithful(stack'[i])
  BY UpdateHistoryKeeps DEF IInv, FaithfulInv
<1>2. TypeOK'
  BY <1>1 DEF IInv, TypeOK
<1>3. FaithfulInv'
  BY <1>1 DEF IInv, FaithfulInv, Faithful
<1>4. \A view2 \in Views : view2 # NoViewport
  <2>1. \A view2 \in Views : DOMAIN view2 = Keys
    BY ViewAssumption
  <2>2. DOMAIN NoViewport = {} /\ "zoom" \in Keys
    BY DEF NoViewport, Keys
  <2> QED BY <2>1, <2>2
<1>5. PlaceSurvivesReload'
  BY <1>4 DEF IInv, PlaceSurvivesReload, fresh
<1> QED BY <1>1, <1>2, <1>3, <1>5 DEF IInv

\* A step that moves in the history, or ends a Home, and writes nothing.
LEMMA NothingWritten ==
  ASSUME IInv, UNCHANGED <<stack, opened, viewport>>,
         at' \in DOMAIN stack,
         \/ mounted' = FALSE /\ deckglInit' \in [Keys -> Nat]
         \/ UNCHANGED <<mounted, deckglInit>>,
         args' \in Views \union {NoViewport}, left' \subseteq Views
  PROVE  IInv'
<1>1. TypeOK'
  BY DEF IInv, TypeOK
<1>2. OneEntryAdded' /\ FaithfulInv'
  BY DEF IInv, OneEntryAdded, FaithfulInv, Faithful
<1>3. PlaceSurvivesReload'
  BY DEF IInv, PlaceSurvivesReload, fresh
<1> QED BY <1>1, <1>2, <1>3 DEF IInv

\* Every step keeps the invariant.
LEMMA NextKeeps == IInv /\ [Next]_vars => IInv'
<1> SUFFICES ASSUME IInv, [Next]_vars PROVE IInv'
  OBVIOUS
<1>0. /\ deckglInit \in [Keys -> Nat] /\ stack \in Seq(Entries)
      /\ at \in 1..Len(stack) /\ Len(stack) \in Nat
      /\ args \in Views \union {NoViewport} /\ left \subseteq Views
  BY DEF IInv, TypeOK
<1>1. CASE \E given \in ViewportProps, flat \in BOOLEAN : Mount(given, flat)
  BY <1>1, MountKeeps
<1>2. ASSUME NEW view \in Views, Move(view) PROVE IInv'
  <2>1. /\ UNCHANGED <<deckglInit, mounted, opened, left>> /\ viewport' = view
        /\ args' \in Views \union {NoViewport}
    BY <1>0, <1>2 DEF Move
  <2>2. Gated(view)
    BY <1>2 DEF Move, Gated
  <2> QED BY <2>1, <2>2, <1>0, GatedKeeps
<1>3. CASE TimerExpires
  <2>1. PICK view \in Views : Gated(view)
    BY <1>0, <1>3 DEF TimerExpires
  <2>2. /\ UNCHANGED <<deckglInit, mounted, opened, viewport>>
        /\ args' \in Views \union {NoViewport} /\ left' \subseteq Views
    BY <1>0, <1>3 DEF TimerExpires, home
  <2> QED BY <2>1, <2>2, GatedKeeps
<1>4. CASE Unmount
  <2>1. /\ mounted' = FALSE /\ args' = NoViewport
        /\ left' = left \union ({args} \ {NoViewport})
        /\ UNCHANGED <<deckglInit, stack, at, opened, viewport>>
    BY <1>4 DEF Unmount
  <2>2. left' \subseteq Views
    BY <2>1, <1>0
  <2>3. at' \in DOMAIN stack /\ deckglInit' \in [Keys -> Nat]
    BY <2>1, <1>0
  <2> QED BY <2>1, <2>2, <2>3, NothingWritten
<1>5. CASE Reload
  <2>1. /\ mounted' = FALSE /\ args' = NoViewport /\ left' = {}
        /\ UNCHANGED <<stack, at, opened, viewport>>
        /\ deckglInit' = Default
    BY <1>5 DEF Reload
  <2>2. at' \in DOMAIN stack /\ deckglInit' \in [Keys -> Nat]
    BY <2>1, <1>0, ViewAssumption
  <2> QED BY <2>1, <2>2, NothingWritten
<1>6. CASE Back
  BY <1>0, <1>6, NothingWritten DEF Back, home, throttles
<1>7. CASE Forward
  BY <1>0, <1>7, NothingWritten DEF Forward, home, throttles
<1>8. CASE UNCHANGED vars
  BY <1>0, <1>8, NothingWritten DEF vars, home, throttles
<1> QED BY <1>1, <1>2, <1>3, <1>4, <1>5, <1>6, <1>7, <1>8 DEF Next

\* The inductive invariant.
THEOREM Invariance == Spec => []IInv
BY InitIInv, NextKeeps, PTL DEF Spec

\* The types hold: a map is always at one of its views, and an entry of the
\* history always has a query of numbers.
THEOREM TypeCorrect == Spec => []TypeOK
<1>1. IInv => TypeOK
  BY DEF IInv
<1> QED BY <1>1, Invariance, PTL

\* TGVE adds one entry to the browser history at most: updateHistory pushes
\* only onto an entry without a query and writes none without.
THEOREM OneEntry == Spec => []OneEntryAdded
<1>1. IInv => OneEntryAdded
  BY DEF IInv
<1> QED BY <1>1, Invariance, PTL

\* A Home mounted at an entry that TGVE wrote opens where the map was when
\* updateHistory wrote it, as far as the URL keeps digits.
THEOREM PlaceKept == Spec => []PlaceSurvivesReload
<1>1. IInv => PlaceSurvivesReload
  BY DEF IInv
<1> QED BY <1>1, Invariance, PTL
=============================================================================

---------------------------- MODULE InitialView ----------------------------
(***************************************************************************)
(* Where the map opens: the `viewport` prop, the query string that Home    *)
(* itself writes as the map moves, and the default view, an object of the  *)
(* Constants module that initViewState changes in place and hands to every *)
(* Home that is mounted. HistoryWrites says when the query is written;     *)
(* here it may be at any move.                                             *)
(*                                                                         *)
(* A value of the view is a whole number of half units in the last digit   *)
(* that the URL keeps of it.                                               *)
(***************************************************************************)
EXTENDS Integers, Sequences

CONSTANTS
  Default,      \* DECKGL_INIT as Constants.js has it
  ViewportProps,\* the `viewport` props a host may give: some of the keys
  Views,        \* the views the map is moved to
  Queries       \* the query strings the page may be opened with

Keys == {"longitude", "latitude", "zoom", "pitch", "bearing"}
Place == {"longitude", "latitude"}

\* A value for some of the keys, and which of them these are.
Absent == -1
SomeOf(keys) == [keys -> Nat \union {Absent}]
Given(some) == {key \in DOMAIN some : some[key] # Absent}

\* "other" stands for the API parameters that can be passed in a query, such
\* as dark or hideSidebar; they are all treated alike.
QueryKeys == Keys \union {"other"}

ASSUME ViewAssumption ==
  /\ Default \in [Keys -> Nat]
  /\ ViewportProps \subseteq SomeOf(Keys)
  /\ Views \subseteq [Keys -> Nat]
  /\ Queries \subseteq SomeOf(QueryKeys)

VARIABLES
  deckglInit,   \* DECKGL_INIT, which is also state.initialViewState
  stack, at,    \* the entries of the browser history, and the current one
  mounted,
  opened,       \* the entry Home was mounted at
  viewport,     \* state.viewport, or NoViewport until the map moves
  args,         \* what its throttle will call _updateHistory with, if anything
  left          \* the same, of the throttles of Homes that were unmounted

home == <<mounted, opened, viewport>>
throttles == <<args, left>>
vars == <<deckglInit, stack, at, home, throttles>>

Empty == [key \in QueryKeys |-> Absent]
NoViewport == <<>>

\* An entry: its query, and the view it was written for, if it was.
Entry(query, of) == [search |-> query, of |-> of]
Entries == [search : SomeOf(QueryKeys), of : Views \union {NoViewport}]

TypeOK ==
  /\ deckglInit \in [Keys -> Nat]
  /\ stack \in Seq(Entries) /\ at \in DOMAIN stack
  /\ mounted \in BOOLEAN
  /\ opened \in Entries
  /\ viewport \in Views \union {NoViewport}
  /\ args \in Views \union {NoViewport}
  /\ left \subseteq Views

search == stack[at].search

-----------------------------------------------------------------------------
\* getViewportParams and the loop of initViewState. A query without latitude,
\* longitude or zoom yields default ones, and so does a zoom of 0. What a
\* query says of pitch and bearing goes to keys `pit` and `bea` of the view,
\* which nothing reads. (No query begins with the zoom, which qs would then
\* miss for the question mark; the queries TGVE writes begin with lat.)
Param(key) ==
  CASE key \in Place /\ key \in Given(search) -> search[key]
    [] key = "zoom" /\ key \in Given(search) /\ search[key] # 0 -> search[key]
    [] OTHER -> Default[key]

InitViewState(given, flat) ==
  [key \in Keys |->
     IF flat /\ key = "pitch" THEN 0
     ELSE IF search # Empty /\ key \in Place \union {"zoom"} THEN Param(key)
     ELSE IF key \in Given(given) THEN given[key]
     ELSE deckglInit[key]]

\* `flat`: the layer is one of LAYERS_2D_REGEX.
Mount(given, flat) ==
  /\ ~mounted
  /\ mounted' = TRUE
  /\ deckglInit' = InitViewState(given, flat)
  /\ opened' = stack[at]
  /\ viewport' = NoViewport
  /\ UNCHANGED <<stack, at, throttles>>

\* The throttle is not cancelled.
Unmount ==
  /\ mounted
  /\ mounted' = FALSE
  /\ args' = NoViewport
  /\ left' = left \union ({args} \ {NoViewport})
  /\ UNCHANGED <<deckglInit, stack, at, opened, viewport>>

\* Mutant: the place in the wrong order.
WrittenSwapped(view) ==
  [key \in QueryKeys |->
     CASE key = "latitude" -> 2 * ((view["longitude"] + 1) \div 2)
       [] key = "longitude" -> 2 * ((view["latitude"] + 1) \div 2)
       [] key \in Keys \ Place -> view[key]
       [] OTHER -> Absent]

\* toFixed, to three digits for the place and to two for the zoom.
Written(view) ==
  [key \in QueryKeys |->
     IF key \in Place \union {"zoom"} THEN 2 * ((view[key] + 1) \div 2)
     ELSE IF key \in Keys THEN view[key]
     ELSE Absent]

\* Mutant: always a new entry.
UpdateHistoryPushes(view) ==
  LET entry == Entry(Written(view), view)
  IN  stack' = Append(SubSeq(stack, 1, at), entry) /\ at' = at + 1

\* updateHistory builds the query anew, and pushes it only onto an entry that
\* has none.
UpdateHistory(view) ==
  LET entry == Entry(Written(view), view)
  IN  IF search = Empty
      THEN stack' = Append(SubSeq(stack, 1, at), entry) /\ at' = at + 1
      ELSE stack' = [stack EXCEPT ![at] = entry] /\ UNCHANGED at

\* _updateHistory lets what it is called with through its gate, or not.
Gated(view) == UpdateHistory(view) \/ UNCHANGED <<stack, at>>

\* The map moves, and the throttle calls _updateHistory or keeps the view; or
\* the zoom buttons move it, which do not call the throttle.
Move(view) ==
  /\ mounted
  /\ viewport' = view
  /\ \/ args' = NoViewport /\ Gated(view)
     \/ args' = view /\ UNCHANGED <<stack, at>>
     \/ UNCHANGED <<args, stack, at>>
  /\ UNCHANGED <<deckglInit, mounted, opened, left>>

\* The trailing call of a throttle.
TimerExpires ==
  /\ \/ args # NoViewport /\ Gated(args) /\ args' = NoViewport /\ UNCHANGED left
     \/ \E view \in left :
          Gated(view) /\ left' = left \ {view} /\ UNCHANGED args
  /\ UNCHANGED <<deckglInit, home>>

-----------------------------------------------------------------------------
\* The browser. A reload evaluates Constants.js again.
Reload ==
  /\ deckglInit' = Default
  /\ mounted' = FALSE
  /\ args' = NoViewport
  /\ left' = {}
  /\ UNCHANGED <<stack, at, opened, viewport>>

Back ==
  /\ at > 1
  /\ at' = at - 1
  /\ UNCHANGED <<deckglInit, stack, home, throttles>>

Forward ==
  /\ at < Len(stack)
  /\ at' = at + 1
  /\ UNCHANGED <<deckglInit, stack, home, throttles>>

Init ==
  /\ deckglInit = Default
  /\ \E query \in Queries :
       /\ stack = <<Entry(query, NoViewport)>>
       /\ opened = Entry(query, NoViewport)
  /\ at = 1
  /\ mounted = FALSE
  /\ viewport = NoViewport
  /\ args = NoViewport
  /\ left = {}

Next ==
  \/ \E given \in ViewportProps, flat \in BOOLEAN : Mount(given, flat)
  \/ \E view \in Views : Move(view)
  \/ TimerExpires \/ Unmount \/ Reload \/ Back \/ Forward

Spec == Init /\ [][Next]_vars

-----------------------------------------------------------------------------
(* What holds.                                                              *)

\* However long the map is moved, and whatever the user does with the back
\* button in between, TGVE adds one entry to the history at most, and it
\* leaves no other entry than the one it was opened at without a query.
OneEntryAdded ==
  /\ Len(stack) <= 2
  /\ \A i \in 2..Len(stack) : stack[i].search # Empty

\* The map has not moved since Home was mounted.
fresh == mounted /\ viewport = NoViewport

\* Opened at an entry that TGVE wrote (by a reload, or by a host that mounts
\* Home again), the map is where it was when the entry was written, as far as
\* the URL keeps digits; a zoom of 0 excepted.
PlaceSurvivesReload ==
  fresh /\ opened.of # NoViewport =>
    \A key \in Place \union {"zoom"} :
      \/ deckglInit[key] - opened.of[key] \in {0, 1}
      \/ key = "zoom" /\ opened.of[key] = 0
=============================================================================

--------------------------- MODULE HistoryWrites ---------------------------
(***************************************************************************)
(* How often, and how promptly, Home writes the viewport into the browser  *)
(* history. Every move of the map calls _throttleUR, lodash's throttle     *)
(* around _updateHistory (leading and trailing), and _updateHistory has a  *)
(* gate of its own, state.lastViewPortChange. A viewport is represented by *)
(* the time of the move that produced it.                                  *)
(***************************************************************************)
EXTENDS Integers, FiniteSets

CONSTANTS
  Wait,         \* of the throttle: 300 ms
  Gate,         \* of _updateHistory: 1000 ms
  Late,         \* by how much a timer of the browser may be late
  Window,       \* of the browser's limit on history writes: 30 s
  Limit,        \* the number of writes that is too many in it: 100
  MaxTime       \* bound on the clock

ASSUME TimingAssumption ==
  /\ Wait \in Nat \ {0} /\ Gate \in Nat /\ Late \in Nat
  /\ Window \in Nat /\ Limit \in Nat \ {0} /\ MaxTime \in Nat
  /\ (Limit - 1) * (Gate + 1) >= Window

VARIABLES
  now,
  mounted,
  last,         \* state.lastViewPortChange
  moved,        \* the time of the last move, or Never
  timer,        \* the throttle's timer, when it is due
  args,         \* its lastArgs
  called,       \* its lastCallTime
  invoked,      \* its lastInvokeTime
  entry,        \* the viewport in the URL
  written,      \* when history was written
  gone          \* when Home was unmounted

throttle == <<timer, args, called, invoked>>
browser == <<last, entry, written>>
vars == <<now, mounted, last, moved, timer, args, called, invoked, entry,
          written, gone>>

Never == -1
Times == 0..MaxTime

TypeOK ==
  /\ now \in Times
  /\ mounted \in BOOLEAN
  /\ last \in Times
  /\ moved \in Times \union {Never} /\ gone \in Times \union {Never}
  /\ called \in Times \union {Never} /\ invoked \in Times \union {Never}
  /\ args \in Times \union {Never} /\ entry \in Times \union {Never}
  /\ timer \in Nat \union {Never}
  /\ written \subseteq Times

Init ==
  /\ now = 0
  /\ mounted = TRUE
  /\ last = 0
  /\ moved = Never
  /\ timer = Never /\ args = Never /\ called = Never /\ invoked = Never
  /\ entry = Never
  /\ written = {}
  /\ gone = Never

\* Mutant: the time of the write is not kept.
UpdateHistoryUngated(viewport) ==
  IF now - last > Gate
  THEN /\ written' = written \union {now}
       /\ entry' = viewport
       /\ UNCHANGED last
  ELSE UNCHANGED browser

\* _updateHistory. What an unmounted component sets is dropped.
UpdateHistory(viewport) ==
  IF now - last > Gate
  THEN /\ written' = written \union {now}
       /\ entry' = viewport
       /\ last' = IF mounted THEN now ELSE last
  ELSE UNCHANGED browser

\* Mutant: a debounce without maxWait, which waits for the map to rest.
ShouldInvokeAtRest == called = Never \/ now - called >= Wait

ShouldInvoke ==
  called = Never \/ now - called >= Wait \/ now - invoked >= Wait

\* A move of the map calls the throttled function, which invokes at once
\* (and starts its timer again) or keeps the arguments for the timer.
Move ==
  /\ mounted
  /\ moved' = now
  /\ called' = now
  /\ IF ShouldInvoke
     THEN /\ timer' = now + Wait
          /\ args' = Never
          /\ invoked' = now
          /\ UpdateHistory(now)
     ELSE /\ timer' = IF timer = Never THEN now + Wait ELSE timer
          /\ args' = now
          /\ UNCHANGED <<invoked, browser>>
  /\ UNCHANGED <<now, mounted, gone>>

RemainingWait ==
  IF now - called > now - invoked THEN Wait - (now - called)
  ELSE Wait - (now - invoked)

\* Mutant: the trailing call does not consume its arguments.
TimerExpiresAgain ==
  /\ timer # Never /\ now >= timer
  /\ IF args # Never
     THEN /\ timer' = now + Wait
          /\ invoked' = now
          /\ UpdateHistory(args)
     ELSE /\ timer' = Never
          /\ UNCHANGED <<invoked, browser>>
  /\ UNCHANGED <<now, mounted, moved, called, args, gone>>

TimerExpires ==
  /\ timer # Never /\ now >= timer
  /\ IF ShouldInvoke
     THEN /\ timer' = Never
          /\ args' = Never
          /\ IF args # Never
             THEN invoked' = now /\ UpdateHistory(args)
             ELSE UNCHANGED <<invoked, browser>>
     ELSE /\ timer' = now + RemainingWait
          /\ UNCHANGED <<args, invoked, browser>>
  /\ UNCHANGED <<now, mounted, moved, called, gone>>

\* componentWillUnmount does not cancel the throttle.
Unmount ==
  /\ mounted
  /\ mounted' = FALSE
  /\ gone' = now
  /\ UNCHANGED <<now, moved, throttle, browser>>

Tick ==
  /\ now < MaxTime
  /\ timer # Never => now < timer + Late
  /\ now' = now + 1
  /\ UNCHANGED <<mounted, moved, throttle, browser, gone>>

Next == Move \/ TimerExpires \/ Unmount \/ Tick

Spec == Init /\ [][Next]_vars

-----------------------------------------------------------------------------
\* The history writes of a window of time that begins at t.
Within(t) == {w \in written : t <= w /\ w < t + Window}

\* The browser is not flooded: "if we do history.replace/push 100 times in
\* less than 30 secs browser will crash" (_updateHistory).
FewWrites == \A t \in Times : Cardinality(Within(t)) < Limit

\* While the map moves, the viewport in the URL is never much older than the
\* one on the map: the gate and the throttle cannot, between them, starve the
\* history of writes. (What they may drop is the end of a gesture.)
URLKeepsUp ==
  moved # Never =>
    IF entry = Never THEN moved < Gate + Wait
    ELSE moved - entry < Gate + 2 * Wait + Late

\* After Home has been unmounted its throttle may still write the URL, which
\* is somebody else's by then: once, and within the wait of the throttle.
LeavesOnce ==
  /\ ~mounted => Cardinality({w \in written : w > gone}) <= 1
  /\ \A w \in written : ~mounted => w <= gone + Wait + Late
=============================================================================

------------------------ MODULE HistoryWrites_proofs ------------------------
(***************************************************************************)
(* The history of the browser is written neither too often nor too late,   *)
(* for all values of the two intervals, of the lateness of timers and of   *)
(* the browser's limit that satisfy TimingAssumption.                      *)
(***************************************************************************)
EXTENDS HistoryWrites, FiniteSetTheorems, TLAPS

\* Nothing lies in the future, and the throttle's fields go together.
ThrottleInv ==
  /\ last <= now /\ called <= now /\ invoked <= now /\ entry <= now
  /\ \A w \in written : w <= now
  /\ moved = called
  /\ called # Never => invoked # Never /\ called < invoked + Wait
  /\ timer # Never =>
       called # Never /\ timer <= called + Wait /\ now <= timer + Late
  /\ args # Never => timer # Never /\ args = called

\* The last invocation has either written or found the gate closed.
GateInv ==
  mounted =>
    /\ invoked <= last + Gate
    /\ IF entry = Never THEN last = 0 ELSE last <= entry + Wait + Late

\* As long as something can still be written, all that was is before `last`.
BeforeLast ==
  mounted \/ args # Never => \A w \in written : w <= last

\* The writes of a window are spread over it.
Spread ==
  \A t \in Times : Within(t) # {} =>
    \E w \in Within(t) :
      w >= t + (Cardinality(Within(t)) - 1) * (Gate + 1)

\* After unmounting, one write at most is left to the throttle.
GoneInv ==
  ~mounted =>
    /\ called <= gone
    /\ args # Never => \A w \in written : w <= gone
    /\ \A v, w \in written : v > gone /\ w > gone => v = w
    /\ \A w \in written : w <= gone + Wait + Late

IInv ==
  /\ TypeOK
  /\ ThrottleInv
  /\ GateInv
  /\ BeforeLast
  /\ Spread
  /\ URLKeepsUp
  /\ GoneInv

USE DEF Times, Never

-----------------------------------------------------------------------------
\* The linear part of TimingAssumption.
LEMMA Intervals ==
  /\ Wait \in Nat /\ Wait >= 1 /\ Gate \in Nat /\ Late \in Nat
  /\ Window \in Nat /\ MaxTime \in Nat
BY TimingAssumption

\* A window of writes is a finite set.
LEMMA WithinFinite ==
  ASSUME TypeOK, NEW t \in Times
  PROVE  IsFiniteSet(Within(t)) /\ Cardinality(Within(t)) \in Nat
<1>1. IsFiniteSet(0..MaxTime)
  BY FS_Interval, Intervals
<1>2. Within(t) \subseteq 0..MaxTime
  BY DEF Within, TypeOK
<1> QED BY <1>1, <1>2, FS_Subset, FS_CardinalityType

\* A step that leaves the clock's past as it was leaves the windows spread.
LEMMA SpreadStays ==
  ASSUME Spread, UNCHANGED written
  PROVE  Spread'
<1>1. \A t : Within(t)' = Within(t)
  BY DEF Within
<1> QED BY <1>1 DEF Spread

\* A write that comes later than Gate after all others keeps windows spread.
LEMMA SpreadGrows ==
  ASSUME TypeOK, Spread, NEW first \in Times, now - first > Gate,
         \A w \in written : w <= first,
         written' = written \union {now}
  PROVE  Spread'
<1> SUFFICES ASSUME NEW t \in Times, Within(t)' # {}
             PROVE  \E w \in Within(t)' :
                      w >= t + (Cardinality(Within(t)') - 1) * (Gate + 1)
  BY DEF Spread
<1>1. now \in Int /\ t \in Int /\ Gate \in Nat /\ Window \in Nat
  BY Intervals DEF TypeOK
<1>2. CASE now >= t /\ now < t + Window
  <2>1. Within(t)' = Within(t) \union {now}
    BY <1>1, <1>2 DEF Within
  <2>2. now \notin Within(t)
    BY <1>1, Intervals DEF Within, TypeOK
  <2>3. IsFiniteSet(Within(t)) /\ Cardinality(Within(t)) \in Nat
    BY WithinFinite
  <2>4. Cardinality(Within(t)') = Cardinality(Within(t)) + 1
    BY <2>1, <2>2, <2>3, FS_AddElement
  <2>5. CASE Within(t) = {}
    <3>1. Cardinality(Within(t)) = 0
      BY <2>5, FS_EmptySet
    <3>2. (Cardinality(Within(t)') - 1) * (Gate + 1) = 0
      BY <3>1, <2>4, <1>1
    <3> QED BY <3>2, <2>1, <1>1, <1>2
  <2>6. CASE Within(t) # {}
    <3>1. PICK w \in Within(t) :
            w >= t + (Cardinality(Within(t)) - 1) * (Gate + 1)
      BY <2>6 DEF Spread
    <3>2. w \in Int /\ now >= w + (Gate + 1)
      BY <1>1 DEF Within, TypeOK
    <3> DEFINE n == Cardinality(Within(t))
    <3>3. n * (Gate + 1) = (n - 1) * (Gate + 1) + (Gate + 1)
      BY <2>3, <1>1
    <3>4. now >= t + n * (Gate + 1)
      BY <3>1, <3>2, <3>3, <2>3, <1>1
    <3>5. Cardinality(Within(t)') - 1 = n
      BY <2>4, <2>3
    <3> QED BY <3>4, <3>5, <2>1
  <2> QED BY <2>5, <2>6
<1>3. CASE ~(now >= t /\ now < t + Window)
  <2>1. Within(t)' = Within(t)
    BY <1>1, <1>3 DEF Within
  <2> QED BY <2>1 DEF Spread
<1> QED BY <1>2, <1>3

\* Nothing of the browser's side lies in the future.
Past ==
  /\ last \in Times /\ last <= now
  /\ entry \in Times \union {Never} /\ entry <= now
  /\ written \subseteq Times /\ \A w \in written : w <= now

\* What _updateHistory does, called while something may still be written.
LEMMA UpdateHistoryKeeps ==
  ASSUME IInv, NEW viewport \in Times, viewport <= now,
         UpdateHistory(viewport), mounted \/ args # Never, now' = now
  PROVE  /\ Spread' /\ Past'
         /\ \/ /\ now - last > Gate
               /\ written' = written \union {now} /\ entry' = viewport
               /\ last' = IF mounted THEN now ELSE last
            \/ /\ now - last <= Gate
               /\ last' = last /\ entry' = entry /\ written' = written
<1>1. last \in Times /\ now \in Times /\ Gate \in Nat /\ Past
  BY Intervals DEF IInv, TypeOK, ThrottleInv, Past
<1>2. CASE now - last > Gate
  <2>1. /\ written' = written \union {now} /\ entry' = viewport
        /\ last' = IF mounted THEN now ELSE last
    BY <1>2 DEF UpdateHistory
  <2>2. Spread'
    BY <2>1, <1>1, <1>2, SpreadGrows DEF IInv, BeforeLast
  <2>3. Past'
    BY <2>1, <1>1 DEF Past
  <2> QED BY <2>1, <2>2, <2>3, <1>2
<1>3. CASE ~(now - last > Gate)
  <2>1. last' = last /\ entry' = entry /\ written' = written
    BY <1>3 DEF UpdateHistory, browser
  <2>2. Spread'
    BY <2>1, SpreadStays DEF IInv
  <2>3. Past'
    BY <2>1, <1>1 DEF Past
  <2> QED BY <2>1, <2>2, <2>3, <1>1, <1>3
<1> QED BY <1>2, <1>3

-----------------------------------------------------------------------------
\* The constructor establishes the invariant.
LEMMA InitIInv == Init => IInv
<1> SUFFICES ASSUME Init PROVE IInv
  OBVIOUS
<1>1. TypeOK /\ ThrottleInv /\ GateInv /\ BeforeLast /\ URLKeepsUp /\ GoneInv
  BY Intervals
  DEF Init, TypeOK, ThrottleInv, GateInv, BeforeLast, URLKeepsUp, GoneInv
<1>2. Spread
  BY DEF Init, Spread, Within
<1> QED BY <1>1, <1>2 DEF IInv

\* A move that the throttle lets through keeps the invariant.
LEMMA LeadingIInv == IInv /\ Move /\ ShouldInvoke => IInv'
<1> SUFFICES ASSUME IInv, Move, ShouldInvoke PROVE IInv'
  OBVIOUS
<1> USE Intervals
<1>1. /\ UpdateHistory(now) /\ now \in Times /\ mounted
      /\ moved' = now /\ called' = now /\ timer' = now + Wait
      /\ args' = Never /\ invoked' = now
      /\ now' = now /\ mounted' = mounted /\ gone' = gone
  BY DEF Move, IInv, TypeOK
<1>2. /\ Spread' /\ Past'
      /\ \/ /\ now - last > Gate
            /\ written' = written \union {now} /\ entry' = now /\ last' = now
         \/ /\ now - last <= Gate
            /\ last' = last /\ entry' = entry /\ written' = written
  BY <1>1, UpdateHistoryKeeps
<1>3. TypeOK'
  BY <1>1, <1>2 DEF IInv, TypeOK, Past
<1>4. ThrottleInv'
  BY <1>1, <1>2 DEF ThrottleInv, Past
<1>5. GateInv' /\ URLKeepsUp'
  <2>1. GateInv /\ last \in Times /\ entry \in Times \union {Never}
    BY DEF IInv, TypeOK
  <2>2. CASE entry' = now /\ last' = now
    BY <2>2, <1>1 DEF GateInv, URLKeepsUp
  <2>3. CASE now - last <= Gate /\ last' = last /\ entry' = entry
    <3>1. IF entry = Never THEN last = 0 ELSE last <= entry + Wait + Late
      BY <2>1, <1>1 DEF GateInv
    <3>2. GateInv'
      BY <2>1, <2>3, <3>1, <1>1 DEF GateInv
    <3>3. URLKeepsUp'
      BY <2>1, <2>3, <3>1, <1>1 DEF URLKeepsUp
    <3> QED BY <3>2, <3>3
  <2> QED BY <2>2, <2>3, <1>2
<1>6. BeforeLast'
  <2>1. BeforeLast
    BY DEF IInv
  <2> QED BY <2>1, <1>1, <1>2 DEF BeforeLast, Past
<1>7. GoneInv'
  BY <1>1 DEF GoneInv
<1> QED BY <1>2, <1>3, <1>4, <1>5, <1>6, <1>7 DEF IInv

\* A move that the throttle keeps for later keeps the invariant.
LEMMA KeptIInv == IInv /\ Move /\ ~ShouldInvoke => IInv'
<1> SUFFICES ASSUME IInv, Move, ~ShouldInvoke PROVE IInv'
  OBVIOUS
<1> USE Intervals
<1>1. /\ moved' = now /\ called' = now /\ args' = now
      /\ timer' = IF timer = Never THEN now + Wait ELSE timer
      /\ now' = now /\ mounted' = mounted /\ gone' = gone
      /\ invoked' = invoked /\ last' = last /\ entry' = entry
      /\ written' = written /\ mounted
  BY DEF Move, browser
<1>2. called # Never /\ now < called + Wait /\ now < invoked + Wait
  BY DEF ShouldInvoke, IInv, TypeOK
<1>3. Spread'
  BY <1>1, SpreadStays DEF IInv
<1>4. TypeOK'
  BY <1>1 DEF IInv, TypeOK
<1>5. ThrottleInv'
  BY <1>1, <1>2 DEF IInv, TypeOK, ThrottleInv
<1>6. GateInv'
  BY <1>1 DEF IInv, GateInv
<1>7. BeforeLast' /\ GoneInv'
  BY <1>1 DEF IInv, BeforeLast, GoneInv
<1>8. URLKeepsUp'
  <2>1. /\ GateInv /\ last \in Times /\ entry \in Times \union {Never}
        /\ now \in Times /\ invoked \in Times \union {Never}
    BY DEF IInv, TypeOK
  <2> QED BY <2>1, <1>1, <1>2 DEF GateInv, URLKeepsUp
<1> QED BY <1>3, <1>4, <1>5, <1>6, <1>7, <1>8 DEF IInv

\* A move of the map keeps the invariant.
LEMMA MoveIInv == IInv /\ Move => IInv'
BY LeadingIInv, KeptIInv

\* A timer that invokes _updateHistory keeps the invariant.
LEMMA TrailingIInv ==
  IInv /\ TimerExpires /\ ShouldInvoke /\ args # Never => IInv'
<1> SUFFICES ASSUME IInv, TimerExpires, ShouldInvoke, args # Never
             PROVE  IInv'
  OBVIOUS
<1> USE Intervals
<1>1. /\ UpdateHistory(args) /\ args \in Times
      /\ timer' = Never /\ args' = Never /\ invoked' = now
      /\ now' = now /\ mounted' = mounted /\ moved' = moved
      /\ called' = called /\ gone' = gone
  BY DEF TimerExpires, IInv, TypeOK
<1>2. /\ args = called /\ moved = called /\ called # Never
      /\ now <= called + Wait + Late /\ called < now + 1
      /\ now \in Times /\ called \in Times
  BY DEF IInv, TypeOK, ThrottleInv
<1>3. /\ Spread' /\ Past'
      /\ \/ /\ now - last > Gate
            /\ written' = written \union {now} /\ entry' = args
            /\ last' = IF mounted THEN now ELSE last
         \/ /\ now - last <= Gate
            /\ last' = last /\ entry' = entry /\ written' = written
  BY <1>1, <1>2, UpdateHistoryKeeps
<1>4. TypeOK'
  BY <1>1, <1>3 DEF IInv, TypeOK, Past
<1>5. ThrottleInv'
  BY <1>1, <1>2, <1>3 DEF ThrottleInv, Past
<1>6. GateInv' /\ URLKeepsUp'
  <2>1. /\ GateInv /\ URLKeepsUp
        /\ last \in Times /\ entry \in Times \union {Never}
    BY DEF IInv, TypeOK
  <2> QED BY <2>1, <1>1, <1>2, <1>3 DEF GateInv, URLKeepsUp
<1>7. BeforeLast'
  <2>1. \A w \in written : w <= last
    BY DEF IInv, BeforeLast
  <2>2. CASE mounted
    <3>1. last' = now \/ (last' = last /\ written' = written)
      BY <2>2, <1>3
    <3> QED BY <2>1, <3>1, <1>1, <1>3 DEF BeforeLast, Past
  <2>3. CASE ~mounted
    BY <2>3, <1>1 DEF BeforeLast
  <2> QED BY <2>2, <2>3
<1>8. GoneInv'
  <2>1. GoneInv /\ gone \in Times \union {Never} /\ written \subseteq Times
    BY DEF IInv, TypeOK
  <2>2. written' = written \/ written' = written \union {now}
    BY <1>3
  <2>3. CASE ~mounted
    <3>1. /\ called <= gone /\ \A w \in written : w <= gone
          /\ \A w \in written : w <= gone + Wait + Late
      BY <2>1, <2>3 DEF GoneInv
    <3>2. now <= gone + Wait + Late
      BY <3>1, <2>1, <1>2
    <3>3. \A v, w \in written' : v > gone /\ w > gone => v = w
      <4>1. \A w \in written' : w = now \/ w <= gone
        BY <3>1, <2>2
      <4>2. gone \in Int /\ \A w \in written' : w \in Int
        <5>1. gone \in Int /\ now \in Int
          BY <2>1, <1>2
        <5>2. \A w \in written : w \in Int
          BY <2>1
        <5> QED BY <5>1, <5>2, <2>2
      <4> QED BY <4>1, <4>2
    <3>4. \A w \in written' : w <= gone + Wait + Late
      BY <3>1, <3>2, <2>2
    <3> QED BY <3>1, <3>3, <3>4, <1>1 DEF GoneInv
  <2>4. CASE mounted
    BY <2>4, <1>1 DEF GoneInv
  <2> QED BY <2>3, <2>4
<1> QED BY <1>3, <1>4, <1>5, <1>6, <1>7, <1>8 DEF IInv

\* A timer that finds nothing to invoke, or comes too early, keeps it too.
LEMMA IdleIInv ==
  IInv /\ TimerExpires /\ ~(ShouldInvoke /\ args # Never) => IInv'
<1> SUFFICES ASSUME IInv, TimerExpires, ~(ShouldInvoke /\ args # Never)
             PROVE  IInv'
  OBVIOUS
<1> USE Intervals
<1>1. /\ now' = now /\ mounted' = mounted /\ moved' = moved
      /\ called' = called /\ invoked' = invoked /\ last' = last
      /\ entry' = entry /\ written' = written /\ gone' = gone
      /\ \/ timer' = Never /\ args' = Never
         \/ ~ShouldInvoke /\ timer' = now + RemainingWait /\ args' = args
  BY DEF TimerExpires, browser
<1>2. /\ called # Never /\ invoked # Never
      /\ now \in Times /\ called \in Times /\ invoked \in Times
  BY DEF TimerExpires, IInv, ThrottleInv, TypeOK
<1>3. Spread'
  BY <1>1, SpreadStays DEF IInv
<1>4. \/ timer' = Never
      \/ timer' \in Nat /\ timer' <= called + Wait /\ now <= timer' + Late
  <2>1. CASE ~ShouldInvoke /\ timer' = now + RemainingWait
    <3>1. now - called < Wait /\ now - invoked < Wait
      BY <2>1, <1>2 DEF ShouldInvoke
    <3> QED BY <2>1, <3>1, <1>2 DEF RemainingWait
  <2> QED BY <2>1, <1>1
<1>5. TypeOK'
  BY <1>1, <1>4 DEF IInv, TypeOK
<1>6. ThrottleInv'
  <2>1. ThrottleInv /\ timer # Never
    BY DEF IInv, TimerExpires
  <2>2. args' # Never => timer' # Never
    <3>1. ~ShouldInvoke => now - called < Wait /\ now - invoked < Wait
      BY <1>2 DEF ShouldInvoke
    <3> QED BY <3>1, <1>1, <1>2 DEF RemainingWait
  <2> QED BY <2>1, <2>2, <1>1, <1>2, <1>4 DEF ThrottleInv
<1>7. GateInv' /\ URLKeepsUp'
  BY <1>1 DEF IInv, GateInv, URLKeepsUp
<1>8. BeforeLast' /\ GoneInv'
  BY <1>1 DEF IInv, BeforeLast, GoneInv
<1> QED BY <1>3, <1>5, <1>6, <1>7, <1>8 DEF IInv

\* A timer of the throttle keeps the invariant.
LEMMA TimerExpiresIInv == IInv /\ TimerExpires => IInv'
BY TrailingIInv, IdleIInv

\* Unmounting, which leaves the throttle running, keeps the invariant.
LEMMA UnmountIInv == IInv /\ Unmount => IInv'
<1> SUFFICES ASSUME IInv, Unmount PROVE IInv'
  OBVIOUS
<1> USE Intervals
<1>1. /\ mounted /\ mounted' \in BOOLEAN /\ ~mounted' /\ gone' = now
      /\ now' = now /\ moved' = moved /\ timer' = timer /\ args' = args
      /\ called' = called /\ invoked' = invoked /\ last' = last
      /\ entry' = entry /\ written' = written
  BY DEF Unmount, throttle, browser
<1>2. Spread'
  BY <1>1, SpreadStays DEF IInv
<1>3. TypeOK' /\ ThrottleInv'
  BY <1>1 DEF IInv, TypeOK, ThrottleInv
<1>4. GateInv' /\ BeforeLast' /\ URLKeepsUp'
  BY <1>1 DEF IInv, GateInv, BeforeLast, URLKeepsUp
<1>5. GoneInv'
  BY <1>1 DEF IInv, TypeOK, ThrottleInv, GoneInv
<1> QED BY <1>2, <1>3, <1>4, <1>5 DEF IInv

\* The passing of time keeps the invariant.
LEMMA TickIInv == IInv /\ Tick => IInv'
<1> SUFFICES ASSUME IInv, Tick PROVE IInv'
  OBVIOUS
<1> USE Intervals
<1>1. /\ now' = now + 1 /\ now < MaxTime
      /\ timer # Never => now < timer + Late
      /\ mounted' = mounted /\ gone' = gone /\ moved' = moved
      /\ timer' = timer /\ args' = args /\ called' = called
      /\ invoked' = invoked /\ last' = last /\ entry' = entry
      /\ written' = written
  BY DEF Tick, throttle, browser
<1>2. Spread'
  BY <1>1, SpreadStays DEF IInv
<1>3. TypeOK'
  BY <1>1 DEF IInv, TypeOK
<1>5. ThrottleInv'
  BY <1>1 DEF IInv, TypeOK, ThrottleInv
<1>4. GateInv' /\ BeforeLast' /\ URLKeepsUp' /\ GoneInv'
  BY <1>1 DEF IInv, GateInv, BeforeLast, URLKeepsUp, GoneInv
<1> QED BY <1>2, <1>3, <1>4, <1>5 DEF IInv

\* No step breaks the invariant.
LEMMA NextIInv == IInv /\ [Next]_vars => IInv'
<1> SUFFICES ASSUME IInv, UNCHANGED vars PROVE IInv'
  BY MoveIInv, TimerExpiresIInv, UnmountIInv, TickIInv DEF Next
<1>1. Spread'
  BY SpreadStays DEF IInv, vars
<1> QED
  BY <1>1
  DEF IInv, vars, TypeOK, ThrottleInv, GateInv, BeforeLast, URLKeepsUp, GoneInv

\* The invariant holds throughout.
THEOREM Invariance == Spec => []IInv
BY InitIInv, NextIInv, PTL DEF Spec

\* The types hold: no timer is due, and nothing written, outside of the times.
THEOREM TypeCorrect == Spec => []TypeOK
<1>1. IInv => TypeOK
  BY DEF IInv
<1> QED BY <1>1, Invariance, PTL

-----------------------------------------------------------------------------
\* The browser never sees too many history writes in a window of time: 100
\* in 30 s, with the gate of _updateHistory.
THEOREM NotFlooded == Spec => []FewWrites
<1>1. IInv => FewWrites
  <2> SUFFICES ASSUME IInv, NEW t \in Times, Cardinality(Within(t)) >= Limit
               PROVE  FALSE
    BY WithinFinite, TimingAssumption DEF FewWrites, IInv
  <2> DEFINE n == Cardinality(Within(t))
  <2>1. n \in Nat /\ n >= 1 /\ Limit \in Nat /\ Gate \in Nat /\ Window \in Nat
    BY WithinFinite, TimingAssumption DEF IInv
  <2>2. Within(t) # {}
    BY <2>1, FS_EmptySet
  <2>3. PICK w \in Within(t) : w >= t + (n - 1) * (Gate + 1)
    BY <2>2 DEF IInv, Spread
  <2>4. (n - 1) * (Gate + 1) >= (Limit - 1) * (Gate + 1)
    BY <2>1
  <2>5. (n - 1) * (Gate + 1) >= Window
    BY <2>1, <2>4, TimingAssumption
  <2> HIDE DEF n
  <2>6. w \in Int /\ w < t + Window /\ (n - 1) * (Gate + 1) \in Int
    BY <2>1 DEF Within, IInv, TypeOK
  <2> QED BY <2>1, <2>3, <2>5, <2>6
<1> QED BY <1>1, Invariance, PTL

\* The viewport in the URL is never far behind the map that is moving.
THEOREM URLFollowsMap == Spec => []URLKeepsUp
<1>1. IInv => URLKeepsUp
  BY DEF IInv
<1> QED BY <1>1, Invariance, PTL

\* After unmounting, the URL is written at most once more, and soon.
THEOREM LastWrite == Spec => []LeavesOnce
<1>1. IInv => LeavesOnce
  <2> SUFFICES ASSUME IInv, ~mounted PROVE LeavesOnce
    BY DEF LeavesOnce
  <2> DEFINE S == {w \in written : w > gone}
  <2>1. S = {} \/ \E w : S = {w}
    BY DEF IInv, GoneInv
  <2>2. Cardinality(S) <= 1
    <3>1. S = {} => Cardinality(S) = 0
      BY FS_EmptySet
    <3>2. (\E w : S = {w}) => Cardinality(S) = 1
      BY FS_Singleton
    <3> HIDE DEF S
    <3> QED BY <2>1, <3>1, <3>2
  <2> QED BY <2>2 DEF LeavesOnce, IInv, GoneInv
<1> QED BY <1>1, Invariance, PTL
=============================================================================

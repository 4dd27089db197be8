--------------------------- MODULE Preview_proofs ---------------------------
(***************************************************************************)
(* Proofs about Preview, for any number of screenshots and of links.       *)
(***************************************************************************)
EXTENDS Preview, TLAPS, FiniteSetTheorems

\* The numbers of screenshots are those of screenshots begun, and the writes
\* to the clipboard those of links copied.
NumberInv ==
  /\ copying <= copies
  /\ \A id \in unanswered : id <= taken
  /\ \A s \in shots : s.id <= taken

\* Unless one was overtaken, this Preview has one screenshot in flight at
\* most, of the choice made now.
InFlight == {s \in shots : s.id \in unanswered}
FlightInv ==
  ~overtaken => \A s, t \in InFlight : s = t /\ s.body = ~noSidebar

IInv ==
  /\ TypeOK /\ NumberInv /\ FlightInv /\ LoadingIsParity /\ ImageOfChoice

-----------------------------------------------------------------------------
\* TypeOK in two parts: the plain values, and those made of screenshots.
Plain ==
  /\ notEmpty \in BOOLEAN /\ popover \in BOOLEAN
  /\ copying \in 0..MaxCopies /\ copies \in 0..MaxCopies
  /\ notification \in BOOLEAN
  /\ isOpen \in BOOLEAN /\ loading \in BOOLEAN /\ noSidebar \in BOOLEAN
  /\ ready \in BOOLEAN
  /\ taken \in 0..MaxShots /\ overtaken \in BOOLEAN
  /\ popover => notEmpty
ShotsOK ==
  /\ image \in Shots \union {None}
  /\ shots \subseteq [id : 1..MaxShots, body : {TRUE}]
  /\ unanswered \subseteq 1..MaxShots

LEMMA TypeParts == TypeOK <=> Plain /\ ShotsOK
BY Zenon DEF TypeOK, Plain, ShotsOK

LEMMA ShotFacts == ASSUME NEW s \in Shots PROVE s # None /\ s.id \in 1..MaxShots
BY PreviewAssumption, NoneAssumption DEF Shots

\* The parity of a set of numbers, and of one with one more or less.
LEMMA Parity ==
  ASSUME NEW S \in SUBSET (1..MaxShots), NEW x
  PROVE  /\ Cardinality(S) \in Nat
         /\ x \notin S => Cardinality(S \union {x}) = Cardinality(S) + 1
         /\ x \in S => Cardinality(S) = Cardinality(S \ {x}) + 1
                       /\ Cardinality(S \ {x}) \in Nat
<1>1. IsFiniteSet(S)
  <2>1. IsFiniteSet(1..MaxShots)
    BY PreviewAssumption, FS_Interval
  <2> QED BY <2>1, FS_Subset
<1>2. Cardinality(S) \in Nat
  BY <1>1, FS_CardinalityType
<1>3. x \notin S => Cardinality(S \union {x}) = Cardinality(S) + 1
  BY <1>1, FS_AddElement
<1>4. IsFiniteSet(S \ {x}) /\ Cardinality(S \ {x}) \in Nat
  BY <1>1, FS_Subset, FS_CardinalityType
<1>5. x \in S => Cardinality(S) = Cardinality(S \ {x}) + 1
  BY <1>1, <1>2, FS_RemoveElement
<1> QED BY <1>2, <1>3, <1>4, <1>5

LEMMA Odd == ASSUME NEW n \in Nat PROVE (n + 1) % 2 = 1 <=> ~(n % 2 = 1)
OBVIOUS

\* A screenshot begun by a dialog that is open, with the choice `bare`.
LEMMA ScreenshotKeeps ==
  ASSUME IInv, NEW bare \in BOOLEAN, Screenshot(bare), noSidebar' = bare,
         UNCHANGED <<export, ready>>, isOpen' = TRUE
  PROVE  IInv'
<1> DEFINE begun == [id |-> taken + 1, body |-> ~bare]
           now == ready /\ bare
<1>1. /\ taken \in 0..MaxShots /\ MaxShots \in Nat /\ taken < MaxShots
      /\ unanswered \in SUBSET (1..MaxShots) /\ loading \in BOOLEAN
      /\ taken + 1 \notin unanswered /\ overtaken \in BOOLEAN
      /\ shots \subseteq [id : 1..MaxShots, body : {TRUE}]
      /\ ready \in BOOLEAN /\ \A s \in shots : s.id <= taken
  <2>1. Plain /\ ShotsOK /\ NumberInv
    BY TypeParts DEF IInv
  <2>2. taken < MaxShots
    BY DEF Screenshot
  <2>3. taken + 1 \notin unanswered /\ \A s \in shots : s.id <= taken
    BY PreviewAssumption, <2>1 DEF Plain, ShotsOK, NumberInv
  <2> QED BY PreviewAssumption, <2>1, <2>2, <2>3 DEF Plain, ShotsOK
<1>2. begun \in Shots /\ begun.id = taken + 1 /\ begun.body = ~bare
  BY <1>1 DEF Shots
<1>3. /\ taken' = taken + 1
      /\ loading' = IF now THEN loading ELSE ~loading
      /\ image' = IF now THEN begun ELSE image
      /\ shots' = IF ready /\ ~bare THEN shots \union {begun} ELSE shots
      /\ unanswered' = IF now THEN unanswered ELSE unanswered \union {taken + 1}
      /\ overtaken' = (overtaken \/ \E s \in shots : s.id \in unanswered)
  BY <1>1, <1>2 DEF Screenshot, Effect
<1>4. TypeOK'
  <2>1. shots' \subseteq [id : 1..MaxShots, body : {TRUE}]
    <3>1. ~bare => begun \in [id : 1..MaxShots, body : {TRUE}]
      <4> HAVE ~bare
      <4>1. begun = [id |-> taken + 1, body |-> TRUE]
        OBVIOUS
      <4>2. taken + 1 \in 1..MaxShots
        BY <1>1
      <4> QED BY <4>1, <4>2
    <3> QED BY <1>1, <1>3, <3>1
  <2>2. image' \in Shots \union {None}
    BY <1>2, <1>3, TypeParts DEF IInv, ShotsOK
  <2>3. unanswered' \subseteq 1..MaxShots /\ taken' \in 0..MaxShots
    BY <1>1, <1>3
  <2>4. loading' \in BOOLEAN /\ overtaken' \in BOOLEAN
    BY <1>1, <1>3
  <2>5. Plain' /\ ShotsOK'
    <3>1. Plain
      BY TypeParts DEF IInv
    <3> QED BY <3>1, <2>1, <2>2, <2>3, <2>4 DEF Plain, ShotsOK, export
  <2> QED BY <2>5, TypeParts, PTL
<1>5. NumberInv'
  <2>1. NumberInv
    BY DEF IInv
  <2>2. \A id \in unanswered' : id <= taken'
    BY <1>1, <1>3, <2>1 DEF NumberInv
  <2>3. \A s \in shots' : s.id <= taken'
    <3>1. \A s \in shots : s.id \in 1..MaxShots
      BY <1>1
    <3> QED BY <1>1, <1>2, <1>3, <3>1
  <2> QED BY <2>1, <2>2, <2>3 DEF NumberInv, export
<1>6. FlightInv'
  <2> SUFFICES ASSUME ~overtaken' PROVE \A s, t \in InFlight' : s = t /\ s.body = ~noSidebar'
    BY DEF FlightInv
  <2>1. InFlight = {}
    BY <1>3 DEF InFlight
  <2>2. \A s \in shots : s.id # taken + 1
    BY <1>1 DEF IInv, NumberInv
  <2>3. \A s \in InFlight' : s = begun
    BY <1>3, <2>1, <2>2 DEF InFlight
  <2> QED BY <1>2, <2>3
<1>7. LoadingIsParity'
  <2>1. CASE now
    BY <1>3, <2>1 DEF IInv, LoadingIsParity
  <2>2. CASE ~now
    <3>1. Cardinality(unanswered') = Cardinality(unanswered) + 1
          /\ Cardinality(unanswered) \in Nat
      BY <1>1, <1>3, <2>2, Parity
    <3>2. loading' <=> ~loading
      BY <1>3, <2>2
    <3> QED BY <3>1, <3>2, Odd DEF IInv, LoadingIsParity
  <2> QED BY <2>1, <2>2
<1>8. ImageOfChoice'
  <2> SUFFICES ASSUME unanswered' = {} PROVE image' # None /\ image'.body = ~noSidebar'
    BY DEF ImageOfChoice, AtRest
  <2>1. now
    BY <1>3
  <2>2. image' = begun
    BY <1>3, <2>1
  <2>3. begun # None
    BY <1>2, ShotFacts
  <2> QED BY <1>2, <2>2, <2>3
<1> QED BY <1>4, <1>5, <1>6, <1>7, <1>8 DEF IInv

\* A late answer to this Preview, or to one that is gone.
LEMMA DrawnKeeps ==
  ASSUME IInv, Drawn
  PROVE  IInv'
<1> PICK shot \in shots :
      /\ shots' = shots \ {shot} /\ Answer(shot) /\ UNCHANGED <<export, ready, taken>>
  BY DEF Drawn
<1>1. /\ shot \in Shots /\ shot \in [id : 1..MaxShots, body : {TRUE}]
      /\ unanswered \in SUBSET (1..MaxShots) /\ loading \in BOOLEAN
  BY DEF IInv, TypeOK, Shots
<1>2. CASE shot.id \notin unanswered
  <2>1. UNCHANGED <<preview, observed>>
    BY <1>2 DEF Answer
  <2>2. TypeOK' /\ NumberInv'
    BY <2>1 DEF IInv, TypeOK, NumberInv, preview, observed, export
  <2>3. FlightInv'
    BY <2>1 DEF IInv, FlightInv, InFlight, preview, observed
  <2>4. LoadingIsParity' /\ ImageOfChoice'
    BY <2>1 DEF IInv, LoadingIsParity, ImageOfChoice, AtRest, preview, observed
  <2> QED BY <2>2, <2>3, <2>4 DEF IInv
<1>3. CASE shot.id \in unanswered
  <2>1. /\ image' = shot /\ loading' = ~loading
        /\ unanswered' = unanswered \ {shot.id}
        /\ UNCHANGED <<isOpen, noSidebar, overtaken>>
    BY <1>3 DEF Answer
  <2>2. TypeOK' /\ NumberInv'
    BY <1>1, <2>1 DEF IInv, TypeOK, NumberInv, export
  <2>3. FlightInv'
    BY <2>1 DEF IInv, FlightInv, InFlight
  <2>4. LoadingIsParity'
    <3>1. Cardinality(unanswered) = Cardinality(unanswered') + 1
          /\ Cardinality(unanswered') \in Nat
      BY <1>1, <1>3, <2>1, Parity
    <3>2. loading' <=> ~loading
      BY <2>1
    <3> QED BY <3>1, <3>2, Odd DEF IInv, LoadingIsParity
  <2>5. ImageOfChoice'
    <3> SUFFICES ASSUME ~overtaken' PROVE image' # None /\ image'.body = ~noSidebar'
      BY DEF ImageOfChoice, AtRest
    <3>1. shot \in InFlight
      BY <1>3 DEF InFlight
    <3>2. shot.body = ~noSidebar
      BY <2>1, <3>1 DEF IInv, FlightInv
    <3>3. shot # None
      BY <1>1, ShotFacts
    <3> QED BY <2>1, <3>2, <3>3
  <2> QED BY <2>2, <2>3, <2>4, <2>5 DEF IInv
<1> QED BY <1>2, <1>3

\* The state of a Preview that is gone: that of a new one.
LEMMA UnmountKeeps ==
  ASSUME IInv, Unmount, shots' \subseteq shots, taken' = taken, ready' = ready,
         notEmpty' \in BOOLEAN, popover' \in BOOLEAN, popover' => notEmpty',
         copying' \in 0..copies', copies' = copies, notification' \in BOOLEAN
  PROVE  IInv'
<1>1. TypeOK' /\ NumberInv'
  <2>1. Plain /\ ShotsOK /\ NumberInv
    BY TypeParts DEF IInv
  <2>2. Plain'
    <3>1. copying' \in 0..MaxCopies /\ copies' \in 0..MaxCopies
      BY <2>1, PreviewAssumption DEF Plain
    <3> QED BY <2>1, <3>1, Zenon DEF Plain, Unmount
  <2>3. ShotsOK'
    BY <2>1 DEF ShotsOK, Unmount
  <2>4. NumberInv'
    BY <2>1, <2>2 DEF NumberInv, Plain, Unmount
  <2> QED BY <2>2, <2>3, <2>4, TypeParts, PTL
<1>2. FlightInv' /\ ImageOfChoice'
  BY DEF FlightInv, InFlight, ImageOfChoice, AtRest, Unmount
<1>3. LoadingIsParity'
  BY FS_EmptySet DEF LoadingIsParity, Unmount
<1> QED BY <1>1, <1>2, <1>3 DEF IInv

\* A step of Export, or one that begins and answers no screenshot.
LEMMA ApartKeeps ==
  ASSUME IInv, shots' \subseteq shots, UNCHANGED <<observed, image, loading, noSidebar>>,
         isOpen' \in BOOLEAN, isOpen' => isOpen, taken' = taken, ready' = ready,
         notEmpty' \in BOOLEAN, popover' \in BOOLEAN, popover' => notEmpty',
         copying' \in 0..copies', copies' \in 0..MaxCopies, notification' \in BOOLEAN
  PROVE  IInv'
<1>1. TypeOK' /\ NumberInv'
  <2>1. Plain /\ ShotsOK /\ NumberInv
    BY TypeParts DEF IInv
  <2>2. Plain'
    BY <2>1, PreviewAssumption DEF Plain, observed
  <2>3. ShotsOK'
    BY <2>1 DEF ShotsOK, observed
  <2>4. NumberInv'
    BY <2>1, <2>2 DEF NumberInv, Plain, observed
  <2> QED BY <2>2, <2>3, <2>4, TypeParts, PTL
<1>2. FlightInv'
  BY DEF IInv, FlightInv, InFlight, observed
<1>3. LoadingIsParity' /\ ImageOfChoice'
  BY DEF IInv, LoadingIsParity, ImageOfChoice, AtRest, observed
<1> QED BY <1>1, <1>2, <1>3 DEF IInv

-----------------------------------------------------------------------------
LEMMA InitInv == Init => IInv
<1> SUFFICES ASSUME Init PROVE IInv
  OBVIOUS
<1>1. TypeOK /\ NumberInv
  <2>1. ShotsOK
    BY DEF Init, ShotsOK
  <2>2. Plain
    <3>1. 0 \in 0..MaxCopies /\ 0 \in 0..MaxShots
      BY PreviewAssumption
    <3> QED BY <3>1, Zenon DEF Init, Plain
  <2>3. NumberInv
    BY DEF Init, NumberInv
  <2> QED BY <2>1, <2>2, <2>3, TypeParts
<1>2. FlightInv /\ ImageOfChoice
  BY DEF Init, FlightInv, InFlight, ImageOfChoice, AtRest
<1>3. LoadingIsParity
  BY FS_EmptySet DEF Init, LoadingIsParity
<1> QED BY <1>1, <1>2, <1>3 DEF IInv

LEMMA NextInv == IInv /\ [Next]_vars => IInv'
<1> SUFFICES ASSUME IInv, [Next]_vars PROVE IInv'
  OBVIOUS
<1>0. Plain /\ copying \in 0..copies /\ copies \in 0..MaxCopies
  <2>1. Plain /\ NumberInv
    BY TypeParts DEF IInv
  <2> QED BY <2>1, PreviewAssumption DEF Plain, NumberInv
<1>1. CASE Save
  <2>1. CASE isOpen
    BY <1>0, <1>1, <2>1, ApartKeeps, Zenon DEF Save, Plain, export, observed
  <2>2. CASE ~isOpen
    BY <1>0, <1>1, <2>2, ScreenshotKeeps, Zenon DEF Save, Plain
  <2> QED BY <2>1, <2>2
<1>2. CASE Choose
  BY <1>0, <1>2, ScreenshotKeeps, Zenon DEF Choose, Plain
<1>3. CASE Close
  BY <1>0, <1>3, ApartKeeps, Zenon DEF Close, Plain, export, observed
<1>4. CASE Drawn
  BY <1>4, DrawnKeeps
<1>5. CASE Rejected
  <2>1. shots' \subseteq shots
    BY <1>5 DEF Rejected
  <2>2. UNCHANGED <<export, preview, ready, taken, observed>>
    BY <1>5 DEF Rejected
  <2> QED BY <1>0, <2>1, <2>2, ApartKeeps, Zenon DEF Plain, export, preview, observed
<1>6. CASE Popover
  BY <1>0, <1>6, UnmountKeeps, Zenon DEF Popover, Plain
<1>7. CASE DataChange
  BY <1>0, <1>7, UnmountKeeps, Zenon DEF DataChange, Plain
<1>8. CASE CopyURL
  <2>1. copies' \in 0..MaxCopies /\ copying' \in 0..copies'
    BY <1>0, <1>8, PreviewAssumption DEF CopyURL
  <2> QED BY <1>0, <1>8, <2>1, ApartKeeps, Zenon DEF CopyURL, Plain, preview, observed
<1>9. CASE Copied
  <2>1. copying' \in 0..copies' /\ copies' = copies
    BY <1>0, <1>9, PreviewAssumption DEF Copied
  <2>2. CASE popover
    BY <1>0, <1>9, <2>1, <2>2, UnmountKeeps, Zenon DEF Copied, Plain
  <2>3. CASE ~popover
    BY <1>0, <1>9, <2>1, <2>3, ApartKeeps, Zenon DEF Copied, Plain, preview, observed
  <2> QED BY <2>2, <2>3
<1>10. CASE Prompted
  <2>1. copying' \in 0..copies' /\ copies' = copies
    BY <1>0, <1>10, PreviewAssumption DEF Prompted
  <2> QED BY <1>0, <1>10, <2>1, ApartKeeps, Zenon DEF Prompted, Plain, preview, observed
<1>11. CASE Hide
  BY <1>0, <1>11, ApartKeeps, Zenon DEF Hide, Plain, preview, observed
<1>12. CASE UNCHANGED vars
  BY <1>0, <1>12, ApartKeeps, Zenon DEF Plain, vars, export, preview, observed
<1> QED
  BY <1>1, <1>2, <1>3, <1>4, <1>5, <1>6, <1>7, <1>8, <1>9, <1>10, <1>11, <1>12 DEF Next

\* The invariant the others are parts of: the numbers of screenshots, and what
\* is in flight.
THEOREM Invariance == Spec => []IInv
BY InitInv, NextInv, PTL DEF Spec

\* Export and Preview keep values of the right kind, and no popover is open
\* where there is no data.
THEOREM TypeCorrect == Spec => []TypeOK
<1>1. IInv => TypeOK
  BY DEF IInv
<1> QED BY Invariance, <1>1, PTL

\* The spinner of Preview.jsx is there while an odd number of screenshots is in
\* flight, whatever their number and order.
THEOREM SpinnerIsParity == Spec => []LoadingIsParity
<1>1. IInv => LoadingIsParity
  BY DEF IInv
<1> QED BY Invariance, <1>1, PTL

\* A dialog at rest shows the image of the choice made in it, unless one of its
\* screenshots was begun before the last had its answer.
THEOREM ShowsTheChoice == Spec => []ImageOfChoice
<1>1. IInv => ImageOfChoice
  BY DEF IInv
<1> QED BY Invariance, <1>1, PTL
=============================================================================

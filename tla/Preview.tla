------------------------------ MODULE Preview ------------------------------
(***************************************************************************)
(* components/export: the popover of Export.jsx and, in it, Preview.jsx    *)
(* with its dialog, which takes a screenshot whenever it opens and         *)
(* whenever its choice changes. With the sidebar a screenshot takes time   *)
(* (html2canvas); without it, it is there at once.                         *)
(***************************************************************************)
EXTENDS Naturals, FiniteSets

CONSTANTS
  None,
  MaxShots,     \* bound on the screenshots taken
  MaxCopies     \* bound on the links copied

ASSUME PreviewAssumption == MaxShots \in Nat /\ MaxCopies \in Nat

\* No image is not an image.
ASSUME NoneAssumption == None \notin [id : Nat, body : BOOLEAN]

VARIABLES
  notEmpty,     \* Export has data, and a popover for them
  popover,      \* its popover is open
  copying,      \* writes to the clipboard that are not answered
  copies,       \* links copied
  notification,
  isOpen, image, loading, noSidebar,    \* the state of Preview
  ready,        \* it was given a map and a deck
  shots,        \* screenshots html2canvas is at work on
  taken,        \* screenshots begun
  unanswered,   \* observed: those of this Preview with no answer so far
  overtaken     \* observed: this Preview began one before another was there

export == <<notEmpty, popover, copying, copies, notification>>
preview == <<isOpen, image, loading, noSidebar>>
observed == <<unanswered, overtaken>>
vars == <<export, preview, ready, shots, taken, observed>>

Shots == [id : 1..MaxShots, body : BOOLEAN]

TypeOK ==
  /\ notEmpty \in BOOLEAN /\ popover \in BOOLEAN
  /\ copying \in 0..MaxCopies /\ copies \in 0..MaxCopies
  /\ notification \in BOOLEAN
  /\ isOpen \in BOOLEAN /\ loading \in BOOLEAN /\ noSidebar \in BOOLEAN
  /\ image \in Shots \union {None}
  /\ ready \in BOOLEAN
  /\ shots \subseteq [id : 1..MaxShots, body : {TRUE}] /\ taken \in 0..MaxShots
  /\ unanswered \subseteq 1..MaxShots /\ overtaken \in BOOLEAN
  /\ popover => notEmpty

Init ==
  /\ notEmpty \in BOOLEAN /\ popover = FALSE
  /\ copying = 0 /\ copies = 0 /\ notification = FALSE
  /\ isOpen = FALSE /\ image = None /\ loading = FALSE /\ noSidebar = FALSE
  /\ ready \in BOOLEAN
  /\ shots = {} /\ taken = 0 /\ unanswered = {} /\ overtaken = FALSE

\* There is a Preview in the popover, or in its place.
Mounted == notEmpty => popover

\* The state of a Preview goes with it; a late answer finds none.
Unmount ==
  /\ isOpen' = FALSE /\ image' = None /\ loading' = FALSE /\ noSidebar' = FALSE
  /\ unanswered' = {} /\ overtaken' = FALSE

\* The effect of Preview: loading is turned over, and once more in the
\* callback of screenshot, which has none to call without a map and a deck.
Effect(begun) ==
  /\ loading' = IF ready /\ ~begun.body THEN loading ELSE ~loading
  /\ image' = IF ready /\ ~begun.body THEN begun ELSE image
  /\ shots' = IF ready /\ begun.body THEN shots \union {begun} ELSE shots
  /\ unanswered' = IF ready /\ ~begun.body THEN unanswered ELSE unanswered \union {begun.id}
  /\ overtaken' = (overtaken \/ \E s \in shots : s.id \in unanswered)

Screenshot(bare) ==
  /\ taken < MaxShots /\ taken' = taken + 1
  /\ Effect([id |-> taken + 1, body |-> ~bare])

\* The save icon, which also closes what it opened.
Save ==
  /\ Mounted
  /\ isOpen' = ~isOpen
  /\ IF isOpen THEN UNCHANGED <<image, loading, shots, taken, observed>>
               ELSE Screenshot(noSidebar)
  /\ UNCHANGED <<export, noSidebar, ready>>

\* Mutant: the effect does not depend on the choice.
ChooseAlone ==
  /\ isOpen
  /\ noSidebar' = ~noSidebar
  /\ UNCHANGED <<export, isOpen, image, loading, ready, shots, taken, observed>>

Choose ==
  /\ isOpen
  /\ noSidebar' = ~noSidebar
  /\ Screenshot(~noSidebar)
  /\ UNCHANGED <<export, isOpen, ready>>

Close ==
  /\ isOpen /\ isOpen' = FALSE
  /\ UNCHANGED <<export, image, loading, noSidebar, ready, shots, taken, observed>>

\* Mutant: loading is set instead of turned over.
AnswerEnds(shot) ==
  IF shot.id \in unanswered
  THEN /\ image' = shot /\ loading' = FALSE
       /\ unanswered' = unanswered \ {shot.id}
       /\ UNCHANGED <<isOpen, noSidebar, overtaken>>
  ELSE UNCHANGED <<preview, observed>>

\* The callback of the effect, in the Preview that began the screenshot.
Answer(shot) ==
  IF shot.id \in unanswered
  THEN /\ image' = shot /\ loading' = ~loading
       /\ unanswered' = unanswered \ {shot.id}
       /\ UNCHANGED <<isOpen, noSidebar, overtaken>>
  ELSE UNCHANGED <<preview, observed>>

\* The promise of html2canvas is kept, or rejected, which nothing handles.
Drawn ==
  \E shot \in shots :
    /\ shots' = shots \ {shot}
    /\ Answer(shot)
    /\ UNCHANGED <<export, ready, taken>>
Rejected ==
  \E shot \in shots :
    /\ shots' = shots \ {shot}
    /\ UNCHANGED <<export, preview, ready, taken, observed>>

\* The popover is opened by its icon, and closed by that or a click outside.
Popover ==
  /\ notEmpty
  /\ popover' = ~popover
  /\ Unmount
  /\ UNCHANGED <<notEmpty, copying, copies, notification, ready, shots, taken>>

\* Data come or go: the tree of Export is another one.
DataChange ==
  /\ notEmpty' = ~notEmpty /\ popover' = FALSE
  /\ Unmount
  /\ UNCHANGED <<copying, copies, notification, ready, shots, taken>>

\* copyTextToClipboard; without a clipboard, as when it refuses, the link is
\* shown in a prompt.
CopyURL ==
  /\ popover /\ copies < MaxCopies
  /\ copies' = copies + 1 /\ copying' = copying + 1
  /\ UNCHANGED <<notEmpty, popover, notification, preview, ready, shots, taken, observed>>
Copied ==
  /\ copying > 0 /\ copying' = copying - 1
  /\ notification' = TRUE /\ popover' = FALSE
  /\ IF popover THEN Unmount ELSE UNCHANGED <<preview, observed>>
  /\ UNCHANGED <<notEmpty, copies, ready, shots, taken>>
Prompted ==
  /\ copying > 0 /\ copying' = copying - 1
  /\ UNCHANGED <<notEmpty, popover, copies, notification, preview, ready, shots, taken, observed>>

\* The notification hides by itself, when it is there to.
Hide ==
  /\ notification /\ notEmpty /\ notification' = FALSE
  /\ UNCHANGED <<notEmpty, popover, copying, copies, preview, ready, shots, taken, observed>>

Next ==
  \/ Save \/ Choose \/ Close
  \/ Drawn \/ Rejected
  \/ Popover \/ DataChange
  \/ CopyURL \/ Copied \/ Prompted \/ Hide

Spec == Init /\ [][Next]_vars

---------------------------------------------------------------------------
\* loading is turned over, not set: the spinner is shown while an odd number
\* of this Preview's screenshots have had no answer - none for the two of a
\* dialog closed and opened again, and for ever after a rejected one.
LoadingIsParity == loading <=> Cardinality(unanswered) % 2 = 1

\* A dialog at rest shows a screenshot, of the choice made in it, unless one
\* was begun before the last was there: then the slower is what stays.
AtRest == isOpen /\ unanswered = {} /\ ~overtaken
ImageOfChoice == AtRest => image # None /\ image.body = ~noSidebar

=============================================================================

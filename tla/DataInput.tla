----------------------------- MODULE DataInput -----------------------------
(***************************************************************************)
(* Adding data by hand: the dialog of components/input/DataInput.jsx with  *)
(* the file drop of File.jsx in it, and what it shares with the sidebar    *)
(* around it, which it folds away while it is open, as the table does.     *)
(* A dropped file is read, and a zipped one parsed, while the user goes    *)
(* on; what the handlers knew when it was dropped is kept in the read.     *)
(***************************************************************************)
EXTENDS Naturals

CONSTANTS
  Columns,      \* names typed as the geography column
  None,
  Full,         \* ticks of the progress bar until it starts again: 10
  MaxDrops,     \* bound on the files dropped
  MaxOpens      \* bound on the times the dialog opens

ASSUME DataInputAssumption ==
  /\ None \notin Columns \union Nat
  /\ Full \in Nat \ {0} /\ MaxDrops \in Nat /\ MaxOpens \in Nat

Drops == 1..MaxDrops
Uploaders == 1..MaxOpens    \* the File of each time the dialog opens
Added == [data : Drops, geography : Drops \union {None},
          geoColumn : Columns \union {None}]
Reads == [id : Drops, uploader : Uploaders, stage : {"reading", "parsing"},
          dataFile : Drops \union {None}, geoColumn : Columns \union {None}]

VARIABLES
  isOpen, dataFile, geoColumn, alert,   \* the state of DataInput
  reading,      \* files read or parsed
  drops,        \* files dropped
  uploader,     \* the File of the open dialog, or of the last one
  progress,     \* its state.progressAmount
  intervalId,   \* this.intervalId of each File
  intervals,    \* the intervals that run, each started by a drop
  sidebar,      \* DeckSidebarContainer's state.open
  tableOpen,    \* the state of Modal, with the table in it
  rows,         \* there are data for a table
  added,        \* what urlCallback was last given
  geometries,   \* observed: the files that turned out to have geometry
  opened,       \* observed: the user has the dialog open
  overtaken,    \* observed: a file was done when the dialog was closed
  arrow,        \* observed: the sidebar as the user folds it by the arrow
  torn          \* observed: the data went while their table was open

dialog == <<isOpen, dataFile, geoColumn, alert>>
file == <<uploader, progress, intervalId, intervals>>
parent == <<sidebar, tableOpen, rows>>
observed == <<added, geometries, opened, overtaken>>
vars == <<dialog, reading, drops, file, parent, observed, arrow, torn>>

TypeOK ==
  /\ isOpen \in BOOLEAN
  /\ dataFile \in Drops \union {None}
  /\ geoColumn \in Columns \union {None}
  /\ alert \in {"none", "no geography", "invalid"}
  /\ reading \subseteq Reads
  /\ drops \in 0..MaxDrops /\ uploader \in 0..MaxOpens
  /\ progress \in 0..Full
  /\ intervalId \in [Uploaders -> 0..MaxDrops]
  /\ intervals \subseteq [id : Drops, uploader : Uploaders]
  /\ sidebar \in BOOLEAN /\ tableOpen \in BOOLEAN /\ rows \in BOOLEAN
  /\ added \in Added \union {None}
  /\ geometries \subseteq Drops
  /\ opened \in BOOLEAN /\ overtaken \in BOOLEAN
  /\ arrow \in BOOLEAN /\ torn \in BOOLEAN

Init ==
  /\ isOpen = FALSE /\ dataFile = None /\ geoColumn = None /\ alert = "none"
  /\ reading = {} /\ drops = 0
  /\ uploader = 0 /\ progress = 0
  /\ intervalId = [u \in Uploaders |-> 0] /\ intervals = {}
  /\ sidebar \in BOOLEAN    \* not isMobile
  /\ tableOpen = FALSE /\ rows \in BOOLEAN
  /\ added = None /\ geometries = {} /\ opened = FALSE /\ overtaken = FALSE
  /\ arrow = sidebar /\ torn = FALSE

Mounted(u) == isOpen /\ u = uploader

-----------------------------------------------------------------------------
(* The dialog.                                                             *)

\* Both toggles go by the state of now; opening constructs a new File.
ToggleSelfAndParent ==
  /\ isOpen' = ~isOpen
  /\ sidebar' = ~sidebar
  /\ alert' = "none"
  /\ uploader' = IF isOpen THEN uploader ELSE uploader + 1

\* The overlay of a dialog keeps clicks from the page.
AddDataButton ==
  /\ ~isOpen /\ ~tableOpen /\ uploader < MaxOpens
  /\ ToggleSelfAndParent
  /\ progress' = 0
  /\ opened' = TRUE
  /\ UNCHANGED <<dataFile, geoColumn, reading, drops, intervalId, intervals,
                 tableOpen, rows, added, geometries, overtaken, arrow, torn>>

OnClose ==
  /\ isOpen
  /\ ToggleSelfAndParent
  /\ opened' = FALSE
  /\ UNCHANGED <<dataFile, geoColumn, reading, drops, progress, intervalId,
                 intervals, tableOpen, rows, added, geometries, overtaken,
                 arrow, torn>>

\* Mutant: Close forgets the sidebar.
CloseButtonAlone ==
  /\ isOpen
  /\ isOpen' = FALSE
  /\ opened' = FALSE
  /\ UNCHANGED <<dataFile, geoColumn, alert, reading, drops, file, parent,
                 added, geometries, overtaken, arrow, torn>>

\* Close keeps the alert.
CloseButton ==
  /\ isOpen
  /\ isOpen' = FALSE
  /\ sidebar' = ~sidebar
  /\ opened' = FALSE
  /\ UNCHANGED <<dataFile, geoColumn, alert, reading, drops, file, tableOpen,
                 rows, added, geometries, overtaken, arrow, torn>>

Trash ==
  /\ isOpen /\ dataFile # None
  /\ dataFile' = None /\ alert' = "none"
  /\ UNCHANGED <<isOpen, geoColumn, reading, drops, file, parent, observed,
                 arrow, torn>>

TypeColumn(c) ==
  /\ isOpen /\ dataFile # None
  /\ geoColumn' = c
  /\ UNCHANGED <<isOpen, dataFile, alert, reading, drops, file, parent,
                 observed, arrow, torn>>

-----------------------------------------------------------------------------
(* File: the drop, its progress bar, and the reader.                       *)

Interval(u) == [id |-> intervalId[u], uploader |-> u]

\* reset: the interval that this.intervalId names stops.
ResetProgress(u) ==
  /\ intervals' = intervals \ {Interval(u)}
  /\ progress' = IF Mounted(u) THEN 0 ELSE progress

StartProgress(u, running) ==
  /\ intervals' = running \union {[id |-> drops', uploader |-> u]}
  /\ intervalId' = [intervalId EXCEPT ![u] = drops']

\* contentCallback is the one of the last render, with its dataFile and
\* geoColumn. A type that is not supported only moves the progress bar.
HandleDrop(supported) ==
  /\ isOpen /\ drops < MaxDrops
  /\ drops' = drops + 1
  /\ IF supported
     THEN /\ reading' = reading \union
               {[id |-> drops', uploader |-> uploader, stage |-> "reading",
                 dataFile |-> dataFile, geoColumn |-> geoColumn]}
          /\ StartProgress(uploader, intervals)
          /\ UNCHANGED progress
     ELSE /\ StartProgress(uploader, intervals \ {Interval(uploader)})
          /\ progress' = 0
          /\ UNCHANGED reading
  /\ UNCHANGED <<dialog, uploader, parent, observed, arrow, torn>>

\* Cancel, on the progress bar, stops the bar and not the reading.
Cancel ==
  /\ isOpen /\ progress > 0
  /\ ResetProgress(uploader)
  /\ UNCHANGED <<dialog, reading, drops, uploader, intervalId, parent,
                 observed, arrow, torn>>

\* Mutant: the bar stays full.
TickFull(i) ==
  /\ i \in intervals /\ Mounted(i.uploader)
  /\ progress < Full
  /\ progress' = progress + 1
  /\ UNCHANGED <<dialog, reading, drops, uploader, intervalId, intervals,
                 parent, observed, arrow, torn>>

\* An interval of a File that is gone ticks on and changes nothing.
Tick(i) ==
  /\ i \in intervals /\ Mounted(i.uploader)
  /\ IF progress >= Full
     THEN ResetProgress(i.uploader)
     ELSE progress' = progress + 1 /\ UNCHANGED intervals
  /\ UNCHANGED <<dialog, reading, drops, uploader, intervalId, parent,
                 observed, arrow, torn>>

-----------------------------------------------------------------------------
(* _contentCallback and processTextOrBuffer, with the knowledge of r.      *)

\* Mutant: a file is taken for the data whether or not one is waiting.
AddedByFile(r) == [data |-> r.id, geography |-> None, geoColumn |-> r.geoColumn]

\* With a data file waiting, the file that has geometry is its geography.
AddedBy(r) ==
  [data |-> IF r.dataFile = None THEN r.id ELSE r.dataFile,
   geography |-> IF r.dataFile = None THEN None ELSE r.id,
   geoColumn |-> r.geoColumn]

WithGeometry(r) ==
  /\ geometries' = geometries \union {r.id}
  /\ added' = AddedBy(r)
  /\ dataFile' = None
  /\ ToggleSelfAndParent
  /\ opened' = FALSE
  /\ overtaken' = (overtaken \/ ~isOpen)

\* Mutant: the data file is looked at for geometry, and not the geography.
NoGeometryAccepted(r) ==
  IF r.dataFile # None
  THEN /\ added' = AddedBy(r)
       /\ dataFile' = None
       /\ ToggleSelfAndParent
       /\ opened' = FALSE
       /\ overtaken' = (overtaken \/ ~isOpen)
       /\ UNCHANGED geometries
  ELSE /\ dataFile' = r.id
       /\ alert' = "no geography"
       /\ UNCHANGED <<isOpen, sidebar, uploader, observed>>

NoGeometry(r) ==
  /\ dataFile' = IF r.dataFile = None THEN r.id ELSE dataFile
  /\ alert' = "no geography"
  /\ UNCHANGED <<isOpen, sidebar, uploader, observed>>

\* Bad CSV, or no shp to parse a zip, has an alert; JSON that does not parse,
\* and what parses but has no features, is swallowed.
Invalid(message) ==
  /\ alert' = message
  /\ UNCHANGED <<isOpen, dataFile, sidebar, uploader, observed>>

Process(r) ==
  /\ ~isOpen => uploader < MaxOpens
  /\ \/ WithGeometry(r)
     \/ NoGeometry(r)
     \/ Invalid("invalid")
     \/ Invalid(alert)
  /\ reading' = reading \ {r}
  /\ UNCHANGED <<geoColumn, drops, intervalId, tableOpen, rows, arrow, torn>>

\* The reader's onload: the progress bar is reset, then the text is
\* processed.
Load(r) ==
  /\ r \in reading /\ r.stage = "reading"
  /\ ResetProgress(r.uploader)
  /\ Process(r)

\* A zip goes to shp, whose promise is answered later.
LoadZip(r) ==
  /\ r \in reading /\ r.stage = "reading"
  /\ ResetProgress(r.uploader)
  /\ reading' = (reading \ {r}) \union {[r EXCEPT !.stage = "parsing"]}
  /\ UNCHANGED <<dialog, drops, uploader, intervalId, parent, observed, arrow,
                 torn>>

Parse(r) ==
  /\ r \in reading /\ r.stage = "parsing"
  /\ Process(r)
  /\ UNCHANGED <<progress, intervals>>

-----------------------------------------------------------------------------
(* The sidebar around it.                                                  *)

Arrow ==
  /\ ~isOpen /\ ~tableOpen
  /\ sidebar' = ~sidebar /\ arrow' = ~arrow
  /\ UNCHANGED <<dialog, reading, drops, file, tableOpen, rows, observed, torn>>

OpenTable ==
  /\ rows /\ ~isOpen /\ ~tableOpen
  /\ tableOpen' = TRUE /\ sidebar' = ~sidebar
  /\ UNCHANGED <<dialog, reading, drops, file, rows, observed, arrow, torn>>

CloseTable ==
  /\ tableOpen
  /\ tableOpen' = FALSE /\ sidebar' = ~sidebar
  /\ UNCHANGED <<dialog, reading, drops, file, rows, observed, arrow, torn>>

\* Home has other data: without any, the table is taken down as it stands.
DataChange ==
  /\ rows' = ~rows
  /\ tableOpen' = (tableOpen /\ rows')
  /\ torn' = (torn \/ tableOpen)
  /\ UNCHANGED <<dialog, reading, drops, file, sidebar, observed, arrow>>

Next ==
  \/ AddDataButton \/ OnClose \/ CloseButton \/ Trash \/ Cancel
  \/ \E c \in Columns : TypeColumn(c)
  \/ \E supported \in BOOLEAN : HandleDrop(supported)
  \/ \E i \in intervals : Tick(i)
  \/ \E r \in reading : Load(r) \/ LoadZip(r) \/ Parse(r)
  \/ Arrow \/ OpenTable \/ CloseTable \/ DataChange

Spec == Init /\ [][Next]_vars

\* The browser runs its intervals.
FairSpec ==
  /\ Spec
  /\ \A id \in Drops, u \in Uploaders :
       WF_vars(Tick([id |-> id, uploader |-> u]))

-----------------------------------------------------------------------------
(* Properties                                                              *)

\* The dialog is open exactly while the user has it open, as long as no file
\* is done reading when the dialog was closed before (toggleSelfAndParent
\* opens it again then); and dialog and table give the sidebar back as they
\* found it, whoever closes them, unless the data go while their table is
\* open.
LeftAsFound ==
  /\ ~overtaken => isOpen = opened
  /\ ~torn => sidebar = (arrow # (isOpen # tableOpen))

\* What is handed to Home has geometry: the file itself, or a second one for
\* a data file that has none, however the reads overlapped.
AddedHasGeometry ==
  added # None =>
    IF added.geography = None
    THEN added.data \in geometries
    ELSE added.geography \in geometries /\ added.data \notin geometries

\* A data file that waits for its geography is handed over with it or removed
\* by the user, unless a file dropped before it was known is still read.
WaitingFileKept ==
  [][dataFile # None /\ dataFile' # dataFile
     /\ (\A r \in reading : r.dataFile = dataFile) =>
       /\ dataFile' = None
       /\ added' # added => added'.data = dataFile]_vars

\* The interval behind a progress bar comes to an end, unless a second drop
\* overwrote its id or the dialog was closed before.
IntervalsStop ==
  \A id \in Drops, u \in Uploaders :
    [id |-> id, uploader |-> u] \in intervals ~>
      ([id |-> id, uploader |-> u] \notin intervals \/ intervalId[u] # id
       \/ ~Mounted(u))
=============================================================================

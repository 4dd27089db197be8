-------------------------- MODULE DataInput_proofs --------------------------
(***************************************************************************)
(* Proofs about DataInput, for any columns, ticks, drops and openings.     *)
(***************************************************************************)
EXTENDS DataInput, TLAPS

\* TypeOK in three parts: what is open or folded, the progress bars, and the
\* files. A dialog that is open has a File.
SwitchesOK ==
  /\ isOpen \in BOOLEAN /\ sidebar \in BOOLEAN /\ tableOpen \in BOOLEAN
  /\ rows \in BOOLEAN /\ opened \in BOOLEAN /\ overtaken \in BOOLEAN
  /\ arrow \in BOOLEAN /\ torn \in BOOLEAN
BarsOK ==
  /\ drops \in 0..MaxDrops /\ uploader \in 0..MaxOpens
  /\ isOpen => uploader # 0
  /\ progress \in 0..Full
  /\ intervalId \in [Uploaders -> 0..MaxDrops]
  /\ intervals \subseteq [id : Drops, uploader : Uploaders]
FilesOK ==
  /\ dataFile \in Drops \union {None}
  /\ geoColumn \in Columns \union {None}
  /\ alert \in {"none", "no geography", "invalid"}
  /\ reading \subseteq Reads
  /\ added \in Added \union {None}
  /\ geometries \subseteq Drops

\* A file taken for data without geometry: it is neither one that has some,
\* nor one still read.
Bare(f) ==
  f # None => f \in 1..drops /\ f \notin geometries /\ \A r \in reading : r.id # f

\* A file is read once, before it turns out to have geometry.
ReadsInv ==
  /\ \A r \in reading : r.id \in 1..drops /\ r.id \notin geometries /\ Bare(r.dataFile)
  /\ \A q, r \in reading : q.id = r.id => q = r
  /\ geometries \subseteq 1..drops

AddedInv == added # None /\ added.geography # None => Bare(added.data)

FilesInv == FilesOK /\ ReadsInv /\ Bare(dataFile) /\ AddedInv /\ AddedHasGeometry

IInv == SwitchesOK /\ LeftAsFound /\ BarsOK /\ FilesInv

Bars == <<drops, uploader, progress, intervalId, intervals>>
Switches == <<isOpen, sidebar, tableOpen, rows, opened, overtaken, arrow, torn>>

LEMMA TypeParts == IInv => TypeOK
BY Zenon DEF IInv, FilesInv, TypeOK, SwitchesOK, BarsOK, FilesOK

-----------------------------------------------------------------------------
(* The dialog and the sidebar.                                             *)

LEMMA SwitchesKept ==
  ASSUME SwitchesOK, LeftAsFound, UNCHANGED Switches
  PROVE  SwitchesOK' /\ LeftAsFound'
BY Zenon DEF SwitchesOK, LeftAsFound, Switches

\* The dialog and the sidebar are toggled together, by the user or by a file.
LEMMA TogglesKeep ==
  ASSUME SwitchesOK, LeftAsFound, isOpen' = ~isOpen, sidebar' = ~sidebar,
         UNCHANGED <<tableOpen, rows, arrow, torn>>,
         opened' \in BOOLEAN, overtaken' \in BOOLEAN,
         ~overtaken' => ~overtaken /\ opened' = ~isOpen
  PROVE  SwitchesOK' /\ LeftAsFound'
<1>1. SwitchesOK'
  BY DEF SwitchesOK
<1>2. ~overtaken' => isOpen' = opened'
  OBVIOUS
<1>3. ~torn' => sidebar' = (arrow' # (isOpen' # tableOpen'))
  <2>1. ~torn => sidebar = (arrow # (isOpen # tableOpen))
    BY DEF LeftAsFound
  <2>2. isOpen \in BOOLEAN /\ sidebar \in BOOLEAN /\ tableOpen \in BOOLEAN /\ arrow \in BOOLEAN
    BY DEF SwitchesOK
  <2>3. (arrow # ((~isOpen) # tableOpen)) = ~(arrow # (isOpen # tableOpen))
    BY <2>2
  <2>4. ~torn' => ~torn
    OBVIOUS
  <2>5. sidebar = (arrow # (isOpen # tableOpen))
        => (~sidebar) = (arrow # ((~isOpen) # tableOpen))
    BY <2>2, <2>3
  <2> HAVE ~torn'
  <2> QED BY <2>1, <2>4, <2>5
<1> QED BY <1>1, <1>2, <1>3 DEF LeftAsFound

\* The sidebar is toggled by the arrow or with the table.
LEMMA SidebarKeeps ==
  ASSUME SwitchesOK, LeftAsFound, sidebar' = ~sidebar,
         \/ arrow' = ~arrow /\ UNCHANGED tableOpen
         \/ tableOpen' = ~tableOpen /\ UNCHANGED arrow,
         UNCHANGED <<isOpen, rows, torn, opened, overtaken>>
  PROVE  SwitchesOK' /\ LeftAsFound'
<1>1. isOpen \in BOOLEAN /\ sidebar \in BOOLEAN /\ tableOpen \in BOOLEAN /\ arrow \in BOOLEAN
  BY DEF SwitchesOK
<1>2. SwitchesOK'
  BY <1>1 DEF SwitchesOK
<1>3. ~torn' => sidebar' = (arrow' # (isOpen' # tableOpen'))
  <2>1. ~torn => sidebar = (arrow # (isOpen # tableOpen))
    BY DEF LeftAsFound
  <2>2. /\ ((~arrow) # (isOpen # tableOpen)) = ~(arrow # (isOpen # tableOpen))
        /\ (arrow # (isOpen # (~tableOpen))) = ~(arrow # (isOpen # tableOpen))
    BY <1>1
  <2> QED BY <2>1, <2>2
<1> QED BY <1>2, <1>3 DEF LeftAsFound

LEMMA DataChangeKeeps ==
  ASSUME SwitchesOK, LeftAsFound, DataChange
  PROVE  SwitchesOK' /\ LeftAsFound'
<1>1. /\ rows' = ~rows /\ tableOpen' = (tableOpen /\ rows')
      /\ torn' = (torn \/ tableOpen)
      /\ UNCHANGED <<isOpen, sidebar, opened, overtaken, arrow>>
  BY DEF DataChange, dialog, observed
<1>2. SwitchesOK'
  BY <1>1 DEF SwitchesOK
<1>3. ~torn' => sidebar' = (arrow' # (isOpen' # tableOpen'))
  <2> HAVE ~torn'
  <2>1. ~torn /\ ~tableOpen /\ tableOpen' = FALSE
    BY <1>1
  <2>2. tableOpen = FALSE
    BY <2>1 DEF SwitchesOK
  <2> QED BY <1>1, <2>1, <2>2 DEF LeftAsFound
<1> QED BY <1>1, <1>2, <1>3 DEF LeftAsFound

-----------------------------------------------------------------------------
(* The progress bars.                                                      *)

LEMMA BarsKept ==
  ASSUME BarsOK, UNCHANGED Bars, isOpen' => isOpen
  PROVE  BarsOK'
BY DEF BarsOK, Bars

LEMMA ToggleBars ==
  ASSUME BarsOK, SwitchesOK, ~isOpen => uploader < MaxOpens,
         isOpen' = ~isOpen, uploader' = IF isOpen THEN uploader ELSE uploader + 1,
         progress' \in 0..Full, intervals' \subseteq intervals,
         UNCHANGED <<drops, intervalId>>
  PROVE  BarsOK'
<1>1. uploader' \in 0..MaxOpens /\ (isOpen' => uploader' # 0)
  <2>1. uploader \in 0..MaxOpens /\ MaxOpens \in Nat
    BY DataInputAssumption DEF BarsOK
  <2>2. CASE isOpen
    BY <2>1, <2>2 DEF BarsOK
  <2>3. CASE ~isOpen
    BY <2>1, <2>3
  <2> QED BY <2>2, <2>3
<1> QED BY <1>1 DEF BarsOK

LEMMA ResetBars ==
  ASSUME BarsOK, NEW u, ResetProgress(u)
  PROVE  progress' \in 0..Full /\ intervals' \subseteq intervals
BY DataInputAssumption DEF BarsOK, ResetProgress

LEMMA TickKeeps ==
  ASSUME BarsOK, NEW i, Tick(i)
  PROVE  BarsOK'
<1>1. UNCHANGED <<drops, uploader, intervalId, isOpen>>
  BY DEF Tick, dialog
<1>2. progress \in 0..Full /\ Full \in Nat
  BY DataInputAssumption DEF BarsOK
<1>3. progress' \in 0..Full /\ intervals' \subseteq intervals
  <2>1. CASE progress >= Full
    BY <2>1, ResetBars DEF Tick
  <2>2. CASE ~(progress >= Full)
    BY <1>2, <2>2 DEF Tick
  <2> QED BY <2>1, <2>2
<1> QED BY <1>1, <1>3 DEF BarsOK

LEMMA DropBars ==
  ASSUME BarsOK, NEW supported \in BOOLEAN, HandleDrop(supported)
  PROVE  BarsOK'
<1>1. isOpen /\ drops < MaxDrops /\ drops' = drops + 1 /\ UNCHANGED <<isOpen, uploader>>
  BY DEF HandleDrop, dialog
<1>2. /\ drops \in 0..MaxDrops /\ MaxDrops \in Nat /\ progress \in 0..Full
      /\ uploader \in Uploaders /\ intervalId \in [Uploaders -> 0..MaxDrops]
      /\ intervals \subseteq [id : Drops, uploader : Uploaders]
  BY <1>1, DataInputAssumption DEF BarsOK, Uploaders
<1>3. drops' \in Drops /\ drops' \in 0..MaxDrops
  BY <1>1, <1>2 DEF Drops
<1>4. progress' \in 0..Full
  BY <1>2, DataInputAssumption DEF HandleDrop
<1>5. PICK running \in SUBSET intervals : StartProgress(uploader, running)
  BY DEF HandleDrop
<1>6. intervalId' \in [Uploaders -> 0..MaxDrops]
  BY <1>2, <1>3, <1>5 DEF StartProgress
<1>7. intervals' \subseteq [id : Drops, uploader : Uploaders]
  <2>1. [id |-> drops', uploader |-> uploader] \in [id : Drops, uploader : Uploaders]
    BY <1>2, <1>3
  <2> QED BY <1>2, <1>5, <2>1 DEF StartProgress
<1> QED BY <1>1, <1>3, <1>4, <1>6, <1>7 DEF BarsOK

-----------------------------------------------------------------------------
(* The files.                                                              *)

LEMMA FilesKept ==
  ASSUME FilesInv, UNCHANGED <<reading, drops, added, geometries>>,
         dataFile' \in {dataFile, None}, geoColumn' \in Columns \union {None},
         alert' \in {"none", "no geography", "invalid"}
  PROVE  FilesInv'
<1>1. FilesOK'
  BY DEF FilesInv, FilesOK
<1>2. ReadsInv' /\ Bare(dataFile)' /\ AddedInv'
  BY DEF FilesInv, ReadsInv, Bare, AddedInv
<1>3. AddedHasGeometry'
  BY DEF FilesInv, AddedHasGeometry
<1> QED BY <1>1, <1>2, <1>3 DEF FilesInv

\* What a read is known by.
LEMMA ReadIs ==
  ASSUME FilesInv, NEW r \in reading
  PROVE  /\ r.id \in Drops /\ r.dataFile \in Drops \union {None}
         /\ r.geoColumn \in Columns \union {None} /\ None \notin Drops
         /\ r.id \in 1..drops /\ r.id \notin geometries /\ Bare(r.dataFile)
<1>1. r \in Reads
  BY DEF FilesInv, FilesOK
<1>2. None \notin Drops
  BY DataInputAssumption DEF Drops
<1>3. r.id \in 1..drops /\ r.id \notin geometries /\ Bare(r.dataFile)
  BY DEF FilesInv, ReadsInv
<1> QED BY <1>1, <1>2, <1>3 DEF Reads

LEMMA DropFiles ==
  ASSUME FilesInv, BarsOK, NEW supported \in BOOLEAN, HandleDrop(supported)
  PROVE  FilesInv'
<1> DEFINE new == [id |-> drops', uploader |-> uploader, stage |-> "reading",
                   dataFile |-> dataFile, geoColumn |-> geoColumn]
<1>1. /\ isOpen /\ drops < MaxDrops /\ drops' = drops + 1
      /\ UNCHANGED <<dataFile, geoColumn, alert, added, geometries>>
  BY DEF HandleDrop, dialog, observed
<1>2. reading' \in {reading, reading \union {new}}
  BY DEF HandleDrop
<1>3. /\ drops \in Nat /\ MaxDrops \in Nat /\ drops' \in Drops /\ uploader \in Uploaders
  BY <1>1, DataInputAssumption DEF BarsOK, Uploaders, Drops
<1>4. FilesOK
  BY DEF FilesInv
<1>5. new \in Reads /\ new.id = drops + 1 /\ new.dataFile = dataFile
  BY <1>1, <1>3, <1>4 DEF Reads, FilesOK
<1> HIDE DEF new
<1>6. FilesOK'
  BY <1>1, <1>2, <1>4, <1>5 DEF FilesOK
<1>7. ASSUME NEW f, Bare(f) PROVE Bare(f)'
  BY <1>1, <1>2, <1>3, <1>5, <1>7 DEF Bare
<1>8. Bare(dataFile)' /\ AddedInv' /\ AddedHasGeometry'
  <2>1. Bare(dataFile) /\ AddedInv /\ AddedHasGeometry
    BY DEF FilesInv
  <2>2. Bare(dataFile)'
    BY <1>1, <1>7, <2>1 DEF Bare
  <2>3. AddedInv'
    BY <1>1, <1>7, <2>1 DEF AddedInv, Bare
  <2> QED BY <1>1, <2>1, <2>2, <2>3 DEF AddedHasGeometry
<1>9. ReadsInv'
  <2>1. ReadsInv
    BY DEF FilesInv
  <2>2. \A r \in reading : r.id \in 1..drops
    BY <2>1 DEF ReadsInv
  <2>3. geometries' \subseteq 1..drops' /\ drops + 1 \notin geometries'
    BY <1>1, <1>3, <2>1 DEF ReadsInv
  <2>4. \A r \in reading' : r.id \in 1..drops' /\ r.id \notin geometries'
    BY <1>1, <1>2, <1>3, <1>5, <2>1, <2>3 DEF ReadsInv
  <2>5. \A r \in reading' : Bare(r.dataFile)'
    <3> SUFFICES ASSUME NEW r \in reading' PROVE Bare(r.dataFile)'
      OBVIOUS
    <3>1. Bare(r.dataFile)
      BY <1>2, <1>5, <2>1 DEF ReadsInv, FilesInv
    <3> QED BY <1>7, <3>1 DEF Bare
  <2>6. \A q, r \in reading' : q.id = r.id => q = r
    BY <1>2, <1>3, <1>5, <2>1, <2>2 DEF ReadsInv
  <2> QED BY <2>3, <2>4, <2>5, <2>6 DEF ReadsInv
<1> QED BY <1>6, <1>8, <1>9 DEF FilesInv

LEMMA ZipFiles ==
  ASSUME FilesInv, NEW r \in reading, LoadZip(r)
  PROVE  FilesInv'
<1> DEFINE zip == [r EXCEPT !.stage = "parsing"]
<1>1. /\ reading' = (reading \ {r}) \union {zip}
      /\ UNCHANGED <<dataFile, geoColumn, alert, drops, added, geometries>>
  BY DEF LoadZip, dialog, observed
<1>2. r \in Reads /\ FilesOK /\ ReadsInv
  BY DEF FilesInv, FilesOK
<1>3. zip \in Reads /\ zip.id = r.id /\ zip.dataFile = r.dataFile
  BY <1>2 DEF Reads
<1> HIDE DEF zip
<1>4. FilesOK'
  BY <1>1, <1>2, <1>3 DEF FilesOK
<1>5. ASSUME NEW f, Bare(f) PROVE Bare(f)'
  BY <1>1, <1>3, <1>5 DEF Bare
<1>6. Bare(dataFile)' /\ AddedInv' /\ AddedHasGeometry'
  <2>1. Bare(dataFile) /\ AddedInv /\ AddedHasGeometry
    BY DEF FilesInv
  <2>2. Bare(dataFile)' /\ AddedInv'
    BY <1>1, <1>5, <2>1 DEF Bare, AddedInv
  <2> QED BY <1>1, <2>1, <2>2 DEF AddedHasGeometry
<1>7. ReadsInv'
  <2>1. \A q \in reading' : q.id \in 1..drops' /\ q.id \notin geometries'
    BY <1>1, <1>2, <1>3 DEF ReadsInv
  <2>2. \A q \in reading' : Bare(q.dataFile)'
    <3> SUFFICES ASSUME NEW q \in reading' PROVE Bare(q.dataFile)'
      OBVIOUS
    <3>1. Bare(q.dataFile)
      BY <1>1, <1>2, <1>3 DEF ReadsInv
    <3> QED BY <1>5, <3>1 DEF Bare
  <2>3. \A p, q \in reading' : p.id = q.id => p = q
    BY <1>1, <1>2, <1>3 DEF ReadsInv
  <2> QED BY <1>1, <1>2, <2>1, <2>2, <2>3 DEF ReadsInv
<1> QED BY <1>4, <1>6, <1>7 DEF FilesInv

\* A file that is done: it has geometry, or none, or is not a file of features.
LEMMA ProcessFiles ==
  ASSUME FilesInv, NEW r \in reading, Process(r)
  PROVE  FilesInv'
<1>1. /\ reading' = reading \ {r} /\ UNCHANGED <<geoColumn, drops>>
      /\ WithGeometry(r) \/ NoGeometry(r) \/ Invalid("invalid") \/ Invalid(alert)
  BY DEF Process
<1>2. FilesOK /\ ReadsInv /\ Bare(dataFile) /\ AddedInv /\ AddedHasGeometry
  BY DEF FilesInv
<1>3. /\ r.id \in Drops /\ r.dataFile \in Drops \union {None}
      /\ r.geoColumn \in Columns \union {None} /\ None \notin Drops
      /\ r.id \in 1..drops /\ r.id \notin geometries /\ Bare(r.dataFile)
  BY ReadIs
<1>4. \A q \in reading' : q \in reading /\ q.id # r.id
  BY <1>1, <1>2 DEF ReadsInv
<1>5. CASE WithGeometry(r)
  <2>1. /\ geometries' = geometries \union {r.id} /\ added' = AddedBy(r)
        /\ dataFile' = None /\ alert' = "none"
    BY <1>5 DEF WithGeometry, ToggleSelfAndParent
  <2>3. /\ AddedBy(r) \in Added
        /\ AddedBy(r).data = IF r.dataFile = None THEN r.id ELSE r.dataFile
        /\ AddedBy(r).geography = IF r.dataFile = None THEN None ELSE r.id
    BY <1>3 DEF AddedBy, Added
  <2>4. FilesOK'
    BY <1>1, <1>2, <1>3, <2>1, <2>3 DEF FilesOK
  <2>5. ASSUME NEW f, Bare(f), f # r.id PROVE Bare(f)'
    BY <1>1, <1>4, <2>1, <2>5 DEF Bare
  <2>6. Bare(dataFile)'
    BY <2>1 DEF Bare
  <2>7. r.dataFile # None => r.dataFile # r.id /\ Bare(r.dataFile)'
    <3> HAVE r.dataFile # None
    <3>1. r.dataFile # r.id
      BY <1>3 DEF Bare
    <3> QED BY <1>3, <2>5, <3>1
  <2>8. AddedInv'
    BY <2>1, <2>3, <2>7, <1>3 DEF AddedInv, Bare
  <2>9. AddedHasGeometry'
    <3>1. CASE r.dataFile = None
      BY <2>1, <2>3, <3>1 DEF AddedHasGeometry
    <3>2. CASE r.dataFile # None
      <4>1. r.dataFile \notin geometries'
        BY <1>3, <2>1, <2>7, <3>2 DEF Bare
      <4> QED BY <1>3, <2>1, <2>3, <3>2, <4>1 DEF AddedHasGeometry
    <3> QED BY <3>1, <3>2
  <2>10. ReadsInv'
    <3>1. \A q \in reading' : q.id \in 1..drops' /\ q.id \notin geometries'
      BY <1>1, <1>2, <1>4, <2>1 DEF ReadsInv
    <3>2. \A q \in reading' : Bare(q.dataFile)'
      <4> SUFFICES ASSUME NEW q \in reading' PROVE Bare(q.dataFile)'
        OBVIOUS
      <4>1. Bare(q.dataFile)
        BY <1>2, <1>4 DEF ReadsInv
      <4>2. CASE q.dataFile = None
        BY <4>2 DEF Bare
      <4>3. CASE q.dataFile # None
        <5>1. q.dataFile # r.id
          BY <4>1, <4>3 DEF Bare
        <5> QED BY <2>5, <4>1, <5>1 DEF Bare
      <4> QED BY <4>2, <4>3
    <3>3. \A p, q \in reading' : p.id = q.id => p = q
      BY <1>2, <1>4 DEF ReadsInv
    <3>4. geometries' \subseteq 1..drops'
      BY <1>1, <1>2, <1>3, <2>1 DEF ReadsInv
    <3> QED BY <3>1, <3>2, <3>3, <3>4 DEF ReadsInv
  <2> QED BY <2>4, <2>6, <2>8, <2>9, <2>10 DEF FilesInv
<1>6. CASE ~WithGeometry(r)
  <2>1. /\ UNCHANGED <<added, geometries>>
        /\ dataFile' \in {dataFile, r.id}
        /\ alert' \in {"none", "no geography", "invalid"}
    BY <1>1, <1>2, <1>6 DEF NoGeometry, Invalid, FilesOK, observed
  <2>2. FilesOK'
    BY <1>1, <1>2, <1>3, <2>1 DEF FilesOK
  <2>3. ASSUME NEW f, Bare(f) PROVE Bare(f)'
    BY <1>1, <2>1, <2>3 DEF Bare
  <2>4. Bare(dataFile)'
    <3>1. CASE dataFile' = dataFile
      BY <1>2, <2>3, <3>1 DEF Bare
    <3>2. CASE dataFile' = r.id
      BY <1>1, <1>3, <1>4, <2>1, <3>2 DEF Bare
    <3> QED BY <2>1, <3>1, <3>2
  <2>5. AddedInv' /\ AddedHasGeometry'
    BY <1>2, <2>1, <2>3 DEF AddedInv, AddedHasGeometry, Bare
  <2>6. ReadsInv'
    <3>1. \A q \in reading' : Bare(q.dataFile)'
      <4> SUFFICES ASSUME NEW q \in reading' PROVE Bare(q.dataFile)'
        OBVIOUS
      <4>1. Bare(q.dataFile)
        BY <1>2, <1>4 DEF ReadsInv
      <4> QED BY <2>3, <4>1 DEF Bare
    <3> QED BY <1>1, <1>2, <1>4, <2>1, <3>1 DEF ReadsInv
  <2> QED BY <2>2, <2>4, <2>5, <2>6 DEF FilesInv
<1> QED BY <1>5, <1>6

-----------------------------------------------------------------------------
(* The steps.                                                              *)

LEMMA InitInv == Init => IInv
<1> SUFFICES ASSUME Init PROVE IInv
  OBVIOUS
<1>1. SwitchesOK /\ LeftAsFound
  BY Zenon DEF Init, SwitchesOK, LeftAsFound
<1>2. BarsOK
  BY DataInputAssumption DEF Init, BarsOK
<1>3. FilesInv
  <2>1. FilesOK
    BY DEF Init, FilesOK
  <2>2. ReadsInv /\ Bare(dataFile)
    BY DEF Init, ReadsInv, Bare
  <2>3. AddedInv /\ AddedHasGeometry
    BY DEF Init, AddedInv, AddedHasGeometry
  <2> QED BY <2>1, <2>2, <2>3 DEF FilesInv
<1> QED BY <1>1, <1>2, <1>3 DEF IInv

\* The files are left alone by the steps of the dialog and of the sidebar.
LEMMA AloneFiles ==
  ASSUME IInv, UNCHANGED <<reading, drops, added, geometries, dataFile, geoColumn>>,
         alert' \in {alert, "none"}
  PROVE  FilesInv'
BY FilesKept DEF IInv, FilesInv, FilesOK

LEMMA ToggleKeeps == ASSUME IInv, AddDataButton \/ OnClose \/ CloseButton PROVE IInv'
<1>1. /\ isOpen' = ~isOpen /\ sidebar' = ~sidebar /\ alert' \in {alert, "none"}
      /\ UNCHANGED <<tableOpen, rows, arrow, torn, overtaken, reading, drops, added,
                     geometries, dataFile, geoColumn, intervals, intervalId>>
      /\ progress' \in {progress, 0}
      /\ ~isOpen => uploader < MaxOpens
      /\ uploader' = IF isOpen THEN uploader ELSE uploader + 1
  BY DEF AddDataButton, OnClose, CloseButton, ToggleSelfAndParent, file, IInv, SwitchesOK
<1>2. opened' = ~isOpen /\ opened' \in BOOLEAN
  BY DEF AddDataButton, OnClose, CloseButton, IInv, SwitchesOK
<1>3. SwitchesOK' /\ LeftAsFound'
  <2>1. SwitchesOK /\ LeftAsFound /\ overtaken' \in BOOLEAN
    BY <1>1 DEF IInv, SwitchesOK
  <2> QED BY <1>1, <1>2, <2>1, TogglesKeep
<1>4. BarsOK'
  <2>1. progress' \in 0..Full
    BY <1>1, DataInputAssumption DEF IInv, BarsOK
  <2> QED BY <1>1, <2>1, ToggleBars DEF IInv
<1>5. FilesInv'
  BY <1>1, AloneFiles
<1> QED BY <1>3, <1>4, <1>5 DEF IInv

\* A file that is done, after its progress bar was reset or not.
LEMMA ProcessKeeps ==
  ASSUME IInv, NEW r \in reading, Process(r), progress' \in 0..Full,
         intervals' \subseteq intervals
  PROVE  IInv'
<1>1. FilesInv'
  BY ProcessFiles DEF IInv
<1>2. SwitchesOK /\ LeftAsFound /\ BarsOK
  BY DEF IInv
<1>3. /\ UNCHANGED <<drops, intervalId, tableOpen, rows, arrow, torn>>
      /\ ~isOpen => uploader < MaxOpens
  BY DEF Process
<1>4. CASE WithGeometry(r)
  <2>1. /\ isOpen' = ~isOpen /\ sidebar' = ~sidebar /\ opened' = FALSE
        /\ uploader' = IF isOpen THEN uploader ELSE uploader + 1
        /\ overtaken' = (overtaken \/ ~isOpen)
    BY <1>4 DEF WithGeometry, ToggleSelfAndParent
  <2>2. BarsOK'
    BY <1>2, <1>3, <2>1, ToggleBars
  <2>3. SwitchesOK' /\ LeftAsFound'
    <3>1. /\ opened' \in BOOLEAN /\ overtaken' \in BOOLEAN
          /\ ~overtaken' => ~overtaken /\ opened' = ~isOpen
      BY <1>2, <2>1 DEF SwitchesOK
    <3> QED BY <1>2, <1>3, <2>1, <3>1, TogglesKeep
  <2> QED BY <1>1, <2>2, <2>3 DEF IInv
<1>5. CASE ~WithGeometry(r)
  <2>1. UNCHANGED <<isOpen, sidebar, uploader, opened, overtaken>>
    BY <1>5 DEF Process, NoGeometry, Invalid, observed
  <2>2. BarsOK'
    BY <1>2, <1>3, <2>1 DEF BarsOK
  <2>3. SwitchesOK' /\ LeftAsFound'
    BY <1>2, <1>3, <2>1, SwitchesKept DEF Switches
  <2> QED BY <1>1, <2>2, <2>3 DEF IInv
<1> QED BY <1>4, <1>5

LEMMA LoadKeeps == ASSUME IInv, NEW r \in reading, Load(r) \/ LoadZip(r) \/ Parse(r) PROVE IInv'
<1>1. BarsOK /\ progress \in 0..Full
  BY DEF IInv, BarsOK
<1>2. CASE Load(r)
  BY <1>1, <1>2, ResetBars, ProcessKeeps DEF Load
<1>3. CASE LoadZip(r)
  <2>1. progress' \in 0..Full /\ intervals' \subseteq intervals
    BY <1>1, <1>3, ResetBars DEF LoadZip
  <2>2. UNCHANGED <<isOpen, drops, uploader, intervalId>> /\ UNCHANGED Switches
    BY <1>3 DEF LoadZip, dialog, parent, observed, Switches
  <2>3. BarsOK'
    BY <1>1, <2>1, <2>2 DEF BarsOK
  <2>4. SwitchesOK' /\ LeftAsFound'
    BY <2>2, SwitchesKept DEF IInv
  <2> QED BY <1>3, <2>3, <2>4, ZipFiles DEF IInv
<1>4. CASE Parse(r)
  <2>1. Process(r) /\ progress' = progress /\ intervals' = intervals
    BY <1>4 DEF Parse
  <2> QED BY <1>1, <2>1, ProcessKeeps
<1> QED BY <1>2, <1>3, <1>4

LEMMA NextInv == IInv /\ [Next]_vars => IInv'
<1> SUFFICES ASSUME IInv, [Next]_vars PROVE IInv'
  OBVIOUS
<1>0. SwitchesOK /\ LeftAsFound /\ BarsOK /\ FilesInv
  BY DEF IInv
<1>1. CASE AddDataButton \/ OnClose \/ CloseButton
  BY <1>1, ToggleKeeps
<1>2. ASSUME UNCHANGED Switches, UNCHANGED Bars, UNCHANGED <<reading, added, geometries>>,
             dataFile' \in {dataFile, None}, geoColumn' \in Columns \union {None},
             alert' \in {"none", "no geography", "invalid"}
      PROVE  IInv'
  <2>1. BarsOK'
    BY <1>0, <1>2, BarsKept DEF Switches
  <2>2. SwitchesOK' /\ LeftAsFound'
    BY <1>0, <1>2, SwitchesKept
  <2> QED BY <1>0, <1>2, <2>1, <2>2, FilesKept DEF IInv, Bars
<1>3. FilesOK
  BY <1>0 DEF FilesInv
<1>4. CASE Trash
  BY <1>2, <1>3, <1>4 DEF Trash, FilesOK, Switches, Bars, file, parent, observed
<1>5. ASSUME NEW c \in Columns, TypeColumn(c) PROVE IInv'
  BY <1>2, <1>3, <1>5 DEF TypeColumn, FilesOK, Switches, Bars, file, parent, observed
<1>6. ASSUME NEW supported \in BOOLEAN, HandleDrop(supported) PROVE IInv'
  <2>1. UNCHANGED Switches
    BY <1>6 DEF HandleDrop, dialog, parent, observed, Switches
  <2> QED BY <1>0, <1>6, <2>1, DropBars, DropFiles, SwitchesKept DEF IInv
<1>7. CASE Cancel
  <2>1. /\ UNCHANGED Switches /\ UNCHANGED dialog
        /\ UNCHANGED <<reading, drops, uploader, intervalId, added, geometries>>
    BY <1>7 DEF Cancel, dialog, parent, observed, Switches
  <2>2. progress' \in 0..Full /\ intervals' \subseteq intervals
    BY <1>0, <1>7, ResetBars DEF Cancel
  <2>3. BarsOK'
    BY <1>0, <2>1, <2>2 DEF BarsOK, dialog
  <2>4. FilesInv'
    BY <2>1, AloneFiles DEF dialog
  <2> QED BY <1>0, <2>1, <2>3, <2>4, SwitchesKept DEF IInv
<1>8. ASSUME NEW i \in intervals, Tick(i) PROVE IInv'
  <2>1. UNCHANGED Switches
    BY <1>8 DEF Tick, dialog, parent, observed, Switches
  <2>2. FilesInv'
    BY <1>8, AloneFiles DEF Tick, dialog, observed
  <2> QED BY <1>0, <1>8, <2>1, <2>2, TickKeeps, SwitchesKept DEF IInv
<1>9. ASSUME NEW r \in reading, Load(r) \/ LoadZip(r) \/ Parse(r) PROVE IInv'
  BY <1>9, LoadKeeps
<1>10. CASE Arrow \/ OpenTable \/ CloseTable \/ DataChange
  <2>1. UNCHANGED <<dialog, reading, drops, file, observed>>
    BY <1>10 DEF Arrow, OpenTable, CloseTable, DataChange
  <2>2. BarsOK'
    BY <1>0, <2>1, BarsKept DEF dialog, file, Bars
  <2>3. FilesInv'
    BY <2>1, AloneFiles DEF dialog, observed
  <2>4. SwitchesOK' /\ LeftAsFound'
    <3>1. CASE Arrow \/ OpenTable \/ CloseTable
      <4>1. /\ sidebar' = ~sidebar
            /\ \/ arrow' = ~arrow /\ UNCHANGED tableOpen
               \/ tableOpen' = ~tableOpen /\ UNCHANGED arrow
            /\ UNCHANGED <<rows, torn>>
        BY <1>0, <3>1 DEF Arrow, OpenTable, CloseTable, SwitchesOK
      <4> QED BY <1>0, <2>1, <4>1, SidebarKeeps DEF dialog, observed
    <3>2. CASE DataChange
      BY <1>0, <3>2, DataChangeKeeps
    <3> QED BY <1>10, <3>1, <3>2
  <2> QED BY <2>2, <2>3, <2>4 DEF IInv
<1>11. CASE UNCHANGED vars
  BY <1>2, <1>3, <1>11 DEF vars, dialog, file, parent, observed, Switches, Bars, FilesOK
<1> QED
  BY <1>1, <1>4, <1>5, <1>6, <1>7, <1>8, <1>9, <1>10, <1>11 DEF Next

\* The invariant the others are parts of: a file taken for data without
\* geometry has none, and no read of it is still under way.
THEOREM Invariance == Spec => []IInv
BY InitInv, NextInv, PTL DEF Spec

\* The dialog, its files and the sidebar keep values of the right kind.
THEOREM TypeCorrect == Spec => []TypeOK
BY Invariance, TypeParts, PTL

\* The dialog stays as the user left it until a late file opens it again, and
\* the sidebar is given back as it was found, unless the data go under a table.
THEOREM GivenBack == Spec => []LeftAsFound
<1>1. IInv => LeftAsFound
  BY DEF IInv
<1> QED BY Invariance, <1>1, PTL

\* What reaches Home has geometry, in it or beside it, in whatever order the
\* files were dropped, read and parsed.
THEOREM GeometryAdded == Spec => []AddedHasGeometry
<1>1. IInv => AddedHasGeometry
  BY DEF IInv, FilesInv
<1> QED BY Invariance, <1>1, PTL

\* A data file that waits leaves with its geography or by the user's hand, when
\* every file being read was dropped after it was known.
THEOREM WaitingKept == Spec => WaitingFileKept
<1>1. [Next]_vars =>
        [dataFile # None /\ dataFile' # dataFile
         /\ (\A r \in reading : r.dataFile = dataFile) =>
           /\ dataFile' = None
           /\ added' # added => added'.data = dataFile]_vars
  <2> SUFFICES ASSUME [Next]_vars, dataFile # None, dataFile' # dataFile,
                      \A r \in reading : r.dataFile = dataFile
               PROVE  dataFile' = None /\ (added' # added => added'.data = dataFile)
    OBVIOUS
  <2>1. CASE Trash
    BY <2>1 DEF Trash, observed
  <2>2. ASSUME NEW r \in reading, Process(r)
        PROVE  dataFile' = None /\ (added' # added => added'.data = dataFile)
    <3>1. WithGeometry(r)
      BY <2>2 DEF Process, NoGeometry, Invalid
    <3>2. AddedBy(r).data = dataFile
      BY DEF AddedBy
    <3> QED BY <3>1, <3>2 DEF WithGeometry
  <2>3. UNCHANGED dataFile \/ Trash \/ \E r \in reading : Process(r)
    BY DEF Next, vars, dialog, AddDataButton, OnClose, CloseButton, TypeColumn,
           ToggleSelfAndParent, HandleDrop, Cancel, Tick, Load, LoadZip, Parse,
           Arrow, OpenTable, CloseTable, DataChange
  <2> QED BY <2>1, <2>2, <2>3
<1> QED BY <1>1, PTL DEF Spec, WaitingFileKept
=============================================================================

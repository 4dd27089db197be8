-------------------------- MODULE HomeData_proofs --------------------------
(***************************************************************************)
(* Proofs about HomeData, for every value of its constants: the types, the *)
(* inductive invariant, and the safety properties that follow from it.     *)
(***************************************************************************)
EXTENDS HomeData, TLAPS

Filters == [what : {"all", "multi", "coords", "column", "bounds"},
            selected : SelectionsOrNone, found : BOOLEAN]

\* A state of Home whose held line has a layer, and whose mask has no data
\* under it but that of a join that found no features.
Sound(s) ==
  /\ s \in States
  /\ s.coords => s.view # NoView
  /\ s.loading /\ s.data # NoData => s.alert = "no matching column"

-----------------------------------------------------------------------------
(* What generateLayer may do to a state.                                    *)

\* A filter that finds features started from a data set.
LEMMA FoundFromSource ==
  ASSUME NEW s \in States, NEW f \in Filters, Found(s, f)
  PROVE  StartsFrom(s, f) \in Sources
<1>1. s.view.data \in Sources \union {NoData}
  BY DEF States, Views, NoView
<1>2. s.data \in Sources \union {NoData}
  BY DEF States
<1> QED BY <1>1, <1>2 DEF Found, StartsFrom

\* The view that is drawn from what was found is a real one.
LEMMA DrawnView ==
  ASSUME NEW read \in States, NEW f \in Filters, Found(read, f)
  PROVE  /\ [data |-> StartsFrom(read, f), geography |-> read.geography,
             geographyColumn |-> read.geographyColumn,
             select |-> Selected(read, f)] \in Views
         /\ [data |-> StartsFrom(read, f), geography |-> read.geography,
             geographyColumn |-> read.geographyColumn,
             select |-> Selected(read, f)] # NoView
         /\ Selected(read, f) \in SelectionsOrNone
<1>1. StartsFrom(read, f) \in Sources
  BY FoundFromSource
<1>2. /\ read.geography \in Geographies \union {NoGeo}
      /\ read.geographyColumn \in ColumnNames
      /\ read.select \in SelectionsOrNone
  BY DEF States
<1>3. Selected(read, f) \in SelectionsOrNone
  BY <1>2 DEF Selected, Filters
<1>4. NoData \notin Sources
  BY DistinctAssumption
<1> QED BY <1>1, <1>2, <1>3, <1>4 DEF Views, NoView

\* What a generateLayer that read `read` may turn s into.
MayBecome(d, s, read) ==
  /\ d \in States
  /\ d.data = s.data /\ d.reset = s.reset
  /\ d.loading => d.alert = "no matching column" \/ (d = s /\ read.data = NoData)
  /\ d.coords => d.view # NoView \/ (s.coords /\ d.view = s.view)

\* generateLayer keeps the types and leaves the sources alone; it ends the
\* loading if there is data to read, or says that no column matches.
LEMMA DrawnState ==
  ASSUME NEW s \in States, NEW read \in States, NEW f \in Filters,
         NEW error \in Alerts
  PROVE  MayBecome(Drawn(s, read, f, error), s, read)
<1>1. CASE read.data = NoData
  BY <1>1 DEF Drawn, States, MayBecome
<1>2. CASE read.data # NoData /\ ~Found(read, f)
  <2>1. Drawn(s, read, f, error)
          \in {[s EXCEPT !.alert = "no matching column"],
               [s EXCEPT !.loading = FALSE, !.alert = "no results"]}
    BY <1>2 DEF Drawn, Alerted
  <2> QED BY <2>1 DEF States, Alerts, MayBecome
<1>3. CASE read.data # NoData /\ Found(read, f)
  <2> DEFINE v == [data |-> StartsFrom(read, f), geography |-> read.geography,
                   geographyColumn |-> read.geographyColumn,
                   select |-> Selected(read, f)]
             held == read.coords \/ f.what = "coords"
  <2>1. v \in Views /\ v # NoView /\ Selected(read, f) \in SelectionsOrNone
    BY <1>3, DrawnView
  <2>2. Drawn(s, read, f, error)
          = [s EXCEPT !.loading = FALSE, !.alert = error, !.view = v,
                      !.select = Selected(read, f), !.coords = held]
    BY <1>3 DEF Drawn, Layered
  <2>3. held \in BOOLEAN
    BY DEF States
  <2> HIDE DEF v, held
  <2> QED BY <2>1, <2>2, <2>3 DEF States, MayBecome
<1> QED BY <1>1, <1>2, <1>3

\* The host is told a selection or none.
LEMMA ToldType ==
  ASSUME NEW read \in States, NEW f \in Filters, told \in SelectionsOrNone
  PROVE  Told(read, f) \in SelectionsOrNone
BY DrawnView DEF Told, SelectionsOrNone

\* A call of generateLayer on a state stored with sound fields leaves one.
LEMMA CallSound ==
  ASSUME NEW s \in States, NEW read \in States, NEW f \in Filters,
         NEW error \in Alerts, told \in SelectionsOrNone,
         s.coords => s.view # NoView,
         read.data = NoData => Sound(s),
         CallGenerateLayer(s, read, f, error)
  PROVE  /\ Sound(st')
         /\ st'.data = s.data /\ st'.reset = s.reset
         /\ told' \in SelectionsOrNone
<1>1. st' = Drawn(s, read, f, error) /\ told' = Told(read, f)
  BY DEF CallGenerateLayer
<1>0. MayBecome(st', s, read)
  BY <1>1, DrawnState
<1>2. st' \in States /\ st'.data = s.data /\ st'.reset = s.reset
  BY <1>0 DEF MayBecome
<1>3. st'.loading => \/ st'.alert = "no matching column"
                     \/ st' = s /\ read.data = NoData
  BY <1>0 DEF MayBecome
<1>4. st'.coords => st'.view # NoView \/ (s.coords /\ st'.view = s.view)
  BY <1>0 DEF MayBecome
<1>5. told' \in SelectionsOrNone
  BY <1>1, ToldType
<1> QED BY <1>2, <1>3, <1>4, <1>5 DEF Sound
-----------------------------------------------------------------------------
(* The inductive invariant.                                                 *)

\* Requests in flight belong to different loads, all of them started.
OnePerLoad ==
  \A r \in pending : r.id <= loads /\ \A q \in pending : q.id = r.id => q = r

\* What a mount and an answer may bring, beside what holds of every state.
IInv ==
  /\ TypeOK
  /\ Sound(st)
  /\ phase = "constructed" =>
       ~button /\ ~st.reset /\ pending = {} /\ st.data = NoData
  /\ OnePerLoad

\* The constructor establishes the invariant.
LEMMA InitIInv == Init => IInv
<1> SUFFICES ASSUME Init PROVE IInv
  OBVIOUS
<1> USE DEF Init
<1>1. props \in Props
  BY ParametersAssumption
<1>2. st \in States
  BY <1>1 DEF States, Props, Alerts
<1>3. TypeOK
  BY <1>2 DEF TypeOK, SelectionsOrNone
<1> QED
  BY <1>2, <1>3 DEF IInv, Sound, OnePerLoad

\* Loading from the props: at most one load is started, in a sound state.
LEMMA InitDataSound ==
  ASSUME NEW s \in States, NEW p \in Props, TypeOK, OnePerLoad,
         Sound(s), InitDataState(s, p)
  PROVE  /\ Sound(st') /\ st'.reset = s.reset
         /\ told' \in SelectionsOrNone
         /\ pending' \subseteq Requests /\ loads' \in Nat
         /\ OnePerLoad'
         /\ \/ st'.data \in Inline /\ pending' = pending
            \/ st'.data = s.data /\ pending' = pending
            \/ st'.data = s.data /\ \E url \in URLs : StartLoad(url)
<1> s.coords => s.view # NoView
  BY DEF Sound
<1> USE DEF TypeOK
<1>1. CASE p.data \in Inline /\ UNCHANGED <<pending, loads>>
           /\ \E found \in BOOLEAN :
                LET set == [s EXCEPT !.loading = FALSE, !.data = p.data]
                IN  CallGenerateLayer(set, set, Filter("all", found), "none")
  <2> DEFINE set == [s EXCEPT !.loading = FALSE, !.data = p.data]
  <2>1. PICK found \in BOOLEAN :
          CallGenerateLayer(set, set, Filter("all", found), "none")
    BY <1>1
  <2>2. /\ set \in States /\ ~set.loading
        /\ set.data = p.data /\ set.reset = s.reset
        /\ set.coords => set.view # NoView
        /\ set.data # NoData
    BY <1>1, DistinctAssumption DEF States, Sources
  <2>3. Filter("all", found) \in Filters /\ "none" \in Alerts
    BY DEF Filters, Filter, SelectionsOrNone, Alerts
  <2> HIDE DEF set
  <2>4. Sound(st') /\ st'.data = set.data /\ st'.reset = set.reset
        /\ told' \in SelectionsOrNone
    BY <2>1, <2>2, <2>3, CallSound
  <2> QED BY <1>1, <2>2, <2>4 DEF OnePerLoad
<1>2. CASE p.defaultURL \in URLs /\ st' = s /\ StartLoad(p.defaultURL)
           /\ UNCHANGED told
  <2>1. loads + 1 \in Nat /\ \A r \in pending : r.id \in Nat /\ r.id # loads + 1
    BY DEF OnePerLoad, Requests
  <2>2. [id |-> loads + 1, stage |-> "data", url |-> p.defaultURL,
         data |-> NoData] \in Requests
    BY <1>2, <2>1 DEF Requests
  <2>3. pending' \subseteq Requests /\ loads' = loads + 1
    BY <1>2, <2>2 DEF StartLoad
  <2>4. OnePerLoad'
    BY <1>2, <2>1 DEF StartLoad, OnePerLoad
  <2> QED BY <1>2, <2>1, <2>3, <2>4 DEF Sound
<1>3. CASE st' = [s EXCEPT !.loading = FALSE]
           /\ UNCHANGED <<pending, loads, told>>
  BY <1>3 DEF Sound, States, OnePerLoad
<1> QED BY <1>1, <1>2, <1>3 DEF InitDataState

\* An action that only calls generateLayer, with the data left as it is.
LEMMA GenerateKeepsIInv ==
  ASSUME NEW s \in States, NEW read \in States, NEW f \in Filters,
         IInv, mounted, Event,
         s.data = st.data, s.reset = st.reset,
         s.coords => s.view # NoView,
         read.data = NoData => Sound(s),
         CallGenerateLayer(s, read, f, "none"),
         UNCHANGED <<phase, props, button, pending, loads>>
  PROVE  IInv' /\ st'.data = st.data /\ st'.reset = st.reset
         /\ UNCHANGED <<button, pending>>
<1>1. Sound(st') /\ st'.data = st.data /\ st'.reset = st.reset
      /\ told' \in SelectionsOrNone
  BY CallSound DEF Alerts, IInv, TypeOK
<1>2. events' \in Nat
  BY DEF Event, IInv, TypeOK
<1>3. st' \in States
  BY <1>1 DEF Sound
<1> QED
  BY <1>1, <1>2, <1>3 DEF IInv, TypeOK, OnePerLoad, mounted

\* Mounting loads from the props, with no user data in force.
LEMMA MountIInv == IInv /\ Mount => IInv'
<1> SUFFICES ASSUME IInv, Mount PROVE IInv'
  OBVIOUS
<1>1. props \in Props /\ ~button
  BY ParametersAssumption DEF IInv, TypeOK, Mount
<1>2. /\ Sound(st') /\ told' \in SelectionsOrNone
      /\ pending' \subseteq Requests /\ loads' \in Nat /\ OnePerLoad'
  <2>1. st \in States /\ TypeOK /\ OnePerLoad /\ Sound(st)
        /\ InitDataState(st, props)
    BY DEF IInv, TypeOK, Mount
  <2> QED BY <1>1, <2>1, InitDataSound
<1>3. st' \in States
  BY <1>2 DEF Sound
<1> QED
  BY <1>1, <1>2, <1>3 DEF IInv, TypeOK, Mount

\* New props start a load, hand over inline data, or are not heeded.
LEMMA ChangePropsIInv ==
  ASSUME NEW new \in PropsSet, NEW same \in BOOLEAN, IInv,
         ChangeProps(new, same)
  PROVE  IInv'
<1>1. new \in Props
  BY ParametersAssumption
<1>2. CASE NoticesChange(props, new, same)
  <2>2. InitDataState(st, new)
    BY <1>2 DEF ChangeProps
  <2>3. /\ Sound(st') /\ st'.reset = st.reset
        /\ told' \in SelectionsOrNone
        /\ pending' \subseteq Requests /\ loads' \in Nat /\ OnePerLoad'
    <3>1. st \in States /\ TypeOK /\ OnePerLoad /\ Sound(st)
      BY DEF IInv, TypeOK
    <3> QED BY <1>1, <2>2, <3>1, InitDataSound
  <2>4. st' \in States
    BY <2>3 DEF Sound
  <2> QED
    BY <2>3, <2>4 DEF IInv, TypeOK, ChangeProps, Event, mounted
<1>3. CASE ~NoticesChange(props, new, same)
  BY <1>3 DEF IInv, TypeOK, OnePerLoad, ChangeProps, Event, mounted
<1> QED BY <1>2, <1>3

\* Adding data puts the user's file in place of the source.
LEMMA AddDataKeeps ==
  ASSUME NEW file \in Files, NEW geography \in GeoFiles \union {NoGeo},
         NEW column \in ColumnNames, IInv, AddData(file, geography, column)
  PROVE  IInv' /\ st'.data = file /\ st'.reset
<1> DEFINE set == [Cleared(st) EXCEPT !.data = file, !.geography = geography,
                                      !.geographyColumn = column]
<1>1. PICK found \in BOOLEAN :
        CallGenerateLayer(set, set, Filter("all", found), "none")
  BY DEF AddData
<1>2. set \in States /\ set.data = file /\ set.reset /\ ~set.coords
  BY DEF IInv, TypeOK, Cleared, States, Sources, Geographies,
         SelectionsOrNone
<1>3. Filter("all", found) \in Filters /\ "none" \in Alerts
  BY DEF Filters, Filter, SelectionsOrNone, Alerts
<1>4. file # NoData /\ file \notin Inline
  BY DistinctAssumption DEF Sources
<1> HIDE DEF set
<1>5. told \in SelectionsOrNone
  BY DEF IInv, TypeOK
<1>6. Sound(st') /\ st'.data = file /\ st'.reset
      /\ told' \in SelectionsOrNone
  <2>1. set.data # NoData
    BY <1>2, <1>4
  <2> QED BY <1>1, <1>2, <1>3, <1>5, <2>1, CallSound
<1>7. st' \in States
  BY <1>6 DEF Sound
<1> QED
  BY <1>6, <1>7 DEF IInv, TypeOK, OnePerLoad, AddData, Event, mounted

\* Reset clears the map first and then loads from the props.
LEMMA ResetKeeps ==
  ASSUME IInv, Reset
  PROVE  /\ IInv'
         /\ \/ st'.data \in Inline \union {NoData} /\ pending' = pending
            \/ st'.data = NoData /\ \E url \in URLs : StartLoad(url)
         /\ st'.reset
<1> DEFINE s == Cleared(st)
<1>1. s \in States /\ s.data = NoData /\ s.reset /\ Sound(s)
  BY DEF IInv, TypeOK, Cleared, States, SelectionsOrNone, Sound
<1>2. props \in Props /\ InitDataState(s, props)
  BY ParametersAssumption DEF IInv, TypeOK, Reset
<1> HIDE DEF s
<1>3. /\ Sound(st') /\ told' \in SelectionsOrNone
      /\ pending' \subseteq Requests /\ loads' \in Nat /\ OnePerLoad'
      /\ \/ st'.data \in Inline \union {NoData} /\ pending' = pending
         \/ st'.data = NoData /\ \E url \in URLs : StartLoad(url)
      /\ st'.reset
  BY <1>1, <1>2, InitDataSound DEF IInv
<1>4. mounted /\ events' = events + 1 /\ UNCHANGED <<phase, props>>
  BY DEF Reset, Event
<1>5. button' \in BOOLEAN /\ ~button'
  BY DEF Reset
<1>6. st' \in States
  BY <1>3 DEF Sound
<1> QED
  BY <1>3, <1>4, <1>5, <1>6 DEF IInv, TypeOK, mounted

\* What an answer on the path without a geography does to the state.
LEMMA InitWithGeojsonSound ==
  ASSUME NEW url \in URLs, NEW answer \in Answers, NEW error \in Alerts,
         IInv, InitWithGeojson(url, answer, error)
  PROVE  /\ Sound(st') /\ told' \in SelectionsOrNone /\ st'.reset = st.reset
         /\ st'.data \in {st.data, url, NoData}
<1> DEFINE set == [st EXCEPT !.loading = FALSE, !.data = url]
<1>1. /\ set \in States /\ ~set.loading /\ set.data = url
      /\ set.reset = st.reset
      /\ set.coords => set.view # NoView
  BY DEF IInv, TypeOK, Sound, States, Sources
<1>2. CASE \E found \in BOOLEAN :
             CallGenerateLayer(set, ReadsAfter(set), Filter("all", found), error)
  <2>1. PICK found \in BOOLEAN :
          CallGenerateLayer(set, ReadsAfter(set), Filter("all", found), error)
    BY <1>2
  <2>2. Filter("all", found) \in Filters
    BY DEF Filters, Filter, SelectionsOrNone
  <2>3. ReadsAfter(set) \in States
    BY <1>1 DEF ReadsAfter, IInv, TypeOK
  <2>4. told \in SelectionsOrNone
    BY DEF IInv, TypeOK
  <2> HIDE DEF set
  <2>5. Sound(set)
    BY <1>1 DEF Sound
  <2>6. Sound(st') /\ st'.data = set.data /\ st'.reset = set.reset
        /\ told' \in SelectionsOrNone
    BY <2>1, <2>2, <2>3, <2>4, <2>5, <1>1, CallSound
  <2> QED BY <2>6, <1>1
<1>3. CASE st' = Unreachable([set EXCEPT !.data = NoData]) /\ UNCHANGED told
  BY <1>1, <1>3 DEF Unreachable, IInv, TypeOK, Sound, States, Alerts
<1>4. CASE st' = Unreachable(st) /\ UNCHANGED told
  BY <1>4 DEF Unreachable, IInv, TypeOK, Sound, States, Alerts
<1> QED BY <1>2, <1>3, <1>4 DEF InitWithGeojson

\* What a geography's answer does to the state.
LEMMA UpdateStateSound ==
  ASSUME NEW r \in pending, NEW answer \in Answers, IInv, mounted,
         r.url \in GeoURLs, r.data \in URLs \union {NoData},
         UpdateStateAndLayers(r, answer)
  PROVE  /\ Sound(st') /\ told' \in SelectionsOrNone /\ st'.reset = st.reset
         /\ st'.data \in {st.data, r.data}
         /\ phase' \in {phase, "gone"}
<1> DEFINE set == [st EXCEPT !.loading = FALSE, !.geography = r.url,
                             !.data = r.data, !.alert = "none"]
<1>1. /\ set \in States /\ ~set.loading /\ set.data = r.data
      /\ set.reset = st.reset
      /\ set.coords => set.view # NoView
  BY DEF IInv, TypeOK, Sound, States, Sources, Geographies, Alerts
<1>2. CASE UNCHANGED phase /\ \E found \in BOOLEAN :
             CallGenerateLayer(set, set, Filter("all", found), "none")
  <2>1. PICK found \in BOOLEAN :
          CallGenerateLayer(set, set, Filter("all", found), "none")
    BY <1>2
  <2>2. Filter("all", found) \in Filters /\ "none" \in Alerts
    BY DEF Filters, Filter, SelectionsOrNone, Alerts
  <2>3. told \in SelectionsOrNone
    BY DEF IInv, TypeOK
  <2> HIDE DEF set
  <2>4. Sound(set)
    BY <1>1 DEF Sound
  <2>5. Sound(st') /\ st'.data = set.data /\ st'.reset = set.reset
        /\ told' \in SelectionsOrNone
    BY <1>1, <2>1, <2>2, <2>3, <2>4, CallSound
  <2> QED BY <1>1, <1>2, <2>5
<1>3. CASE st' = [set EXCEPT !.geography = NoGeo] /\ phase' = "gone"
           /\ UNCHANGED told
  BY <1>1, <1>3 DEF IInv, TypeOK, Sound, States
<1>4. CASE st' = Unreachable(st) /\ UNCHANGED <<phase, told>>
  BY <1>4 DEF Unreachable, IInv, TypeOK, Sound, States, Alerts
<1> QED BY <1>2, <1>3, <1>4 DEF UpdateStateAndLayers

\* The callback of the first request hands over to a request for the
\* geography or ends the load.
LEMMA DataAnswerStep ==
  ASSUME NEW r \in pending, NEW answer \in Answers, IInv,
         DataAnswer(r, answer)
  PROVE  /\ r.stage = "data" /\ r.url \in URLs /\ r.id \in Nat
         /\ UNCHANGED <<phase, props, button, loads, events>>
         /\ \/ /\ UNCHANGED <<st, told>>
               /\ \E g \in Requests :
                    /\ g.id = r.id /\ g.stage = "geography"
                    /\ g.data \in {r.url, NoData}
                    /\ pending' = (pending \ {r}) \union {g}
            \/ /\ pending' = pending \ {r}
               /\ Sound(st') /\ told' \in SelectionsOrNone
               /\ st'.reset = st.reset
               /\ st'.data \in {st.data, r.url, NoData}
<1>1. r.stage = "data" /\ r.url \in URLs /\ r.id \in Nat
  BY DEF IInv, TypeOK, DataAnswer, Requests
<1>2. UNCHANGED <<phase, props, button, loads, events>>
  BY DEF DataAnswer
<1>3. CASE props.geographyURL \in GeoURLs
  <2> DEFINE g == [id |-> r.id, stage |-> "geography",
                   url |-> props.geographyURL,
                   data |-> IF answer = "ok" THEN r.url ELSE NoData]
  <2>1. /\ g \in Requests /\ g.id = r.id /\ g.stage = "geography"
        /\ g.data \in {r.url, NoData}
    BY <1>1, <1>3 DEF Requests
  <2>2. pending' = (pending \ {r}) \union {g} /\ UNCHANGED <<st, told>>
    BY <1>3 DEF DataAnswer
  <2> HIDE DEF g
  <2> QED BY <1>1, <1>2, <2>1, <2>2
<1>4. CASE props.geographyURL \notin GeoURLs
  <2>1. pending' = pending \ {r}
    BY <1>4 DEF DataAnswer
  <2>2. CASE ~mounted
    <3>1. AnsweredWhenGone(answer)
      BY <1>4, <2>2 DEF DataAnswer
    <3>2. \A found \in BOOLEAN : Filter("all", found) \in Filters
      BY DEF Filters, Filter, SelectionsOrNone
    <3>3. told' \in SelectionsOrNone /\ UNCHANGED st
      BY <3>1, <3>2, ToldType DEF AnsweredWhenGone, IInv, TypeOK
    <3> QED BY <1>1, <1>2, <2>1, <3>3 DEF IInv
  <2>3. CASE mounted
    BY <1>1, <1>2, <1>4, <2>1, <2>3, InitWithGeojsonSound
    DEF DataAnswer, Alerts
  <2> QED BY <2>2, <2>3
<1> QED BY <1>3, <1>4

\* The answer to the first request of a load keeps the invariant.
LEMMA DataAnswerIInv ==
  ASSUME NEW r \in pending, NEW answer \in Answers, IInv,
         DataAnswer(r, answer)
  PROVE  IInv'
<1>1. /\ r.stage = "data" /\ r.url \in URLs /\ r.id \in Nat
      /\ UNCHANGED <<phase, props, button, loads, events>>
  BY DataAnswerStep
<1>2. ASSUME NEW g \in Requests, g.id = r.id, UNCHANGED <<st, told>>,
             pending' = (pending \ {r}) \union {g}
      PROVE  IInv'
  <2>1. OnePerLoad' /\ pending' \subseteq Requests
    BY <1>1, <1>2 DEF OnePerLoad, IInv, TypeOK
  <2> QED
    BY <1>1, <1>2, <2>1 DEF IInv, TypeOK, Sound
<1>3. CASE /\ pending' = pending \ {r}
           /\ Sound(st') /\ told' \in SelectionsOrNone
           /\ st'.reset = st.reset
           /\ st'.data \in {st.data, r.url, NoData}
  <2>1. st'.data \in Inline => st.data \in Inline
    BY <1>1, <1>3, DistinctAssumption
  <2>2. OnePerLoad' /\ pending' \subseteq Requests
    BY <1>1, <1>3 DEF OnePerLoad, IInv, TypeOK
  <2> QED
    BY <1>1, <1>3, <2>1, <2>2 DEF IInv, TypeOK, Sound
<1> QED BY <1>2, <1>3, DataAnswerStep

\* A geography's answer ends the load.
LEMMA GeographyAnswerStep ==
  ASSUME NEW r \in pending, NEW answer \in Answers, IInv,
         GeographyAnswer(r, answer)
  PROVE  /\ r.stage = "geography" /\ r.data \in URLs \union {NoData}
         /\ pending' = pending \ {r}
         /\ UNCHANGED <<props, button, loads, events>>
         /\ Sound(st') /\ told' \in SelectionsOrNone /\ st'.reset = st.reset
         /\ st'.data \in {st.data, r.data}
         /\ phase' \in {phase, "gone"}
<1>1. /\ r.stage = "geography" /\ r.url \in GeoURLs
      /\ r.data \in URLs \union {NoData}
  BY DEF IInv, TypeOK, GeographyAnswer, Requests
<1>2. /\ pending' = pending \ {r}
      /\ UNCHANGED <<props, button, loads, events>>
  BY DEF GeographyAnswer
<1>3. CASE ~mounted
  BY <1>1, <1>2, <1>3 DEF GeographyAnswer, IInv, TypeOK
<1>4. CASE mounted
  BY <1>1, <1>2, <1>4, UpdateStateSound DEF GeographyAnswer
<1> QED BY <1>3, <1>4

\* The answer to the second request of a load keeps the invariant.
LEMMA GeographyAnswerIInv ==
  ASSUME NEW r \in pending, NEW answer \in Answers, IInv,
         GeographyAnswer(r, answer)
  PROVE  IInv'
<1>1. /\ r.data \in URLs \union {NoData}
      /\ pending' = pending \ {r}
      /\ UNCHANGED <<props, button, loads, events>>
      /\ Sound(st') /\ told' \in SelectionsOrNone /\ st'.reset = st.reset
      /\ st'.data \in {st.data, r.data}
      /\ phase' \in {phase, "gone"}
  BY GeographyAnswerStep
<1>2. st'.data \in Inline => st.data \in Inline
  BY <1>1, DistinctAssumption
<1>3. OnePerLoad' /\ pending' \subseteq Requests
  BY <1>1 DEF OnePerLoad, IInv, TypeOK
<1> QED
  BY <1>1, <1>2, <1>3 DEF IInv, TypeOK, Sound

\* Selecting, restyling, clicking and moving the map leave the sources alone.
LEMMA SidebarKeeps ==
  ASSUME IInv, Sidebar
  PROVE  IInv' /\ st'.data = st.data /\ st'.reset = st.reset
         /\ UNCHANGED <<button, pending>>
<1> DEFINE Kept == /\ IInv' /\ st'.data = st.data /\ st'.reset = st.reset
                   /\ UNCHANGED <<button, pending>>
<1> st \in States /\ Sound(st) /\ "none" \in Alerts
  BY DEF IInv, Sound, Alerts
<1>1. ASSUME NEW sel \in SelectionsOrNone, NEW aliased \in BOOLEAN,
             NEW found \in BOOLEAN, Select(sel, aliased, found)
      PROVE  Kept
  <2> DEFINE read == IF aliased THEN [st EXCEPT !.select = sel] ELSE st
             f == IF sel = NoSelect THEN Filter("all", found)
                  ELSE Multi(sel, found)
  <2>1. /\ read \in States /\ read.data = st.data /\ read.reset = st.reset
        /\ read.coords => read.view # NoView
        /\ Sound(read)
    BY DEF States, Sound
  <2>2. f \in Filters
    BY DEF Filters, Filter, Multi, SelectionsOrNone
  <2>3. /\ Event /\ CallGenerateLayer(read, read, f, "none")
        /\ UNCHANGED <<phase, props, button, pending, loads>>
    BY <1>1 DEF Select
  <2> HIDE DEF read, f
  <2> QED BY <2>1, <2>2, <2>3, GenerateKeepsIInv DEF Event
<1>2. ASSUME NEW what \in {"all", "column", "coords"}, NEW found \in BOOLEAN,
             Restyle(what, found)
      PROVE  Kept
  <2>1. Filter(what, found) \in Filters
    BY DEF Filters, Filter, SelectionsOrNone
  <2> QED BY <1>2, <2>1, GenerateKeepsIInv DEF Restyle, Event, Sound
<1>3. ASSUME NEW found \in BOOLEAN, ClickBackground(found)
      PROVE  Kept
  <2> DEFINE set == [st EXCEPT !.coords = FALSE]
  <2>1. /\ set \in States /\ set.data = st.data /\ set.reset = st.reset
        /\ ~set.coords /\ Sound(set)
    BY DEF States, Sound
  <2>2. Filter("all", found) \in Filters
    BY DEF Filters, Filter, SelectionsOrNone
  <2>3. ReadsAfter(set) \in States
    BY <2>1 DEF ReadsAfter
  <2>4. /\ Event
        /\ CallGenerateLayer(set, ReadsAfter(set), Filter("all", found), "none")
        /\ UNCHANGED <<phase, props, button, pending, loads>>
    BY <1>3 DEF ClickBackground
  <2> HIDE DEF set
  <2> QED BY <2>1, <2>2, <2>3, <2>4, GenerateKeepsIInv DEF Event
<1>4. ASSUME NEW found \in BOOLEAN, ToggleSubsetBoundsChange(found)
      PROVE  Kept
  <2> DEFINE set == [st EXCEPT !.subset = ~st.subset]
  <2>1. /\ set \in States /\ set.data = st.data /\ set.reset = st.reset
        /\ set.coords => set.view # NoView
        /\ Sound(set)
    BY DEF States, Sound
  <2>2. Filter("all", found) \in Filters
    BY DEF Filters, Filter, SelectionsOrNone
  <2>3. /\ Event /\ CallGenerateLayer(set, st, Filter("all", found), "none")
        /\ UNCHANGED <<phase, props, button, pending, loads>>
    BY <1>4 DEF ToggleSubsetBoundsChange
  <2> HIDE DEF set
  <2> QED BY <2>1, <2>2, <2>3, GenerateKeepsIInv DEF Event
<1>5. ASSUME NEW found \in BOOLEAN, MoveMap(found)
      PROVE  Kept
  <2> DEFINE set == [st EXCEPT !.loading = TRUE]
  <2>1. /\ set \in States /\ set.data = st.data /\ set.reset = st.reset
        /\ set.coords => set.view # NoView
        /\ st.data = NoData => Sound(set)
    BY DEF States, Sound
  <2>2. Filter("bounds", found) \in Filters
    BY DEF Filters, Filter, SelectionsOrNone
  <2>3. /\ Event /\ CallGenerateLayer(set, st, Filter("bounds", found), "none")
        /\ UNCHANGED <<phase, props, button, pending, loads>>
    BY <1>5 DEF MoveMap
  <2> HIDE DEF set
  <2> QED BY <2>1, <2>2, <2>3, GenerateKeepsIInv DEF Event
<1>6. ASSUME ChooseMapStyle PROVE Kept
  BY <1>6 DEF ChooseMapStyle, Event, mounted, IInv, TypeOK, OnePerLoad,
              SelectionsOrNone
<1> QED BY <1>1, <1>2, <1>3, <1>4, <1>5, <1>6 DEF Sidebar

\* The user cannot break the invariant.
LEMMA UserIInv == IInv /\ User => IInv'
BY SidebarKeeps, AddDataKeeps, ResetKeeps DEF User

\* No step breaks the invariant.
LEMMA NextIInv == IInv /\ [Next]_vars => IInv'
<1> SUFFICES ASSUME IInv, [Next]_vars PROVE IInv'
  OBVIOUS
<1>1. CASE Mount
  BY <1>1, MountIInv
<1>2. CASE Unmount
  BY <1>2 DEF Unmount, Event, mounted, IInv, TypeOK, OnePerLoad
<1>3. ASSUME NEW new \in PropsSet, NEW same \in BOOLEAN, ChangeProps(new, same)
      PROVE  IInv'
  BY <1>3, ChangePropsIInv
<1>4. CASE User
  BY <1>4, UserIInv
<1>5. ASSUME NEW r \in pending, NEW answer \in Answers,
             DataAnswer(r, answer) \/ GeographyAnswer(r, answer)
      PROVE  IInv'
  BY <1>5, DataAnswerIInv, GeographyAnswerIInv
<1>6. ASSUME NEW r \in pending, NeverCalledBack(r)
      PROVE  IInv'
  BY <1>6 DEF NeverCalledBack, IInv, TypeOK, Sound,
              OnePerLoad
<1>7. CASE UNCHANGED vars
  BY <1>7 DEF vars, IInv, TypeOK, Sound, OnePerLoad
<1> QED
  BY <1>1, <1>2, <1>3, <1>4, <1>5, <1>6, <1>7 DEF Next, Host, Answer

\* The invariant holds throughout.
THEOREM Invariance == Spec => []IInv
<1> QED BY InitIInv, NextIInv, PTL DEF Spec

\* The types are right: in particular nothing but an accepted URL is ever
\* requested, whatever the props (the isURL checks of _fetchAndUpdateState).
THEOREM TypeCorrect == Spec => []TypeOK
<1>1. IInv => TypeOK
  BY DEF IInv
<1> QED BY <1>1, Invariance, PTL

\* The loading mask is over loaded data only beside the alert that no column
\* matches, batched or not.
THEOREM MaskExplained == Spec => []MaskOverDataAlerts
<1>1. IInv => MaskOverDataAlerts
  BY DEF IInv, Sound, MaskOverDataAlerts
<1> QED BY <1>1, Invariance, PTL

\* A line is only held while there is a layer it is held in.
THEOREM HeldInALayer == Spec => []LineNeedsLayer
<1>1. IInv => LineNeedsLayer
  BY DEF IInv, Sound, LineNeedsLayer
<1> QED BY <1>1, Invariance, PTL

-----------------------------------------------------------------------------
(* Home implements DataFeed.                                                *)

\* A request as DataFeed sees it, and all that are in flight.
Ask(r) == [id |-> r.id, source |-> IF r.stage = "data" THEN r.url ELSE r.data]
Asks == {Ask(r) : r \in pending}

\* One started load is one more asked.
LEMMA StartLoadAsks ==
  ASSUME IInv, NEW url \in URLs, StartLoad(url)
  PROVE  \E a \in Asks' : /\ a \notin Asks /\ a.source \in URLs
                          /\ Asks' = Asks \union {a}
<1> DEFINE r == [id |-> loads + 1, stage |-> "data", url |-> url,
                 data |-> NoData]
           a == [id |-> loads + 1, source |-> url]
<1>1. pending' = pending \union {r} /\ Ask(r) = a
  BY DEF StartLoad, Ask
<1>2. \A q \in pending : Ask(q).id # a.id
  BY DEF IInv, TypeOK, OnePerLoad, Requests, Ask
<1>3. a.source \in URLs
  OBVIOUS
<1> HIDE DEF r, a
<1>4. a \notin Asks
  BY <1>2 DEF Asks
<1>5. Asks' = Asks \union {a}
  BY <1>1 DEF Asks
<1> QED BY <1>3, <1>4, <1>5

\* One request that ends is one less asked.
LEMMA EndAsks ==
  ASSUME IInv, NEW r \in pending, pending' = pending \ {r}
  PROVE  Ask(r) \in Asks /\ Asks' = Asks \ {Ask(r)}
<1>1. \A q \in pending : Ask(q) = Ask(r) => q = r
  BY DEF IInv, OnePerLoad, Ask
<1> QED BY <1>1 DEF Asks

\* A load from the props, while they are heeded, is a step of DataFeed.
LEMMA InitDataFeeds ==
  ASSUME IInv, ~st.reset, st'.reset = st.reset, UNCHANGED button,
         \/ st'.data \in Inline /\ pending' = pending
         \/ st'.data = st.data /\ pending' = pending
         \/ st'.data = st.data /\ \E url \in URLs : StartLoad(url)
  PROVE  [Feed!FeedNext]_(Feed!feedVars)
<1>1. CASE st'.data \in Inline /\ pending' = pending
  BY <1>1 DEF Feed!FeedNext, Feed!HostGives
<1>2. CASE st'.data = st.data /\ pending' = pending
  BY <1>2 DEF Feed!feedVars
<1>3. ASSUME NEW url \in URLs, st'.data = st.data, StartLoad(url)
      PROVE  Feed!HostAsks
  BY <1>3, StartLoadAsks
  DEF Feed!HostAsks, Feed!OneMoreAsked, Asks, Ask
<1> QED BY <1>1, <1>2, <1>3 DEF Feed!FeedNext

\* A user's step.
LEMMA UserFeeds ==
  ASSUME IInv, User
  PROVE  [Feed!FeedNext]_(Feed!feedVars)
<1>1. CASE Sidebar
  BY <1>1, SidebarKeeps DEF Feed!feedVars
<1>2. ASSUME NEW file \in Files, NEW geography \in GeoFiles \union {NoGeo},
             NEW column \in ColumnNames, AddData(file, geography, column)
      PROVE  Feed!UserAdds
  BY <1>2, AddDataKeeps DEF Feed!UserAdds, AddData
<1>3. CASE Reset
  <2>1. button /\ button' = FALSE /\ st'.reset
    BY <1>3, ResetKeeps DEF Reset
  <2>2. \/ st'.data \in Inline \union {NoData} /\ pending' = pending
        \/ st'.data = NoData /\ \E url \in URLs : StartLoad(url)
    BY <1>3, ResetKeeps
  <2>3. CASE st'.data \in Inline \union {NoData} /\ pending' = pending
    BY <2>1, <2>3 DEF Feed!FeedNext, Feed!UserResets
  <2>4. ASSUME NEW url \in URLs, st'.data = NoData, StartLoad(url)
        PROVE  Feed!UserResets
    BY <2>1, <2>4, StartLoadAsks
    DEF Feed!UserResets, Feed!OneMoreAsked, Asks, Ask
  <2> QED BY <2>2, <2>3, <2>4 DEF Feed!FeedNext
<1> QED BY <1>1, <1>2, <1>3 DEF User, Feed!FeedNext

\* An answer to the first request of a load.
LEMMA DataAnswerFeeds ==
  ASSUME NEW r \in pending, NEW answer \in Answers, IInv,
         DataAnswer(r, answer)
  PROVE  [Feed!FeedNext]_(Feed!feedVars)
<1>1. /\ r.stage = "data" /\ r.url \in URLs
      /\ UNCHANGED button /\ st'.reset = st.reset
  BY DataAnswerStep
<1>2. ASSUME NEW g \in Requests, UNCHANGED st,
             g.id = r.id, g.stage = "geography", g.data \in {r.url, NoData},
             pending' = (pending \ {r}) \union {g}
      PROVE  [Feed!FeedNext]_(Feed!feedVars)
  <2>1. \A q \in pending : Ask(q) = Ask(r) => q = r
    BY DEF IInv, OnePerLoad, Ask
  <2>2. Asks' = (Asks \ {Ask(r)}) \union {Ask(g)} /\ Ask(r) \in Asks
    BY <1>2, <2>1 DEF Asks
  <2>3. CASE g.data = r.url
    <3>1. Ask(g) = Ask(r)
      BY <1>1, <1>2, <2>3 DEF Ask
    <3> QED BY <1>1, <1>2, <2>2, <3>1 DEF Feed!feedVars, Asks, Ask
  <2>4. CASE g.data = NoData
    <3>1. Ask(g) = [Ask(r) EXCEPT !.source = NoData]
      BY <1>1, <1>2, <2>4 DEF Ask
    <3>2. Feed!Fails
      BY <1>1, <1>2, <2>2, <3>1 DEF Feed!Fails, Asks, Ask
    <3> QED BY <3>2 DEF Feed!FeedNext
  <2> QED BY <1>2, <2>3, <2>4
<1>3. CASE pending' = pending \ {r} /\ st'.data \in {st.data, r.url, NoData}
  <2>1. Ask(r) \in Asks /\ Asks' = Asks \ {Ask(r)} /\ Ask(r).source = r.url
    BY <1>1, <1>3, EndAsks DEF Ask
  <2>2. Feed!Answered
    BY <1>1, <1>3, <2>1 DEF Feed!Answered, Asks, Ask
  <2> QED BY <2>2 DEF Feed!FeedNext
<1> QED BY <1>2, <1>3, DataAnswerStep

\* An answer for the geography, or none at all, ends a load.
LEMMA EndFeeds ==
  ASSUME NEW r \in pending, IInv, pending' = pending \ {r}, UNCHANGED button,
         st'.reset = st.reset, st'.data \in {st.data, Ask(r).source}
  PROVE  [Feed!FeedNext]_(Feed!feedVars)
<1>1. Ask(r) \in Asks /\ Asks' = Asks \ {Ask(r)}
  BY EndAsks
<1>2. Feed!Answered
  BY <1>1 DEF Feed!Answered, Asks, Ask
<1> QED BY <1>2 DEF Feed!FeedNext

\* Every step of Home is a step of DataFeed or leaves its variables alone.
LEMMA NextFeeds == IInv /\ [Next]_vars => [Feed!FeedNext]_(Feed!feedVars)
<1> SUFFICES ASSUME IInv, [Next]_vars PROVE [Feed!FeedNext]_(Feed!feedVars)
  OBVIOUS
<1>1. CASE Mount
  <2>1. ~st.reset /\ UNCHANGED button /\ props \in Props
    BY <1>1, ParametersAssumption DEF Mount, IInv, TypeOK
  <2>4. st \in States /\ TypeOK /\ OnePerLoad /\ Sound(st)
        /\ InitDataState(st, props)
    BY <1>1 DEF Mount, IInv, TypeOK
  <2>3. st'.reset = st.reset
    BY <2>1, <2>4, InitDataSound
  <2>2. \/ st'.data \in Inline /\ pending' = pending
        \/ st'.data = st.data /\ pending' = pending
        \/ st'.data = st.data /\ \E url \in URLs : StartLoad(url)
    BY <2>1, <2>4, InitDataSound
  <2> QED BY <2>1, <2>2, <2>3, InitDataFeeds
<1>2. CASE Unmount
  BY <1>2 DEF Unmount, Feed!feedVars
<1>3. ASSUME NEW new \in PropsSet, NEW same \in BOOLEAN, ChangeProps(new, same)
      PROVE  [Feed!FeedNext]_(Feed!feedVars)
  <2>1. CASE NoticesChange(props, new, same)
    <3>1. ~st.reset /\ UNCHANGED button /\ new \in Props
      BY <1>3, <2>1, ParametersAssumption DEF ChangeProps, NoticesChange
    <3>4. st \in States /\ TypeOK /\ OnePerLoad /\ Sound(st)
          /\ InitDataState(st, new)
      BY <1>3, <2>1 DEF ChangeProps, IInv, TypeOK
    <3>3. st'.reset = st.reset
      BY <3>1, <3>4, InitDataSound
    <3>2. \/ st'.data \in Inline /\ pending' = pending
          \/ st'.data = st.data /\ pending' = pending
          \/ st'.data = st.data /\ \E url \in URLs : StartLoad(url)
      BY <3>1, <3>4, InitDataSound
    <3> QED BY <3>1, <3>2, <3>3, InitDataFeeds
  <2>2. CASE ~NoticesChange(props, new, same)
    BY <1>3, <2>2 DEF ChangeProps, Feed!feedVars
  <2> QED BY <2>1, <2>2
<1>4. CASE User
  BY <1>4, UserFeeds
<1>5. ASSUME NEW r \in pending, NEW answer \in Answers, DataAnswer(r, answer)
      PROVE  [Feed!FeedNext]_(Feed!feedVars)
  BY <1>5, DataAnswerFeeds
<1>6. ASSUME NEW r \in pending, NEW answer \in Answers,
             GeographyAnswer(r, answer)
      PROVE  [Feed!FeedNext]_(Feed!feedVars)
  BY <1>6, GeographyAnswerStep, EndFeeds DEF Ask
<1>7. ASSUME NEW r \in pending, NeverCalledBack(r)
      PROVE  [Feed!FeedNext]_(Feed!feedVars)
  BY <1>7, EndFeeds DEF NeverCalledBack
<1>8. CASE UNCHANGED vars
  BY <1>8 DEF vars, Feed!feedVars
<1> QED
  BY <1>1, <1>2, <1>3, <1>4, <1>5, <1>6, <1>7, <1>8 DEF Next, Host, Answer

\* Home implements DataFeed: the promise about whose data is on the map.
THEOREM DataFeedImplemented == Spec => ImplementsDataFeed
<1>1. Init => Feed!FeedInit
  BY DEF Init, Feed!FeedInit
<1> QED
  BY <1>1, NextFeeds, Invariance, PTL DEF Spec, ImplementsDataFeed, Feed!FeedSpec

-----------------------------------------------------------------------------
(* The map, the state and the host keep level, or an alert says so.         *)

\* generateLayer draws from the state it is merged into, or leaves an alert.
LEMMA CallLevel ==
  ASSUME NEW s \in States, NEW read \in States, NEW f \in Filters,
         NEW error \in Alerts, CallGenerateLayer(s, read, f, error),
         read.data = s.data, read.geography = s.geography,
         read.geographyColumn = s.geographyColumn,
         read.data # NoData => StartsFrom(read, f) = s.data
  PROVE  st'.alert # "none" \/ ~Behind'
<1>1. st' = Drawn(s, read, f, error)
  BY DEF CallGenerateLayer
<1>2. CASE read.data = NoData
  BY <1>1, <1>2 DEF Drawn, Behind
<1>3. CASE read.data # NoData /\ ~Found(read, f)
  <2>1. st' \in {[s EXCEPT !.alert = "no matching column"],
                [s EXCEPT !.loading = FALSE, !.alert = "no results"]}
    BY <1>1, <1>3 DEF Drawn, Alerted
  <2> QED BY <2>1 DEF States
<1>4. CASE read.data # NoData /\ Found(read, f)
  <2> DEFINE v == [data |-> StartsFrom(read, f), geography |-> read.geography,
                   geographyColumn |-> read.geographyColumn,
                   select |-> Selected(read, f)]
             held == read.coords \/ f.what = "coords"
  <2>1. st' = [s EXCEPT !.loading = FALSE, !.alert = error, !.view = v,
                        !.select = Selected(read, f), !.coords = held]
    BY <1>1, <1>4 DEF Drawn, Layered
  <2>2. v = [data |-> s.data, geography |-> s.geography,
             geographyColumn |-> s.geographyColumn, select |-> Selected(read, f)]
    BY <1>4
  <2> HIDE DEF v, held
  <2>3. /\ st'.data = s.data /\ st'.geography = s.geography /\ st'.view = v
        /\ st'.geographyColumn = s.geographyColumn
        /\ st'.select = Selected(read, f)
    BY <2>1 DEF States
  <2>4. st'.view = Inputs'
    BY <2>2, <2>3 DEF Inputs
  <2> QED BY <2>4 DEF Behind
<1> QED BY <1>2, <1>3, <1>4

\* The host is told what the state selects, or an alert says that it is not.
LEMMA CallTells ==
  ASSUME NEW s \in States, NEW read \in States, NEW f \in Filters,
         NEW error \in Alerts, CallGenerateLayer(s, read, f, error)
  PROVE  \/ read.data = NoData /\ told' = told /\ st' = s
         \/ told' = st'.select
         \/ st'.alert # "none"
<1>1. st' = Drawn(s, read, f, error) /\ told' = Told(read, f)
  BY DEF CallGenerateLayer
<1>2. CASE read.data = NoData
  BY <1>1, <1>2 DEF Drawn, Told
<1>3. CASE read.data # NoData /\ ~Found(read, f)
  <2>1. st' \in {[s EXCEPT !.alert = "no matching column"],
                [s EXCEPT !.loading = FALSE, !.alert = "no results"]}
    BY <1>1, <1>3 DEF Drawn, Alerted
  <2> QED BY <2>1 DEF States
<1>4. CASE read.data # NoData /\ Found(read, f)
  <2>1. told' = Selected(read, f)
    BY <1>1, <1>4 DEF Told
  <2>2. st'.select = Selected(read, f)
    BY <1>1, <1>4 DEF Drawn, Layered, States
  <2> QED BY <2>1, <2>2
<1> QED BY <1>2, <1>3, <1>4

\* The filters that are asked for.
LEMMA FilterIs ==
  ASSUME NEW found \in BOOLEAN
  PROVE  /\ \A what \in {"all", "coords", "column", "bounds"} :
              Filter(what, found) \in Filters /\ Filter(what, found).what = what
         /\ \A sel \in SelectionsOrNone :
              Multi(sel, found) \in Filters /\ Multi(sel, found).what = "multi"
BY DEF Filter, Multi, Filters, SelectionsOrNone

\* A load from the props, out of a state with no line held.
LEMMA InitDataLevel ==
  ASSUME NEW s \in States, NEW p \in Props, InitDataState(s, p)
  PROVE  /\ \/ s.coords \/ st'.alert # "none" \/ ~Behind'
            \/ st' \in {s, [s EXCEPT !.loading = FALSE]}
         /\ \/ told' = st'.select \/ st'.alert # "none"
            \/ told' = told /\ st' \in {s, [s EXCEPT !.loading = FALSE]}
<1>1. CASE p.data \notin Inline
  BY <1>1 DEF InitDataState
<1>2. CASE p.data \in Inline
  <2> DEFINE set == [s EXCEPT !.loading = FALSE, !.data = p.data]
  <2>1. PICK found \in BOOLEAN : CallGenerateLayer(set, set, Filter("all", found), "none")
    BY <1>2 DEF InitDataState
  <2>2. /\ set \in States /\ set.data = p.data /\ set.coords = s.coords
        /\ set.data # NoData
    BY <1>2, DistinctAssumption DEF States, Sources
  <2>3. Filter("all", found) \in Filters /\ Filter("all", found).what = "all"
    BY FilterIs
  <2>4. ~s.coords => StartsFrom(set, Filter("all", found)) = set.data
    BY <2>2, <2>3 DEF StartsFrom
  <2> HIDE DEF set
  <2>5. "none" \in Alerts
    BY DEF Alerts
  <2>6. s.coords \/ st'.alert # "none" \/ ~Behind'
    BY <2>1, <2>2, <2>3, <2>4, <2>5, CallLevel
  <2>7. told' = st'.select \/ st'.alert # "none"
    BY <2>1, <2>2, <2>3, <2>5, CallTells
  <2> QED BY <2>6, <2>7
<1> QED BY <1>1, <1>2

\* What a step must not do, as FallsBehindLoudly and HostPartsLoudly say it.
Level == ~Behind /\ Behind' /\ ~st.coords => st'.alert # "none"
Tells ==
  mounted /\ told = st.select /\ told' # st'.select =>
    \/ st'.alert # "none" \/ ChooseMapStyle
    \/ st'.view = NoView \/ st.data = NoData

\* A step that leaves the map as it is keeps level.
LEMMA SameKeeps ==
  ASSUME UNCHANGED told, st' \in {st, [st EXCEPT !.loading = FALSE]}, st \in States,
         mounted' => mounted \/ st.data = NoData
  PROVE  Level /\ Tells
BY DEF Level, Tells, Behind, Inputs, States

\* A call of the sidebar or of the map, which reads the state it is merged into.
LEMMA SidebarLevels ==
  ASSUME IInv, Sidebar
  PROVE  (~AutoBatch => Level) /\ Tells
<1>1. st \in States /\ "none" \in Alerts
  BY DEF IInv, Sound, Alerts
<1>2. ASSUME NEW s \in States, NEW f \in Filters,
             CallGenerateLayer(s, st, f, "none"),
             s.data = st.data, s.geography = st.geography, s.select = st.select,
             s.geographyColumn = st.geographyColumn, mounted
      PROVE  Level /\ Tells
  <2>1. Level
    <3> SUFFICES ASSUME ~Behind, ~st.coords, Behind', st'.alert = "none" PROVE FALSE
      BY DEF Level
    <3>1. st.data # NoData => StartsFrom(st, f) = s.data
      BY <1>1, <1>2 DEF StartsFrom, Behind, Inputs
    <3> QED BY <1>1, <1>2, <3>1, CallLevel
  <2>2. Tells
    BY <1>1, <1>2, CallTells DEF Tells
  <2> QED BY <2>1, <2>2
<1>3. ASSUME NEW sel \in SelectionsOrNone, NEW aliased \in BOOLEAN,
             NEW found \in BOOLEAN, Select(sel, aliased, found)
      PROVE  Level /\ Tells
  <2> DEFINE read == IF aliased THEN [st EXCEPT !.select = sel] ELSE st
             f == IF sel = NoSelect THEN Filter("all", found) ELSE Multi(sel, found)
  <2>1. CallGenerateLayer(read, read, f, "none") /\ mounted
    BY <1>3 DEF Select, Event
  <2>2. /\ read \in States /\ read.data = st.data /\ read.coords = st.coords
    BY <1>1 DEF States
  <2>3. f \in Filters /\ f.what # "column"
    BY FilterIs
  <2>4. ~st.coords => StartsFrom(read, f) = read.data
    BY <2>2, <2>3 DEF StartsFrom
  <2> HIDE DEF read, f
  <2>5. Level
    BY <1>1, <2>1, <2>2, <2>3, <2>4, CallLevel DEF Level
  <2>6. Tells
    BY <1>1, <2>1, <2>2, <2>3, CallTells DEF Tells
  <2> QED BY <2>5, <2>6
<1>4. ASSUME NEW what \in {"all", "column", "coords"}, NEW found \in BOOLEAN,
             Restyle(what, found)
      PROVE  Level /\ Tells
  BY <1>1, <1>2, <1>4, FilterIs DEF Restyle, Event
<1>5. ASSUME NEW found \in BOOLEAN, ToggleSubsetBoundsChange(found)
      PROVE  Level /\ Tells
  <2> DEFINE set == [st EXCEPT !.subset = ~st.subset]
  <2>1. CallGenerateLayer(set, st, Filter("all", found), "none") /\ mounted
    BY <1>5 DEF ToggleSubsetBoundsChange, Event
  <2>2. /\ set \in States /\ set.data = st.data /\ set.geography = st.geography
        /\ set.select = st.select /\ set.geographyColumn = st.geographyColumn
    BY <1>1 DEF States
  <2> HIDE DEF set
  <2> QED BY <1>2, <2>1, <2>2, FilterIs
<1>6. ASSUME NEW found \in BOOLEAN, MoveMap(found)
      PROVE  Level /\ Tells
  <2> DEFINE set == [st EXCEPT !.loading = TRUE]
  <2>1. CallGenerateLayer(set, st, Filter("bounds", found), "none") /\ mounted
    BY <1>6 DEF MoveMap, Event
  <2>2. /\ set \in States /\ set.data = st.data /\ set.geography = st.geography
        /\ set.select = st.select /\ set.geographyColumn = st.geographyColumn
    BY <1>1 DEF States
  <2> HIDE DEF set
  <2> QED BY <1>2, <2>1, <2>2, FilterIs
<1>7. ASSUME NEW found \in BOOLEAN, ClickBackground(found)
      PROVE  Level /\ Tells
  <2> DEFINE set == [st EXCEPT !.coords = FALSE]
  <2>1. /\ st.coords
        /\ CallGenerateLayer(set, ReadsAfter(set), Filter("all", found), "none")
    BY <1>7 DEF ClickBackground
  <2>2. /\ set \in States /\ set.data = st.data /\ set.select = st.select
        /\ ReadsAfter(set) \in States /\ ReadsAfter(set).data = st.data
    BY <1>1 DEF States, ReadsAfter
  <2> HIDE DEF set
  <2>3. Level
    BY <2>1 DEF Level
  <2>4. Tells
    BY <1>1, <2>1, <2>2, FilterIs, CallTells DEF Tells
  <2> QED BY <2>3, <2>4
<1>8. ASSUME ChooseMapStyle PROVE Level /\ Tells
  BY <1>8 DEF ChooseMapStyle, Level, Tells, Behind, Inputs, mounted
<1> QED BY <1>3, <1>4, <1>5, <1>6, <1>7, <1>8 DEF Sidebar

\* "Add data" and Reset begin from an emptied map.
LEMMA ClearedIs ==
  ASSUME st \in States
  PROVE  /\ Cleared(st) \in States /\ Cleared(st).data = NoData
         /\ Cleared(st).view = NoView /\ ~Cleared(st).coords
BY DEF Cleared, States, SelectionsOrNone

LEMMA AddDataLevels ==
  ASSUME IInv, NEW file \in Files, NEW geography \in GeoFiles \union {NoGeo},
         NEW column \in ColumnNames, AddData(file, geography, column)
  PROVE  Level /\ Tells
<1> DEFINE set == [Cleared(st) EXCEPT !.data = file, !.geography = geography,
                                      !.geographyColumn = column]
<1>1. st \in States /\ "none" \in Alerts
  BY DEF IInv, Sound, Alerts
<1>2. PICK found \in BOOLEAN : CallGenerateLayer(set, set, Filter("all", found), "none")
  BY DEF AddData
<1>3. Cleared(st) \in States /\ ~Cleared(st).coords
  BY <1>1, ClearedIs
<1>4. set \in States /\ ~set.coords /\ set.data = file
  BY <1>3 DEF States, Sources, Geographies
<1>5. Filter("all", found) \in Filters /\ Filter("all", found).what = "all"
  BY FilterIs
<1>6. StartsFrom(set, Filter("all", found)) = set.data /\ set.data # NoData
  BY <1>4, <1>5, DistinctAssumption DEF StartsFrom, Sources
<1> HIDE DEF set
<1>7. Level
  BY <1>1, <1>2, <1>4, <1>5, <1>6, CallLevel DEF Level
<1>8. Tells
  BY <1>1, <1>2, <1>4, <1>5, <1>6, CallTells DEF Tells
<1> QED BY <1>7, <1>8

LEMMA ResetLevels == ASSUME IInv, Reset PROVE Level /\ Tells
<1>1. st \in States /\ props \in Props
  BY ParametersAssumption DEF IInv, Sound, TypeOK
<1>2. /\ Cleared(st) \in States /\ Cleared(st).data = NoData
      /\ Cleared(st).view = NoView /\ ~Cleared(st).coords
  BY <1>1, ClearedIs
<1>3. InitDataState(Cleared(st), props)
  BY DEF Reset
<1> DEFINE c == Cleared(st)
<1>4. /\ \/ st'.alert # "none" \/ ~Behind'
         \/ st' \in {c, [c EXCEPT !.loading = FALSE]}
      /\ \/ told' = st'.select \/ st'.alert # "none"
         \/ st' \in {c, [c EXCEPT !.loading = FALSE]}
  BY <1>1, <1>2, <1>3, InitDataLevel
<1>5. st' \in {c, [c EXCEPT !.loading = FALSE]} => st'.data = NoData /\ st'.view = NoView
  BY <1>2 DEF States
<1> HIDE DEF c
<1> QED BY <1>4, <1>5 DEF Level, Tells, Behind

\* The props, first or changed.
LEMMA HostLevels == ASSUME IInv, Host PROVE Level /\ Tells
<1>1. st \in States /\ props \in Props
  BY ParametersAssumption DEF IInv, Sound, TypeOK
<1>2. ASSUME NEW p \in Props, InitDataState(st, p),
             mounted \/ st.data = NoData
      PROVE  Level /\ Tells
  <2>1. CASE st' \in {st, [st EXCEPT !.loading = FALSE]} /\ told' = told
    BY <1>1, <1>2, <2>1, SameKeeps
  <2>2. CASE told' = st'.select \/ st'.alert # "none"
    <3>1. Tells
      BY <2>2 DEF Tells
    <3>2. CASE st.coords \/ st'.alert # "none" \/ ~Behind'
      BY <3>1, <3>2 DEF Level
    <3>3. CASE st' \in {st, [st EXCEPT !.loading = FALSE]}
      <4>1. Level
        BY <1>1, <1>2, <3>3 DEF Level, Behind, Inputs, States
      <4> QED BY <3>1, <4>1
    <3> QED BY <1>1, <1>2, <3>2, <3>3, InitDataLevel
  <2> QED BY <1>1, <1>2, <2>1, <2>2, InitDataLevel
<1>3. CASE Mount
  <2>1. st.data = NoData
    BY <1>3 DEF Mount, IInv
  <2> QED BY <1>1, <1>2, <1>3, <2>1 DEF Mount
<1>4. CASE Unmount
  BY <1>1, <1>4, SameKeeps DEF Unmount, mounted
<1>5. ASSUME NEW new \in PropsSet, NEW same \in BOOLEAN, ChangeProps(new, same)
      PROVE  Level /\ Tells
  <2>1. mounted /\ new \in Props
    BY <1>5, ParametersAssumption DEF ChangeProps, Event
  <2>2. CASE NoticesChange(props, new, same)
    BY <1>2, <1>5, <2>1, <2>2 DEF ChangeProps
  <2>3. CASE ~NoticesChange(props, new, same)
    BY <1>1, <1>5, <2>1, <2>3, SameKeeps DEF ChangeProps
  <2> QED BY <2>2, <2>3
<1> QED BY <1>3, <1>4, <1>5 DEF Host

\* The answers. Without auto-batching the layer is drawn from what was set.
LEMMA DataAnswerLevels ==
  ASSUME IInv, NEW r \in pending, NEW answer \in Answers, DataAnswer(r, answer)
  PROVE  (~AutoBatch => Level) /\ Tells
<1>1. st \in States /\ r \in Requests /\ r.stage = "data"
  BY DEF IInv, Sound, TypeOK, DataAnswer
<1>2. r.url \in URLs
  BY <1>1 DEF Requests
<1>3. CASE UNCHANGED st /\ (mounted => UNCHANGED told)
  <2>1. UNCHANGED phase
    BY DEF DataAnswer
  <2>2. Level
    BY <1>3, <2>1 DEF Level, Behind, Inputs, mounted
  <2>3. Tells
    BY <1>3 DEF Tells
  <2> QED BY <2>2, <2>3
<1>4. ASSUME NEW error \in Alerts, InitWithGeojson(r.url, answer, error), mounted
      PROVE  (~AutoBatch => Level) /\ Tells
  <2> DEFINE set == [st EXCEPT !.loading = FALSE, !.data = r.url]
  <2>1. set \in States /\ set.data = r.url /\ set.coords = st.coords
        /\ set.select = st.select /\ set.data # NoData
    BY <1>1, <1>2, DistinctAssumption DEF States, Sources
  <2>2. ReadsAfter(set) \in States /\ (ReadsAfter(set) = set \/ ReadsAfter(set) = st)
        /\ (~AutoBatch => ReadsAfter(set) = set)
    BY <1>1, <2>1 DEF ReadsAfter
  <2>3. CASE answer = "ok"
    <3>1. PICK found \in BOOLEAN :
            CallGenerateLayer(set, ReadsAfter(set), Filter("all", found), error)
      BY <1>4, <2>3 DEF InitWithGeojson
    <3>2. Filter("all", found) \in Filters /\ Filter("all", found).what = "all"
      BY FilterIs
    <3>3. ~st.coords => StartsFrom(set, Filter("all", found)) = set.data
      BY <2>1, <3>2 DEF StartsFrom
    <3> HIDE DEF set
    <3>4. ~AutoBatch => Level
      BY <2>1, <2>2, <3>1, <3>2, <3>3, CallLevel DEF Level
    <3>5. Tells
      BY <2>1, <2>2, <3>1, <3>2, CallTells DEF Tells
    <3> QED BY <3>4, <3>5
  <2>4. CASE answer # "ok"
    <3>1. st'.alert = "could not reach"
      BY <1>1, <1>4, <2>1, <2>4 DEF InitWithGeojson, Unreachable, States
    <3> QED BY <3>1 DEF Level, Tells
  <2> QED BY <2>3, <2>4
<1> QED BY <1>3, <1>4 DEF DataAnswer, AnsweredWhenGone, Alerts

LEMMA GeographyAnswerLevels ==
  ASSUME IInv, NEW r \in pending, NEW answer \in Answers, GeographyAnswer(r, answer)
  PROVE  Level /\ Tells
<1>1. st \in States /\ r \in Requests /\ r.stage = "geography"
  BY DEF IInv, Sound, TypeOK, GeographyAnswer
<1>2. r.url \in GeoURLs /\ r.data \in URLs \union {NoData}
  BY <1>1 DEF Requests
<1>3. CASE UNCHANGED <<phase, st, told>>
  BY <1>1, <1>3, SameKeeps DEF mounted
<1>4. CASE UpdateStateAndLayers(r, answer) /\ mounted
  <2> DEFINE set == [st EXCEPT !.loading = FALSE, !.geography = r.url,
                               !.data = r.data, !.alert = "none"]
  <2>1. set \in States /\ set.data = r.data /\ set.coords = st.coords
        /\ set.select = st.select
    BY <1>1, <1>2 DEF States, Sources, Geographies, Alerts
  <2>2. CASE answer = "ok"
    <3>1. PICK found \in BOOLEAN : CallGenerateLayer(set, set, Filter("all", found), "none")
      BY <1>4, <2>2 DEF UpdateStateAndLayers
    <3>2. Filter("all", found) \in Filters /\ Filter("all", found).what = "all"
      BY FilterIs
    <3>3. ~st.coords => StartsFrom(set, Filter("all", found)) = set.data
      BY <2>1, <3>2 DEF StartsFrom
    <3>4. "none" \in Alerts
      BY DEF Alerts
    <3> HIDE DEF set
    <3>5. Level
      BY <2>1, <3>1, <3>2, <3>3, <3>4, CallLevel DEF Level
    <3>6. Tells
      BY <2>1, <3>1, <3>2, <3>4, CallTells DEF Tells
    <3> QED BY <3>5, <3>6
  <2>3. CASE answer = "junk"
    <3>1. phase' = "gone" /\ told' = told /\ st' = [set EXCEPT !.geography = NoGeo]
      BY <1>4, <2>3 DEF UpdateStateAndLayers
    <3>2. st'.select = st.select
      BY <2>1, <3>1 DEF States
    <3> QED BY <3>1, <3>2 DEF Level, Tells, Behind, mounted
  <2>4. CASE answer \notin {"ok", "junk"}
    <3>1. st'.alert = "could not reach"
      BY <1>1, <1>4, <2>4 DEF UpdateStateAndLayers, Unreachable, States
    <3> QED BY <3>1 DEF Level, Tells
  <2> QED BY <2>2, <2>3, <2>4
<1> QED BY <1>3, <1>4 DEF GeographyAnswer

LEMMA NextLevels == IInv /\ [Next]_vars => (~AutoBatch => Level) /\ Tells
<1> SUFFICES ASSUME IInv, [Next]_vars PROVE (~AutoBatch => Level) /\ Tells
  OBVIOUS
<1>1. CASE Host
  BY <1>1, HostLevels
<1>2. CASE User
  BY <1>2, SidebarLevels, AddDataLevels, ResetLevels DEF User
<1>3. ASSUME NEW r \in pending, NEW answer \in Answers,
             DataAnswer(r, answer) \/ GeographyAnswer(r, answer)
      PROVE  (~AutoBatch => Level) /\ Tells
  BY <1>3, DataAnswerLevels, GeographyAnswerLevels
<1>4. CASE UNCHANGED <<phase, st, told>>
  BY <1>4, SameKeeps DEF IInv, Sound, mounted
<1>5. (\E r \in pending : NeverCalledBack(r)) \/ UNCHANGED vars
      => UNCHANGED <<phase, st, told>>
  BY DEF NeverCalledBack, vars
<1> QED BY <1>1, <1>2, <1>3, <1>4, <1>5 DEF Next, Answer

\* The host of a mounted Home is told of every selection, unless an alert says
\* that it was not applied, there is nothing it could apply to, or a base map
\* was chosen.
THEOREM HostKeepsLevel == Spec => HostPartsLoudly
<1>1. IInv /\ [Next]_vars =>
        [mounted /\ told = st.select /\ told' # st'.select =>
           \/ st'.alert # "none" \/ ChooseMapStyle
           \/ st'.view = NoView \/ st.data = NoData]_vars
  BY NextLevels DEF Tells
<1> QED BY <1>1, Invariance, PTL DEF Spec, HostPartsLoudly

\* Where setState shows at once outside the events of React, the map falls
\* behind what Home holds only with an alert or a held line.
THEOREM MapKeepsLevel == ~AutoBatch => (Spec => FallsBehindLoudly)
<1> SUFFICES ASSUME ~AutoBatch PROVE Spec => FallsBehindLoudly
  OBVIOUS
<1>1. IInv /\ [Next]_vars =>
        [~Behind /\ Behind' /\ ~st.coords => st'.alert # "none"]_vars
  BY NextLevels DEF Level
<1> QED BY <1>1, Invariance, PTL DEF Spec, FallsBehindLoudly

-----------------------------------------------------------------------------
(* A held line.                                                             *)

\* A call that reads a held line draws from what is on the map.
LEMMA CallPins ==
  ASSUME NEW s \in States, NEW read \in States, NEW f \in Filters,
         NEW error \in Alerts, CallGenerateLayer(s, read, f, error),
         read.coords, s.view = read.view
  PROVE  st'.view.data = s.view.data
<1>1. st' = Drawn(s, read, f, error)
  BY DEF CallGenerateLayer
<1>2. CASE read.data # NoData /\ Found(read, f)
  <2> DEFINE v == [data |-> StartsFrom(read, f), geography |-> read.geography,
                   geographyColumn |-> read.geographyColumn,
                   select |-> Selected(read, f)]
             held == read.coords \/ f.what = "coords"
  <2>1. v.data = s.view.data
    BY DEF StartsFrom
  <2>2. st' = [s EXCEPT !.loading = FALSE, !.alert = error, !.view = v,
                        !.select = Selected(read, f), !.coords = held]
    BY <1>1, <1>2 DEF Drawn, Layered
  <2> HIDE DEF v, held
  <2>3. st'.view = v
    BY <2>2 DEF States
  <2> QED BY <2>1, <2>3
<1>3. CASE ~(read.data # NoData /\ Found(read, f))
  <2>1. st' \in {s, [s EXCEPT !.alert = "no matching column"],
                [s EXCEPT !.loading = FALSE, !.alert = "no results"]}
    BY <1>1, <1>3 DEF Drawn, Alerted
  <2> QED BY <2>1 DEF States
<1> QED BY <1>2, <1>3

\* A call out of a state without a line takes none, but for a click on one.
LEMMA CallReleases ==
  ASSUME NEW s \in States, NEW f \in Filters, NEW error \in Alerts,
         CallGenerateLayer(s, s, f, error), ~s.coords, f.what # "coords"
  PROVE  ~st'.coords
BY DEF CallGenerateLayer, Drawn, Layered, Alerted, States

\* What a step does to the data of the layer a line is held in.
Pins ==
  st.coords /\ st'.view.data # st.view.data =>
    /\ ~st'.coords
    /\ \/ \E file \in Files, geography \in GeoFiles \union {NoGeo},
            column \in ColumnNames : AddData(file, geography, column)
       \/ Reset
       \/ ~AutoBatch /\ \E found \in BOOLEAN : ClickBackground(found)

\* Loading from the props keeps the map of a held line, and takes no line.
LEMMA InitDataPins ==
  ASSUME NEW s \in States, NEW p \in Props, InitDataState(s, p)
  PROVE  /\ s.coords => st'.view.data = s.view.data
         /\ ~s.coords => ~st'.coords
<1>1. CASE p.data \notin Inline
  BY <1>1 DEF InitDataState, States
<1>2. CASE p.data \in Inline
  <2> DEFINE set == [s EXCEPT !.loading = FALSE, !.data = p.data]
  <2>1. PICK found \in BOOLEAN :
          CallGenerateLayer(set, set, Filter("all", found), "none")
    BY <1>2 DEF InitDataState
  <2>2. set \in States /\ set.coords = s.coords /\ set.view = s.view
    BY <1>2 DEF States, Sources
  <2>3. /\ Filter("all", found) \in Filters /\ Filter("all", found).what = "all"
        /\ "none" \in Alerts
    BY FilterIs DEF Alerts
  <2> HIDE DEF set
  <2>4. s.coords => st'.view.data = s.view.data
    BY <2>1, <2>2, <2>3, CallPins
  <2>5. ~s.coords => ~st'.coords
    BY <2>1, <2>2, <2>3, CallReleases
  <2> QED BY <2>4, <2>5
<1> QED BY <1>1, <1>2

\* The sidebar and the map: all but the click beside the layer read the line.
LEMMA SidebarPins == ASSUME IInv, Sidebar PROVE Pins
<1>1. st \in States /\ "none" \in Alerts
  BY DEF IInv, Sound, Alerts
<1>2. ASSUME NEW s \in States, NEW read \in States, NEW f \in Filters,
             CallGenerateLayer(s, read, f, "none"),
             read.coords = st.coords, s.view = st.view, read.view = st.view
      PROVE  Pins
  BY <1>1, <1>2, CallPins DEF Pins
<1>3. ASSUME NEW sel \in SelectionsOrNone, NEW aliased \in BOOLEAN,
             NEW found \in BOOLEAN, Select(sel, aliased, found)
      PROVE  Pins
  <2> DEFINE read == IF aliased THEN [st EXCEPT !.select = sel] ELSE st
             f == IF sel = NoSelect THEN Filter("all", found) ELSE Multi(sel, found)
  <2>1. CallGenerateLayer(read, read, f, "none")
    BY <1>3 DEF Select
  <2>2. read \in States /\ read.coords = st.coords /\ read.view = st.view
    BY <1>1 DEF States
  <2>3. f \in Filters
    BY FilterIs
  <2> HIDE DEF read, f
  <2> QED BY <1>2, <2>1, <2>2, <2>3
<1>4. ASSUME NEW what \in {"all", "column", "coords"}, NEW found \in BOOLEAN,
             Restyle(what, found)
      PROVE  Pins
  BY <1>1, <1>2, <1>4, FilterIs DEF Restyle
<1>5. ASSUME NEW found \in BOOLEAN, ToggleSubsetBoundsChange(found)
      PROVE  Pins
  <2> DEFINE set == [st EXCEPT !.subset = ~st.subset]
  <2>1. CallGenerateLayer(set, st, Filter("all", found), "none")
    BY <1>5 DEF ToggleSubsetBoundsChange
  <2>2. set \in States /\ set.view = st.view
    BY <1>1 DEF States
  <2> HIDE DEF set
  <2> QED BY <1>1, <1>2, <2>1, <2>2, FilterIs
<1>6. ASSUME NEW found \in BOOLEAN, MoveMap(found)
      PROVE  Pins
  <2> DEFINE set == [st EXCEPT !.loading = TRUE]
  <2>1. CallGenerateLayer(set, st, Filter("bounds", found), "none")
    BY <1>6 DEF MoveMap
  <2>2. set \in States /\ set.view = st.view
    BY <1>1 DEF States
  <2> HIDE DEF set
  <2> QED BY <1>1, <1>2, <2>1, <2>2, FilterIs
<1>7. ASSUME NEW found \in BOOLEAN, ClickBackground(found)
      PROVE  Pins
  <2> DEFINE set == [st EXCEPT !.coords = FALSE]
  <2>1. CallGenerateLayer(set, ReadsAfter(set), Filter("all", found), "none")
    BY <1>7 DEF ClickBackground
  <2>2. set \in States /\ set.view = st.view /\ ~set.coords
    BY <1>1 DEF States
  <2> HIDE DEF set
  <2>3. CASE AutoBatch
    BY <1>1, <1>2, <2>1, <2>2, <2>3, FilterIs DEF ReadsAfter
  <2>4. CASE ~AutoBatch
    <3>1. ~st'.coords
      BY <1>1, <2>1, <2>2, <2>4, FilterIs, CallReleases DEF ReadsAfter
    <3> QED BY <1>7, <2>4, <3>1 DEF Pins
  <2> QED BY <2>3, <2>4
<1>8. ASSUME ChooseMapStyle PROVE Pins
  BY <1>8 DEF ChooseMapStyle, Pins
<1> QED BY <1>3, <1>4, <1>5, <1>6, <1>7, <1>8 DEF Sidebar

\* "Add data" and Reset let go of the line.
LEMMA UserPins == ASSUME IInv, User PROVE Pins
<1>1. st \in States /\ props \in Props /\ "none" \in Alerts
  BY ParametersAssumption DEF IInv, Sound, TypeOK, Alerts
<1>2. Cleared(st) \in States /\ ~Cleared(st).coords
  BY <1>1, ClearedIs
<1>3. ASSUME NEW file \in Files, NEW geography \in GeoFiles \union {NoGeo},
             NEW column \in ColumnNames, AddData(file, geography, column)
      PROVE  Pins
  <2> DEFINE set == [Cleared(st) EXCEPT !.data = file, !.geography = geography,
                                        !.geographyColumn = column]
  <2>1. PICK found \in BOOLEAN :
          CallGenerateLayer(set, set, Filter("all", found), "none")
    BY <1>3 DEF AddData
  <2>2. set \in States /\ ~set.coords
    BY <1>2 DEF States, Sources, Geographies
  <2> HIDE DEF set
  <2>3. ~st'.coords
    BY <1>1, <2>1, <2>2, FilterIs, CallReleases
  <2> QED BY <1>3, <2>3 DEF Pins
<1>4. CASE Reset
  <2>1. InitDataState(Cleared(st), props)
    BY <1>4 DEF Reset
  <2>2. ~st'.coords
    BY <1>1, <1>2, <2>1, InitDataPins
  <2> QED BY <1>4, <2>2 DEF Pins
<1> QED BY <1>3, <1>4, SidebarPins DEF User

\* The props and the answers read the line.
LEMMA HostPins == ASSUME IInv, Host PROVE Pins
<1>1. st \in States /\ props \in Props /\ PropsSet \subseteq Props
  BY ParametersAssumption DEF IInv, Sound, TypeOK
<1>2. ASSUME NEW p \in Props, InitDataState(st, p) PROVE Pins
  BY <1>1, <1>2, InitDataPins DEF Pins
<1> QED BY <1>1, <1>2 DEF Host, Mount, Unmount, ChangeProps, Pins

LEMMA AnswerPins ==
  ASSUME IInv, NEW r \in pending, NEW answer \in Answers,
         DataAnswer(r, answer) \/ GeographyAnswer(r, answer)
  PROVE  Pins
<1>1. st \in States /\ r \in Requests /\ "none" \in Alerts
  BY DEF IInv, Sound, TypeOK, Alerts
<1>2. ASSUME NEW set \in States, NEW read \in States, NEW error \in Alerts,
             NEW found \in BOOLEAN,
             CallGenerateLayer(set, read, Filter("all", found), error),
             set.view = st.view, read.view = st.view, read.coords = st.coords
      PROVE  Pins
  BY <1>1, <1>2, FilterIs, CallPins DEF Pins
<1>3. ASSUME st'.view = st.view PROVE Pins
  BY <1>3 DEF Pins
<1>4. ASSUME r.stage = "data", NEW error \in Alerts,
             InitWithGeojson(r.url, answer, error)
      PROVE  Pins
  <2> DEFINE set == [st EXCEPT !.loading = FALSE, !.data = r.url]
  <2>1. /\ set \in States /\ set.view = st.view /\ set.coords = st.coords
        /\ ReadsAfter(set) \in {st, set}
    BY <1>1, <1>4 DEF States, Sources, Requests, ReadsAfter
  <2>2. CASE \E found \in BOOLEAN :
               CallGenerateLayer(set, ReadsAfter(set), Filter("all", found), error)
    <3> HIDE DEF set
    <3> QED BY <1>1, <1>2, <1>4, <2>1, <2>2
  <2>3. CASE st' \in {Unreachable(st), Unreachable([set EXCEPT !.data = NoData])}
    <3>1. st'.view = st.view
      BY <1>1, <2>3 DEF Unreachable, States
    <3> QED BY <1>3, <3>1
  <2> QED BY <1>4, <2>2, <2>3 DEF InitWithGeojson
<1>5. ASSUME r.stage = "geography", UpdateStateAndLayers(r, answer) PROVE Pins
  <2> DEFINE set == [st EXCEPT !.loading = FALSE, !.geography = r.url,
                               !.data = r.data, !.alert = "none"]
  <2>1. set \in States /\ set.view = st.view /\ set.coords = st.coords
    BY <1>1, <1>5 DEF States, Sources, Geographies, Requests, Alerts
  <2>2. CASE \E found \in BOOLEAN :
               CallGenerateLayer(set, set, Filter("all", found), "none")
    <3> HIDE DEF set
    <3> QED BY <1>1, <1>2, <2>1, <2>2
  <2>3. CASE st' \in {Unreachable(st), [set EXCEPT !.geography = NoGeo]}
    <3>1. st'.view = st.view
      BY <1>1, <2>3 DEF Unreachable, States
    <3> QED BY <1>3, <3>1
  <2> QED BY <1>5, <2>2, <2>3 DEF UpdateStateAndLayers
<1>6. CASE DataAnswer(r, answer)
  BY <1>3, <1>4, <1>6 DEF DataAnswer, AnsweredWhenGone, Alerts
<1>7. CASE GeographyAnswer(r, answer)
  BY <1>3, <1>5, <1>7 DEF GeographyAnswer
<1> QED BY <1>6, <1>7

\* A held line pins the map to its data, whatever is loaded meanwhile, until
\* Add data, Reset or, under a legacy root only, a click beside the layer.
THEOREM LinePins == Spec => HeldLinePinsMap
<1>1. IInv /\ [Next]_vars => Pins
  <2> SUFFICES ASSUME IInv, [Next]_vars PROVE Pins
    OBVIOUS
  <2>1. CASE UNCHANGED st
    BY <2>1 DEF Pins
  <2>2. (\E r \in pending : NeverCalledBack(r)) \/ UNCHANGED vars => UNCHANGED st
    BY DEF NeverCalledBack, vars
  <2> QED BY <2>1, <2>2, HostPins, UserPins, AnswerPins DEF Next, Answer
<1>2. IInv /\ [Next]_vars =>
        [st.coords /\ st'.view.data # st.view.data =>
           /\ ~st'.coords
           /\ \/ \E file \in Files, geography \in GeoFiles \union {NoGeo},
                   column \in ColumnNames : AddData(file, geography, column)
              \/ Reset
              \/ ~AutoBatch /\ \E found \in BOOLEAN : ClickBackground(found)]_vars
  BY <1>1 DEF Pins
<1> QED BY <1>2, Invariance, PTL DEF Spec, HeldLinePinsMap
=============================================================================

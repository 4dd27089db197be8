------------------------------ MODULE HomeData ------------------------------
(***************************************************************************)
(* The Home component as the owner of the data on the map: where the data  *)
(* and the geography come from (a `data` prop, a fetched defaultURL with   *)
(* an optional geographyURL, or files added by the user), what is drawn    *)
(* from them, the loading mask, the alert and what the host is told.       *)
(*                                                                         *)
(* One step is one callback of the browser or of React, run to the commit  *)
(* of the state it set, with the setState callbacks that commit runs.      *)
(* Requests are in flight between steps, in no order.                      *)
(***************************************************************************)
EXTENDS DataSources, Naturals

CONSTANTS
  PropsSet,     \* the props a host may give
  AutoBatch,    \* setState is batched in promises and native events too:
                \* TRUE under a React 18 root, FALSE under a legacy root
  Silence,      \* whether a fetch may end without calling back
  MaxEvents     \* bound on the events of the host and of the user

ASSUME ParametersAssumption ==
  /\ PropsSet \subseteq Props
  /\ AutoBatch \in BOOLEAN /\ Silence \in BOOLEAN
  /\ MaxEvents \in Nat

VARIABLES
  phase,        \* of Home: "constructed", "mounted" or "gone"
  props,        \* this.props
  st,           \* this.state, the fields that the data flow reads or writes
  button,       \* DeckSidebar's state.reset: it offers a Reset button
  pending,      \* requests in flight
  loads,        \* how many loads were started (each is one or two requests)
  told,         \* the selection last passed to onStateChange
  events        \* events so far, for the bound

vars == <<phase, props, st, button, pending, loads, told, events>>

NoView == [data |-> NoData, geography |-> NoGeo,
           geographyColumn |-> NoColumn, select |-> NoSelect]

\* What the layer on the map and `filtered` were computed from; with a line
\* held, `filtered` is within what was selected before, too.
Views == [data : Sources, geography : Geographies \union {NoGeo},
          geographyColumn : ColumnNames, select : SelectionsOrNone]

Alerts == {"none", "no results", "no matching column", "could not reach",
           "invalid URL"}

States == [loading : BOOLEAN, data : Sources \union {NoData},
           geography : Geographies \union {NoGeo},
           geographyColumn : ColumnNames, view : Views \union {NoView},
           coords : BOOLEAN, select : SelectionsOrNone, alert : Alerts,
           reset : BOOLEAN, subset : BOOLEAN]

Requests == [id : Nat, stage : {"data"}, url : URLs, data : {NoData}]
  \union [id : Nat, stage : {"geography"}, url : GeoURLs,
          data : URLs \union {NoData}]

TypeOK ==
  /\ phase \in {"constructed", "mounted", "gone"}
  /\ props \in PropsSet
  /\ st \in States
  /\ button \in BOOLEAN
  /\ pending \subseteq Requests
  /\ loads \in Nat
  /\ told \in SelectionsOrNone
  /\ events \in Nat

mounted == phase = "mounted"

Event ==
  /\ mounted
  /\ events < MaxEvents
  /\ events' = events + 1

-----------------------------------------------------------------------------
(* generateLayer and _callGenerateLayer. A filter is what the sidebar or    *)
(* the map asks for; `found` stands for what the filter leaves of features  *)
(* when that depends on more than the identity of the data.                 *)

Filter(what, found) == [what |-> what, selected |-> NoSelect, found |-> found]
Multi(sel, found) == [what |-> "multi", selected |-> sel, found |-> found]

\* Mutant: a held line is no longer looked at.
StartsFromData(s, f) == IF f.what = "column" THEN s.view.data ELSE s.data

\* The features a call starts from: a clicked line or a column choice keeps
\* state.filtered, everything else starts from state.data.
StartsFrom(s, f) ==
  IF s.coords \/ f.what = "column" THEN s.view.data ELSE s.data

Selected(s, f) == IF f.what = "multi" THEN f.selected ELSE s.select

JoinOf(s, f) ==
  IF s.geography = NoGeo THEN "rows"
  ELSE Join[<<StartsFrom(s, f), s.geography, s.geographyColumn>>]

Found(s, f) ==
  /\ StartsFrom(s, f) # NoData
  /\ JoinOf(s, f) \notin {"none", "featureless"}
  /\ Selected(s, f) # NoSelect =>
       /\ JoinOf(s, f) = "rows"
       /\ <<StartsFrom(s, f), Selected(s, f)>> \in Hits
  /\ f.what = "coords" => StartsFrom(s, f) = s.view.data
  /\ (s.coords \/ f.what \in {"coords", "column", "bounds"}) => f.found

\* What is merged of a layer that could be generated.
Layered(s, read, f, error) ==
  [s EXCEPT !.loading = FALSE, !.alert = error,
            !.view = [data |-> StartsFrom(read, f),
                      geography |-> read.geography,
                      geographyColumn |-> read.geographyColumn,
                      select |-> Selected(read, f)],
            !.select = Selected(read, f),
            !.coords = read.coords \/ f.what = "coords"]

\* Mutants: no-results leaves the mask on; there is no alert.
AlertedMaskLeft(s, read, f) ==
  IF JoinOf(read, f) = "featureless"
  THEN [s EXCEPT !.alert = "no matching column"]
  ELSE [s EXCEPT !.alert = "no results"]
AlertedQuietly(s, read, f) ==
  IF JoinOf(read, f) = "featureless" THEN s ELSE [s EXCEPT !.loading = FALSE]

\* The two returns with an alert only; the first leaves the mask as it is.
Alerted(s, read, f) ==
  IF JoinOf(read, f) = "featureless"
  THEN [s EXCEPT !.alert = "no matching column"]
  ELSE [s EXCEPT !.loading = FALSE, !.alert = "no results"]

\* The state after generateLayer(f, read) is merged into s.
Drawn(s, read, f, error) ==
  IF read.data = NoData THEN s
  ELSE IF Found(read, f) THEN Layered(s, read, f, error)
  ELSE Alerted(s, read, f)

\* Mutant: the host is told the selection of before the filter.
ToldBefore(read, f) ==
  IF read.data = NoData THEN told
  ELSE IF Found(read, f) THEN read.select ELSE NoSelect

\* The host is told the multiVarSelect of what generateLayer returned, which
\* has none when there is only an alert in it.
Told(read, f) ==
  IF read.data = NoData THEN told
  ELSE IF Found(read, f) THEN Selected(read, f) ELSE NoSelect

CallGenerateLayer(s, read, f, error) ==
  /\ st' = Drawn(s, read, f, error)
  /\ told' = Told(read, f)

\* Without a React event around it, a setState shows in this.state at once
\* under a legacy root and only after the callback under a React 18 root.
ReadsAfter(set) == IF AutoBatch THEN st ELSE set

-----------------------------------------------------------------------------
(* Loading from the props.                                                  *)

StartLoad(url) ==
  /\ loads' = loads + 1
  /\ pending' = pending \union
       {[id |-> loads + 1, stage |-> "data", url |-> url, data |-> NoData]}

\* _initDataState with _fetchAndUpdateState, from state s and props p.
InitDataState(s, p) ==
  \/ /\ p.data \in Inline
     /\ \E found \in BOOLEAN :
          LET set == [s EXCEPT !.loading = FALSE, !.data = p.data]
          IN  CallGenerateLayer(set, set, Filter("all", found), "none")
     /\ UNCHANGED <<pending, loads>>
  \/ /\ p.data \notin Inline
     /\ p.defaultURL \in URLs
     /\ st' = s
     /\ StartLoad(p.defaultURL)
     /\ UNCHANGED told
  \/ /\ p.data \notin Inline
     /\ p.defaultURL \notin URLs
     /\ st' = [s EXCEPT !.loading = FALSE]
     /\ UNCHANGED <<pending, loads, told>>

Mount ==
  /\ phase = "constructed"
  /\ phase' = "mounted"
  /\ InitDataState(st, props)
  /\ UNCHANGED <<props, button, events>>

\* componentDidUpdate compares one random feature of the old data with its
\* counterpart in the new data: same tells whether those two are equal.
DataDiffers(old, new, same) ==
  /\ new.data # NoData
  /\ old.data # new.data
  /\ same => Blank \in {old.data, new.data}

\* Mutant: the reset flag is not looked at.
NoticesChangeAlways(old, new, same) ==
  /\ old.data # NoData
  /\ new.data # NoData
  /\ \/ DataDiffers(old, new, same)
     \/ old.defaultURL # new.defaultURL

NoticesChange(old, new, same) ==
  /\ old.data # NoData
  /\ ~st.reset
  /\ new.data # NoData
  /\ \/ DataDiffers(old, new, same)
     \/ old.defaultURL # new.defaultURL
     \/ old.geographyURL # new.geographyURL
     \/ old.geographyColumn # new.geographyColumn

ChangeProps(new, same) ==
  /\ Event
  /\ new # props
  /\ props' = new
  /\ IF NoticesChange(props, new, same)
     THEN InitDataState(st, new)
     ELSE UNCHANGED <<st, told, pending, loads>>
  /\ UNCHANGED <<phase, button>>

Unmount ==
  /\ Event
  /\ phase' = "gone"
  /\ UNCHANGED <<props, st, button, pending, loads, told>>

-----------------------------------------------------------------------------
(* Answers to requests.                                                     *)

\* Mutant: the error path leaves the mask on.
UnreachableMaskLeft(s) == [s EXCEPT !.alert = "could not reach"]

Unreachable(s) == [s EXCEPT !.loading = FALSE, !.alert = "could not reach"]

\* _initWithGeojson. What parses but is no GeoJSON is set as the data before
\* bbox throws, and fetchData then calls back a second time with the error.
InitWithGeojson(url, answer, error) ==
  LET set == [st EXCEPT !.loading = FALSE, !.data = url]
  IN  \/ /\ answer = "ok"
         /\ \E found \in BOOLEAN :
              CallGenerateLayer(set, ReadsAfter(set), Filter("all", found),
                                error)
      \/ /\ answer = "junk"
         /\ st' = Unreachable([set EXCEPT !.data = NoData])
         /\ UNCHANGED told
      \/ /\ answer = "error"
         /\ st' = Unreachable(st)
         /\ UNCHANGED told

\* An unmounted Home stores nothing, but generateLayer still runs on what it
\* held last, and the host is told of the outcome.
AnsweredWhenGone(answer) ==
  /\ UNCHANGED st
  /\ IF answer = "ok"
     THEN \E found \in BOOLEAN : told' = Told(st, Filter("all", found))
     ELSE UNCHANGED told

\* The callback of the first request reads geographyURL from the props of
\* now, and leaves an error of its own to nobody when there is one.
DataAnswer(r, answer) ==
  /\ r \in pending /\ r.stage = "data"
  /\ answer # "silent"
  /\ IF props.geographyURL \in GeoURLs
     THEN /\ pending' = (pending \ {r}) \union
               {[id |-> r.id, stage |-> "geography",
                 url |-> props.geographyURL,
                 data |-> IF answer = "ok" THEN r.url ELSE NoData]}
          /\ UNCHANGED <<st, told>>
     ELSE /\ pending' = pending \ {r}
          /\ IF mounted
             THEN InitWithGeojson(r.url, answer,
                    IF props.geographyURL = BadURL THEN "invalid URL"
                    ELSE "none")
             ELSE AnsweredWhenGone(answer)
  /\ UNCHANGED <<phase, props, button, loads, events>>

\* _updateStateAndLayers. A geography that bbox throws on does so in the
\* commit, and React takes the whole tree down.
UpdateStateAndLayers(r, answer) ==
  LET set == [st EXCEPT !.loading = FALSE, !.geography = r.url,
                        !.data = r.data, !.alert = "none"]
  IN  \/ /\ answer = "ok"
         /\ \E found \in BOOLEAN :
              CallGenerateLayer(set, set, Filter("all", found), "none")
         /\ UNCHANGED phase
      \/ /\ answer = "junk"
         /\ st' = [set EXCEPT !.geography = NoGeo]
         /\ phase' = "gone"
         /\ UNCHANGED told
      \/ /\ answer = "error"
         /\ st' = Unreachable(st)
         /\ UNCHANGED <<phase, told>>

GeographyAnswer(r, answer) ==
  /\ r \in pending /\ r.stage = "geography"
  /\ answer # "silent"
  /\ pending' = pending \ {r}
  /\ IF mounted THEN UpdateStateAndLayers(r, answer)
     ELSE UNCHANGED <<phase, st, told>>
  /\ UNCHANGED <<props, button, loads, events>>

NeverCalledBack(r) ==
  /\ Silence
  /\ r \in pending
  /\ pending' = pending \ {r}
  /\ UNCHANGED <<phase, props, st, button, loads, told, events>>

-----------------------------------------------------------------------------
(* The user: Add data and Reset.                                            *)

\* Mutant: the clicked line is not let go of.
ClearedButLine(s) ==
  [s EXCEPT !.loading = TRUE, !.select = NoSelect, !.geography = NoGeo,
            !.data = NoData, !.view = NoView, !.reset = TRUE]

\* The first setState of _urlCallback, with reset: true.
Cleared(s) ==
  [s EXCEPT !.loading = TRUE, !.coords = FALSE, !.select = NoSelect,
            !.geography = NoGeo, !.data = NoData, !.view = NoView,
            !.reset = TRUE]

AddData(file, geography, column) ==
  /\ Event
  /\ \E found \in BOOLEAN :
       LET set == [Cleared(st) EXCEPT !.data = file,
                     !.geography = geography, !.geographyColumn = column]
       IN  CallGenerateLayer(set, set, Filter("all", found), "none")
  /\ button' = TRUE
  /\ UNCHANGED <<phase, props, pending, loads>>

\* The button hides while the alert says a source could not be reached.
Reset ==
  /\ Event
  /\ button /\ st.alert # "could not reach"
  /\ button' = FALSE
  /\ InitDataState(Cleared(st), props)
  /\ UNCHANGED <<phase, props>>

-----------------------------------------------------------------------------
(* The user: selecting, restyling, clicking and moving the map.             *)

SidebarHasData == st.data # NoData \/ st.view # NoView

\* Charts, Variables and MultiSelect change a multiVarSelect object in place.
\* It is the object in this.state unless _urlCallback has replaced that one
\* since the chart was constructed (aliased = FALSE).
Select(sel, aliased, found) ==
  LET read == IF aliased THEN [st EXCEPT !.select = sel] ELSE st
  IN  /\ Event
      /\ SidebarHasData
      /\ CallGenerateLayer(read, read,
           IF sel = NoSelect THEN Filter("all", found) ELSE Multi(sel, found),
           "none")
      /\ UNCHANGED <<phase, props, button, pending, loads>>

\* A colour, layer, layer option, column or click on a line of the layer.
Restyle(what, found) ==
  /\ Event
  /\ st.view # NoView
  /\ CallGenerateLayer(st, st, Filter(what, found), "none")
  /\ UNCHANGED <<phase, props, button, pending, loads>>

\* A click beside the layer takes back the clicked line, unless generateLayer
\* still reads it and returns it again.
ClickBackground(found) ==
  LET set == [st EXCEPT !.coords = FALSE]
  IN  /\ Event
      /\ st.coords
      /\ CallGenerateLayer(set, ReadsAfter(set), Filter("all", found), "none")
      /\ UNCHANGED <<phase, props, button, pending, loads>>

ToggleSubsetBoundsChange(found) ==
  LET set == [st EXCEPT !.subset = ~st.subset]
  IN  /\ Event
      /\ st.view # NoView
      /\ CallGenerateLayer(set, st, Filter("all", found), "none")
      /\ UNCHANGED <<phase, props, button, pending, loads>>

\* Another base map: generateLayer returns nothing but the style, in which
\* _callGenerateLayer finds no selection to tell the host.
ChooseMapStyle ==
  /\ Event
  /\ told' = NoSelect
  /\ UNCHANGED <<phase, props, st, button, pending, loads>>

\* _updateHistory, when the map has moved and the subset box is ticked.
MoveMap(found) ==
  LET set == [st EXCEPT !.loading = TRUE]
  IN  /\ Event
      /\ st.subset
      /\ CallGenerateLayer(set, st, Filter("bounds", found), "none")
      /\ UNCHANGED <<phase, props, button, pending, loads>>

-----------------------------------------------------------------------------
Init ==
  /\ phase = "constructed"
  /\ props \in PropsSet
  /\ st = [loading |-> TRUE, data |-> NoData, geography |-> NoGeo,
           geographyColumn |-> props.geographyColumn, view |-> NoView,
           coords |-> FALSE, select |-> props.select, alert |-> "none",
           reset |-> FALSE, subset |-> FALSE]
  /\ button = FALSE
  /\ pending = {}
  /\ loads = 0
  /\ told = NoSelect
  /\ events = 0

Answer(r) ==
  \/ \E answer \in Answers : DataAnswer(r, answer) \/ GeographyAnswer(r, answer)
  \/ NeverCalledBack(r)

Host ==
  \/ Mount
  \/ Unmount
  \/ \E new \in PropsSet, same \in BOOLEAN : ChangeProps(new, same)

Sidebar ==
  \/ \E sel \in SelectionsOrNone, aliased, found \in BOOLEAN :
       Select(sel, aliased, found)
  \/ \E what \in {"all", "column", "coords"}, found \in BOOLEAN :
       Restyle(what, found)
  \/ \E found \in BOOLEAN :
       \/ ClickBackground(found)
       \/ ToggleSubsetBoundsChange(found)
       \/ MoveMap(found)
  \/ ChooseMapStyle

User ==
  \/ \E file \in Files, geography \in GeoFiles \union {NoGeo},
        column \in ColumnNames : AddData(file, geography, column)
  \/ Reset
  \/ Sidebar

Next == Host \/ User \/ \E r \in pending : Answer(r)

Spec == Init /\ [][Next]_vars

\* The browser settles every fetch; nothing obliges the user or the host.
FairSpec ==
  /\ Spec
  /\ \A i \in 1..(MaxEvents + 1) :
       WF_vars(\E r \in pending, answer \in Answers :
                 /\ r.id = i
                 /\ DataAnswer(r, answer) \/ GeographyAnswer(r, answer))

-----------------------------------------------------------------------------
(* What holds.                                                              *)

\* The loading mask is over loaded data only beside the alert that no column
\* matches: whoever stores data ends the loading, and whoever starts it has
\* emptied the map or draws in the same commit (_initDataState,
\* _updateStateAndLayers, _initWithGeojson, _urlCallback, _updateHistory and
\* the early returns of generateLayer between them).
MaskOverDataAlerts ==
  st.loading /\ st.data # NoData => st.alert = "no matching column"

\* A line is only held (state.coords) while a layer to hold it in is drawn.
LineNeedsLayer == st.coords => st.view # NoView

Inputs == [data |-> st.data, geography |-> st.geography,
           geographyColumn |-> st.geographyColumn, select |-> st.select]

\* The layer was computed from something else than what the state now holds.
Behind == mounted /\ st.data # NoData /\ st.view # Inputs

\* The step by which the map falls behind the data, the geography or the
\* selection that Home holds leaves an alert in the sidebar (generateLayer's
\* early returns), unless a clicked line is held.
FallsBehindLoudly ==
  [][~Behind /\ Behind' /\ ~st.coords => st'.alert # "none"]_vars

\* The host and a mounted Home part over the selection only together with an
\* alert (generateLayer returned nothing else to report), by another base map,
\* or while there is no layer or no data to filter.
HostPartsLoudly ==
  [][mounted /\ told = st.select /\ told' # st'.select =>
       \/ st'.alert # "none" \/ ChooseMapStyle
       \/ st'.view = NoView \/ st.data = NoData]_vars

\* A held line pins the map: whatever data come meanwhile, the layer stays on
\* those it was clicked in, until "Add data", Reset or, if this.state is up to
\* date there, a click beside the layer (generateLayer's state.coords).
HeldLinePinsMap ==
  [][st.coords /\ st'.view.data # st.view.data =>
       /\ ~st'.coords
       /\ \/ \E file \in Files, geography \in GeoFiles \union {NoGeo},
               column \in ColumnNames : AddData(file, geography, column)
          \/ Reset
          \/ ~AutoBatch /\ \E found \in BOOLEAN : ClickBackground(found)]_vars

\* Whose data is held follows the promise of DataFeed.
Feed == INSTANCE DataFeed WITH
  shown <- st.data, user <- button, suspended <- st.reset,
  asked <- {[id |-> r.id,
             source |-> IF r.stage = "data" THEN r.url ELSE r.data] :
              r \in pending}

\* Home implements DataFeed: after the first "Add data" the host is heard at
\* each Reset only, and what else changes the data is an answer to a load.
ImplementsDataFeed == Feed!FeedSpec

\* A mask with a request behind it comes off, whatever the answers are, if
\* fetchData calls back.
LoadEnds ==
  (mounted /\ st.loading /\ pending # {}) ~> (~st.loading \/ ~mounted)
=============================================================================

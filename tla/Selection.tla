----------------------------- MODULE Selection -----------------------------
(***************************************************************************)
(* Who holds multiVarSelect, the columns and values the map is filtered    *)
(* by. Home keeps it in its state; SidebarTabs, Charts and Variables hold  *)
(* the object they were given when they last rendered, change it in place  *)
(* and hand it back; SidebarTabs is memoised and compares the data in one  *)
(* random feature, so it may sleep through a change. A click in a chart    *)
(* waits 200 ms for a second click, in a timer that outlives the chart.    *)
(* While a line of the map is held, each filter narrows what is drawn.     *)
(***************************************************************************)
EXTENDS Naturals

CONSTANTS
  Columns, Values,
  Severity,       \* the column accident_severity
  MaxObjects,     \* bound on the objects made, one by each _urlCallback
  MaxClicks       \* bound on the timers started

ASSUME SelectionAssumption ==
  /\ Severity \in Columns
  /\ MaxObjects \in Nat \ {0} /\ MaxClicks \in Nat

Objects == 1..MaxObjects
Contents == [Columns -> SUBSET Values]    \* {}: the object lacks the column
Nothing == [c \in Columns |-> {}]
Timers == [id : 1..MaxClicks, object : Objects, column : Columns,
           values : SUBSET Values, render : Nat, doubled : BOOLEAN]

VARIABLES
  content,    \* what is in each object
  made,       \* objects made so far
  home,       \* the object of Home's state
  tabs,       \* the object in the last props of SidebarTabs, and Variables
  charts,     \* the object in the state of Charts
  tab,        \* the open tab
  render,     \* renders of SidebarTabs, each with a new Charts
  panel,      \* Variables and its MultiSelects, see Panels
  drawn,      \* what the map is filtered by
  alert,      \* the last draw had no results
  held,       \* a clicked line is held: state.coords
  empty,      \* nothing is drawn: state.filtered is []
  timers,     \* clicks waiting for their 200 ms
  clicks,     \* timers started so far
  latest,     \* the local variable timer of the last render of Charts
  chosen,     \* observed: what the user chose since the last _urlCallback
  late        \* observed: a timer of before a _urlCallback has fired

holders == <<tabs, charts, render, latest>>
map == <<home, drawn, alert, held, empty>>
vars == <<content, made, home, tabs, charts, tab, render, panel, drawn, alert,
          held, empty, timers, clicks, latest, chosen, late>>

\* The columns chosen in Variables, the values it last gave to each
\* MultiSelect, those each MultiSelect keeps itself, and whether no change
\* passed it by since it was constructed.
Panels == [columns : SUBSET Columns, shown : Contents, local : Contents,
           fresh : BOOLEAN]

TypeOK ==
  /\ content \in [Objects -> Contents]
  /\ made \in Objects
  /\ home \in 1..made /\ tabs \in 1..made /\ charts \in 1..made
  /\ tab \in {"explore", "filter"}
  /\ render \in Nat
  /\ panel \in Panels
  /\ drawn \in Contents /\ alert \in BOOLEAN
  /\ held \in BOOLEAN /\ empty \in BOOLEAN
  /\ timers \subseteq Timers
  /\ clicks \in 0..MaxClicks /\ latest \in 0..MaxClicks
  /\ chosen \subseteq Columns \X Values
  /\ late \in BOOLEAN

Pairs(s) == {cv \in Columns \X Values : cv[2] \in s[cv[1]]}
Keys(s) == {c \in Columns : s[c] # {}}
NewPanel(s) ==
  [columns |-> Keys(s), shown |-> s, local |-> Nothing, fresh |-> TRUE]

\* props.select, the selection the host begins with.
Init ==
  /\ \E vs \in SUBSET Values :
       content = [o \in Objects |->
                    IF o = 1 THEN [Nothing EXCEPT ![Severity] = vs] ELSE Nothing]
  /\ made = 1 /\ home = 1 /\ tabs = 1 /\ charts = 1
  /\ tab = "explore" /\ render = 0
  /\ panel = NewPanel(content[1])
  /\ drawn = content[1] /\ alert = FALSE
  /\ held = FALSE /\ empty \in BOOLEAN
  /\ timers = {} /\ clicks = 0 /\ latest = 0
  /\ chosen = Pairs(content[1]) /\ late = FALSE

-----------------------------------------------------------------------------
(* What a change comes to.                                                 *)

\* Mutant: the panel is of the same type in every render, and Charts lives on.
RerenderAlive(objects, object) ==
  /\ tabs' = object /\ charts' = charts
  /\ render' = render + 1 /\ latest' = 0
  /\ panel' = NewPanel(objects[object])

\* SidebarTabs renders: its panel is a component of a new type (TabOverrides)
\* so that Charts and Variables are constructed again, with the props of now.
Rerender(objects, object) ==
  /\ tabs' = object /\ charts' = object
  /\ render' = render + 1 /\ latest' = 0
  /\ panel' = NewPanel(objects[object])

\* The memo of SidebarTabs: nothing but the panel changes, by itself.
Sleep(kept) == panel' = kept /\ UNCHANGED holders

\* Mutant: what `multi` hands over is drawn and not kept.
AdoptedNever(object, multi) == home

\* The multiVarSelect of the state that generateLayer returns.
Adopted(object, multi) == IF multi THEN object ELSE home

\* A map filtered by a and then by b; whether a feature may pass both; and
\* whether what passes a passes b. A column without values filters nothing.
Narrowed(a, b) ==
  [c \in Columns |->
     IF a[c] = {} THEN b[c] ELSE IF b[c] = {} THEN a[c] ELSE a[c] \cap b[c]]
Compatible(a, b) ==
  \A c \in Columns : a[c] = {} \/ b[c] = {} \/ a[c] \cap b[c] # {}
Inside(a, b) ==
  \A c \in Columns : b[c] # {} => a[c] # {} /\ a[c] \subseteq b[c]

\* generateLayer starts from state.filtered while a line is held, and from
\* all the data otherwise.
Filters(new, holding) ==
  /\ ~empty
  /\ holding => Compatible(drawn, new)
  /\ drawn' = IF holding THEN Narrowed(drawn, new) ELSE new
  /\ alert' = FALSE

\* No results, or no data at all. Features that pass are results.
FiltersNone(new) ==
  /\ empty \/ ~Inside(drawn, new)
  /\ alert' = TRUE \/ (empty /\ UNCHANGED alert)
  /\ UNCHANGED drawn

\* onSelectCallback of Home, with {what: "multi", selected: object} or with a
\* filter that asks for nothing; `objects` are the contents after the change.
\* The tabs may sleep through it, if the sampled feature is the same, and do
\* when there are no results.
Select(objects, object, multi, kept) ==
  LET new == objects[IF multi THEN object ELSE home]
  IN /\ content' = objects
     /\ \/ /\ Filters(new, held)
           /\ home' = Adopted(object, multi)
           /\ \/ Sleep(kept)
              \/ drawn' # drawn /\ Rerender(objects, Adopted(object, multi))
        \/ /\ FiltersNone(new)
           /\ Sleep(kept)
           /\ UNCHANGED home
     /\ UNCHANGED <<made, tab, held, empty>>

\* {what: ""} when the object has no columns left.
SelectOrNothing(objects, object, kept) ==
  Select(objects, object, objects[object] # Nothing, kept)

Stale == [panel EXCEPT !.fresh = FALSE]
Put(object, column, vals) == [content EXCEPT ![object][column] = vals]

-----------------------------------------------------------------------------
(* Charts.                                                                 *)

\* A column that has a selection loses it, whatever was clicked. The object
\* itself is then passed as the filter, which asks for nothing.
FilterOrReset(object, column, vals) ==
  IF content[object][column] # {}
  THEN /\ Select(Put(object, column, {}), object, FALSE, Stale)
       /\ UNCHANGED chosen
  ELSE /\ Select(Put(object, column, vals), object, TRUE, Stale)
       /\ chosen' = chosen \union ({column} \X vals)

\* A click on a bar, event.detail = 1.
Click(column, value) ==
  /\ tab = "explore" /\ ~empty /\ clicks < MaxClicks
  /\ clicks' = clicks + 1
  /\ latest' = clicks'
  /\ timers' = timers \union
       {[id |-> clicks', object |-> charts, column |-> column,
         values |-> {value}, render |-> render, doubled |-> FALSE]}
  /\ UNCHANGED <<content, made, map, tab, tabs, charts, render, panel, chosen,
                 late>>

\* Mutant: the timer is not cleared.
SecondClickUncleared ==
  /\ tab = "explore"
  /\ \E t \in timers :
       /\ t.id = clicks /\ ~t.doubled
       /\ timers' = (timers \ {t}) \union {[t EXCEPT !.doubled = TRUE]}
  /\ UNCHANGED <<content, made, map, holders, panel, tab, clicks, chosen, late>>

\* event.detail = 2, of the double click that the last click began: it clears
\* the timer of the render it falls in.
SecondClick ==
  /\ tab = "explore"
  /\ \E t \in timers :
       /\ t.id = clicks /\ ~t.doubled
       /\ timers' = (timers \ {t}) \union
            (IF t.id = latest THEN {} ELSE {[t EXCEPT !.doubled = TRUE]})
  /\ UNCHANGED <<content, made, map, holders, panel, tab, clicks, chosen, late>>

\* 200 ms later, with what the closure of its render holds.
TimerFires(t) ==
  /\ t \in timers
  /\ timers' = timers \ {t}
  /\ FilterOrReset(t.object, t.column, t.values)
  /\ late' = (late \/ t.object # home)
  /\ UNCHANGED clicks

\* A lasso over bars comes without an event, so at once.
Lasso(column, vals) ==
  /\ tab = "explore" /\ ~empty
  /\ FilterOrReset(charts, column, vals)
  /\ UNCHANGED <<timers, clicks, late>>

\* A click on a severity toggles it, in place of others.
SeverityClick(value) ==
  LET has == value \in content[charts][Severity]
  IN /\ tab = "explore" /\ ~empty
     /\ SelectOrNothing(Put(charts, Severity, IF has THEN {} ELSE {value}),
                        charts, Stale)
     /\ chosen' = IF has THEN chosen ELSE chosen \union {<<Severity, value>>}
     /\ UNCHANGED <<timers, clicks, late>>

-----------------------------------------------------------------------------
(* Variables and its MultiSelects.                                         *)

Displayed(column) ==
  IF panel.shown[column] # {} THEN panel.shown[column] ELSE panel.local[column]

Listed == panel.columns \union Keys(panel.shown)

\* Mutant: the MultiSelect does not keep its value.
KeptNot(column, vals) == [panel EXCEPT !.fresh = @ /\ panel.shown[column] = {}]

\* The panel when a MultiSelect alone has rendered, with its own value.
Kept(column, vals) ==
  [panel EXCEPT !.local[column] = vals,
                !.fresh = @ /\ panel.shown[column] = {}]

\* onChange of a MultiSelect: one more or one less of the values it shows,
\* or none, replaces the values of the column.
MultiSelectChange(column, vals) ==
  /\ tab = "filter" /\ column \in Listed
  /\ SelectOrNothing(Put(tabs, column, vals), tabs, Kept(column, vals))
  /\ chosen' = chosen \union ({column} \X vals)
  /\ UNCHANGED <<timers, clicks, late>>

\* The same for the columns: a column that is taken out loses its selection,
\* and Variables renders with what its object then holds.
VariablesChange(cols) ==
  LET Within(s) == [c \in Columns |-> IF c \in cols THEN s[c] ELSE {}]
      objects == [content EXCEPT ![tabs] = Within(@)]
      rendered == [columns |-> cols, shown |-> objects[tabs],
                   local |-> Within(panel.local), fresh |-> panel.fresh]
  IN /\ tab = "filter" /\ cols # Listed
     /\ IF objects # content
        THEN SelectOrNothing(objects, tabs, rendered)
        ELSE /\ Sleep(rendered)
             /\ UNCHANGED <<content, made, map, tab>>
     /\ UNCHANGED <<timers, clicks, chosen, late>>

-----------------------------------------------------------------------------
(* Around them.                                                            *)

\* The panel of the tab is constructed, with the props of the last render.
ShowTab ==
  /\ tab' = IF tab = "explore" THEN "filter" ELSE "explore"
  /\ charts' = tabs /\ latest' = 0 /\ render' = render + 1
  /\ panel' = NewPanel(content[tabs])
  /\ UNCHANGED <<content, made, map, tabs, timers, clicks, chosen, late>>

\* Another prop of SidebarTabs changes.
TabsRender ==
  /\ Rerender(content, home)
  /\ UNCHANGED <<content, made, map, tab, timers, clicks, chosen, late>>

\* Another colour, layer, option or column: Home draws again by its object.
\* What had results has them again, and what had none has none in a part.
Redraw ==
  /\ ~empty
  /\ alert' = ~Inside(drawn, content[home])
  /\ \/ Sleep(panel)
     \/ ~alert' /\ Rerender(content, home)
  /\ UNCHANGED <<content, made, home, drawn, held, empty, tab, timers, clicks,
                 chosen, late>>

\* A click on a line of the layer.
ClickLine ==
  /\ ~empty
  /\ \/ /\ Filters(content[home], held)
        /\ held' = TRUE
        /\ (Sleep(panel) \/ Rerender(content, home))
     \/ /\ FiltersNone(content[home])
        /\ Sleep(panel) /\ UNCHANGED held
  /\ UNCHANGED <<content, made, home, empty, tab, timers, clicks, chosen, late>>

\* A click beside the layer lets go of the line, but under a React 18 root
\* generateLayer may still read it (stale), and returns it with its layer.
ClickBackground(stale) ==
  /\ held /\ ~empty
  /\ \/ /\ Filters(content[home], stale)
        /\ held' = stale
        /\ (Sleep(panel) \/ Rerender(content, home))
     \/ /\ FiltersNone(content[home])
        /\ held' = FALSE
        /\ Sleep(panel)
  /\ UNCHANGED <<content, made, home, empty, tab, timers, clicks, chosen, late>>

\* Data come from the host while nothing is drawn.
DataComes ==
  /\ empty /\ empty' = FALSE
  /\ drawn' = content[home] /\ alert' = FALSE
  /\ Rerender(content, home)
  /\ UNCHANGED <<content, made, home, held, tab, timers, clicks, chosen, late>>

\* The object of the selection that _urlCallback starts with.
NewSelection == made + 1

\* _urlCallback, on "Add data" and on Reset: the map is emptied, the tabs
\* render without data, and again if data are drawn. Where nothing was drawn
\* and nothing is, the memo sees [] twice and they sleep.
UrlCallback(results) ==
  /\ made < MaxObjects
  /\ made' = made + 1
  /\ home' = NewSelection
  /\ drawn' = content[NewSelection]
  /\ alert' \in {FALSE, ~results}
  /\ held' = FALSE /\ empty' = ~results
  /\ IF empty /\ ~results THEN Sleep(panel) ELSE Rerender(content, NewSelection)
  /\ chosen' = {}
  /\ UNCHANGED <<content, tab, timers, clicks, late>>

Next ==
  \/ \E c \in Columns, v \in Values : Click(c, v)
  \/ SecondClick
  \/ \E t \in timers : TimerFires(t)
  \/ \E c \in Columns, vs \in SUBSET Values \ {{}} : Lasso(c, vs)
  \/ \E v \in Values : SeverityClick(v)
  \/ \E c \in Columns, v \in Values :
       \/ MultiSelectChange(c, Displayed(c) \union {v})
       \/ v \in Displayed(c) /\ MultiSelectChange(c, Displayed(c) \ {v})
       \/ Displayed(c) # {} /\ MultiSelectChange(c, {})
  \/ \E cols \in SUBSET Columns : VariablesChange(cols)
  \/ ShowTab \/ TabsRender \/ Redraw \/ ClickLine \/ DataComes
  \/ \E stale \in BOOLEAN : ClickBackground(stale)
  \/ \E results \in BOOLEAN : UrlCallback(results)

Spec == Init /\ [][Next]_vars
-----------------------------------------------------------------------------
(* Properties                                                              *)

\* Home, the tabs and the charts change one and the same object, though none
\* of them copies it and the tabs skip renders, and what is in it was chosen
\* since the last "Add data" or Reset, as long as something is drawn and no
\* click of before comes through after it.
HoldersAgree ==
  ~late =>
    /\ ~empty => tabs = home /\ charts = home
    /\ Pairs(content[home]) \subseteq chosen

\* What the map is filtered by is what the object that Home holds has in it,
\* whoever changed that in place and whatever came between, unless the sidebar
\* says that the last filter has no results. While a line is held it may be
\* filtered by more, what was selected when it was clicked, and only a draw
\* without the line sets that right.
MapFollowsSelection ==
  ~alert /\ ~empty =>
    IF held THEN Inside(drawn, content[home]) ELSE drawn = content[home]

\* A first click that a second one followed is still waiting only if the
\* charts were rendered between the two, which gave the second click another
\* local variable to clear.
DoubleClickIgnored == \A t \in timers : t.doubled => t.render < render

\* The values a MultiSelect shows, which the next change starts from, are
\* those selected, until the tabs sleep through a change.
ShownIsSelected ==
  tab = "filter" /\ panel.fresh =>
    \A c \in Columns : Displayed(c) = content[tabs][c]
=============================================================================

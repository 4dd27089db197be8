# A formal model of TGVE

TGVE is a React application: it takes geographic data from a host page, from URLs or
from files a user adds, draws it as a deck.gl layer, and offers a sidebar of charts,
filters and layer options. This directory holds a TLA+ model of the part of it that
carries state from one callback to the next, the TLC configurations that check the
model on small instances, and TLAPS proofs of what holds for all of them.

Source paths below are relative to the repository root.

## 1. The system

TGVE runs in one thread. Nothing is preempted, but almost nothing is done in one go
either: fetches, file readers, timers, promises and `setState` callbacks come back
later, in an order no code fixes, to a component that has moved on. That is where the
hard behaviour is.

| component (sources) | state | operations | talks to | hard behaviour | correct when |
|---|---|---|---|---|---|
| **Home: sources of data** (`src/home/index.js`, `src/home/util.js`) | `loading`, `data`, `geography`, `geographyColumn`, `layers`, `filtered`, `coords`, `multiVarSelect`, `alert`, `reset`, `subsetBoundsChange` | mount, props change, unmount, the two fetch callbacks, `_urlCallback` (Add data, Reset), `_callGenerateLayer` from everywhere | `fetchData`, DeckSidebar (callbacks), host (`onStateChange`) | answers out of order and after the state changed; `this.state` read after `setState`; early returns that skip part of the state | the data held is the one asked for; the map is behind it only with a reason shown; the mask comes off; the host knows what is selected (where the documentation promises more than the code keeps, section 3 says so) |
| **fetchData** (`src/utils/utils.js`) | none | GET, parse as JSON, CSV or shapefile, call back | Home, DataInput | calls back once, twice or never | every request ends |
| **DeckSidebar** (`src/components/decksidebar/`) | `open`, `reset` | Reset button, Add data, tabs | Home | a second `reset` flag; reads another component's alert to guess an outcome | Reset is offered when there is something to reset, and gives the sources back |
| **Selection and charts** (`Charts.jsx`, `Variables.jsx`, `MultiSelect.jsx`, `AddVIS.jsx`) | one `multiVarSelect` object shared by reference | click on a bar, double click, choose values, clear | Home `onSelectCallback` | in-place mutation of Home's state; a timer in a local of render | the selection shown, the one applied and the one reported agree, with and without a line held |
| **Viewport and history** (`src/home/index.js`, `src/utils/utils.js`, `src/history.js`) | `viewport`, the query string, `lastViewPortChange` | move, zoom buttons, resize, write the URL, read it back | browser history | 300 ms throttle and a one-second gate drop writes | the browser is not flooded; a reload finds the map where it was; a Home opens where its props say |
| **DataInput, File** (`src/components/input/`) | the first file, the joining column, the modal, the progress bar | drop, read, choose a column, second file, submit | Home `urlCallback`, DeckSidebar | a reader's callback holds the variables of the render it was made in; an interval that is overwritten | what is handed over is what the form shows |
| **API parameters** (`src/utils/api.js`, `src/App.js`) | none | merge query, props, settings and environment; compare two APIs | Home | precedence; comparisons that miss a change; a query written unencoded and read decoded | the most specific source wins; a change is seen; a write does not change what is read |
| **GeoJSON utilities** (`src/utils/geojsonutils.js`, `JSUtils.js`) | none | joins, property counts, domains, sorting | everything | recursion, empty and one-element inputs, missing columns | they compute what their names and tests say |
| **Plotly component** (`src/components/showcases/`) | a promise chain, the event handlers attached, the modal of `GenericPlotly` | mount, update, unmount, resize, double click, expand | Plotly, Charts | updates queue and outlive the component; every render makes a class of its own | nothing is drawn into, or listened to on, a dead element; what is shown is what was last given |
| **Export, Preview** (`src/components/export/`) | one image, `loading`, a popover, a notification | screenshot, copy the link | deck.gl canvas, clipboard | overlapping screenshots, a toggled flag | the spinner and the image tell what was asked for |
| **Table** (`src/components/Table.jsx`) | the page | page | none | paging arithmetic | every row is on one page (it is not: of more than ten rows the first ten are on none) |
| **Settings, layer options** (`src/components/settings/`, `_generateOptions`) | the form's copy of the options, Home's `layerOptions` | change a setting, a palette, the layer, the column | Home, Tabs | the form hands back all it copied, and is rebuilt from older props | form, state and layer agree |

Left aside for good: base maps, the icon atlas, custom shaders, the legend, tooltip
markup (drawing, hardly any state), the generated service worker, and the third-party
libraries, of which only the behaviour the code relies on is modelled, as external.

## 2. Modules

| module | models | extends |
|---|---|---|
| `DataSources` | the kinds of data, geographies, columns and selections; `props`; what an answer to a GET can be | |
| `DataFeed` | abstract: whose data is held, whether the host is heeded, and which loads may still show theirs | |
| `HomeData` | Home as the owner of the data, with the parts of DeckSidebar and the charts that call into it; implements `DataFeed` | `DataSources` |
| `HomeDataMC` | the small instances for TLC | `HomeData` |
| `HomeData_proofs` | the inductive invariant and the theorems | `HomeData`, `TLAPS` |
| `HistoryWrites` | when Home writes the URL: throttle, gate, clock and timers | |
| `HistoryWrites_proofs` | the two limits and the last write | `HistoryWrites`, `TLAPS` |
| `InitialView` | what Home writes to the URL and where a Home opens: prop, query, shared defaults, browser history | |
| `InitialViewMC` | its small instance for TLC | `InitialView` |
| `InitialView_proofs` | the theorems about entries and places | `InitialView`, `TLAPS` |
| `PlotlyComponent` | any number of instances of the class that `factory.js` makes | |
| `GenericPlotly` | the component that renders them, built from the actions of `PlotlyComponent` | `PlotlyComponent` |
| `Selection` | who holds `multiVarSelect` and changes it in place | |
| `DataInput` | the Add data dialog, File, and the sidebar around them | |
| `Preview` | the export popover and its screenshots | |
| `ApiParams` | where parameters come from, which renders of the host get through, and the URL | |
| `LayerOptions` | the options of the layer, the form and the tabs between | |
| `FeatureStats` | pure functions: counts, domains, plot data, pages; orders and sums are defined by counting | |
| `PlotlyComponentMC`, `GenericPlotlyMC`, `SelectionMC`, `ApiParamsMC`, `LayerOptionsMC`, `FeatureStatsMC` | small instances for TLC; the other modules need constants only | the module |
| `Charts_proofs` | the theorems about `PlotlyComponent`, about `GenericPlotly` and about `FeatureStats` | `GenericPlotly`, `FeatureStats`, `TLAPS` |
| `Selection_proofs`, `DataInput_proofs`, `Preview_proofs` | the theorems of each | the module, `TLAPS` |
| `Options_proofs` | the theorems about `LayerOptions` and about `ApiParams`, whose specification is named `ApiSpec` for that | both, `TLAPS` |

Composed are `HomeData` with `DataSources`, `GenericPlotly` with `PlotlyComponent`, and
`DataInput` with what `Modal` and DeckSidebar do around it. Between the others little is
shared, and that is cut at one place each: `HomeData` has no viewport (moving the map is
`MoveMap`, for the subset box); `HistoryWrites` knows a viewport by its time only;
`InitialView` lets each call of `_updateHistory` through or not, in every way that
`HistoryWrites` can and more; what `DataInput` hands over is `AddData` of `HomeData`; the
`UrlCallback` of `Selection` is `AddData` or `Reset`; the parameters of `ApiParams` are
the `props` of `HomeData`.

### HomeData

| variable | in the code |
|---|---|
| `phase` | Home constructed, mounted, or unmounted (by the host, or by React when a render callback throws) |
| `props` | the five props of the data flow: `data`, `defaultURL`, `geographyURL`, `geographyColumn`, `select` |
| `st.loading`, `.data`, `.geography`, `.geographyColumn`, `.coords`, `.alert`, `.reset`, `.subset` | the fields of `this.state` of the same name (`subset` is `subsetBoundsChange`) |
| `st.select` | `this.state.multiVarSelect` |
| `st.view` | `layers` and `filtered`, as the inputs they were computed from |
| `button` | DeckSidebar's own `state.reset` |
| `pending` | requests in flight; `stage` tells the callback it will run, `data` what that callback has closed over |
| `loads`, `told`, `events` | how many loads were begun, what `onStateChange` was last given, and the count behind the bound |

Each action is one callback, with everything it does up to the commit, including the
`setState` callbacks of that commit:

| action | code |
|---|---|
| `Mount`, `ChangeProps`, `Unmount` | `componentDidMount`, `componentDidUpdate`, `componentWillUnmount` |
| `InitDataState`, `StartLoad` | `_initDataState`, `_fetchAndUpdateState` |
| `DataAnswer` | the callback of the first `fetchData`, which starts the second request or calls `_initWithGeojson`; in an unmounted Home it still tells the host (`AnsweredWhenGone`) |
| `GeographyAnswer` | the callback of the second, `_updateStateAndLayers` |
| `NeverCalledBack` | a fetch after which `fetchData` does not call back |
| `AddData`, `Reset` | `_urlCallback`, from DataInput and from the Reset button |
| `Select`, `Restyle`, `ClickBackground`, `ToggleSubsetBoundsChange`, `MoveMap` | the callers of `_callGenerateLayer` in the sidebar and on the map |
| `ChooseMapStyle` | another base map: the return of `generateLayer` that holds a style only, after which the host is told an empty selection |
| `CallGenerateLayer`, `Drawn`, `Told` | `_callGenerateLayer` with `generateLayer`: the state to merge and the call of `onStateChange`. `Layered` is what is merged of a layer, `Alerted` what is of the two returns with an alert: "no results" lowers the mask, "matching column" leaves it |

**React's batching.** `AutoBatch` says which React is underneath (`package.json` admits
any from 16.8). Under a legacy root a `setState` in a promise or a native event shows in
`this.state` at once; under a React 18 root only after the callback. Two places read
`this.state` after `setState` there: `_initWithGeojson` and the click beside a line. In the
first, a load is then drawn from the data of before, and the first one not at all; in the
second, the line that was let go of is read and returned again. `ReadsAfter` is the only
place of the actions that `AutoBatch` matters in. `FallsBehindLoudly` is false under a React 18
root, as these steps leave the map behind without an alert; `HeldLinePinsMap` holds under both roots
and names the click beside a line as a way out of one of them only.

**Abstractions.** What a data set contains is its identity; whether a join finds rows and
a selection hits features are the constants `Join` and `Hits`, arbitrary in the proofs.
Where the outcome of a filter depends on more than that (a clicked line, the bounds of the
map, a column's rows) it is a free Boolean, `found`. An answer that parses but has no
features is `junk`; a geography of one `Feature`, in which the join finds no features, is a
result of `Join` ("featureless"); an empty `FeatureCollection` appears as the prop `Blank` only. A chart
may hold the selection object of this state or an older one: `aliased` is free here, and
`Selection` says when it is which. Layer choice, icon-mode alert, tooltip,
popup, viewport and window size are left out: nothing here reads them.

### HistoryWrites

| variable | in the code |
|---|---|
| `last`, `mounted` | `state.lastViewPortChange`, whether `setState` still has an effect |
| `timer`, `args`, `called`, `invoked` | lodash's `timerId` (as the time it is due), `lastArgs`, `lastCallTime`, `lastInvokeTime` |
| `entry`, `written` | the viewport in the URL, and when the history was written |
| `now`, `moved`, `gone` | the clock, the last move of the map, the unmounting |

`Move` is `onViewportChange` of `MapGL` with lodash's `debounced`; `UpdateHistory` is
`_updateHistory`; `TimerExpires` is lodash's `timerExpired` with `trailingEdge`; `Unmount`
is `componentWillUnmount`, which cancels nothing. lodash is not under `src/`: the throttle
is `throttle(f, 300)`, leading and trailing, as `home/index.js:90` uses it. `Tick` moves
the clock, and not past the time a timer is due by more than `Late`.

### InitialView

| variable | in the code |
|---|---|
| `deckglInit` | the object `DECKGL_INIT`, which `initViewState` assigns to and returns |
| `stack`, `at` | the browser history behind `history.js` |
| `viewport`, `mounted`, `props` | `state.viewport` and the mounted Home's `viewport` and kind of layer |
| `args`, `left` | the arguments kept by its throttle, and by those of unmounted Homes |
| `opened` | the entry current when Home was constructed |

`Mount` is the constructor with `initViewState` and `getViewportParams` (`Param`), `Move`
the two `onViewportChange`, `UpdateHistory` with `Written` the function of that name in
`utils.js`, `Gated` the gate of `_updateHistory`. `Reload`, `Back` and `Forward` are the
browser's. A coordinate is a number of half units in the last digit that `toFixed` keeps,
so that one value in two is rounded.

### PlotlyComponent and GenericPlotly

Every variable is a function of the instance.

| variable | in the code (`factory.js`) |
|---|---|
| `phase`, `props` | new, mounted or unmounted (`this.unmounting`); figure, revision, `onClick`, `useResizeHandler` |
| `chain`, `drawing` | the promise `this.p`: the updates not done, and the figure `Plotly.react` is at work on |
| `drawn`, `failed` | what the element shows; the last draw failed |
| `rejected`, `lost` | `this.p` is rejected; observed: its last update was passed over |
| `handlers`, `clicks`, `updates` | `this.handlers`; how often each handler, and `handleUpdate`, is on the element |
| `resizeHandler`, `window` | `this.resizeHandler`; how many listeners of the instance the window has |
| `heard`, `initialized`, `purgeThrew` | observed: the owner's callbacks |

`Mount`, `Update`, `Unmount` are React's three methods; `React`, `Settle`, `Skip`, `Reject`
and `PassOver` the steps of the chain, `Settle` with `SyncWindowResize` and
`SyncEventHandlers`, the others with the `catch` (`OnError`). An `onError` that throws leaves
`this.p` rejected, and `PassOver` is the next update, of which only the `catch` runs;
`HandleUpdate` an event of Plotly. One event, `onClick`, stands for all that
`syncEventHandlers` loops over. What Plotly does with an element is external: it draws or
rejects, and `purge` empties the element. In `GenericPlotly`, `isOpen` and `modeBar` are
the state of the component, `data` whether it has any, and `wanted` the plots of the last
render. As the factory is called in every render, the actions `OwnerRenders`,
`DoubleClick`, `Expand`, `ToggleModeBar` and `Close` each want new plots; `CommitUnmount`
and `CommitMount` are React's commit; `Background` is what the chains do meanwhile.

### Selection

| variable | in the code |
|---|---|
| `content`, `made` | the objects that were `multiVarSelect` so far, each a set of values per column |
| `home`, `tabs`, `charts` | which object Home's state, the last props of `SidebarTabs`, and the state of Charts hold |
| `tab`, `panel`, `render` | the open tab; the state of Variables and its MultiSelects; renders of `SidebarTabs` |
| `drawn`, `alert` | the selection the map was filtered by, and whether there were no results |
| `held`, `empty` | `state.coords`, and whether nothing is drawn |
| `timers`, `clicks`, `latest` | clicks in their 200 ms, and the local `timer` of the last render |
| `chosen`, `late` | observed: what was chosen since `_urlCallback`; a click of before came through |

`Click`, `SecondClick`, `TimerFires`, `Lasso` and `SeverityClick` are the handlers of
`Charts.jsx`, all but the second through `FilterOrReset` and Home's `onSelectCallback`
(`Select`); `MultiSelectChange` and `VariablesChange` those of the two selects; `ShowTab`
and `TabsRender` renders; `ClickLine`, `ClickBackground`, `Redraw`, `DataComes` and
`UrlCallback` Home's. `Filters` is `generateLayer` with results and `FiltersNone` without:
while a line is held it starts from `state.filtered`, so that what is drawn is `Narrowed` by
the new selection and not replaced by it. `Select` leaves it open whether the memo of the
tabs lets a change through, as one random feature decides that; when there was nothing and
is nothing, it surely does not.

### DataInput

| variable | in the code |
|---|---|
| `isOpen`, `dataFile`, `geoColumn`, `alert` | the state of `DataInput` |
| `reading`, `drops` | files read (`FileReader`) or parsed (`shp`), each with the `dataFile` and `geoColumn` its callback has closed over |
| `uploader`, `progress`, `intervalId`, `intervals` | the `File` of the open dialog with its state and its `this.intervalId`; the intervals that run |
| `sidebar`, `tableOpen`, `rows` | the open flags of DeckSidebarContainer and of `Modal` |
| `added` and the rest | observed: what `urlCallback` was given, what had geometry, what the user did |

`AddDataButton`, `OnClose`, `CloseButton`, `Trash`, `TypeColumn`, `Cancel`, `Arrow`,
`OpenTable` and `CloseTable` are handlers; `HandleDrop` begins a read; `Load`, `LoadZip`
and `Parse` end its stages, and `Process` is `_contentCallback` with `processTextOrBuffer`;
`Tick` is the interval's. What a file contains is found out when it is parsed, so any
outcome is possible for any file.

### Preview

`notEmpty`, `popover`, `copying`, `notification` belong to `Export.jsx`; `isOpen`, `image`,
`loading` and `noSidebar` to `Preview.jsx`; `shots` are the screenshots at work. `Save`,
`Choose` and `Close` are handlers, the first two with the effect they bring about
(`Screenshot`); `Drawn` and `Rejected` are the ends of an `html2canvas` promise, which may
find its Preview gone; `Popover` and `DataChange` take the Preview out of the tree;
`CopyURL`, `Copied`, `Prompted` and `Hide` copy the link.

### ApiParams

`host` and `shown` are the props of the host's last render and of the last one that
`React.memo` let through, `query` and `seen` the query now and at that render, `settings`
and `env` what stands behind. `Value` is what `params` makes of one parameter,
`HostRenders` a render through `HasAPIChanged`, `UpdateHistory` the write of
`utils.updateHistory` with `Write` as the query it will be read as. A text is a model
value; `Reread` says what `qs` reads of it when it is written into a URL as it is, and is any
function in the proofs: `updateHistory` does not encode, so that an `&` or `#` ends the text,
and `qs` decodes, so that a `%26` is an `&` when it is read and ends the text at the write
after. What stands behind such an `&` is taken to name no parameter of `App`.

### LayerOptions

`layerName`, `colorName`, `column` and `layerOptions` are Home's state, `tabs` the options
in the props of the tabs' last render for Home, `values` the state of `LayerSettings`, `picked`
and `bar` that of the tabs. `behind` and `missed` are observed: the form was built from options
that Home no longer had, and its last setting found no results. The
table is that of `settingsUtils.js`, with numbers in tenths, without the options that are
functions, classes or fixed. `ChangeSetting`, `ChooseColour`, `ChooseLayer` and
`ChooseColumn` call `_generateOptions` (`GenerateOptions`) and then render the tabs, for
Home (`Adopt`) or by themselves (`Rebuild`); `TabsRender` and `ShowSettings` only render. With
`NoResults` an action changes the form and the tabs alone. What is computed for the layer
(`Own`) is by kind of geometry and layer, and constant where the values do not vary.

### FeatureStats

`features` is a file read so far, `Add` one more feature. Everything else is a function of
it: `GetKeyColumns`, `PropertyCount`, `XYObjectByProperty`, `PropertyCountByYear`,
`ArrayPlotProps`, `GenerateDomain`, `ColourIndex` (`geojsonutils.js`, `utils.js`), the data
of `plots.jsx` and the rows of `Table.jsx`. The properties compare them with counts made
directly from the features. A `Set` is a list without what came before (`Uniq`), a sort puts
each element where as many are not after it (`Sorted`, `InOrder`), and a sum is the number of
pairs of a place and a number up to what is there (`Sum`): none of them is recursive, so all
can be reasoned about. `StatsAssumption` types the columns the functions are asked for: dates
with a year, one of two sexes, and `n`, of which nothing is known.

## 3. Runs

| run | checks | distinct states | what it shows |
|---|---|---|---|
| `home_legacy` | `MaskOverDataAlerts`, `LineNeedsLayer`, `FallsBehindLoudly`, `HostPartsLoudly`, `ImplementsDataFeed` | 335,372 | with every kind of answer and no auto-batching the mask is over data only beside an alert, map and host fall behind the state only with an alert or for the reasons named, and Home implements `DataFeed` |
| `home_batched` | `LoadEnds`, `HeldLinePinsMap` | 44,424 | under a React 18 root the mask of a load comes off, if `fetchData` calls back, and a held line keeps the map on its data |
| `history_writes` | `FewWrites`, `URLKeepsUp`, `LeavesOnce` | 981,435 | throttle and gate together neither flood the history nor starve it while the map moves, and an unmounted Home writes once more at most |
| `initial_view` | `OneEntryAdded`, `PlaceSurvivesReload` | 35,244 | one history entry is added whatever the back button does, and it brings the place back |
| `plotly_component` | `ListenersMatch`, `NothingLeftBehind`, `SettledShowsProps`, `PurgeIsLast`, `FigureReached` | 19,510 | draws in flight, failing and outliving the plot, and callbacks that throw, leave it with the listeners it knows of or none, and what it was last given is drawn |
| `generic_plotly` | `OnlyTheLastRender` | 124,802 | though each render replaces the class, drawings and listeners are left of the plots of the last one only |
| `selection` | `HoldersAgree`, `MapFollowsSelection`, `DoubleClickIgnored`, `ShownIsSelected` | 470,795 | who agrees with whom about the one object, and what the exceptions are |
| `data_input` | `LeftAsFound`, `AddedHasGeometry`, `WaitingFileKept`, `IntervalsStop` | 39,630 | two reads that overlap the dialog, the table and each other: what is handed over has geometry, dialog and sidebar are as the user left them, bars end |
| `api_params` | `HostFollowed`, `OwnWritesWin`, `RestForgotten` | 1,361,172 | what the host asks for is shown, until Home's own URL decides |
| `preview` | `LoadingIsParity`, `ImageOfChoice` | 21,348 | what the spinner tells of overlapping screenshots, and whose image stays |
| `layer_options` | `TypeOK`, `SettingsAgree`, `PaletteFollowed` | 1,189,697 | form, options and layer agree until the form is built from older options or a setting finds no results |
| `feature_stats` | `CountsAddUp`, `PointsMatch`, `DomainColours`, `LimitsShow` | 37,448 | the functions against their references, on every file of up to five features out of eight kinds |

The type invariants of the modules with a proof module are proved and not run;
`LayerOptions` has its checked. All runs pass. Deadlock is checked in `api_params`, `preview` and
`layer_options`, where something can always happen; in the others the system may stop (idle,
unmounted, a file read to its end) or a bound stops it, and their configurations say
`CHECK_DEADLOCK FALSE`.

**Where the documentation says otherwise.** Six statements of it are not kept by the code. The
models have what the code does; none of the runs asks for the statement.

1. *"The TGVE will disable other data sources"* after Add data (`README.md:112`): the answer to
   a load begun before replaces the user's data (`index.js:166`). `DataFeed` has it so.
2. *"... until reset button is pressed"* (`README.md:112`): Home's `reset` flag is raised by
   Add data and by Reset alike and never lowered, so after Reset the host's later props are
   not heeded (`index.js:105`). `DataFeed` has it so.
3. *"The returned object contains an object called `select` which contains columns selected"*
   (`README.md:110`): where `generateLayer` returns an alert or a base map only, the host is
   told that nothing is selected (`index.js:262`). `HostPartsLoudly` names both.
4. *"geojson valid object to use throughout TGVE"* (`index.js:233`): under a React 18 root
   the first data fetched are stored and not drawn (`index.js:243`). `ReadsAfter` has it so.
5. *"If any of these are missing, TGVE will draw them from these default values"*
   (`README.md:93`): the defaults are an object that each mounted Home writes its `viewport`
   prop into (`util.js:266`), as `Mount` of `InitialView` does.
6. *"The initial viewport can be set using this JSON parameter"* (`README.md:89`): any query,
   `?dark=true` say, puts the default place over the prop (`util.js:270`), as `Param` does.

Several properties name an exception ("unless ...", "until ..."). The exception is what the
code does: dropping it from the property makes the run fail. It is stated so because it is
what a reader of the code has to know.

**What the models reach and no run asks for**, as no document clearly forbids it:

- Home: of two loads the last answered stays; the user's column outlives Reset; inline data is
  joined with an earlier geography; a geography without features leaves the mask where a
  `MoveMap` put it; a late "Could not reach" hides Reset; under a React 18 root a line that was
  clicked is never let go of.
- URL: pitch and bearing are written and never read back; an `&` in `defaultURL` cuts it, a
  `%26` does so at the second write; `dark` and others are dropped.
- Add data: a read that ends late opens the dialog again; Cancel stops the bar and not the
  reading; a second drop leaves an interval running; a table torn down with its data leaves
  the sidebar folded.
- Selection: while a line is held, a selection that is cleared or changed leaves the map
  filtered by the former one, too.
- Settings: a slider at 0 shows its default; the first click on a checkbox that is on by
  default leaves it on; a setting undoes a palette chosen since the form was built; a setting
  made while the selection has no results is in the form and not in the layer.
- Charts and table: an `onPurge` that throws leaves the listeners on the window, an `onError`
  that throws costs the plot its next update; the two lists of `timePlot` need not belong
  together; of a table with more than ten rows the first ten are never shown; two overlapping
  screenshots hide the spinner.

**Bounds.** `MaxEvents` of `HomeData` bounds what the host and the user do after mounting
(4, or 3 where batching or liveness makes the graph bigger); answers are not bounded. Every
load is one event or the mount, so up to five loads overlap. Two URLs are needed for answers
out of order, two inline data sets for a change, two geographies of the user for a join with
features and one without; of files, geography URLs and selections there is one each, as
nothing compares them but for identity. The six props of `MCProps` are one per branch of
`_initDataState` and `_fetchAndUpdateState` (inline, inline with a URL, URL, URL with a
geography, a geography that is no URL, nothing), and a host may go from any to any.

In `HistoryWrites` a unit of time is about 100 to 140 ms (`Wait` 3, `Gate` 7, timers one unit
late), and the browser's limit of 100 writes in 30 s is scaled to 4 in 24 units so that it
is as close as `TimingAssumption` allows, `(Limit - 1) * (Gate + 1) >= Window`; the real
numbers, 99 * 1001 >= 30000, leave more room. `MaxTime` 34 is a window and a gate more. The
bounds in the properties are tight: each is attained when one is subtracted.
`InitialView` is finite as it is: its three views are one that is rounded, one that is
not and all zeros; the props and queries are those that the branches of `initViewState`
tell apart.

`PlotlyComponent` has one plot, as instances share nothing but the window, where each has
listeners of its own; two figures, two handlers, a chain of three updates (one at work, one
waiting, one more) and five props that change one thing at a time or all; every callback of
the owner may throw. `GenericPlotly` has five plots, enough for a double click, the modal
and its closing in a row. `Selection` has two columns of two values (alike, hence the
symmetry), two objects, one click in flight, and `Few` keeps it at two renders and two
values chosen: one render tells a click of before from one of after, one object an old
holder from a new. `DataInput` has two files, as a third would find what a first finds, two
openings of the dialog, and a progress bar of 2 ticks for 10. `Preview` has four
screenshots, so that two overlap in a dialog and in the one after it. `ApiParams` has two
renders of the host, three texts (a plain one, one with an `&`, one with a `%26`) and begins
with at most one prop and one parameter of the query, as no value depends on two parameters;
`LayerOptions` has three layers of points that share settings with different ranges, two of
these settings, and two palettes up to symmetry; `FeatureStats` has `Limit` and `Few` 2 for
the code's 10, so that five features make more than two pages and both limits of
`MostlyNumbers` count.

**Fairness.** `FairSpec` of `HomeData` asks that each request is answered: a browser settles
every fetch, and the callbacks are independent, so it is one weak fairness per load. With
`Silence` (a CSV with a parse error, a shapefile that `shp` rejects) `LoadEnds` fails, which
is why that run sets it `FALSE`. `FairSpec` of `PlotlyComponent` asks that each promise
chain goes on: the browser runs its microtasks, and Plotly resolves or rejects. `FairSpec`
of `DataInput` asks that each interval that runs ticks, as browsers do. Nothing obliges the
user or the host anywhere.

## 4. Proofs

The invariance theorems follow one pattern: a strengthening `IInv`, `Init => IInv`,
`IInv /\ [Next]_vars => IInv'` with a lemma per action, and `IInv` implies the property. Each
holds for every value of the constants that the named assumptions of the module admit, and
every component with state has its type invariant proved with it. What `GenericPlotly` asks of
its constants beyond `PlotlyComponent` (`GenericAssumption`) is a hypothesis of its theorems, so
that those about the class stay without it; `GenericPlotlyMC` has TLC evaluate it.

| module | theorem: property |
|---|---|
| `HomeData_proofs` | `MaskExplained`: `MaskOverDataAlerts`; `HeldInALayer`: `LineNeedsLayer`; `DataFeedImplemented`: `ImplementsDataFeed`; `HostKeepsLevel`: `HostPartsLoudly`; `LinePins`: `HeldLinePinsMap`; without auto-batching `MapKeepsLevel`: `FallsBehindLoudly` |
| `HistoryWrites_proofs` | `NotFlooded`: `FewWrites`; `URLFollowsMap`: `URLKeepsUp`; `LastWrite`: `LeavesOnce` |
| `InitialView_proofs` | `OneEntry`: `OneEntryAdded`; `PlaceKept`: `PlaceSurvivesReload` |
| `Charts_proofs`, of the class | `OneListener`: `ListenersMatch`; `Purged`: `NothingLeftBehind`; `PropsShown`: `SettledShowsProps`; `PurgeHeardLast`: `PurgeIsLast` |
| `Charts_proofs`, of the component | `PlotsKeepListeners`: `ListenersMatch` and `NothingLeftBehind` of `GenericSpec`; `LastRenderOnly`: `OnlyTheLastRender` |
| `Charts_proofs`, of the data | `CountedOnce`: `CountsAddUp`; `OneColourEach`: `DomainColours`; `PointsStay`: `PointsMatch`; `RowsShown`: `LimitsShow` |
| `Selection_proofs` | `OneSelection`: `HoldersAgree`; `MapFollows`: `MapFollowsSelection`; `DoubleClicks`: `DoubleClickIgnored`; `SelectsShow`: `ShownIsSelected` |
| `DataInput_proofs` | `GivenBack`: `LeftAsFound`; `GeometryAdded`: `AddedHasGeometry`; `WaitingKept`: `WaitingFileKept` |
| `Preview_proofs` | `SpinnerIsParity`: `LoadingIsParity`; `ShowsTheChoice`: `ImageOfChoice` |
| `Options_proofs`, of the layer | `OptionsTypeCorrect`: `TypeOK`; `FormFollows`: `SettingsAgree`; `PaletteKept`: `PaletteFollowed` |
| `Options_proofs`, of the API | `HostHeard`: `HostFollowed`; `OpenedForgotten`: `RestForgotten`; `QueryDecides`: `OwnWritesWin`; `ApiTypeCorrect`: `ApiTypeOK` |

**HomeData.** `MaskOverDataAlerts` and `LineNeedsLayer` are the two halves of `Sound`, which is
said of any state of the component, so that it can be asked of the states a `setState` makes on
the way. A step that stores data ends the loading; what begins it has emptied the map, or is
`MoveMap`, whose commit ends it again, or leaves it beside the alert that no column matches.
The refinement needs that before anything is mounted nothing is loaded, that request ids are at
most `loads`, and that a load never has two requests out (`OnePerLoad`), or else an answer would
not end it. Each action has a lemma; the actions that only call `generateLayer` share
`GenerateKeepsIInv`, from `DrawnState`, which says that `generateLayer` leaves the sources alone.
The action properties compare a state with the next: `CallLevel`, `CallTells` and `CallPins` say
what one call of `_callGenerateLayer` does to the map, to the host and to a map that a line pins,
and each action is shown to be such a call or to leave all alone (`Level`, `Tells`, `Pins`).
`Level` needs that the call reads the state just set, hence `~AutoBatch`: under a React 18 root
it is false. The assumptions are that the kinds of data are disjoint, `Join` a function and
`Hits` a relation.

**HistoryWrites.** While a write may still come, every earlier one was at or before `last`
(`BeforeLast`), so two writes are more than `Gate` apart; hence `n` writes of a window take
`(n - 1) * (Gate + 1)` at least (`Spread`, by the step that adds one), which
`TimingAssumption` makes longer than the window. The other way round, the throttle invokes
at least every `Wait` while the map moves, and an invocation that does not write proves
that the gate was closed (`GateInv`). After unmounting `args` is the one write left
(`GoneInv`).

**InitialView.** Neither property is inductive alone: what a Home opens with depends on what
any entry of the history holds, hence `FaithfulInv`: an entry written for a view has this
view in its query. `OneEntryAdded` gives that a push happens at the first entry only.

**PlotlyComponent.** The invariant is one of a single plot (`PlotInv`), for every plot: a step
moves one and leaves the others `Same`. That a settled plot shows its props needs that the
last update in the chain, once drawing, draws the figure of the props (`ChainInv`): an
update is queued behind it whenever they change. It may be passed over only if the chain is
`rejected`, and then the plot is `lost` until the next one. One `handleUpdate` at most needs
that "init" is the first in the chain and once there.

**GenericPlotly.** Its actions are built from those of `PlotlyComponent`, so `GInv` takes the
invariant of the plots over from there (`GenericStep`), for any number of renders; what is
proved anew is that a render has two plots at most (`RenderTakes`) and that a commit leaves
those of the last one only. That nothing else has anything left then follows from
`NothingLeftBehind`; `GenericAssumption` (no callback of the owner throws) excludes the
exception.

**Selection.** The objects not made yet are empty (`Unmade`), which is why a new selection
starts with nothing; a click that waits refers to an object that was made and, if it is the
last, either its timer is the local of the last render or there was a render in between
(`ClicksInv`). `HoldersAgree` and `MapFollowsSelection` are then inductive
together with `Redrawable`: a map that is not filtered as it should be, though no line holds it,
could not be drawn anew with results, so no redraw lowers the alert and leaves it so.
`ShownIsSelected` is inductive beside that invariant (`NextShows`): every change ends in
`Select` with the panel it would keep, and if that one shows the selection, so does the panel
after it, kept or new (`SelectShows`); a chart leaves a panel that is not fresh, and for the
two selects the panel is followed column by column (`KeptShows`, `RenderedShows`).

**DataInput.** A file that waits as data, or was taken for data beside a geography, has no
geometry and is not being read any more (`Bare`); every read that knows a data file knows a
`Bare` one. This makes `AddedHasGeometry` inductive however the reads overlap.

**Preview.** Screenshots are numbered, and as long as none was overtaken there is one in
flight at most, of the choice made now (`FlightInv`), so its answer makes `ImageOfChoice`
true. Parity is by cardinality: an answer takes one element from `unanswered` and turns
`loading` over.

**LayerOptions.** The form and Home hold the same settings, the ones Home computes itself
apart, unless the last setting found no results (`FormAgrees`), and the form has the palette the
tabs were rendered with (`FormPalette`). This is inductive because `_generateOptions` keeps every
option that it is given and has not computed (`GenerateIs`, `GenerateSettings`), and because no
layer has a setting for a colour (`NoColourSetting`, from the table itself). A form that missed a
setting hands all it copied to the next one, which makes the two agree again. `OInv`, the invariant, was checked by TLC on the
run's instance and on one with `line` and `geojson`. The module has its own `@@` and `:>`, as
TLC's are defined for TLC only.

**ApiParams.** `React.memo` lets a render through whenever a watched parameter differs, so the
props App has agree with the host's there (`HostShown`). Once written, the query holds Home's strings only, each what App last had or what `qs` reads of that (`QueryWritten`); nothing is asked of `Reread` but that it is a function. A value depends on what is given for it alone (`ValueOf`), and the query comes
first (`QueryFirst`); that strings, flags and objects are different parameters is part of
`ParamsAssumption`.

**FeatureStats.** The only invariant the state needs is `StatsInv`: there are features, one at
least. The rest is about functions. In a finite set of numbers, how many are not above one is
a one-to-one map to 1 up to their number (`PlacesDiffer`), so it takes every place
(`RanksTaken`), and `InOrder` lists the set (`Ascends`); the same of the elements of a list
(`SortedSame`). Hence `Uniq` has each element once (`UniqOnce`), and sorting keeps that
(`SortedLists`). Sums need no induction: if the features are of some classes, choosing for each
class a count of its members makes a one-to-one map from the pairs that `Sum` counts to the
features (`ClassesAddUp`). `LimitsShow` needs that pages are apart (`PagesApart`) and that
every later row is on one (`PageOfRow`).

**Only model-checked:** the three liveness properties (`LoadEnds`, `FigureReached`,
`IntervalsStop`), which are out of the prover's reach. Every other invariant and action
property that a run checks has a theorem.

## 5. Not modelled, and what is left

Not modelled:

- `AddVIS`, `SeriesPlot`, `MultiLinePlot`, `HexbinSeries` and the widgets: markup around the
  functions of `FeatureStats`; tooltip, popup and window size: kept by Home's render and read
  by nothing else; `_fitViewport` and resize: deck.gl's transitions decide what they come to.
- The parsers (`csv2geojson`, `shp`, `JSON.parse`) and the joins of `setGeojsonProps`: what
  they make of a text is an outcome of `DataAnswer` or `Process`, or the constant `Join`.
- Options of layers that are functions or classes, the icon layer, drawing and WebGL.
- The service worker, which is generated and not imported.

Left to do, in this order:

1. Compose `Selection` with `HomeData` in place of `aliased`, and `ApiParams` over `HomeData`
   in place of arbitrary `props`.
2. `_fitViewport` and resize beside `InitialView`.

---------------------------- MODULE LayerOptions ----------------------------
(***************************************************************************)
(* The options of the deck.gl layer: the table of settingsUtils.js, the    *)
(* form LayerSettings.jsx makes of it, and what home/util.js and           *)
(* generateDeckLayer make of the answers. Between the form and Home are    *)
(* the tabs, which skip Home's renders as long as layer, column and data   *)
(* are the same, but render, with the props they have, when their own      *)
(* state changes; each of their renders builds the form anew.              *)
(***************************************************************************)
EXTENDS Integers

CONSTANTS
  Layers,       \* the layers chosen among
  Keys,         \* the settings changed
  Colours,      \* names of palettes
  Columns,
  Numeric,      \* the columns with a numeric domain
  GeomType,     \* of the data
  None

\* Objects in the way of { ...g, ...f }, of one property and of several: those
\* of the module TLC, which the provers know no definition of.
f @@ g == [x \in DOMAIN f \union DOMAIN g |-> IF x \in DOMAIN f THEN f[x] ELSE g[x]]
d :> e == [x \in {d} |-> e]

\* An option of the table: numbers are in tenths.
MakeObject(min, max, def, step) ==
  [type |-> "number", min |-> min, max |-> max, def |-> def, step |-> step]
Flag(value) == [type |-> "boolean", def |-> value]
Column == [type |-> "column", def |-> None]

\* What addOptionsToObject puts into nearly every layer, over its own.
Shared == "pickable" :> Flag(TRUE) @@ "extruded" :> Flag(TRUE) @@ "autoHighlight" :> Flag(TRUE)

hex == "radius" :> MakeObject(500, 10000, 1000, 500) @@ "elevationScale" :> MakeObject(10, 80, 10, 20)
scatterplot ==
  "opacity" :> MakeObject(0, 10, 8, 1) @@ "radiusScale" :> MakeObject(0, 10, 8, 1)
  @@ "radiusMinPixels" :> MakeObject(10, 100, 10, 10) @@ "radiusMaxPixels" :> MakeObject(10, 1000, 1000, 50)
  @@ "getRadius" :> Column
geojson ==
  "pickable" :> Flag(TRUE) @@ "extruded" :> Flag(FALSE) @@ "stroked" :> Flag(FALSE) @@ "filled" :> Flag(TRUE)
  @@ "lineWidthScale" :> MakeObject(200, 1000, 200, 50) @@ "lineWidthMinPixels" :> MakeObject(20, 200, 20, 20)
  @@ "getElevation" :> MakeObject(300, 1000, 300, 100)
  @@ "getRadius" :> Column @@ "getLineWidth" :> Column
sgrid == "cellSizePixels" :> MakeObject(500, 1000, 500, 50)
grid == "cellSize" :> MakeObject(1000, 500000, 1000, 500) @@ "elevationScale" :> MakeObject(40, 100, 40, 20)
arc == "getWidth" :> Column @@ "getWeight" :> Column @@ "getTilt" :> Column
path == "widthMinScale" :> MakeObject(0, 1000, 10, 20) @@ "getWidth" :> Column @@ "widthScale" :> Column
pointcloud == "pointSize" :> MakeObject(10, 1000, 100, 20) @@ "opacity" :> MakeObject(0, 10, 5, 1)

layers ==
  [geojson |-> geojson,
   hex |-> Shared @@ hex, scatterplot |-> Shared @@ scatterplot,
   icon |-> Shared @@ "wrapLongitude" :> Flag(FALSE), sgrid |-> Shared @@ sgrid, grid |-> Shared @@ grid,
   line |-> Shared @@ "getWidth" :> Column, arc |-> Shared @@ arc,
   path |-> Shared @@ path, heatmap |-> Shared @@ "getWeight" :> Column, text |-> Shared @@ "getText" :> Column,
   barvis |-> Shared @@ "getScale" :> Column @@ "getRotationAngle" :> Column,
   pointcloud |-> Shared @@ pointcloud]

ASSUME LayersAssumption ==
  /\ Layers \subseteq DOMAIN layers \ {"icon"} /\ Numeric \subseteq Columns
  /\ GeomType \in {"point", "linestring", "polygon"}
  /\ Keys \subseteq UNION {DOMAIN layers[l] : l \in Layers}

VARIABLES
  layerName, colorName, column,   \* the state of Home
  layerOptions,                   \* state.layerOptions
  tabs,                           \* props.layerOptions of the tabs' last render for Home
  values,                         \* the state of LayerSettings
  picked, bar,                    \* colorName and barChartVariable, the state of the tabs
  by,                             \* observed: what the layer was last generated for
  behind,                         \* observed: the form was built from options Home no longer had
  missed                          \* observed: its last setting found no results

home == <<layerName, colorName, column, layerOptions, by>>
form == <<tabs, values, behind, missed>>
vars == <<layerName, colorName, column, layerOptions, tabs, values, picked, bar, by,
          behind, missed>>

\* The values a setting may take: a slider is tried at both ends.
Choices(o) ==
  CASE o.type = "number" -> {o.min, o.def, o.max}
    [] o.type = "boolean" -> BOOLEAN
    [] o.type = "column" -> Columns \union {o.def}

TypeOK ==
  /\ layerName \in Layers /\ colorName \in Colours /\ column \in Columns
  /\ \A options \in {layerOptions, tabs, values} :
       /\ "colorRange" \in DOMAIN options /\ options["colorRange"] \in Colours
       /\ \A k \in DOMAIN options \intersect Keys :
            \E l \in Layers : k \in DOMAIN layers[l] /\ options[k] \in Choices(layers[l][k])
  /\ picked \in Colours /\ bar \in Columns \union {None}
  /\ by \in {"first", "setting", "other"} /\ behind \in BOOLEAN /\ missed \in BOOLEAN

\* Where the data may decide: layers filled or coloured by the value of the
\* column, and those with a width by it.
Filled(layer) == layer \in {"geojson", "scatterplot"} \/ GeomType = "polygon"
Lined(layer) == layer = "line" \/ GeomType = "linestring"
Coloured(layer) == Lined(layer) \/ layer \in {"pointcloud", "barvis"}

\* What _generateOptions computes itself: the colour is constant, and there is
\* no width or radius, where the values drawn do not vary.
Own(colour, layer, col, varied) ==
  LET fill == <<IF varied THEN col ELSE None, colour>>
      ranged == varied /\ col \in Numeric
  IN (IF Filled(layer) THEN "getFillColor" :> fill ELSE <<>>)
     @@ (IF Coloured(layer) THEN "getColor" :> fill ELSE <<>>)
     @@ (IF layer = "scatterplot" /\ ranged THEN "getRadius" :> col ELSE <<>>)
     @@ (IF Lined(layer) /\ ranged THEN "getWidth" :> col ELSE <<>>)

\* Mutant: what Home holds of the colours stays.
GenerateOptionsKept(state, colour, given, layer, col, varied) ==
  given @@ state @@ Own(colour, layer, col, varied) @@ "colorRange" :> colour
  @@ "getColor" :> <<None, colour>>

\* _generateOptions: what it computes for the layer, over what the form
\* gave, over the palette, over all the options any layer had before.
GenerateOptions(state, colour, given, layer, col, varied) ==
  Own(colour, layer, col, varied) @@ given @@ "colorRange" :> colour
  @@ "getColor" :> <<None, colour>> @@ state

\* What generateDeckLayer gives the layer for an option, and the form shows:
\* a slider takes a 0 for none.
LayerHas(k) == IF k \in DOMAIN layerOptions THEN layerOptions[k] ELSE layers[layerName][k].def
Shown(k) ==
  LET o == layers[layerName][k]
  IN IF k \notin DOMAIN values \/ (o.type = "number" /\ values[k] = 0) THEN o.def ELSE values[k]

Init ==
  /\ layerName \in Layers /\ colorName \in Colours /\ column \in Columns
  /\ \E varied \in BOOLEAN :
       layerOptions = GenerateOptions(<<>>, colorName, <<>>, layerName, column, varied)
  /\ tabs = layerOptions /\ values = layerOptions
  /\ picked = colorName /\ bar \in {column, None}
  /\ by = "first" /\ behind = FALSE /\ missed = FALSE

\* generateLayer, of data that pass the selection.
Generate(given, colour, layer, col, reason) ==
  /\ \E varied \in BOOLEAN :
       layerOptions' = GenerateOptions(layerOptions, colour, given, layer, col, varied)
  /\ colorName' = colour /\ layerName' = layer /\ column' = col
  /\ by' = reason

\* With no results it returns an alert, and nothing else changes.
NoResults == UNCHANGED home

\* The tabs render for Home, or by themselves; the form copies the options.
Adopt ==
  /\ tabs' = layerOptions' /\ values' = layerOptions'
  /\ behind' = FALSE /\ missed' = FALSE

\* Mutant: the form starts without the options Home holds.
RebuildEmpty ==
  /\ values' = <<>> /\ behind' = (behind \/ tabs # layerOptions')
  /\ missed' = FALSE /\ UNCHANGED tabs

Rebuild ==
  /\ values' = tabs /\ behind' = (behind \/ tabs # layerOptions')
  /\ missed' = FALSE /\ UNCHANGED tabs

\* Mutant: only what was changed is sent.
SetAlone(k, v) ==
  /\ values' = (k :> v) @@ values
  /\ \/ Generate(<<>>, colorName, layerName, column, "setting") /\ missed' = FALSE
     \/ NoResults /\ missed' = TRUE
  /\ UNCHANGED <<tabs, picked, bar, behind>>

\* onLayerOptionsCallback is given all the form has copied; the form keeps
\* the setting whatever comes of it.
Set(k, v) ==
  /\ values' = (k :> v) @@ values
  /\ \/ Generate(values', colorName, layerName, column, "setting") /\ missed' = FALSE
     \/ NoResults /\ missed' = TRUE
  /\ UNCHANGED <<tabs, picked, bar, behind>>

\* The checkbox turns over the value it has none of at first.
Toggle(k) == Set(k, ~(k \in DOMAIN values /\ values[k]))

ChangeSetting ==
  \E k \in Keys \intersect DOMAIN layers[layerName] :
    LET o == layers[layerName][k]
    IN \/ o.type = "boolean" /\ Toggle(k)
       \/ o.type = "number" /\ \E v \in Choices(o) : v # Shown(k) /\ Set(k, v)
       \/ o.type = "column" /\ \E v \in Choices(o) : Set(k, v)

\* The tabs note the colour, and render when it is another than they had.
ChooseColour(colour) ==
  /\ Generate(<<>>, colour, layerName, column, "other") \/ NoResults
  /\ IF colour # picked THEN Rebuild ELSE UNCHANGED form
  /\ picked' = colour /\ UNCHANGED bar

ChooseLayer(layer) ==
  /\ \/ /\ Generate(<<>>, colorName, layer, column, "other")
        /\ IF layer # layerName THEN Adopt ELSE UNCHANGED form
     \/ NoResults /\ UNCHANGED form
  /\ UNCHANGED <<picked, bar>>

\* There is a choice of column unless the layer is the grid; the tabs note
\* it, and render for Home when it has another.
ChooseColumn(col) ==
  /\ layerName # "grid"
  /\ Generate(<<>>, colorName, layerName, col, "other") \/ NoResults
  /\ IF column' # column THEN Adopt
     ELSE IF col # bar THEN Rebuild ELSE UNCHANGED form
  /\ bar' = col /\ UNCHANGED picked

\* Home renders with other data; the settings are left and come back to.
TabsRender ==
  /\ UNCHANGED <<home, picked, bar>> /\ Adopt
ShowSettings ==
  /\ UNCHANGED <<home, picked, bar>> /\ Rebuild

Next ==
  \/ ChangeSetting
  \/ \E colour \in Colours : ChooseColour(colour)
  \/ \E layer \in Layers : ChooseLayer(layer)
  \/ \E col \in Columns : ChooseColumn(col)
  \/ TabsRender \/ ShowSettings

Spec == Init /\ [][Next]_vars

---------------------------------------------------------------------------
\* The form shows what the layer was drawn with, across changes of layer,
\* column and palette, until a render of the tabs builds it from options
\* older than Home's, or a setting finds no results: that one the form shows
\* and the layer has not, until the next that has results makes up for it.
\* A slider at 0 is the other exception.
SettingsAgree ==
  ~behind /\ ~missed => \A k \in DOMAIN layers[layerName] \ {"getRadius", "getWidth"} :
    Shown(k) = LayerHas(k) \/ (layers[layerName][k].type = "number" /\ LayerHas(k) = 0)

\* A layer filled by its column has the palette that was drawn last, and
\* the column, or none if the values do not vary; the other palette, of the
\* layers that count, is an older one only when a setting was changed last,
\* and then it is the one the form copied.
PaletteFollowed ==
  /\ Filled(layerName) =>
       layerOptions["getFillColor"] \in {<<column, colorName>>, <<None, colorName>>}
  /\ layerOptions["colorRange"] # colorName =>
       by = "setting" /\ layerOptions["colorRange"] = tabs["colorRange"]

=============================================================================

--------------------------- MODULE Options_proofs ---------------------------
(***************************************************************************)
(* Proofs about LayerOptions, for any choice of the layers of the table,   *)
(* of the settings changed, of columns and of palettes; and, in the second *)
(* part, about ApiParams, for any parameters, values and backings.         *)
(***************************************************************************)
EXTENDS LayerOptions, ApiParams, TLAPS

\* What Home computes itself, whatever the form says.
Computed == {"getFillColor", "getColor", "getRadius", "getWidth", "colorRange"}

\* An option within the table of one of the layers.
InTable(k, v) == \E l \in Layers : k \in DOMAIN layers[l] /\ v \in Choices(layers[l][k])

OptionsOK(options) ==
  /\ "colorRange" \in DOMAIN options /\ options["colorRange"] \in Colours
  /\ \A k \in DOMAIN options \intersect Keys : InTable(k, options[k])

Types ==
  /\ layerName \in Layers /\ colorName \in Colours /\ column \in Columns
  /\ OptionsOK(layerOptions) /\ OptionsOK(tabs) /\ OptionsOK(values)
  /\ picked \in Colours /\ bar \in Columns \union {None}
  /\ by \in {"first", "setting", "other"} /\ behind \in BOOLEAN /\ missed \in BOOLEAN

\* The same options, but for those Home computes.
SameSettings(f, g) ==
  \A k \in (DOMAIN f \union DOMAIN g) \ Computed :
    k \in DOMAIN f /\ k \in DOMAIN g /\ f[k] = g[k]

\* Unless it was built from options Home no longer had, the form has all the
\* settings of Home, and they are the same but for one that found no results.
FormAgrees ==
  ~behind =>
    /\ \A k \in DOMAIN layerOptions \ Computed : k \in DOMAIN values
    /\ ~missed => SameSettings(values, layerOptions)

\* The palette in the form is always the one the tabs were rendered with.
FormPalette == values["colorRange"] = tabs["colorRange"]

OInv == Types /\ FormAgrees /\ FormPalette /\ PaletteFollowed

-----------------------------------------------------------------------------
LEMMA Merged ==
  ASSUME NEW f, NEW g, NEW x
  PROVE  /\ x \in DOMAIN (f @@ g) <=> x \in DOMAIN f \/ x \in DOMAIN g
         /\ x \in DOMAIN f => (f @@ g)[x] = f[x]
         /\ x \in DOMAIN g /\ x \notin DOMAIN f => (f @@ g)[x] = g[x]
BY DEF @@

LEMMA One ==
  ASSUME NEW d, NEW e, NEW x
  PROVE  /\ x \in DOMAIN (d :> e) <=> x = d
         /\ (d :> e)[d] = e
BY DEF :>

LEMMA MergedKeys ==
  ASSUME NEW f, NEW g, NEW x
  PROVE  x \in DOMAIN (f @@ g) <=> x \in DOMAIN f \/ x \in DOMAIN g
BY Merged

LEMMA OneKey == ASSUME NEW d, NEW e, NEW x PROVE x \in DOMAIN (d :> e) <=> x = d
BY One

LEMMA Empty == ASSUME NEW x PROVE x \notin DOMAIN <<>>
OBVIOUS

\* No layer has a setting for the colours Home computes.
NoColours(t) ==
  "getFillColor" \notin DOMAIN t /\ "getColor" \notin DOMAIN t /\ "colorRange" \notin DOMAIN t

LEMMA NoColoursBoth ==
  ASSUME NEW f, NEW g, NoColours(f), NoColours(g) PROVE NoColours(f @@ g)
BY Merged DEF NoColours

LEMMA NoColourSetting == ASSUME NEW l \in DOMAIN layers PROVE NoColours(layers[l])
<1>1. NoColours(Shared)
  <2>1. \A t : NoColours("pickable" :> t @@ "extruded" :> t @@ "autoHighlight" :> t)
    BY MergedKeys, OneKey DEF NoColours
  <2> QED BY <2>1, Zenon DEF Shared
<1>2. NoColours(hex) /\ NoColours(scatterplot)
  BY MergedKeys, OneKey DEF hex, scatterplot, NoColours
<1>3. NoColours(geojson)
  <2> DEFINE on == Flag(TRUE)
             off == Flag(FALSE)
             t == "pickable" :> on @@ "extruded" :> off @@ "stroked" :> off @@ "filled" :> on
                  @@ "lineWidthScale" :> MakeObject(200, 1000, 200, 50)
                  @@ "lineWidthMinPixels" :> MakeObject(20, 200, 20, 20)
                  @@ "getElevation" :> MakeObject(300, 1000, 300, 100)
                  @@ "getRadius" :> Column @@ "getLineWidth" :> Column
  <2>1. geojson = t
    BY Zenon DEF geojson
  <2> HIDE DEF on, off
  <2>2. NoColours(t)
    BY MergedKeys, OneKey DEF NoColours
  <2> HIDE DEF t
  <2> QED BY <2>1, <2>2, Zenon
<1>4. NoColours(sgrid) /\ NoColours(grid)
  BY MergedKeys, OneKey DEF sgrid, grid, NoColours
<1>5. NoColours(path) /\ NoColours(pointcloud) /\ NoColours(arc)
  BY MergedKeys, OneKey DEF path, pointcloud, arc, NoColours
<1>6. l \in {"geojson", "hex", "scatterplot", "icon", "sgrid", "grid", "line", "arc",
             "path", "heatmap", "text", "barvis", "pointcloud"}
  BY DEF layers
<1>7. CASE l \in {"geojson", "hex", "scatterplot"}
  BY <1>1, <1>2, <1>3, <1>7, NoColoursBoth DEF layers
<1>8. CASE l \in {"sgrid", "grid", "path", "arc", "pointcloud"}
  BY <1>1, <1>4, <1>5, <1>8, NoColoursBoth DEF layers
<1>9. CASE l = "icon"
  <2>1. \A t : NoColours("wrapLongitude" :> t)
    BY OneKey DEF NoColours
  <2>2. NoColours("wrapLongitude" :> Flag(FALSE))
    BY <2>1, Zenon
  <2>3. layers[l] = Shared @@ "wrapLongitude" :> Flag(FALSE)
    BY <1>9 DEF layers
  <2> QED BY <1>1, <2>2, <2>3, NoColoursBoth, Zenon
<1>10. CASE l \in {"heatmap", "line", "text"}
  BY <1>1, <1>10, MergedKeys, OneKey DEF layers, NoColours
<1>11. CASE l = "barvis"
  BY <1>1, <1>11, MergedKeys, OneKey DEF layers, NoColours
<1> QED BY <1>6, <1>7, <1>8, <1>9, <1>10, <1>11

\* A computed width or radius is a column, as is the setting of that name in
\* every layer that has one.
LEMMA ComputedInTable ==
  ASSUME NEW l \in DOMAIN layers, NEW k \in {"getRadius", "getWidth"} \intersect DOMAIN layers[l]
  PROVE  layers[l][k] = Column
<1>1. \A x \in DOMAIN Shared : x \in {"pickable", "extruded", "autoHighlight"}
  <2>1. \A t, x : x \in DOMAIN ("pickable" :> t @@ "extruded" :> t @@ "autoHighlight" :> t)
                    => x \in {"pickable", "extruded", "autoHighlight"}
    BY MergedKeys, OneKey
  <2> QED BY <2>1, Zenon DEF Shared
<1>2. k \notin DOMAIN Shared
  BY <1>1
<1>3. k \in DOMAIN scatterplot => scatterplot[k] = Column
  BY Merged, One DEF scatterplot
<1>4. k \in DOMAIN geojson => geojson[k] = Column
  <2> DEFINE on == Flag(TRUE)
             off == Flag(FALSE)
             t == "pickable" :> on @@ "extruded" :> off @@ "stroked" :> off @@ "filled" :> on
                  @@ "lineWidthScale" :> MakeObject(200, 1000, 200, 50)
                  @@ "lineWidthMinPixels" :> MakeObject(20, 200, 20, 20)
                  @@ "getElevation" :> MakeObject(300, 1000, 300, 100)
                  @@ "getRadius" :> Column @@ "getLineWidth" :> Column
  <2>1. geojson = t
    BY Zenon DEF geojson
  <2> HIDE DEF on, off
  <2>2. k \in DOMAIN t => t[k] = Column
    BY Merged, One
  <2> HIDE DEF t
  <2> QED BY <2>1, <2>2, Zenon
<1>5. k \in DOMAIN path => path[k] = Column
  BY Merged, One DEF path
<1>6. k \in DOMAIN arc => arc[k] = Column
  BY Merged, One DEF arc
<1>7. k \notin DOMAIN hex /\ k \notin DOMAIN sgrid /\ k \notin DOMAIN grid
      /\ k \notin DOMAIN pointcloud
  BY MergedKeys, OneKey DEF hex, sgrid, grid, pointcloud
<1>8. l \in {"geojson", "hex", "scatterplot", "icon", "sgrid", "grid", "line", "arc",
             "path", "heatmap", "text", "barvis", "pointcloud"}
  BY DEF layers
<1>9. CASE l = "geojson"
  BY <1>4, <1>9 DEF layers
<1>10. CASE l \in {"hex", "sgrid", "grid", "pointcloud"}
  BY <1>2, <1>7, <1>10, MergedKeys DEF layers
<1>11. CASE l \in {"scatterplot", "arc", "path"}
  BY <1>2, <1>3, <1>5, <1>6, <1>11, Merged DEF layers
<1>12. CASE l = "icon"
  <2>1. \A t : k \notin DOMAIN (Shared @@ "wrapLongitude" :> t)
    BY <1>2, MergedKeys, OneKey
  <2>2. k \notin DOMAIN (Shared @@ "wrapLongitude" :> Flag(FALSE))
    BY <2>1, Zenon
  <2>3. layers[l] = Shared @@ "wrapLongitude" :> Flag(FALSE)
    BY <1>12 DEF layers
  <2> QED BY <2>2, <2>3, Zenon
<1>13. CASE l \in {"heatmap", "text"}
  BY <1>2, <1>13, MergedKeys, OneKey DEF layers
<1>14. CASE l = "line"
  BY <1>2, <1>14, Merged, One DEF layers
<1>15. CASE l = "barvis"
  BY <1>2, <1>15, MergedKeys, OneKey DEF layers
<1> QED BY <1>8, <1>9, <1>10, <1>11, <1>12, <1>13, <1>14, <1>15

\* What _generateOptions makes of the options it is given.
LEMMA GenerateIs ==
  ASSUME NEW state, NEW colour, NEW given, NEW layer, NEW col, NEW varied, NEW g,
         g = GenerateOptions(state, colour, given, layer, col, varied)
  PROVE  /\ \A k : k \notin Computed =>
              /\ k \in DOMAIN g <=> k \in DOMAIN given \union DOMAIN state
              /\ k \in DOMAIN given => g[k] = given[k]
              /\ k \in DOMAIN state \ DOMAIN given => g[k] = state[k]
         /\ "colorRange" \in DOMAIN g
         /\ g["colorRange"] = IF "colorRange" \in DOMAIN given THEN given["colorRange"]
                              ELSE colour
         /\ Filled(layer) => g["getFillColor"] \in {<<col, colour>>, <<None, colour>>}
         /\ \A k \in {"getRadius", "getWidth"} \intersect DOMAIN g :
              \/ k \in DOMAIN given /\ g[k] = given[k]
              \/ k \in DOMAIN state /\ g[k] = state[k]
              \/ col \in Numeric /\ g[k] = col
<1> DEFINE fill == <<IF varied THEN col ELSE None, colour>>
           ranged == varied /\ col \in Numeric
           f1 == IF Filled(layer) THEN "getFillColor" :> fill ELSE <<>>
           f2 == IF Coloured(layer) THEN "getColor" :> fill ELSE <<>>
           f3 == IF layer = "scatterplot" /\ ranged THEN "getRadius" :> col ELSE <<>>
           f4 == IF Lined(layer) /\ ranged THEN "getWidth" :> col ELSE <<>>
           own == f1 @@ f2 @@ f3 @@ f4
<1>1. g = own @@ given @@ "colorRange" :> colour @@ "getColor" :> <<None, colour>> @@ state
  BY Zenon DEF GenerateOptions, Own
<1>0. fill \in {<<col, colour>>, <<None, colour>>}
  OBVIOUS
<1> HIDE DEF fill
<1>2. DOMAIN f1 \subseteq {"getFillColor"} /\ DOMAIN f2 \subseteq {"getColor"}
      /\ DOMAIN f3 \subseteq {"getRadius"} /\ DOMAIN f4 \subseteq {"getWidth"}
  BY One, Empty
<1>3. Filled(layer) => "getFillColor" \in DOMAIN f1 /\ f1["getFillColor"] = fill
  BY One
<1>4. "getRadius" \in DOMAIN f3 => col \in Numeric /\ f3["getRadius"] = col
  BY One, Empty
<1>5. "getWidth" \in DOMAIN f4 => col \in Numeric /\ f4["getWidth"] = col
  BY One, Empty
<1> HIDE DEF f1, f2, f3, f4
<1>6. /\ DOMAIN own \subseteq {"getFillColor", "getColor", "getRadius", "getWidth"}
      /\ Filled(layer) => "getFillColor" \in DOMAIN own /\ own["getFillColor"] = fill
      /\ "getRadius" \in DOMAIN own => col \in Numeric /\ own["getRadius"] = col
      /\ "getWidth" \in DOMAIN own => col \in Numeric /\ own["getWidth"] = col
  BY <1>2, <1>3, <1>4, <1>5, Merged
<1> HIDE DEF own
<1> QED BY <1>0, <1>1, <1>6, Merged, One DEF Computed

\* A column is within the table for a setting of that name.
LEMMA ColumnInTable ==
  ASSUME NEW k \in Keys \intersect {"getRadius", "getWidth"}, NEW col \in Columns
  PROVE  InTable(k, col)
<1>1. PICK l \in Layers : k \in DOMAIN layers[l]
  BY LayersAssumption
<1>2. l \in DOMAIN layers
  BY LayersAssumption
<1>3. layers[l][k] = Column
  BY <1>1, <1>2, ComputedInTable
<1>4. Choices(Column) = Columns \union {None}
  BY DEF Choices, Column
<1> QED BY <1>1, <1>3, <1>4 DEF InTable

\* They stay within the tables: what Home computes of a setting is a column,
\* for a layer that has that setting.
LEMMA GenerateTypes ==
  ASSUME Types, NEW colour \in Colours, NEW layer \in Layers, NEW col \in Columns,
         NEW varied, NEW given, OptionsOK(given) \/ given = <<>>
  PROVE  OptionsOK(GenerateOptions(layerOptions, colour, given, layer, col, varied))
<1> DEFINE g == GenerateOptions(layerOptions, colour, given, layer, col, varied)
<1> HIDE DEF g
<1>1. /\ \A k : k \notin Computed =>
            /\ k \in DOMAIN g <=> k \in DOMAIN given \union DOMAIN layerOptions
            /\ k \in DOMAIN given => g[k] = given[k]
            /\ k \in DOMAIN layerOptions \ DOMAIN given => g[k] = layerOptions[k]
      /\ "colorRange" \in DOMAIN g
      /\ g["colorRange"] = IF "colorRange" \in DOMAIN given THEN given["colorRange"]
                           ELSE colour
      /\ \A k \in {"getRadius", "getWidth"} \intersect DOMAIN g :
           \/ k \in DOMAIN given /\ g[k] = given[k]
           \/ k \in DOMAIN layerOptions /\ g[k] = layerOptions[k]
           \/ col \in Numeric /\ g[k] = col
  BY GenerateIs DEF g
<1>2. \A k \in DOMAIN given \intersect Keys : InTable(k, given[k])
  BY Empty DEF OptionsOK
<1>3. \A k \in DOMAIN layerOptions \intersect Keys : InTable(k, layerOptions[k])
  BY DEF Types, OptionsOK
<1>4. g["colorRange"] \in Colours
  BY <1>1 DEF OptionsOK
<1>5. ASSUME NEW k \in DOMAIN g \intersect Keys PROVE InTable(k, g[k])
  <2>1. CASE k \notin Computed
    BY <1>1, <1>2, <1>3, <2>1
  <2>2. CASE k \in {"getRadius", "getWidth"}
    <3>1. CASE k \in DOMAIN given /\ g[k] = given[k]
      BY <1>2, <3>1
    <3>2. CASE k \in DOMAIN layerOptions /\ g[k] = layerOptions[k]
      BY <1>3, <3>2
    <3>3. CASE g[k] = col
      BY <2>2, <3>3, ColumnInTable
    <3> QED BY <1>1, <2>2, <3>1, <3>2, <3>3
  <2>3. k \notin {"getFillColor", "getColor", "colorRange"}
    <3>1. PICK l \in Layers : k \in DOMAIN layers[l]
      BY LayersAssumption
    <3>2. l \in DOMAIN layers
      BY LayersAssumption
    <3> QED BY <3>1, <3>2, NoColourSetting DEF NoColours
  <2> QED BY <2>1, <2>2, <2>3 DEF Computed
<1>6. OptionsOK(g)
  BY <1>1, <1>4, <1>5 DEF OptionsOK
<1> QED BY <1>6 DEF g

\* They keep the settings Home had, and take those the form gives over them.
LEMMA GenerateSettings ==
  ASSUME NEW state, NEW colour, NEW layer, NEW col, NEW varied, NEW f,
         \A k \in DOMAIN state \ Computed : k \in DOMAIN f
  PROVE  LET kept == GenerateOptions(state, colour, <<>>, layer, col, varied)
             taken == GenerateOptions(state, colour, f, layer, col, varied)
         IN /\ \A k \in DOMAIN kept \ Computed : k \in DOMAIN f
            /\ \A k \in DOMAIN taken \ Computed : k \in DOMAIN f
            /\ SameSettings(f, state) => SameSettings(f, kept)
            /\ SameSettings(f, taken)
<1> DEFINE kept == GenerateOptions(state, colour, <<>>, layer, col, varied)
           taken == GenerateOptions(state, colour, f, layer, col, varied)
<1>1. \A k : k \notin Computed =>
        /\ k \in DOMAIN kept <=> k \in DOMAIN <<>> \union DOMAIN state
        /\ k \in DOMAIN state \ DOMAIN <<>> => kept[k] = state[k]
  BY GenerateIs
<1>2. \A k : k \notin Computed =>
        /\ k \in DOMAIN taken <=> k \in DOMAIN f \union DOMAIN state
        /\ k \in DOMAIN f => taken[k] = f[k]
        /\ k \in DOMAIN state \ DOMAIN f => taken[k] = state[k]
  BY GenerateIs
<1> HIDE DEF kept, taken
<1>3. /\ \A k \in DOMAIN kept \ Computed : k \in DOMAIN f
      /\ SameSettings(f, state) => SameSettings(f, kept)
  BY <1>1, Empty DEF SameSettings
<1>4. /\ \A k \in DOMAIN taken \ Computed : k \in DOMAIN f
      /\ SameSettings(f, taken)
  BY <1>2 DEF SameSettings
<1> QED BY <1>3, <1>4 DEF kept, taken

\* What the layer has after a draw.
LEMMA GeneratePalette ==
  ASSUME NEW given, NEW colour, NEW layer, NEW col, NEW reason,
         Generate(given, colour, layer, col, reason),
         \/ given = <<>>
         \/ /\ "colorRange" \in DOMAIN given /\ reason = "setting"
            /\ given["colorRange"] = tabs'["colorRange"]
  PROVE  PaletteFollowed'
<1>1. PICK varied \in BOOLEAN :
        layerOptions' = GenerateOptions(layerOptions, colour, given, layer, col, varied)
  BY DEF Generate
<1> DEFINE g == GenerateOptions(layerOptions, colour, given, layer, col, varied)
<1> HIDE DEF g
<1>2. /\ layerOptions' = g /\ colorName' = colour /\ layerName' = layer
      /\ column' = col /\ by' = reason
  BY <1>1 DEF Generate, g
<1>3. /\ g["colorRange"] = IF "colorRange" \in DOMAIN given THEN given["colorRange"]
                           ELSE colour
      /\ Filled(layer) => g["getFillColor"] \in {<<col, colour>>, <<None, colour>>}
  BY GenerateIs DEF g
<1> QED BY <1>2, <1>3, Empty DEF PaletteFollowed

-----------------------------------------------------------------------------
\* A step that draws and in which the form gives nothing.
LEMMA OtherKeeps ==
  ASSUME OInv, NEW colour \in Colours, NEW layer \in Layers, NEW col \in Columns,
         Generate(<<>>, colour, layer, col, "other"),
         Adopt \/ Rebuild \/ UNCHANGED form,
         picked' \in Colours, bar' \in Columns \union {None}
  PROVE  OInv'
<1>0. PICK varied \in BOOLEAN :
        layerOptions' = GenerateOptions(layerOptions, colour, <<>>, layer, col, varied)
  BY DEF Generate
<1> DEFINE g == GenerateOptions(layerOptions, colour, <<>>, layer, col, varied)
<1> HIDE DEF g
<1>1. /\ layerOptions' = g /\ colorName' = colour /\ layerName' = layer
      /\ column' = col /\ by' = "other"
  BY <1>0 DEF Generate, g
<1>2. OptionsOK(g)
  BY GenerateTypes DEF OInv, g
<1>3. OptionsOK(tabs) /\ OptionsOK(values) /\ behind \in BOOLEAN /\ missed \in BOOLEAN
  BY DEF OInv, Types
<1>4. /\ tabs' \in {g, tabs} /\ values' \in {g, tabs, values}
      /\ behind' \in BOOLEAN /\ missed' \in BOOLEAN
  BY <1>1, <1>3 DEF Adopt, Rebuild, form
<1>5. Types'
  BY <1>1, <1>2, <1>3, <1>4 DEF Types, OptionsOK
<1>6. FormAgrees'
  <2>1. CASE Adopt
    BY <2>1 DEF Adopt, FormAgrees, SameSettings
  <2>2. CASE Rebuild
    BY <2>2 DEF Rebuild, FormAgrees, SameSettings
  <2>3. CASE UNCHANGED form
    <3>1. ASSUME \A k \in DOMAIN layerOptions \ Computed : k \in DOMAIN values
          PROVE  /\ \A k \in DOMAIN g \ Computed : k \in DOMAIN values
                 /\ SameSettings(values, layerOptions) => SameSettings(values, g)
      BY <3>1, GenerateSettings, Zenon DEF g
    <3> QED BY <1>1, <2>3, <3>1 DEF OInv, FormAgrees, SameSettings, form
  <2> QED BY <2>1, <2>2, <2>3
<1>7. FormPalette'
  BY DEF OInv, FormPalette, Adopt, Rebuild, form
<1>8. PaletteFollowed'
  BY GeneratePalette
<1> QED BY <1>5, <1>6, <1>7, <1>8 DEF OInv

\* A setting changed in the form, within its table.
LEMMA SetKeeps ==
  ASSUME OInv, NEW k \in Keys \intersect DOMAIN layers[layerName],
         NEW v \in Choices(layers[layerName][k]), Set(k, v)
  PROVE  OInv'
<1> DEFINE f == (k :> v) @@ values
<1>1. /\ values' = f /\ UNCHANGED <<tabs, picked, bar, behind>>
      /\ \/ Generate(f, colorName, layerName, column, "setting") /\ missed' = FALSE
         \/ NoResults /\ missed' = TRUE
  BY DEF Set
<1>2. /\ \A x : x \in DOMAIN f <=> x = k \/ x \in DOMAIN values
      /\ f[k] = v
      /\ \A x \in DOMAIN values : x # k => f[x] = values[x]
  BY Merged, One
<1>3. Types /\ layerName \in Layers /\ colorName \in Colours /\ column \in Columns
  BY DEF OInv, Types
<1>4. k # "colorRange" /\ InTable(k, v)
  BY <1>3, NoColourSetting, LayersAssumption DEF NoColours, InTable
<1> HIDE DEF f
<1>5. OptionsOK(f)
  BY <1>2, <1>3, <1>4 DEF Types, OptionsOK
<1>6. ~behind => \A x \in DOMAIN layerOptions \ Computed : x \in DOMAIN f
  BY <1>2 DEF OInv, FormAgrees
<1>7. f["colorRange"] = tabs["colorRange"] /\ "colorRange" \in DOMAIN f
  BY <1>2, <1>3, <1>4 DEF OInv, FormPalette, Types, OptionsOK
<1>8. FormPalette'
  BY <1>1, <1>7 DEF FormPalette
<1>9. CASE Generate(f, colorName, layerName, column, "setting") /\ missed' = FALSE
  <2>0. PICK varied \in BOOLEAN :
          layerOptions' = GenerateOptions(layerOptions, colorName, f, layerName, column, varied)
    BY <1>9 DEF Generate
  <2> DEFINE g == GenerateOptions(layerOptions, colorName, f, layerName, column, varied)
  <2>1. /\ layerOptions' = g /\ by' = "setting"
        /\ UNCHANGED <<layerName, colorName, column>>
    BY <1>9, <2>0 DEF Generate
  <2>2. OptionsOK(g)
    BY <1>3, <1>5, GenerateTypes
  <2>3. ASSUME ~behind
        PROVE  /\ \A x \in DOMAIN g \ Computed : x \in DOMAIN f
               /\ SameSettings(f, g)
    <3>1. \A x \in DOMAIN layerOptions \ Computed : x \in DOMAIN f
      BY <1>6, <2>3
    <3> QED BY <3>1, GenerateSettings, Zenon
  <2> HIDE DEF g
  <2>4. Types'
    BY <1>1, <1>3, <1>5, <1>9, <2>1, <2>2 DEF Types, OptionsOK
  <2>5. FormAgrees'
    BY <1>1, <2>1, <2>3 DEF FormAgrees, SameSettings
  <2>6. PaletteFollowed'
    BY <1>1, <1>7, <1>9, GeneratePalette
  <2> QED BY <1>8, <2>4, <2>5, <2>6 DEF OInv
<1>10. CASE NoResults /\ missed' = TRUE
  <2>1. UNCHANGED <<layerName, colorName, column, layerOptions, by>>
    BY <1>10 DEF NoResults, home
  <2>2. Types'
    BY <1>1, <1>3, <1>5, <1>10, <2>1 DEF Types, OptionsOK
  <2>3. FormAgrees'
    BY <1>1, <1>6, <1>10, <2>1 DEF FormAgrees
  <2>4. PaletteFollowed'
    BY <1>1, <2>1 DEF OInv, PaletteFollowed
  <2> QED BY <1>8, <2>2, <2>3, <2>4 DEF OInv
<1> QED BY <1>1, <1>9, <1>10

\* A step that leaves Home as it is.
LEMMA RenderKeeps ==
  ASSUME OInv, UNCHANGED home, Adopt \/ Rebuild \/ UNCHANGED form,
         picked' \in Colours, bar' \in Columns \union {None}
  PROVE  OInv'
<1>1. UNCHANGED <<layerName, colorName, column, layerOptions, by>>
  BY DEF home
<1>2. /\ tabs' \in {layerOptions, tabs} /\ values' \in {layerOptions, tabs, values}
      /\ behind' \in BOOLEAN /\ missed' \in BOOLEAN
  BY <1>1 DEF OInv, Types, Adopt, Rebuild, form
<1>3. Types'
  BY <1>1, <1>2 DEF OInv, Types, OptionsOK
<1>4. FormAgrees'
  BY <1>1 DEF OInv, FormAgrees, SameSettings, Adopt, Rebuild, form
<1>5. FormPalette'
  BY <1>1 DEF OInv, FormPalette, Adopt, Rebuild, form
<1>6. PaletteFollowed'
  <2>1. tabs'["colorRange"] = tabs["colorRange"] \/ tabs' = layerOptions'
    BY DEF Adopt, Rebuild, form
  <2> QED BY <1>1, <2>1 DEF OInv, PaletteFollowed
<1> QED BY <1>3, <1>4, <1>5, <1>6 DEF OInv

LEMMA InitOInv == Init => OInv
<1> SUFFICES ASSUME Init PROVE OInv
  OBVIOUS
<1>0. PICK varied \in BOOLEAN :
        layerOptions = GenerateOptions(<<>>, colorName, <<>>, layerName, column, varied)
  BY DEF Init
<1> DEFINE g == GenerateOptions(<<>>, colorName, <<>>, layerName, column, varied)
<1>1. /\ layerName \in Layers /\ colorName \in Colours /\ column \in Columns
      /\ layerOptions = g /\ tabs = g /\ values = g /\ by = "first" /\ behind = FALSE
      /\ picked = colorName /\ bar \in {column, None} /\ missed = FALSE
  BY <1>0 DEF Init
<1> HIDE DEF g
<1>2. /\ \A k : k \notin Computed => k \notin DOMAIN g
      /\ "colorRange" \in DOMAIN g /\ g["colorRange"] = colorName
      /\ Filled(layerName) =>
           g["getFillColor"] \in {<<column, colorName>>, <<None, colorName>>}
      /\ \A k \in {"getRadius", "getWidth"} \intersect DOMAIN g :
           column \in Numeric /\ g[k] = column
  BY GenerateIs, Empty DEF g
<1>3. ASSUME NEW k \in DOMAIN g \intersect Keys PROVE InTable(k, g[k])
  <2>1. k \notin {"getFillColor", "getColor", "colorRange"}
    <3>1. PICK l \in Layers : k \in DOMAIN layers[l]
      BY LayersAssumption
    <3>2. l \in DOMAIN layers
      BY LayersAssumption
    <3> QED BY <3>1, <3>2, NoColourSetting DEF NoColours
  <2>2. k \in {"getRadius", "getWidth"}
    BY <1>2, <2>1 DEF Computed
  <2> QED BY <1>1, <1>2, <2>2, ColumnInTable
<1>4. Types
  BY <1>1, <1>2, <1>3 DEF Types, OptionsOK
<1>5. FormAgrees /\ FormPalette /\ PaletteFollowed
  BY <1>1, <1>2 DEF FormAgrees, SameSettings, FormPalette, PaletteFollowed
<1> QED BY <1>4, <1>5 DEF OInv

LEMMA NextOInv == OInv /\ [Next]_vars => OInv'
<1> SUFFICES ASSUME OInv, [Next]_vars PROVE OInv'
  OBVIOUS
<1>1. /\ layerName \in Layers /\ colorName \in Colours /\ column \in Columns
      /\ picked \in Colours /\ bar \in Columns \union {None}
  BY DEF OInv, Types
<1>2. CASE ChangeSetting
  <2>1. PICK k \in Keys \intersect DOMAIN layers[layerName] :
          LET o == layers[layerName][k]
          IN \/ o.type = "boolean" /\ Toggle(k)
             \/ o.type = "number" /\ \E v \in Choices(o) : v # Shown(k) /\ Set(k, v)
             \/ o.type = "column" /\ \E v \in Choices(o) : Set(k, v)
    BY <1>2, Zenon DEF ChangeSetting
  <2>2. CASE layers[layerName][k].type = "boolean" /\ Toggle(k)
    <3>1. Choices(layers[layerName][k]) = BOOLEAN
      BY <2>2 DEF Choices
    <3>2. CASE k \in DOMAIN values /\ values[k]
      <4>1. Set(k, FALSE)
        BY <2>2, <3>2, Zenon DEF Toggle
      <4> QED BY <3>1, <4>1, SetKeeps
    <3>3. CASE ~(k \in DOMAIN values /\ values[k])
      <4>1. Set(k, TRUE)
        BY <2>2, <3>3, Zenon DEF Toggle
      <4> QED BY <3>1, <4>1, SetKeeps
    <3> QED BY <3>2, <3>3
  <2>3. CASE \E v \in Choices(layers[layerName][k]) : Set(k, v)
    BY <2>3, SetKeeps
  <2> QED BY <2>1, <2>2, <2>3
<1>3. ASSUME NEW colour \in Colours, ChooseColour(colour) PROVE OInv'
  <2>1. /\ Generate(<<>>, colour, layerName, column, "other") \/ UNCHANGED home
        /\ Rebuild \/ UNCHANGED form
        /\ picked' \in Colours /\ bar' = bar
    BY <1>3 DEF ChooseColour, NoResults
  <2> QED BY <1>1, <2>1, OtherKeeps, RenderKeeps
<1>4. ASSUME NEW layer \in Layers, ChooseLayer(layer) PROVE OInv'
  <2>1. /\ Generate(<<>>, colorName, layer, column, "other") \/ UNCHANGED home
        /\ Adopt \/ UNCHANGED form
        /\ picked' = picked /\ bar' = bar
    BY <1>4 DEF ChooseLayer, NoResults
  <2> QED BY <1>1, <2>1, OtherKeeps, RenderKeeps
<1>5. ASSUME NEW col \in Columns, ChooseColumn(col) PROVE OInv'
  <2>1. /\ Generate(<<>>, colorName, layerName, col, "other") \/ UNCHANGED home
        /\ Adopt \/ Rebuild \/ UNCHANGED form
        /\ picked' = picked /\ bar' = col
    BY <1>5 DEF ChooseColumn, NoResults
  <2> QED BY <1>1, <2>1, OtherKeeps, RenderKeeps
<1>6. CASE TabsRender \/ ShowSettings
  <2>1. UNCHANGED <<home, picked, bar>> /\ (Adopt \/ Rebuild)
    BY <1>6 DEF TabsRender, ShowSettings
  <2> QED BY <1>1, <2>1, RenderKeeps
<1>7. CASE UNCHANGED vars
  <2>1. UNCHANGED home /\ UNCHANGED form /\ UNCHANGED <<picked, bar>>
    BY <1>7 DEF vars, home, form
  <2> QED BY <1>1, <2>1, RenderKeeps
<1> QED BY <1>2, <1>3, <1>4, <1>5, <1>6, <1>7 DEF Next

\* The invariant the others are parts of: what the options of Home, of the
\* tabs and of the form may be, and what they share.
THEOREM OptionsInvariance == Spec => []OInv
BY InitOInv, NextOInv, PTL DEF Spec

\* Whatever layer it was set for, an option stays within its table.
THEOREM OptionsTypeCorrect == Spec => []TypeOK
<1>1. OInv => TypeOK
  BY DEF OInv, Types, OptionsOK, InTable, TypeOK
<1> QED BY OptionsInvariance, <1>1, PTL

\* The form shows what the layer was drawn with, unless it was built from
\* options Home no longer had or its last setting found no results; and then
\* the next that has results draws the layer with all the form shows.
THEOREM FormFollows == Spec => []SettingsAgree
<1>1. ASSUME OInv, ~behind, ~missed, NEW k \in DOMAIN layers[layerName] \ {"getRadius", "getWidth"}
      PROVE  \/ Shown(k) = LayerHas(k)
             \/ layers[layerName][k].type = "number" /\ LayerHas(k) = 0
  <2>1. k \notin Computed
    BY <1>1, NoColourSetting, LayersAssumption DEF OInv, Types, NoColours, Computed
  <2>2. k \in DOMAIN values \union DOMAIN layerOptions =>
          k \in DOMAIN values /\ k \in DOMAIN layerOptions /\ values[k] = layerOptions[k]
    BY <1>1, <2>1 DEF OInv, FormAgrees, SameSettings
  <2> QED BY <2>2 DEF Shown, LayerHas
<1>2. OInv => SettingsAgree
  BY <1>1 DEF SettingsAgree
<1> QED BY OptionsInvariance, <1>2, PTL

\* A layer filled by its column has the palette and the column drawn last.
THEOREM PaletteKept == Spec => []PaletteFollowed
<1>1. OInv => PaletteFollowed
  BY DEF OInv
<1> QED BY OptionsInvariance, <1>1, PTL

-----------------------------------------------------------------------------
(* ApiParams.                                                              *)

\* App was last rendered with what the host gives, as far as it watches.
HostShown ==
  /\ \A k \in Strings \union Flags : host[k] = shown[k]
  /\ shown["viewport"] # Undefined => host["viewport"] = shown["viewport"]
  /\ shown["select"] \in Objects => host["select"] = shown["select"]

\* Once Home has written it, the query holds its strings only, as qs reads
\* them, and App may have read them from there since.
QueryWritten ==
  wrote =>
    /\ \A k \in Params \ HistoryStrings : query[k] = Undefined
    /\ \A k \in HistoryStrings : query[k] # Undefined =>
         /\ query[k] \in Texts \union {""}
         /\ query[k] \in {apis[k], Reading(apis[k])}

ApiInv == HostShown /\ QueryWritten

\* A value depends on what is given for it alone.
LEMMA ValueOf ==
  ASSUME NEW k, NEW p, NEW q, NEW s, NEW t, p[k] = q[k], s[k] = t[k]
  PROVE  Value(k, p, s) = Value(k, q, t)
<1>1. ApiValue(k, p, s) = ApiValue(k, q, t)
  BY DEF ApiValue
<1> QED BY <1>1 DEF Value

\* The query comes first.
LEMMA QueryFirst ==
  ASSUME NEW k \in HistoryStrings, NEW p, NEW s, s[k] # Undefined
  PROVE  Value(k, p, s) = s[k]
<1>1. /\ k \in Strings /\ k \notin Flags /\ k # "dark" /\ k # "select"
      /\ k \notin Json /\ k # "onStateChange"
  BY ParamsAssumption DEF Strings, Json
<1>2. ApiValue(k, p, s) = s[k]
  BY <1>1 DEF ApiValue
<1> QED BY <1>1, <1>2 DEF Value

LEMMA InitApiInv == ApiInit => ApiInv
BY DEF ApiInit, ApiInv, HostShown, QueryWritten

\* The backings do not change.
LEMMA ApisNext ==
  ASSUME UNCHANGED <<settings, env>>, NEW k \in Params
  PROVE  apis'[k] = Value(k, shown', seen')
BY DEF apis, Value, ApiValue

LEMMA HostRendersKeeps ==
  ASSUME ApiInv, NEW props, HostRenders(props)
  PROVE  ApiInv'
<1>1. /\ host' = props /\ UNCHANGED <<query, settings, env, wrote>>
      /\ \/ shown' = props /\ seen' = query
         \/ ~HasAPIChanged(shown, props) /\ UNCHANGED <<shown, seen>>
  BY DEF HostRenders
<1>2. HostShown'
  BY <1>1 DEF HasAPIChanged, HostShown
<1>3. ASSUME wrote, NEW k \in HistoryStrings, query[k] # Undefined
      PROVE  query[k] \in Texts \union {""} /\ query[k] \in {apis'[k], Reading(apis'[k])}
  <2>1. query[k] \in Texts \union {""} /\ query[k] \in {apis[k], Reading(apis[k])}
    BY <1>3 DEF ApiInv, QueryWritten
  <2>2. k \in Params
    BY DEF Params, Strings
  <2>3. apis'[k] = Value(k, shown', seen')
    BY <1>1, <2>2, ApisNext
  <2>4. CASE seen' = query
    <3>1. apis'[k] = query[k]
      BY <1>3, <2>3, <2>4, QueryFirst
    <3> QED BY <2>1, <3>1
  <2>5. CASE UNCHANGED <<shown, seen>>
    <3>1. apis'[k] = apis[k]
      BY <2>2, <2>3, <2>5 DEF apis
    <3> QED BY <2>1, <3>1
  <2> QED BY <1>1, <2>4, <2>5
<1>4. QueryWritten'
  BY <1>1, <1>3 DEF ApiInv, QueryWritten, Reading
<1> QED BY <1>2, <1>4 DEF ApiInv

LEMMA UpdateHistoryKeeps ==
  ASSUME ApiInv, UpdateHistory PROVE ApiInv'
<1>1. /\ query' = Write /\ wrote' = TRUE
      /\ UNCHANGED <<host, shown, seen, settings, env>>
  BY DEF UpdateHistory
<1>2. HostShown'
  BY <1>1 DEF ApiInv, HostShown
<1>3. \A k \in Params \ HistoryStrings : query'[k] = Undefined
  BY <1>1 DEF Write
<1>4. ASSUME NEW k \in HistoryStrings, query'[k] # Undefined
      PROVE  query'[k] \in Texts \union {""} /\ query'[k] = Reading(apis'[k])
  <2>1. k \in Params
    BY DEF Params, Strings
  <2>2. apis'[k] = apis[k]
    BY <1>1, <2>1, ApisNext DEF apis
  <2>3. query'[k] = IF apis[k] \in Texts \union {""} THEN Reading(apis[k]) ELSE Undefined
    BY <1>1, <2>1 DEF Write
  <2>4. query'[k] = Reading(apis[k]) /\ apis[k] \in Texts \union {""}
    BY <1>4, <2>3
  <2>5. Reading(apis[k]) \in Texts \union {""}
    BY <2>4, ParamsAssumption DEF Reading
  <2> QED BY <2>2, <2>4, <2>5
<1> QED BY <1>2, <1>3, <1>4 DEF ApiInv, QueryWritten, Reading

LEMMA NextApiInv == ApiInv /\ [ApiNext]_apiVars => ApiInv'
<1> SUFFICES ASSUME ApiInv, [ApiNext]_apiVars PROVE ApiInv'
  OBVIOUS
<1>1. CASE \E props : HostRenders(props)
  BY <1>1, HostRendersKeeps
<1>2. CASE UpdateHistory
  BY <1>2, UpdateHistoryKeeps
<1>3. CASE UNCHANGED apiVars
  <2>1. UNCHANGED <<host, shown, query, seen, settings, env, wrote>>
    BY <1>3 DEF apiVars
  <2>2. \A k \in HistoryStrings : k \in Params /\ apis'[k] = apis[k]
    BY <2>1, ApisNext DEF apis, Params, Strings
  <2>3. HostShown'
    BY <2>1 DEF ApiInv, HostShown
  <2>4. QueryWritten'
    BY <2>1, <2>2 DEF ApiInv, QueryWritten, Reading
  <2> QED BY <2>3, <2>4 DEF ApiInv
<1> QED BY <1>1, <1>2, <1>3 DEF ApiNext

\* The invariant of the API: what App shows of the host's props, and what
\* the query is once Home has written it.
THEOREM ApiInvariance == ApiSpec => []ApiInv
BY InitApiInv, NextApiInv, PTL DEF ApiSpec

\* What is given has the types of its parameters.
Given ==
  /\ \A props \in {host, shown} :
       DOMAIN props = Params /\ \A k \in Params : props[k] \in Props(k)
  /\ \A search \in {query, seen} :
       DOMAIN search = Params /\ \A k \in Params : search[k] \in Searched(k)
  /\ settings \in Backings /\ env \in Backings
  /\ renders \in 0..MaxRenders /\ wrote \in BOOLEAN

LEMMA BackingIs ==
  ASSUME NEW b \in Backings, NEW k \in Params
  PROVE  b[k] \in Searched(k)
BY DEF Searched

\* A flag is a boolean or none, and dark is a boolean.
LEMMA FlagValue ==
  ASSUME Given, NEW k \in Flags
  PROVE  /\ apis[k] \in {Undefined, "true", "false"}
         /\ k = "dark" => apis[k] \in {"true", "false"}
<1>1. /\ k \in Params /\ k \notin Strings /\ k # "select"
      /\ k \notin Json /\ k # "onStateChange"
  BY ParamsAssumption DEF Params, Json
<1>2. shown[k] \in {Undefined, "true", "false"}
  BY <1>1 DEF Given, Props
<1>3. ApiValue(k, shown, seen) \in {Undefined, "true", "false"}
  BY <1>1, <1>2 DEF ApiValue, BoolStr
<1>4. CASE k = "dark"
  <2>1. apis[k] = Or(ApiValue(k, shown, seen), "true")
    BY <1>1, <1>4 DEF apis, Value
  <2> QED BY <1>3, <2>1 DEF Or
<1>5. CASE k # "dark"
  <2>1. apis[k] = ApiValue(k, shown, seen)
    BY <1>1, <1>5 DEF apis, Value
  <2> QED BY <1>3, <1>5, <2>1
<1> QED BY <1>4, <1>5

LEMMA RendersBound == MaxRenders \in Nat
BY ParamsAssumption, Zenon

LEMMA InitGiven == ASSUME ApiInit PROVE Given
<1>1. /\ \A k \in Params : host[k] \in Props(k) /\ query[k] \in Queries(k)
      /\ shown = host /\ seen = query
      /\ settings \in Backings /\ env \in Backings /\ renders = 0 /\ wrote = FALSE
  BY DEF ApiInit
<1>2. DOMAIN host = Params /\ DOMAIN query = Params
  BY DEF ApiInit, AtMostOne, Nothing
<1>3. 0 \in 0..MaxRenders
  BY RendersBound
<1>4. \A k \in Params : query[k] \in Searched(k)
  BY <1>1 DEF Searched
<1> QED BY <1>1, <1>2, <1>3, <1>4 DEF Given

LEMMA NextGiven ==
  ASSUME Given, [ApiNext]_apiVars PROVE Given'
<1>1. ASSUME NEW k \in Params, NEW v \in Props(k),
             HostRenders([host EXCEPT ![k] = v])
      PROVE  Given'
  <2> DEFINE props == [host EXCEPT ![k] = v]
  <2>1. DOMAIN props = Params /\ \A j \in Params : props[j] \in Props(j)
    BY DEF Given
  <2>2. /\ host' = props /\ shown' \in {props, shown} /\ seen' \in {query, seen}
        /\ UNCHANGED <<query, settings, env, wrote>>
        /\ renders < MaxRenders /\ renders' = renders + 1
    BY <1>1 DEF HostRenders
  <2>3. renders' \in 0..MaxRenders
    BY <2>2, RendersBound DEF Given
  <2> HIDE DEF props
  <2> QED BY <2>1, <2>2, <2>3 DEF Given
<1>2. CASE UpdateHistory
  <2>1. /\ query' = Write /\ wrote' = TRUE
        /\ UNCHANGED <<host, shown, seen, settings, env, renders>>
    BY <1>2 DEF UpdateHistory
  <2>2. DOMAIN query' = Params
    BY <2>1 DEF Write
  <2>3. ASSUME NEW k \in Params PROVE query'[k] \in Searched(k)
    <3>1. CASE k \in HistoryStrings
      <4>1. k \in Strings
        BY <3>1 DEF Strings
      <4>2. Texts \union {"", Undefined} \subseteq Searched(k)
        BY <4>1 DEF Searched, Queries
      <4>3. query'[k] = IF apis[k] \in Texts \union {""} THEN Reading(apis[k]) ELSE Undefined
        BY <2>1, <3>1 DEF Write
      <4>4. query'[k] \in Texts \union {"", Undefined}
        BY <4>3, ParamsAssumption DEF Reading
      <4> QED BY <4>2, <4>4
    <3>2. CASE k \notin HistoryStrings
      <4>1. query'[k] = Undefined
        BY <2>1, <3>2 DEF Write
      <4> QED BY <4>1 DEF Searched, Queries
    <3> QED BY <3>1, <3>2
  <2> QED BY <2>1, <2>2, <2>3 DEF Given
<1>3. CASE UNCHANGED apiVars
  BY <1>3 DEF apiVars, Given
<1> QED BY <1>1, <1>2, <1>3 DEF ApiNext

\* What is given, and what the query becomes, keep their types; a flag App
\* shows is a boolean or none, and dark is always a boolean.
THEOREM ApiTypeCorrect == ApiSpec => []ApiTypeOK
<1>1. ApiInit => Given
  BY InitGiven
<1>2. Given /\ [ApiNext]_apiVars => Given'
  BY NextGiven
<1>3. Given => ApiTypeOK
  <2> SUFFICES ASSUME Given PROVE ApiTypeOK
    OBVIOUS
  <2>1. \A k \in Flags : apis[k] \in {Undefined, "true", "false"}
    BY FlagValue
  <2>2. apis["dark"] \in {"true", "false"}
    BY FlagValue, ParamsAssumption
  <2> QED BY <2>1, <2>2 DEF Given, ApiTypeOK
<1> QED BY <1>1, <1>2, <1>3, PTL DEF ApiSpec

\* What App shows of a parameter it watches is what the host last asked for,
\* however many renders React.memo held back.
THEOREM HostHeard == ApiSpec => []HostFollowed
<1>1. ASSUME ApiInv, NEW k \in Watched PROVE Value(k, host, seen) = apis[k]
  <2>1. k \in Params
    BY DEF Watched, Params, Json
  <2>2. host[k] = shown[k]
    BY <1>1 DEF Watched, ApiInv, HostShown
  <2>3. Value(k, host, seen) = Value(k, shown, seen)
    BY <2>2, ValueOf
  <2> QED BY <2>1, <2>3 DEF apis
<1>2. ApiInv => HostFollowed
  BY <1>1 DEF HostFollowed
<1> QED BY ApiInvariance, <1>2, PTL

\* Once Home has written its URL, nothing but the strings in it is left of
\* the one the page was opened with.
THEOREM OpenedForgotten == ApiSpec => []RestForgotten
<1>1. ASSUME ApiInv, wrote, seen = query, NEW k \in Params \ HistoryStrings
      PROVE  apis[k] = Value(k, shown, Nothing)
  <2>1. seen[k] = Nothing[k]
    BY <1>1 DEF ApiInv, QueryWritten, Nothing
  <2>2. Value(k, shown, seen) = Value(k, shown, Nothing)
    BY <2>1, ValueOf
  <2> QED BY <2>2 DEF apis
<1>2. ApiInv => RestForgotten
  BY <1>1 DEF RestForgotten
<1> QED BY ApiInvariance, <1>2, PTL

\* From Home's first write on, a string in the query changes only to what is
\* read of it where it is written as it is, and App shows none but those.
THEOREM QueryDecides == ApiSpec => OwnWritesWin
<1> DEFINE Decides == wrote => \A k \in HistoryStrings :
             query[k] # Undefined =>
               /\ query'[k] \in {query[k], Reading(query[k])}
               /\ apis'[k] \in {apis[k], query[k]}
<1>1. ASSUME ApiInv, [ApiNext]_apiVars, wrote, NEW k \in HistoryStrings, query[k] # Undefined
      PROVE  /\ query'[k] \in {query[k], Reading(query[k])}
             /\ apis'[k] \in {apis[k], query[k]}
  <2>1. k \in Params
    BY DEF Params, Strings
  <2>2. query[k] \in Texts \union {""} /\ query[k] \in {apis[k], Reading(apis[k])}
    BY <1>1 DEF ApiInv, QueryWritten
  <2>3. CASE \E props : HostRenders(props)
    <3>1. /\ UNCHANGED <<query, settings, env>>
          /\ seen' = query \/ UNCHANGED <<shown, seen>>
      BY <2>3 DEF HostRenders
    <3>2. apis'[k] = Value(k, shown', seen')
      BY <2>1, <3>1, ApisNext
    <3>3. CASE seen' = query
      BY <1>1, <3>1, <3>2, <3>3, QueryFirst
    <3>4. CASE UNCHANGED <<shown, seen>>
      BY <2>1, <3>1, <3>2, <3>4 DEF apis
    <3> QED BY <3>1, <3>3, <3>4
  <2>4. CASE UpdateHistory
    <3>1. query' = Write /\ UNCHANGED <<shown, seen, settings, env>>
      BY <2>4 DEF UpdateHistory
    <3>2. apis'[k] = apis[k]
      BY <2>1, <3>1, ApisNext DEF apis
    <3>3. apis[k] \in Texts \union {""}
      BY <2>2 DEF Reading
    <3>4. query'[k] = Reading(apis[k])
      BY <2>1, <3>1, <3>3 DEF Write
    <3> QED BY <2>2, <3>2, <3>4
  <2>5. CASE UNCHANGED apiVars
    <3>1. UNCHANGED <<query, shown, seen, settings, env>>
      BY <2>5 DEF apiVars
    <3>2. apis'[k] = apis[k]
      BY <2>1, <3>1, ApisNext DEF apis
    <3> QED BY <3>1, <3>2
  <2> QED BY <1>1, <2>3, <2>4, <2>5 DEF ApiNext
<1>2. ApiInv /\ [ApiNext]_apiVars => [Decides]_apiVars
  BY <1>1
<1> QED BY ApiInvariance, <1>2, PTL DEF ApiSpec, OwnWritesWin
=============================================================================

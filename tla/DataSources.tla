---------------------------- MODULE DataSources ----------------------------
(***************************************************************************)
(* The data the TGVE can be given, by origin. What a data set contains is  *)
(* abstracted to its identity; what the map engine can tell about contents *)
(* (does a join find rows, does a selection leave features) is given by    *)
(* the constants Join and Hits.                                            *)
(***************************************************************************)

CONSTANTS
  Inline,       \* feature collections a host passes as the `data` prop
  URLs,         \* well-formed URLs that serve data (`defaultURL`)
  GeoURLs,      \* well-formed URLs that serve a geography (`geographyURL`)
  Files,        \* feature collections a user adds with "Add data"
  GeoFiles,     \* geographies a user adds as the second file
  Columns,      \* names for the joining column (`geographyColumn`)
  Selections,   \* multi-variable selections, {column: Set(values)}
  NoData,       \* no features: undefined, null, [] or JSON that has none
  Blank,        \* a `data` prop that is an object with an empty features array
  NoURL,        \* the URL prop is not given
  BadURL,       \* the URL prop is given and isURL rejects it
  NoGeo,        \* state.geography is null or undefined
  NoColumn,     \* no joining column given
  NoSelect,     \* the empty selection {}
  Join,         \* what setGeojsonProps finds for (data, geography, column)
  Hits          \* <<data, selection>>: some feature of data satisfies it

Sources     == Inline \union URLs \union Files
Geographies == GeoURLs \union GeoFiles
ColumnNames == Columns \union {NoColumn}
SelectionsOrNone == Selections \union {NoSelect}

\* "rows": data rows were joined; "bare": no matching column, the geography
\* comes back without the data; "none": columns match, no value does;
\* "featureless": a geography that is no collection, such as one Feature,
\* comes back as it is.
JoinResults == {"rows", "bare", "none", "featureless"}

ASSUME JoinAssumption ==
  Join \in [Sources \X Geographies \X ColumnNames -> JoinResults]

ASSUME HitsAssumption == Hits \subseteq Sources \X Selections

ASSUME DistinctAssumption ==
  /\ NoData \notin Sources
  /\ NoGeo \notin Geographies
  /\ NoColumn \notin Columns
  /\ NoSelect \notin Selections
  /\ Blank \notin Inline /\ NoData \notin Inline /\ Blank # NoData
  /\ NoURL \notin URLs \union GeoURLs /\ BadURL \notin URLs \union GeoURLs
  /\ NoURL # BadURL
  /\ Files \intersect (Inline \union URLs) = {}
  /\ Inline \intersect URLs = {}

\* The part of the API that decides where data comes from.
Props == [data : Inline \union {NoData, Blank},
          defaultURL : URLs \union {NoURL, BadURL},
          geographyURL : GeoURLs \union {NoURL, BadURL},
          geographyColumn : ColumnNames,
          select : SelectionsOrNone]

(***************************************************************************)
(* What a GET of a URL can come to, as the callback of fetchData sees it:  *)
(* "ok" usable GeoJSON; "junk" an answer that parses but that bbox or      *)
(* centroid throw on; "error" a rejected fetch or unparsable text;         *)
(* "silent" a CSV with a parse error or a shapefile that shp rejects, for  *)
(* which fetchData never calls back.                                       *)
(***************************************************************************)
Answers == {"ok", "junk", "error", "silent"}
============================================================================

----------------------------- MODULE HomeDataMC -----------------------------
(* Small instances of HomeData for TLC.                                      *)
EXTENDS HomeData

MCInline == {"d1", "d2"}
MCURLs == {"u1", "u2"}
MCGeoURLs == {"g1"}
MCFiles == {"f1"}
MCGeoFiles == {"h1", "h2"}
MCColumns == {"c1"}
MCSelections == {"s1"}

\* c1 joins everything but f1, which has a name in common with the others
\* and no value under c1; h2 is a single Feature.
MCJoin == [t \in Sources \X Geographies \X ColumnNames |->
            IF t[2] = "h2" THEN "featureless"
            ELSE IF t[3] = "c1" THEN IF t[1] = "f1" THEN "none" ELSE "rows"
            ELSE IF t[1] = "f1" THEN "rows" ELSE "bare"]

MCHits == {"d1", "u1", "f1"} \X Selections

P(data, url, geography, column, select) ==
  [data |-> data, defaultURL |-> url, geographyURL |-> geography,
   geographyColumn |-> column, select |-> select]

\* A host with inline data, one with a URL, one with a separate geography and
\* one whose geographyURL is no URL; each may turn into another.
MCProps == {P("d1", NoURL, NoURL, NoColumn, "s1"),
            P("d2", "u1", NoURL, NoColumn, NoSelect),
            P(Blank, "u1", NoURL, NoColumn, NoSelect),
            P(Blank, "u2", "g1", "c1", NoSelect),
            P(NoData, "u1", BadURL, NoColumn, "s1"),
            P(NoData, NoURL, NoURL, NoColumn, NoSelect)}
=============================================================================

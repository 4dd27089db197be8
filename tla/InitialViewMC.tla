--------------------------- MODULE InitialViewMC ---------------------------
(* Small instances of InitialView for TLC.                                   *)
EXTENDS InitialView, TLC

V(lng, lat, zoom, pitch, bearing) ==
  [longitude |-> lng, latitude |-> lat, zoom |-> zoom, pitch |-> pitch,
   bearing |-> bearing]

MCDefault == V(4, 8, 20, 55, 0)

Props(some) == some @@ [key \in Keys |-> Absent]
Query(some) == some @@ Empty

\* No prop, one that gives a place and an angle, and one that gives a zoom.
MCViewportProps ==
  {Props(<<>>), Props([longitude |-> 6, latitude |-> 2, pitch |-> 30]),
   Props([zoom |-> 12])}

\* Between two digits that the URL keeps, on one, and at the edges.
MCViews == {V(5, 9, 21, 40, 10), V(6, 2, 12, 55, 0), V(0, 0, 0, 0, 0)}

MCQueries ==
  {Empty, Query([other |-> 1]),
   Query([latitude |-> 2, longitude |-> 6, zoom |-> 12]),
   Query([zoom |-> 0, other |-> 1])}
=============================================================================

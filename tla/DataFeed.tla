------------------------------ MODULE DataFeed ------------------------------
(***************************************************************************)
(* Whose data Home holds, with nothing said of layers, geographies, masks  *)
(* or alerts. The host gives data and asks for loads until the user first  *)
(* adds data of his own; from then on it is only heard when the user       *)
(* presses Reset. Loads that were asked for are answered at any time, and  *)
(* then replace what is shown, the user's data included.                   *)
(***************************************************************************)
CONSTANTS Inline, URLs, Files, NoData

VARIABLES
  shown,        \* the data Home holds
  user,         \* the user has added data and not reset since
  suspended,    \* the host's changes are not heeded
  asked         \* loads not yet answered, with the source each may still show

feedVars == <<shown, user, suspended, asked>>

OneMoreAsked ==
  \E a \in asked' :
    /\ a \notin asked /\ a.source \in URLs
    /\ asked' = asked \union {a}

HostGives ==
  /\ ~suspended
  /\ shown' \in Inline
  /\ UNCHANGED <<user, suspended, asked>>

HostAsks ==
  /\ ~suspended
  /\ OneMoreAsked
  /\ UNCHANGED <<shown, user, suspended>>

\* A load's data cannot be had, though its geography is still awaited.
Fails ==
  \E a \in asked :
    /\ asked' = (asked \ {a}) \union {[a EXCEPT !.source = NoData]}
    /\ UNCHANGED <<shown, user, suspended>>

Answered ==
  \E a \in asked :
    /\ asked' = asked \ {a}
    /\ shown' \in {shown, a.source, NoData}
    /\ UNCHANGED <<user, suspended>>

UserAdds ==
  /\ user' = TRUE /\ suspended' = TRUE
  /\ shown' \in Files
  /\ UNCHANGED asked

\* Reset lowers the one flag and not the other.
UserResets ==
  /\ user
  /\ user' = FALSE /\ suspended' = TRUE
  /\ \/ shown' \in Inline \union {NoData} /\ UNCHANGED asked
     \/ shown' = NoData /\ OneMoreAsked

FeedInit ==
  /\ shown = NoData /\ asked = {}
  /\ user = FALSE /\ suspended = FALSE

FeedNext ==
  HostGives \/ HostAsks \/ Fails \/ Answered \/ UserAdds \/ UserResets

FeedSpec == FeedInit /\ [][FeedNext]_feedVars
=============================================================================

--------------------------- MODULE FeatureStatsMC ---------------------------
(***************************************************************************)
(* Two days of two years, not in order; of the third property a null, a    *)
(* zero as a text, a word, and numbers as texts and as they are.           *)
(***************************************************************************)
EXTENDS FeatureStats

YearsMC == <<2010, 2009>>
FeaturesMC ==
  {[date |-> Date(1), sex |-> Male, n |-> v] : v \in {Null, Text(2)}}
  \union {[date |-> Date(1), sex |-> Female, n |-> v] : v \in {Text(0), Word(3)}}
  \union {[date |-> Date(2), sex |-> Male, n |-> v] : v \in {Num(1), Text(2)}}
  \union {[date |-> Date(2), sex |-> Female, n |-> v] : v \in {Null, Text(1)}}

=============================================================================

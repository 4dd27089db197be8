-------------------------- MODULE GenericPlotlyMC --------------------------
(* A small instance of GenericPlotly for TLC: five plots, so that a double   *)
(* click, the modal and its closing follow one another.                      *)
EXTENDS GenericPlotly

\* What GenericPlotly gives: no revision, a handler, and the window watched.
MCGiven ==
  {[figure |-> "f1", revision |-> None, onClick |-> "h1",
    useResizeHandler |-> TRUE]}

MCPlots == 1..MaxPlots

ASSUME MCAssumption == GenericAssumption
=============================================================================

------------------------- MODULE PlotlyComponentMC -------------------------
(* A small instance of PlotlyComponent for TLC.                              *)
EXTENDS PlotlyComponent

G(figure, revision, onClick, resize) ==
  [figure |-> figure, revision |-> revision, onClick |-> onClick,
   useResizeHandler |-> resize]

\* Two figures, a change of the revision alone, of the handler alone, and of
\* everything at once.
MCGiven ==
  {G("f1", None, "h1", TRUE), G("f1", "r1", "h1", TRUE), G("f1", "r1", "h2", FALSE),
   G("f2", None, None, FALSE), G("f2", "r1", "h2", TRUE)}
=============================================================================

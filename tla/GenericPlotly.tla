--------------------------- MODULE GenericPlotly ---------------------------
(***************************************************************************)
(* components/showcases/GenericPlotly.jsx: the function component that     *)
(* draws a plot, and draws it a second time in a modal while that is open. *)
(* It calls the factory in every render, so that each render has a class   *)
(* of its own and React replaces the plots of the last render by new ones  *)
(* instead of updating them. Plots are numbered in the order of rendering. *)
(***************************************************************************)
EXTENDS PlotlyComponent, FiniteSets

CONSTANT MaxPlots   \* bound on the plots ever rendered

\* The owners of plots in this repository pass no callback of the class. This
\* is asked of the constants where a result is about GenericSpec, and not of
\* PlotlyComponent.
GenericAssumption ==
  /\ MaxPlots \in Nat \ {0} /\ Plots = 1..MaxPlots
  /\ Throwing = {}

VARIABLES
  data,       \* the owner gives data
  isOpen,     \* the modal is open
  modeBar,    \* the toolbar is shown
  wanted      \* the plots of the last render

state == <<data, isOpen, modeBar, wanted>>
gvars == <<vars, state>>

GenericTypeOK ==
  /\ data \in BOOLEAN /\ isOpen \in BOOLEAN /\ modeBar \in BOOLEAN
  /\ wanted \subseteq Plots

GenericInit ==
  /\ Init
  /\ data \in BOOLEAN
  /\ isOpen = FALSE
  /\ modeBar \in BOOLEAN
  /\ wanted = IF data THEN 1..1 ELSE {}

\* How many plots a render returns: none without data, the second in the
\* modal.
Rendered(hasData, open) ==
  IF ~hasData THEN 0 ELSE IF open THEN 2 ELSE 1

\* React applies a render in one go: it unmounts, then it mounts.
Leaving == {p \in Plots : phase[p] = "mounted" /\ p \notin wanted}
Arriving == {p \in wanted : phase[p] = "new"}
Committed == Leaving = {} /\ Arriving = {}

\* The numbers the next render takes.
Fresh == 1 + Cardinality({p \in Plots : phase[p] # "new"})

\* Mutant: the plots of the last render stay in the tree.
RenderKept(hasData, open) ==
  LET next == Fresh .. (Fresh + Rendered(hasData, open) - 1)
  IN /\ Fresh + Rendered(hasData, open) <= MaxPlots + 1
     /\ wanted' = IF open THEN wanted \union next ELSE next

Render(hasData, open) ==
  LET next == Fresh .. (Fresh + Rendered(hasData, open) - 1)
  IN /\ Fresh + Rendered(hasData, open) <= MaxPlots + 1
     /\ wanted' = next

CommitUnmount(p) ==
  /\ p \in Leaving
  /\ Unmount(p)
  /\ UNCHANGED state

CommitMount(p) ==
  /\ Leaving = {}
  /\ p \in Arriving
  /\ Mount(p)
  /\ UNCHANGED state

\* A render of the owner, with or without data.
OwnerRenders(hasData) ==
  /\ Committed
  /\ data' = hasData
  /\ Render(hasData, isOpen)
  /\ UNCHANGED <<vars, isOpen, modeBar>>

\* The click handler: a second click (event.detail) renders the plot anew.
DoubleClick ==
  /\ Committed /\ data
  /\ Render(data, isOpen)
  /\ UNCHANGED <<vars, data, isOpen, modeBar>>

Expand ==
  /\ Committed /\ data /\ ~isOpen
  /\ isOpen' = TRUE
  /\ Render(data, TRUE)
  /\ UNCHANGED <<vars, data, modeBar>>

ToggleModeBar ==
  /\ Committed /\ data /\ isOpen
  /\ modeBar' = ~modeBar
  /\ Render(data, isOpen)
  /\ UNCHANGED <<vars, data, isOpen>>

Close ==
  /\ Committed /\ data /\ isOpen
  /\ isOpen' = FALSE
  /\ modeBar' = FALSE
  /\ Render(data, FALSE)
  /\ UNCHANGED <<vars, data>>

\* A step of a chain, or an event of Plotly, between two commits.
Background(p) ==
  /\ Committed
  /\ Chain(p) \/ HandleUpdate(p)
  /\ UNCHANGED state

Commit == \E p \in Plots : CommitUnmount(p) \/ CommitMount(p)

GenericNext ==
  \/ Commit
  \/ \E hasData \in BOOLEAN : OwnerRenders(hasData)
  \/ DoubleClick \/ Expand \/ ToggleModeBar \/ Close
  \/ \E p \in Plots : Background(p)

GenericSpec == GenericInit /\ [][GenericNext]_gvars

-----------------------------------------------------------------------------
(* Properties                                                              *)

\* However often the component renders while draws are in flight, the window
\* and the elements hold listeners of the plots of the last render only, so
\* of two plots at most.
OnlyTheLastRender ==
  Committed =>
    /\ \A p \in Plots :
         window[p] > 0 \/ updates[p] > 0 \/ drawn[p] # None => p \in wanted
    /\ \A p, q, r \in wanted : p = q \/ q = r \/ p = r
=============================================================================

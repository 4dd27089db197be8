---------------------------- MODULE Charts_proofs ----------------------------
(***************************************************************************)
(* Proofs about PlotlyComponent, for any number of plots, figures and      *)
(* handlers, any props and any callbacks that throw: a step is of one      *)
(* plot, so the invariant is one of each plot by itself. Then about        *)
(* GenericPlotly, whose results ask GenericAssumption of the constants.    *)
(* Last about FeatureStats, what the charts are of: for any features, any  *)
(* values of theirs and any limit. Its functions are defined by counting,  *)
(* so what they return follows from facts about finite sets.               *)
(***************************************************************************)
EXTENDS GenericPlotly, FeatureStats, FiniteSetTheorems, FunctionTheorems, TLAPS

\* How handlers are attached to an element that has the handler h alone.
Only(h) == [g \in Handlers |-> IF g = h THEN 1 ELSE 0]

\* The first draw comes first, and before it no update events are attached.
\* The last draw in the chain is of the figure in the props.
ChainInv(p) ==
  /\ \A i \in 2..Len(chain[p]) : chain[p][i] = "update"
  /\ chain[p] # <<>> /\ Head(chain[p]) = "init" => updates[p] = 0
  /\ chain[p] = <<>> => drawing[p] = None
  /\ phase[p] = "new" => chain[p] = <<>> /\ updates[p] = 0
  /\ phase[p] = "mounted" /\ Len(chain[p]) = 1 /\ drawing[p] # None =>
       drawing[p] = props[p].figure

\* A plot that is not mounted yet has touched nothing.
NewInv(p) ==
  phase[p] = "new" => window[p] = 0 /\ updates[p] = 0 /\ drawn[p] = None

\* ListenersMatch, NothingLeftBehind and SettledShowsProps of one plot.
Matched(p) ==
  /\ window[p] = IF resizeHandler[p] THEN 1 ELSE 0
  /\ updates[p] <= 1
  /\ phase[p] # "unmounted" => clicks[p] = Only(handlers[p])
Left(p) ==
  phase[p] = "unmounted" /\ ~purgeThrew[p] =>
    /\ window[p] = 0 /\ updates[p] = 0
    /\ clicks[p] = NoClicks
    /\ drawn[p] = None
Shown(p) ==
  phase[p] = "mounted" /\ chain[p] = <<>> /\ ~failed[p] /\ ~lost[p] =>
    drawn[p] = props[p].figure

PlotInv(p) == ChainInv(p) /\ NewInv(p) /\ Matched(p) /\ Left(p) /\ Shown(p)

IInv == TypeOK /\ \A p \in Plots : PlotInv(p)

\* The step leaves plot q alone.
Same(q) ==
  /\ phase'[q] = phase[q] /\ props'[q] = props[q]
  /\ chain'[q] = chain[q] /\ drawing'[q] = drawing[q]
  /\ drawn'[q] = drawn[q] /\ failed'[q] = failed[q]
  /\ rejected'[q] = rejected[q] /\ lost'[q] = lost[q]
  /\ handlers'[q] = handlers[q] /\ clicks'[q] = clicks[q]
  /\ updates'[q] = updates[q] /\ resizeHandler'[q] = resizeHandler[q]
  /\ window'[q] = window[q] /\ heard'[q] = heard[q]
  /\ initialized'[q] = initialized[q] /\ purgeThrew'[q] = purgeThrew[q]

Others(p) == \A q \in Plots \ {p} : Same(q)

-----------------------------------------------------------------------------
\* A plot that a step leaves alone keeps its invariant.
LEMMA SameKeeps == ASSUME NEW q \in Plots, PlotInv(q), Same(q) PROVE PlotInv(q)'
BY DEF PlotInv, Same, ChainInv, NewInv, Matched, Left, Shown

\* What a step of plot p has to show.
LEMMA OnePlot ==
  ASSUME IInv, NEW p \in Plots, TypeOK', PlotInv(p)', Others(p)
  PROVE  IInv'
<1>1. ASSUME NEW q \in Plots \ {p} PROVE PlotInv(q)'
  BY SameKeeps DEF IInv, Others
<1> QED BY <1>1 DEF IInv

\* A change of one plot's entry changes no other and keeps the type.
LEMMA IsEntry ==
  ASSUME NEW S, NEW f \in [Plots -> S], NEW p \in Plots, NEW v \in S
  PROVE  /\ Is(f, p, v) \in [Plots -> S]
         /\ Is(f, p, v)[p] = v
         /\ \A q \in Plots \ {p} : Is(f, p, v)[q] = f[q]
BY DEF Is

\* Mounting starts the chain.
LEMMA MountKeeps == ASSUME IInv, NEW p \in Plots, Mount(p) PROVE IInv'
<1>1. Others(p)
  BY DEF Mount, Is, listeners, owner, outcome, IInv, TypeOK, Others, Same
<1>2. TypeOK'
  <2>1. <<"init">> \in Seq({"init", "update"})
    OBVIOUS
  <2> QED BY <2>1 DEF Mount, Is, listeners, owner, outcome, IInv, TypeOK
<1>3. PlotInv(p)'
  <2>1. /\ phase[p] = "new" /\ phase'[p] = "mounted" /\ chain'[p] = <<"init">>
        /\ UNCHANGED <<props, drawing, drawn, failed, rejected, lost, handlers, clicks, updates,
                       resizeHandler, window, purgeThrew>>
    BY DEF Mount, Is, listeners, owner, outcome, IInv, TypeOK
  <2>2. Len(<<"init">>) = 1 /\ Head(<<"init">>) = "init" /\ <<"init">> # <<>>
    OBVIOUS
  <2> QED BY <2>1, <2>2
          DEF IInv, PlotInv, ChainInv, NewInv, Matched, Left, Shown
<1> QED BY <1>1, <1>2, <1>3, OnePlot

\* A sequence of draws in which the first draw comes first at most.
LEMMA Sequence ==
  ASSUME NEW c \in Seq({"init", "update"})
  PROVE  /\ Append(c, "update") \in Seq({"init", "update"})
         /\ Append(c, "update") # <<>> /\ Len(Append(c, "update")) = Len(c) + 1
         /\ c # <<>> => Head(Append(c, "update")) = Head(c)
         /\ c = <<>> => Head(Append(c, "update")) = "update"
         /\ (\A i \in 2..Len(c) : c[i] = "update") =>
              \A i \in 2..Len(Append(c, "update")) : Append(c, "update")[i] = "update"
OBVIOUS

LEMMA Rest ==
  ASSUME NEW c \in Seq({"init", "update"}), c # <<>>,
         \A i \in 2..Len(c) : c[i] = "update"
  PROVE  /\ Head(c) \in {"init", "update"}
         /\ Tail(c) \in Seq({"init", "update"})
         /\ \A i \in 2..Len(Tail(c)) : Tail(c)[i] = "update"
         /\ Tail(c) # <<>> => Head(Tail(c)) = "update"
         /\ Tail(c) = <<>> => Len(c) = 1
<1>1. Len(Tail(c)) = Len(c) - 1 /\ \A i \in 1..Len(Tail(c)) : Tail(c)[i] = c[i + 1]
  OBVIOUS
<1>2. Len(c) \in Nat /\ Len(Tail(c)) \in Nat
  OBVIOUS
<1>3. Tail(c) # <<>> => Len(Tail(c)) >= 1 /\ Head(Tail(c)) = Tail(c)[1]
  OBVIOUS
<1>4. \A i \in 1..Len(Tail(c)) : Tail(c)[i] = "update"
  BY <1>1, <1>2
<1>5. Head(c) \in {"init", "update"} /\ Tail(c) \in Seq({"init", "update"})
  OBVIOUS
<1>6. Tail(c) = <<>> => Len(Tail(c)) = 0
  <2>1. Len(<<>>) = 0
    OBVIOUS
  <2> QED BY <2>1, Zenon
<1>7. Tail(c) = <<>> => Len(c) = 1
  BY <1>1, <1>2, <1>6
<1> QED BY <1>2, <1>3, <1>4, <1>5, <1>7

\* New props append a draw at most, and one if they have another figure.
LEMMA UpdateKeeps ==
  ASSUME IInv, NEW p \in Plots, NEW given \in Given, Update(p, given)
  PROVE  IInv'
<1> USE PlotlyAssumption
<1>1. Others(p)
  BY DEF Update, Is, listeners, owner, outcome, IInv, TypeOK, Others, Same
<1>2. /\ phase[p] = "mounted" /\ given \in Props
      /\ props' = [props EXCEPT ![p] = given]
      /\ \/ /\ UpdateNeeded(props[p], given)
            /\ chain' = [chain EXCEPT ![p] = Append(chain[p], "update")]
         \/ /\ given.figure = props[p].figure
            /\ chain' = chain
      /\ UNCHANGED <<phase, drawing, drawn, failed, rejected, lost, handlers, clicks, updates,
                     resizeHandler, window, heard, initialized, purgeThrew>>
  BY DEF Update, UpdateNeeded, Is, listeners, owner, outcome
<1>3. /\ chain \in [Plots -> Seq({"init", "update"})]
      /\ props \in [Plots -> Props] /\ chain[p] \in Seq({"init", "update"})
  BY DEF IInv, TypeOK
<1>4. Append(chain[p], "update") \in Seq({"init", "update"})
  BY <1>3
<1>5. TypeOK'
  <2>1. chain' \in [Plots -> Seq({"init", "update"})] /\ props' \in [Plots -> Props]
    BY <1>2, <1>3, <1>4
  <2> QED BY <1>2, <2>1 DEF IInv, TypeOK
<1>6. PlotInv(p)'
  <2>1. CASE chain'[p] = chain[p] /\ props'[p].figure = props[p].figure
    BY <1>2, <2>1
    DEF IInv, PlotInv, ChainInv, NewInv, Matched, Left, Shown
  <2>2. CASE chain'[p] = Append(chain[p], "update")
    <3>1. Len(chain[p]) \in Nat /\ (Len(chain[p]) = 0 <=> chain[p] = <<>>)
      BY <1>3
    <3>2. ChainInv(p)'
      BY <1>2, <1>3, <2>2, <3>1, Sequence DEF IInv, PlotInv, ChainInv
    <3>3. chain'[p] # <<>>
      BY <1>3, <2>2, Sequence
    <3> QED BY <1>2, <3>2, <3>3
            DEF IInv, PlotInv, NewInv, Matched, Left, Shown
  <2> QED BY <1>2, <1>3, <2>1, <2>2
<1> QED BY <1>1, <1>5, <1>6, OnePlot

\* Unmounting takes off what is attached, unless onPurge throws.
LEMMA UnmountKeeps == ASSUME IInv, NEW p \in Plots, Unmount(p) PROVE IInv'
<1> USE PlotlyAssumption
<1>1. Others(p)
  BY DEF Unmount, RemoveUpdateEvents, Is, outcome, IInv, TypeOK, Others, Same
<1>2. /\ phase[p] = "mounted" /\ phase' = [phase EXCEPT ![p] = "unmounted"]
      /\ heard' = [heard EXCEPT ![p] = "purge"]
      /\ UNCHANGED <<props, chain, drawing, failed, rejected, lost, handlers, initialized>>
  BY DEF Unmount, Is, outcome
<1>3. /\ window \in [Plots -> Nat] /\ window[p] = IF resizeHandler[p] THEN 1 ELSE 0
      /\ ChainInv(p) /\ updates[p] <= 1
  BY DEF IInv, TypeOK, PlotInv, Matched
<1>4. CASE /\ clicks' = [clicks EXCEPT ![p] = NoClicks]
           /\ updates' = [updates EXCEPT ![p] = 0]
           /\ drawn' = [drawn EXCEPT ![p] = None]
           /\ resizeHandler' = [resizeHandler EXCEPT ![p] = FALSE]
           /\ window' = IF resizeHandler[p]
                        THEN [window EXCEPT ![p] = window[p] - 1] ELSE window
           /\ purgeThrew' = purgeThrew
  <2>1. window' \in [Plots -> Nat] /\ window'[p] = 0
    BY <1>3, <1>4
  <2>2. NoClicks \in [Handlers -> Nat]
    BY DEF NoClicks
  <2>3. TypeOK'
    BY <1>2, <1>4, <2>1, <2>2 DEF IInv, TypeOK
  <2>4. /\ updates'[p] = 0 /\ ~resizeHandler'[p] /\ phase'[p] = "unmounted"
        /\ clicks'[p] = NoClicks /\ drawn'[p] = None
    BY <1>2, <1>4 DEF IInv, TypeOK
  <2>5. PlotInv(p)'
    BY <1>2, <1>3, <2>1, <2>4
    DEF PlotInv, ChainInv, NewInv, Matched, Left, Shown
  <2> QED BY <1>1, <2>3, <2>5, OnePlot
<1>5. CASE /\ purgeThrew' = [purgeThrew EXCEPT ![p] = TRUE]
           /\ UNCHANGED <<clicks, updates, drawn, resizeHandler, window>>
  <2>1. TypeOK'
    BY <1>2, <1>5 DEF IInv, TypeOK
  <2>2. phase'[p] = "unmounted" /\ purgeThrew'[p]
    BY <1>2, <1>5 DEF IInv, TypeOK
  <2>3. PlotInv(p)'
    BY <1>2, <1>3, <1>5, <2>2
    DEF PlotInv, ChainInv, NewInv, Matched, Left, Shown
  <2> QED BY <1>1, <2>1, <2>3, OnePlot
<1> QED BY <1>4, <1>5 DEF Unmount, RemoveUpdateEvents, Is

-----------------------------------------------------------------------------
(* The promise chain.                                                      *)

\* Plotly.react is called with the figure of now.
LEMMA ReactKeeps == ASSUME IInv, NEW p \in Plots, React(p) PROVE IInv'
<1> USE PlotlyAssumption
<1>1. Others(p)
  BY DEF React, Is, listeners, owner, outcome, IInv, TypeOK, Others, Same
<1>2. /\ drawing' = [drawing EXCEPT ![p] = props[p].figure]
      /\ chain[p] # <<>>
      /\ UNCHANGED <<phase, props, chain, drawn, failed, rejected, lost, handlers, clicks, updates,
                     resizeHandler, window, heard, initialized, purgeThrew>>
  BY DEF React, Is, listeners, owner, outcome
<1>3. drawing \in [Plots -> Figures \union {None}] /\ props[p].figure \in Figures
  BY DEF IInv, TypeOK, Props
<1>4. TypeOK'
  BY <1>2, <1>3 DEF IInv, TypeOK
<1>5. PlotInv(p)'
  BY <1>2, <1>3 DEF IInv, PlotInv, ChainInv, NewInv, Matched, Left, Shown
<1> QED BY <1>1, <1>4, <1>5, OnePlot

\* A draw leaves the chain, and what it leaves there is as before.
LEMMA ShiftKeeps ==
  ASSUME IInv, NEW p \in Plots, chain[p] # <<>>, Shift(p),
         phase' = phase, props' = props,
         updates'[p] = updates[p] \/ Head(chain[p]) = "init"
  PROVE  /\ chain' \in [Plots -> Seq({"init", "update"})]
         /\ drawing' \in [Plots -> Figures \union {None}]
         /\ ChainInv(p)'
         /\ chain'[p] = <<>> => Len(chain[p]) = 1
<1>1. /\ chain \in [Plots -> Seq({"init", "update"})] /\ ChainInv(p)
      /\ drawing \in [Plots -> Figures \union {None}]
      /\ chain[p] \in Seq({"init", "update"})
  BY DEF IInv, TypeOK, PlotInv
<1>2. /\ chain' = [chain EXCEPT ![p] = Tail(chain[p])]
      /\ drawing' = [drawing EXCEPT ![p] = None]
  BY DEF Shift, Is
<1>3. /\ Head(chain[p]) \in {"init", "update"}
      /\ Tail(chain[p]) \in Seq({"init", "update"})
      /\ \A i \in 2..Len(Tail(chain[p])) : Tail(chain[p])[i] = "update"
      /\ Tail(chain[p]) # <<>> => Head(Tail(chain[p])) = "update"
  BY <1>1, Rest DEF ChainInv
<1>4. chain'[p] = Tail(chain[p]) /\ drawing'[p] = None
  BY <1>1, <1>2
<1>5. Tail(chain[p]) = <<>> => Len(chain[p]) = 1
  BY <1>1, Rest DEF ChainInv
<1>6. phase[p] # "new"
  BY <1>1 DEF ChainInv
<1>7. ChainInv(p)'
  BY <1>3, <1>4, <1>6 DEF ChainInv
<1>8. /\ chain' \in [Plots -> Seq({"init", "update"})]
      /\ drawing' \in [Plots -> Figures \union {None}]
  BY <1>1, <1>2, <1>3
<1> QED BY <1>4, <1>5, <1>7, <1>8

\* The chain of an unmounted plot runs out.
LEMMA SkipKeeps == ASSUME IInv, NEW p \in Plots, Skip(p) PROVE IInv'
<1>1. Others(p)
  BY DEF Skip, Shift, Is, listeners, owner, outcome, IInv, TypeOK, Others, Same
<1>2. /\ chain[p] # <<>> /\ phase[p] = "unmounted" /\ Shift(p)
      /\ UNCHANGED <<phase, props, drawn, failed, rejected, lost, handlers, clicks, updates,
                     resizeHandler, window, heard, initialized, purgeThrew>>
  BY DEF Skip, listeners, owner, outcome
<1>3. /\ chain' \in [Plots -> Seq({"init", "update"})]
      /\ drawing' \in [Plots -> Figures \union {None}]
      /\ ChainInv(p)'
  BY <1>2, ShiftKeeps
<1>4. TypeOK'
  BY <1>2, <1>3 DEF IInv, TypeOK
<1>5. PlotInv(p)'
  BY <1>2, <1>3 DEF IInv, PlotInv, NewInv, Matched, Left, Shown
<1> QED BY <1>1, <1>4, <1>5, OnePlot

\* onError is told, and may throw.
LEMMA ErrorHeard ==
  ASSUME IInv, NEW p \in Plots, OnError(p)
  PROVE  /\ rejected' \in [Plots -> BOOLEAN]
         /\ heard' = [heard EXCEPT ![p] = "error"]
         /\ \A q \in Plots \ {p} : rejected'[q] = rejected[q]
BY DEF OnError, Is, IInv, TypeOK

\* A draw that fails changes nothing on the element.
LEMMA RejectKeeps == ASSUME IInv, NEW p \in Plots, Reject(p) PROVE IInv'
<1>0. OnError(p)
  BY DEF Reject
<1>1. Others(p)
  BY <1>0, ErrorHeard DEF Reject, Shift, Is, listeners, IInv, TypeOK, Others, Same
<1>2. /\ chain[p] # <<>> /\ Shift(p)
      /\ failed' = [failed EXCEPT ![p] = TRUE]
      /\ lost' = [lost EXCEPT ![p] = FALSE]
      /\ UNCHANGED <<phase, props, drawn, handlers, clicks, updates,
                     resizeHandler, window, initialized, purgeThrew>>
  BY DEF Reject, Is, listeners
<1>3. /\ chain' \in [Plots -> Seq({"init", "update"})]
      /\ drawing' \in [Plots -> Figures \union {None}]
      /\ ChainInv(p)'
  BY <1>2, ShiftKeeps
<1>4. TypeOK'
  BY <1>0, <1>2, <1>3, ErrorHeard DEF IInv, TypeOK
<1>5. failed'[p] /\ phase[p] # "new"
  BY <1>2 DEF IInv, TypeOK, PlotInv, ChainInv
<1>6. PlotInv(p)'
  BY <1>2, <1>3, <1>5 DEF IInv, PlotInv, NewInv, Matched, Left, Shown
<1> QED BY <1>1, <1>4, <1>6, OnePlot

\* An update that is passed over changes nothing on the element either.
LEMMA PassOverKeeps == ASSUME IInv, NEW p \in Plots, PassOver(p) PROVE IInv'
<1>0. OnError(p)
  BY DEF PassOver
<1>1. Others(p)
  BY <1>0, ErrorHeard
  DEF PassOver, Shift, Is, listeners, IInv, TypeOK, Others, Same
<1>2. /\ chain[p] # <<>> /\ Shift(p)
      /\ lost' = [lost EXCEPT ![p] = TRUE]
      /\ UNCHANGED <<phase, props, drawn, failed, handlers, clicks, updates,
                     resizeHandler, window, initialized, purgeThrew>>
  BY DEF PassOver, Is, listeners
<1>3. /\ chain' \in [Plots -> Seq({"init", "update"})]
      /\ drawing' \in [Plots -> Figures \union {None}]
      /\ ChainInv(p)'
  BY <1>2, ShiftKeeps
<1>4. TypeOK'
  BY <1>0, <1>2, <1>3, ErrorHeard DEF IInv, TypeOK
<1>5. lost'[p] /\ phase[p] # "new"
  BY <1>2 DEF IInv, TypeOK, PlotInv, ChainInv
<1>6. PlotInv(p)'
  BY <1>2, <1>3, <1>5 DEF IInv, PlotInv, NewInv, Matched, Left, Shown
<1> QED BY <1>1, <1>4, <1>6, OnePlot

\* syncWindowResize leaves one listener on the window, or none.
LEMMA WindowSynced ==
  ASSUME IInv, NEW p \in Plots, SyncWindowResize(p)
  PROVE  /\ resizeHandler' \in [Plots -> BOOLEAN] /\ window' \in [Plots -> Nat]
         /\ window'[p] = IF resizeHandler'[p] THEN 1 ELSE 0
         /\ \A q \in Plots \ {p} :
              resizeHandler'[q] = resizeHandler[q] /\ window'[q] = window[q]
<1> DEFINE wants == props[p].useResizeHandler
<1>1. /\ resizeHandler \in [Plots -> BOOLEAN] /\ window \in [Plots -> Nat]
      /\ window[p] = IF resizeHandler[p] THEN 1 ELSE 0
      /\ wants \in BOOLEAN
  BY DEF IInv, TypeOK, PlotInv, Matched, Props
<1>2. /\ resizeHandler' = [resizeHandler EXCEPT ![p] = wants]
      /\ window' = IF wants /\ ~resizeHandler[p]
                   THEN [window EXCEPT ![p] = window[p] + 1]
                   ELSE IF ~wants /\ resizeHandler[p]
                   THEN [window EXCEPT ![p] = window[p] - 1]
                   ELSE window
  BY DEF SyncWindowResize, Is
<1> HIDE DEF wants
<1>3. /\ resizeHandler' \in [Plots -> BOOLEAN] /\ resizeHandler'[p] = wants
      /\ \A q \in Plots \ {p} : resizeHandler'[q] = resizeHandler[q]
  BY <1>1, <1>2
<1>4. CASE wants
  <2>1. window' \in [Plots -> Nat] /\ window'[p] = 1
    BY <1>1, <1>2, <1>4
  <2>2. \A q \in Plots \ {p} : window'[q] = window[q]
    BY <1>1, <1>2, <1>4
  <2> QED BY <1>3, <1>4, <2>1, <2>2
<1>5. CASE ~wants
  <2>1. window' \in [Plots -> Nat] /\ window'[p] = 0
    BY <1>1, <1>2, <1>5
  <2>2. \A q \in Plots \ {p} : window'[q] = window[q]
    BY <1>1, <1>2, <1>5
  <2> QED BY <1>3, <1>5, <2>1, <2>2
<1> QED BY <1>4, <1>5

\* syncEventHandlers leaves the handler of the props on the element, alone.
LEMMA HandlersSynced ==
  ASSUME IInv, NEW p \in Plots, SyncEventHandlers(p), phase[p] = "mounted"
  PROVE  /\ handlers' \in [Plots -> Handlers \union {None}]
         /\ clicks' \in [Plots -> [Handlers -> Nat]]
         /\ clicks'[p] = Only(handlers'[p])
         /\ \A q \in Plots \ {p} :
              handlers'[q] = handlers[q] /\ clicks'[q] = clicks[q]
<1> DEFINE new == props[p].onClick
           old == handlers[p]
           bare == IF old # None THEN RemoveListener(clicks[p], old) ELSE clicks[p]
<1>1. /\ handlers \in [Plots -> Handlers \union {None}]
      /\ clicks \in [Plots -> [Handlers -> Nat]]
      /\ new \in Handlers \union {None} /\ old \in Handlers \union {None}
      /\ clicks[p] = Only(old)
  BY DEF IInv, TypeOK, PlotInv, Matched, Props
<1>2. /\ handlers' = [handlers EXCEPT ![p] = new]
      /\ clicks' = IF new = old THEN clicks
                   ELSE [clicks EXCEPT ![p] = IF new = None THEN bare ELSE On(bare, new)]
  BY DEF SyncEventHandlers, Is
<1>3. None \notin Handlers
  BY PlotlyAssumption
<1>4. bare = Only(None)
  BY <1>1, <1>3 DEF Only, RemoveListener
<1>5. Only(None) \in [Handlers -> Nat] /\ Only(new) \in [Handlers -> Nat]
  BY DEF Only
<1>6. new # None => On(bare, new) = Only(new)
  <2>1. ASSUME NEW h \in Handlers PROVE On(Only(None), h) = Only(h)
    <3>1. On(Only(None), h) =
            [g \in Handlers |-> IF g = h THEN Only(None)[h] + 1 ELSE Only(None)[g]]
      BY DEF Only, On
    <3>2. \A g \in Handlers : Only(None)[g] = 0
      BY <1>3 DEF Only
    <3> QED BY <3>1, <3>2 DEF Only
  <2> HIDE DEF bare
  <2> QED BY <1>1, <1>4, <2>1
<1>7. IF new = old THEN clicks' = clicks ELSE clicks' = [clicks EXCEPT ![p] = Only(new)]
  BY <1>2, <1>4, <1>6
<1> HIDE DEF new, old, bare
<1>8. CASE new = old
  BY <1>1, <1>2, <1>7, <1>8
<1>9. CASE new # old
  BY <1>1, <1>2, <1>5, <1>7, <1>9
<1> QED BY <1>8, <1>9

\* A draw that succeeds is shown, and what is attached is brought up to date.
LEMMA SettleKeeps == ASSUME IInv, NEW p \in Plots, Settle(p) PROVE IInv'
<1> USE PlotlyAssumption
<1>1. /\ chain[p] # <<>> /\ drawing[p] # None /\ phase[p] = "mounted"
      /\ drawn' = [drawn EXCEPT ![p] = drawing[p]]
      /\ failed' = [failed EXCEPT ![p] = FALSE]
      /\ lost' = [lost EXCEPT ![p] = FALSE]
      /\ Shift(p) /\ SyncWindowResize(p) /\ SyncEventHandlers(p)
      /\ UNCHANGED <<phase, props, purgeThrew>>
  BY DEF Settle, Settled, Is
<1>2. /\ heard' \in [Plots -> {"none", "init", "update", "error", "purge"}]
      /\ \A q \in Plots \ {p} : heard'[q] = heard[q]
  <2>1. Head(chain[p]) \in {"init", "update"}
    BY <1>1, Rest DEF IInv, TypeOK, PlotInv, ChainInv
  <2>2. heard \in [Plots -> {"none", "init", "update", "error", "purge"}]
    BY DEF IInv, TypeOK
  <2>3. \/ heard' = [heard EXCEPT ![p] = Head(chain[p])]
        \/ heard' = [heard EXCEPT ![p] = "error"]
    BY DEF Settle, OnError, Is
  <2> QED BY <2>1, <2>2, <2>3
<1>3. /\ initialized' \in [Plots -> BOOLEAN]
      /\ \A q \in Plots \ {p} : initialized'[q] = initialized[q]
  <2>1. initialized' = [initialized EXCEPT ![p] =
                          initialized[p] \/ Head(chain[p]) = "init"]
    BY DEF Settle, Is
  <2>2. initialized \in [Plots -> BOOLEAN]
    BY DEF IInv, TypeOK
  <2> QED BY <2>1, <2>2
<1>4. /\ updates' \in [Plots -> Nat] /\ updates'[p] <= 1
      /\ updates'[p] = updates[p] \/ Head(chain[p]) = "init"
      /\ \A q \in Plots \ {p} : updates'[q] = updates[q]
  <2>1. \/ /\ Head(chain[p]) = "init"
           /\ updates' = [updates EXCEPT ![p] = updates[p] + 1]
        \/ updates' = updates
    BY DEF Settle, AttachUpdateEvents, Is
  <2>2. /\ updates \in [Plots -> Nat] /\ updates[p] <= 1
        /\ Head(chain[p]) = "init" => updates[p] = 0
    BY <1>1 DEF IInv, TypeOK, PlotInv, ChainInv, Matched
  <2> QED BY <2>1, <2>2
<1>5. /\ chain' \in [Plots -> Seq({"init", "update"})]
      /\ drawing' \in [Plots -> Figures \union {None}]
      /\ ChainInv(p)'
      /\ chain'[p] = <<>> => Len(chain[p]) = 1
  BY <1>1, <1>4, ShiftKeeps
<1>6. /\ drawn' \in [Plots -> Figures \union {None}] /\ drawn'[p] = drawing[p]
      /\ failed' \in [Plots -> BOOLEAN] /\ lost' \in [Plots -> BOOLEAN]
  BY <1>1 DEF IInv, TypeOK
<1>10. /\ rejected' \in [Plots -> BOOLEAN]
       /\ \A q \in Plots \ {p} : rejected'[q] = rejected[q]
  <2>1. rejected' = rejected \/ OnError(p)
    BY DEF Settle
  <2> QED BY <2>1, ErrorHeard DEF IInv, TypeOK
<1>7. TypeOK'
  BY <1>1, <1>2, <1>3, <1>4, <1>5, <1>6, <1>10, WindowSynced, HandlersSynced
  DEF IInv, TypeOK
<1>8. Others(p)
  <2>1. \A q \in Plots \ {p} :
          /\ chain'[q] = chain[q] /\ drawing'[q] = drawing[q]
          /\ drawn'[q] = drawn[q] /\ failed'[q] = failed[q]
          /\ lost'[q] = lost[q]
    BY <1>1 DEF Shift, Is, IInv, TypeOK
  <2> QED BY <1>1, <1>2, <1>3, <1>4, <1>10, <2>1, WindowSynced, HandlersSynced
          DEF Others, Same
<1>9. PlotInv(p)'
  <2>1. Matched(p)'
    BY <1>1, <1>4, WindowSynced, HandlersSynced DEF Matched
  <2>2. Shown(p)'
    BY <1>1, <1>5, <1>6 DEF IInv, PlotInv, ChainInv, Shown
  <2>3. NewInv(p)' /\ Left(p)'
    BY <1>1 DEF NewInv, Left
  <2> QED BY <1>5, <2>1, <2>2, <2>3 DEF PlotInv
<1> QED BY <1>7, <1>8, <1>9, OnePlot

\* An event of Plotly is passed on to the owner.
LEMMA HandleUpdateKeeps ==
  ASSUME IInv, NEW p \in Plots, HandleUpdate(p) PROVE IInv'
<1>1. /\ heard' = [heard EXCEPT ![p] = "update"]
      /\ UNCHANGED <<phase, props, chain, drawing, drawn, failed, rejected, lost, handlers, clicks,
                     updates, resizeHandler, window, initialized, purgeThrew>>
  BY DEF HandleUpdate, Is, listeners, outcome
<1>2. Others(p)
  BY <1>1 DEF IInv, TypeOK, Others, Same
<1>3. TypeOK'
  BY <1>1 DEF IInv, TypeOK
<1>4. PlotInv(p)'
  BY <1>1 DEF IInv, PlotInv, ChainInv, NewInv, Matched, Left, Shown
<1> QED BY <1>2, <1>3, <1>4, OnePlot

-----------------------------------------------------------------------------
\* Before anything is mounted the invariant holds.
LEMMA InitIInv == Init => IInv
<1> SUFFICES ASSUME Init PROVE IInv
  OBVIOUS
<1> USE PlotlyAssumption
<1>1. TypeOK
  <2>1. <<>> \in Seq({"init", "update"})
    OBVIOUS
  <2>2. NoClicks \in [Handlers -> Nat]
    BY DEF NoClicks
  <2>3. props \in [Plots -> Props]
    BY DEF Init
  <2> QED BY <2>1, <2>2, <2>3 DEF Init, TypeOK
<1>2. ASSUME NEW p \in Plots PROVE PlotInv(p)
  <2>1. NoClicks = Only(None)
    BY DEF NoClicks, Only
  <2>2. Len(<<>>) = 0
    OBVIOUS
  <2>3. /\ phase[p] = "new" /\ chain[p] = <<>> /\ drawing[p] = None
        /\ drawn[p] = None /\ updates[p] = 0 /\ window[p] = 0
        /\ ~resizeHandler[p] /\ handlers[p] = None /\ clicks[p] = NoClicks
    BY DEF Init
  <2>4. ChainInv(p)
    BY <2>2, <2>3 DEF ChainInv
  <2> QED BY <2>1, <2>3, <2>4 DEF PlotInv, NewInv, Matched, Left, Shown
<1> QED BY <1>1, <1>2 DEF IInv

\* Every step keeps it.
LEMMA NextIInv == IInv /\ [Next]_vars => IInv'
<1> SUFFICES ASSUME IInv, [Next]_vars PROVE IInv'
  OBVIOUS
<1>1. CASE UNCHANGED vars
  BY <1>1 DEF vars, IInv, TypeOK, PlotInv, ChainInv, NewInv, Matched, Left, Shown
<1>2. CASE Next
  <2>1. PICK p \in Plots :
          \/ Mount(p) \/ Unmount(p) \/ \E given \in Given : Update(p, given)
          \/ Chain(p) \/ HandleUpdate(p)
    BY <1>2 DEF Next
  <2> QED BY <2>1, MountKeeps, UnmountKeeps, UpdateKeeps, ReactKeeps, SkipKeeps,
             RejectKeeps, PassOverKeeps, SettleKeeps, HandleUpdateKeeps DEF Chain
<1> QED BY <1>1, <1>2

\* The inductive invariant: of each plot, what is attached, what is drawn and
\* what its chain has yet to draw.
THEOREM Invariance == Spec => []IInv
BY InitIInv, NextIInv, PTL DEF Spec

\* The types hold for any number of plots and any chains.
THEOREM TypeCorrect == Spec => []TypeOK
<1>1. IInv => TypeOK
  BY DEF IInv
<1> QED BY <1>1, Invariance, PTL

LEMMA IInvMatch == IInv => ListenersMatch
<1> SUFFICES ASSUME IInv, NEW p \in Plots
             PROVE  /\ window[p] = IF resizeHandler[p] THEN 1 ELSE 0
                    /\ updates[p] <= 1
                    /\ phase[p] # "unmounted" =>
                         clicks[p] = [h \in Handlers |-> IF h = handlers[p] THEN 1 ELSE 0]
  BY DEF ListenersMatch
<1> QED BY DEF IInv, PlotInv, Matched, Only

\* What is attached to the element and to the window is what the instance
\* keeps in this.handlers and this.resizeHandler, once each, whoever throws
\* (syncEventHandlers, syncWindowResize, attachUpdateEvents).
THEOREM OneListener == Spec => []ListenersMatch
BY IInvMatch, Invariance, PTL

LEMMA IInvLeft == IInv => NothingLeftBehind
BY DEF IInv, PlotInv, Left, NothingLeftBehind

\* Nothing is drawn or attached after componentWillUnmount, whatever was in
\* flight, unless onPurge threw in it.
THEOREM Purged == Spec => []NothingLeftBehind
BY IInvLeft, Invariance, PTL

LEMMA IInvShown == IInv => SettledShowsProps
BY DEF IInv, PlotInv, Shown, SettledShowsProps

\* A plot whose chain has run out shows the figure of its props, unless its
\* last draw failed or an onError that threw cost it its last update.
THEOREM PropsShown == Spec => []SettledShowsProps
BY IInvShown, Invariance, PTL

\* After onPurge neither onInitialized nor onUpdate nor onPurge is called, and
\* onError only for a draw in flight or behind an onError that threw: each
\* step of the chain looks at this.unmounting.
THEOREM PurgeHeardLast == Spec => PurgeIsLast
<1> DEFINE Quiet(q) ==
             phase[q] = "unmounted" /\ heard'[q] # heard[q] =>
               heard'[q] = "error" /\ (drawing[q] # None \/ rejected[q])
<1>1. ASSUME IInv, [Next]_vars, NEW q \in Plots PROVE Quiet(q)
  <2>1. heard \in [Plots -> {"none", "init", "update", "error", "purge"}]
    BY <1>1 DEF IInv, TypeOK
  <2>2. CASE UNCHANGED vars
    BY <2>2 DEF vars
  <2>3. ASSUME NEW p \in Plots, NEW v, heard' = [heard EXCEPT ![p] = v],
               \/ phase[p] = "mounted"
               \/ v = "error" /\ (drawing[p] # None \/ rejected[p])
        PROVE  Quiet(q)
    BY <2>1, <2>3
  <2>4. CASE Next
    <3>1. PICK p \in Plots :
            \/ Mount(p) \/ Unmount(p) \/ \E given \in Given : Update(p, given)
            \/ Chain(p) \/ HandleUpdate(p)
      BY <2>4 DEF Next
    <3>2. CASE Mount(p) \/ \E given \in Given : Update(p, given)
      BY <3>2 DEF Mount, Update, owner
    <3>3. CASE React(p) \/ Skip(p)
      BY <3>3 DEF React, Skip, owner
    <3>4. CASE Reject(p) \/ PassOver(p)
      BY <2>3, <3>4 DEF Reject, PassOver, OnError, Is
    <3>5. CASE Unmount(p)
      BY <2>3, <3>5 DEF Unmount, Is
    <3>6. CASE HandleUpdate(p)
      BY <2>3, <3>6 DEF HandleUpdate, Is
    <3>7. CASE Settle(p)
      <4>1. phase[p] = "mounted"
        BY <3>7 DEF Settle, Settled
      <4>2. \/ heard' = [heard EXCEPT ![p] = Head(chain[p])]
            \/ heard' = [heard EXCEPT ![p] = "error"]
        BY <3>7 DEF Settle, OnError, Is
      <4> QED BY <2>3, <4>1, <4>2
    <3> QED BY <3>1, <3>2, <3>3, <3>4, <3>5, <3>6, <3>7 DEF Chain
  <2> QED BY <1>1, <2>2, <2>4
<1>2. IInv /\ [Next]_vars =>
        [\A p \in Plots :
           phase[p] = "unmounted" /\ heard'[p] # heard[p] =>
             heard'[p] = "error" /\ (drawing[p] # None \/ rejected[p])]_vars
  BY <1>1
<1> QED BY <1>2, Invariance, PTL DEF Spec, PurgeIsLast

-----------------------------------------------------------------------------
(* GenericPlotly, for any number of renders. Its steps are steps of        *)
(* PlotlyComponent, so what is proved above holds of its plots; the rest   *)
(* follows from what a render takes.                                       *)

\* A render takes one number, or two that follow each other.
TwoAtMost == \E k \in Nat : wanted \subseteq {k, k + 1}

\* No purge throws, as no callback is given.
Purging == \A p \in Plots : ~purgeThrew[p]

GInv == IInv /\ GenericTypeOK /\ TwoAtMost /\ Purging

-----------------------------------------------------------------------------
\* The next number to take.
LEMMA FreshType == GenericAssumption => Fresh \in Nat /\ Fresh >= 1
<1> SUFFICES ASSUME GenericAssumption PROVE Fresh \in Nat /\ Fresh >= 1
  OBVIOUS
<1> DEFINE old == {p \in Plots : phase[p] # "new"}
<1>1. IsFiniteSet(1..MaxPlots)
  BY FS_Interval DEF GenericAssumption
<1>2. old \subseteq 1..MaxPlots
  BY DEF GenericAssumption
<1>3. Cardinality(old) \in Nat
  BY <1>1, <1>2, FS_Subset, FS_CardinalityType
<1> QED BY <1>3 DEF Fresh

\* What a render asks for is within the bound, and two plots at most.
LEMMA RenderTakes ==
  ASSUME GenericAssumption,
         NEW hasData \in BOOLEAN, NEW open \in BOOLEAN, Render(hasData, open)
  PROVE  wanted' \subseteq Plots /\ TwoAtMost'
<1> DEFINE n == Rendered(hasData, open)
<1>1. n \in {0, 1, 2}
  BY DEF Rendered
<1>2. wanted' = Fresh .. (Fresh + n - 1) /\ Fresh + n <= MaxPlots + 1
  BY DEF Render
<1> HIDE DEF n
<1>3. wanted' \subseteq 1..MaxPlots
  BY <1>1, <1>2, FreshType DEF GenericAssumption
<1>4. wanted' \subseteq {Fresh, Fresh + 1}
  BY <1>1, <1>2, FreshType
<1> QED BY <1>3, <1>4, FreshType DEF TwoAtMost, GenericAssumption

\* A step of the class leaves no purge that threw.
LEMMA PurgingKept ==
  ASSUME GenericAssumption, Purging, TypeOK, [Next]_vars PROVE Purging'
<1>1. purgeThrew' = purgeThrew
  BY DEF GenericAssumption, Next, Chain, Mount, Unmount, Update, React, Skip, Reject,
      PassOver, Settle, HandleUpdate, vars, owner
<1> QED BY <1>1 DEF Purging

\* A step of the component is one of the class, or none; and it renders, or
\* leaves its state alone.
LEMMA GenericStep ==
  ASSUME GenericNext
  PROVE  /\ [Next]_vars
         /\ \/ UNCHANGED state
            \/ /\ \E hasData, open \in BOOLEAN :
                    Render(hasData, open)
               /\ data' \in BOOLEAN /\ isOpen' \in BOOLEAN
               /\ modeBar' \in BOOLEAN
            \/ ~GenericTypeOK
<1>1. CASE Commit
  BY <1>1 DEF Commit, CommitUnmount, CommitMount, Next
<1>2. CASE \E p \in Plots : Background(p)
  BY <1>2 DEF Background, Next
<1>3. CASE \E hasData \in BOOLEAN : OwnerRenders(hasData)
  BY <1>3 DEF OwnerRenders, GenericTypeOK
<1>4. CASE DoubleClick
  BY <1>4 DEF DoubleClick, GenericTypeOK
<1>5. CASE Expand
  BY <1>5 DEF Expand, GenericTypeOK
<1>6. CASE ToggleModeBar
  BY <1>6 DEF ToggleModeBar, GenericTypeOK
<1>7. CASE Close
  BY <1>7 DEF Close, GenericTypeOK
<1> QED BY <1>1, <1>2, <1>3, <1>4, <1>5, <1>6, <1>7 DEF GenericNext

LEMMA InitGInv == ASSUME GenericAssumption, GenericInit PROVE GInv
<1>1. IInv
  BY InitIInv DEF GenericInit
<1>2. Purging
  BY DEF GenericInit, Init, Purging
<1>3. wanted \subseteq {1, 2} /\ TwoAtMost
  BY DEF GenericInit, TwoAtMost
<1>4. wanted \subseteq Plots
  BY DEF GenericAssumption, GenericInit
<1> QED BY <1>1, <1>2, <1>3, <1>4 DEF GInv, GenericInit, GenericTypeOK

LEMMA NextGInv ==
  ASSUME GenericAssumption, GInv, [GenericNext]_gvars PROVE GInv'
<1>1. [Next]_vars
  BY GenericStep DEF gvars, vars
<1>2. IInv' /\ Purging'
  BY <1>1, NextIInv, PurgingKept DEF GInv, IInv
<1>3. CASE UNCHANGED state
  BY <1>2, <1>3 DEF GInv, state, GenericTypeOK, TwoAtMost
<1>4. CASE ~UNCHANGED state
  <2>1. GenericNext
    BY <1>4 DEF gvars, state
  <2>2. PICK hasData, open \in BOOLEAN : Render(hasData, open)
    BY <1>4, <2>1, GenericStep DEF GInv
  <2>3. data' \in BOOLEAN /\ isOpen' \in BOOLEAN /\ modeBar' \in BOOLEAN
    BY <1>4, <2>1, GenericStep DEF GInv
  <2> QED BY <1>2, <2>2, <2>3, RenderTakes DEF GInv, GenericTypeOK
<1> QED BY <1>3, <1>4

\* The inductive invariant: that of the plots, and two plots of a render.
THEOREM GenericInvariance == GenericAssumption => (GenericSpec => []GInv)
<1> SUFFICES ASSUME GenericAssumption PROVE GenericSpec => []GInv
  OBVIOUS
<1>1. GenericInit => GInv
  BY InitGInv
<1>2. GInv /\ [GenericNext]_gvars => GInv'
  BY NextGInv
<1> QED BY <1>1, <1>2, PTL DEF GenericSpec

\* The types of the component's own state hold.
THEOREM GenericTypeCorrect ==
  GenericAssumption => (GenericSpec => []GenericTypeOK)
<1>1. GInv => GenericTypeOK
  BY DEF GInv
<1> QED BY <1>1, GenericInvariance, PTL

\* What is proved of the class holds of the plots of the component, whose
\* owners' callbacks do not throw: none of any render leaves a listener.
THEOREM PlotsKeepListeners ==
  GenericAssumption => (GenericSpec => [](ListenersMatch /\ NothingLeftBehind))
<1>1. GInv => ListenersMatch /\ NothingLeftBehind
  BY IInvMatch, IInvLeft DEF GInv
<1> QED BY <1>1, GenericInvariance, PTL

\* However often it renders while draws are in flight, nothing is left of any
\* render but the last, which has two plots at most.
THEOREM LastRenderOnly ==
  GenericAssumption => (GenericSpec => []OnlyTheLastRender)
<1>1. ASSUME GInv, Committed PROVE OnlyTheLastRender
  <2>1. ASSUME NEW p \in Plots, p \notin wanted
        PROVE  window[p] = 0 /\ updates[p] = 0 /\ drawn[p] = None
    <3>1. PlotInv(p) /\ ~purgeThrew[p] /\ phase[p] \in {"new", "mounted", "unmounted"}
      BY <1>1, <2>1 DEF GInv, IInv, TypeOK, Purging
    <3>2. phase[p] # "mounted"
      BY <1>1, <2>1 DEF Committed, Leaving
    <3> QED BY <3>1, <3>2 DEF PlotInv, NewInv, Left
  <2>2. \A p, q, r \in wanted : p = q \/ q = r \/ p = r
    BY <1>1 DEF GInv, TwoAtMost
  <2>3. \A p \in Plots : ~(0 > 0)
    OBVIOUS
  <2> QED BY <2>1, <2>2, <2>3 DEF OnlyTheLastRender
<1>2. GInv => OnlyTheLastRender
  BY <1>1 DEF OnlyTheLastRender
<1> QED BY <1>2, GenericInvariance, PTL

---------------------------------------------------------------------------
(* FeatureStats *)

\* A function without repetitions from a finite set into as many numbers
\* takes all of them.
LEMMA RanksTaken ==
  ASSUME NEW D, IsFiniteSet(D), NEW r \in [D -> 1..Cardinality(D)],
         \A x, y \in D : r[x] = r[y] => x = y
  PROVE  \A k \in 1..Cardinality(D) : \E d \in D : r[d] = k
<1>1. Cardinality(D) \in Nat
  BY FS_CardinalityType
<1>2. IsFiniteSet(1..Cardinality(D)) /\ Cardinality(1..Cardinality(D)) = Cardinality(D)
  BY <1>1, FS_Interval
<1>3. r \in Injection(D, 1..Cardinality(D))
  BY DEF Injection, IsInjective
<1>4. r \in Surjection(D, 1..Cardinality(D))
  BY <1>2, <1>3, FS_Injection
<1> QED BY <1>4 DEF Surjection

\* Of a finite set of numbers, those that are not above one of them.
UpTo(S, n) == {m \in S : m <= n}

\* The greater a number of the set, the more of it are not above.
LEMMA PlacesDiffer ==
  ASSUME NEW S \in SUBSET Int, IsFiniteSet(S)
  PROVE  /\ Cardinality(S) \in Nat
         /\ \A n \in S : Cardinality(UpTo(S, n)) \in 1..Cardinality(S)
         /\ \A m, n \in S : m < n <=> Cardinality(UpTo(S, m)) < Cardinality(UpTo(S, n))
<1>1. Cardinality(S) \in Nat
  BY FS_CardinalityType
<1>2. \A n \in S : /\ IsFiniteSet(UpTo(S, n))
                   /\ Cardinality(UpTo(S, n)) \in Nat
                   /\ Cardinality(UpTo(S, n)) <= Cardinality(S)
  <2> TAKE n \in S
  <2>1. UpTo(S, n) \in SUBSET S
    BY DEF UpTo
  <2> QED BY <2>1, FS_Subset, FS_CardinalityType
<1>3. \A n \in S : Cardinality(UpTo(S, n)) # 0
  <2> TAKE n \in S
  <2>1. n \in UpTo(S, n)
    BY DEF UpTo
  <2>2. IsFiniteSet(UpTo(S, n)) /\ UpTo(S, n) # {}
    BY <2>1, <1>2
  <2> QED BY <2>2, FS_EmptySet, Zenon
<1>4. \A m, n \in S : m < n => Cardinality(UpTo(S, m)) < Cardinality(UpTo(S, n))
  <2> SUFFICES ASSUME NEW m \in S, NEW n \in S, m < n
               PROVE  Cardinality(UpTo(S, m)) < Cardinality(UpTo(S, n))
    OBVIOUS
  <2> m \in Int /\ n \in Int /\ S \subseteq Int
    OBVIOUS
  <2> \A x, y : x \in UpTo(S, y) <=> x \in S /\ x <= y
    BY DEF UpTo
  <2>1. n \in UpTo(S, n) /\ n \notin UpTo(S, m)
    OBVIOUS
  <2>2. \A x \in UpTo(S, m) : x \in UpTo(S, n)
    <3> TAKE x \in UpTo(S, m)
    <3>1. x \in S /\ x \in Int /\ x <= m
      OBVIOUS
    <3>2. x <= n
      BY <3>1
    <3> QED BY <3>1, <3>2
  <2>3. UpTo(S, m) \in SUBSET UpTo(S, n) /\ n \in UpTo(S, n) /\ n \notin UpTo(S, m)
    BY <2>1, <2>2, Zenon
  <2>4. IsFiniteSet(UpTo(S, n)) /\ UpTo(S, m) # UpTo(S, n)
    BY <2>3, <1>2
  <2>5. /\ Cardinality(UpTo(S, m)) <= Cardinality(UpTo(S, n))
        /\ Cardinality(UpTo(S, n)) # Cardinality(UpTo(S, m))
    BY <2>3, <2>4, FS_Subset, Zenon
  <2> QED BY <2>5, <1>2
<1>5. \A m, n \in S : Cardinality(UpTo(S, m)) < Cardinality(UpTo(S, n)) => m < n
  <2> TAKE m, n \in S
  <2>1. m < n \/ m = n \/ n < m
    OBVIOUS
  <2> QED BY <2>1, <1>2, <1>4
<1> QED BY <1>1, <1>2, <1>3, <1>4, <1>5

\* InOrder lists the numbers of a set, each once, ascending.
LEMMA Ascends ==
  ASSUME NEW S \in SUBSET Int, IsFiniteSet(S)
  PROVE  /\ Cardinality(S) \in Nat
         /\ InOrder(S) \in [1..Cardinality(S) -> S]
         /\ \A n \in S : \E k \in 1..Cardinality(S) : InOrder(S)[k] = n
         /\ \A k, l \in 1..Cardinality(S) : k < l <=> InOrder(S)[k] < InOrder(S)[l]
<1> DEFINE r == [n \in S |-> Cardinality(UpTo(S, n))]
<1>1. /\ Cardinality(S) \in Nat
      /\ r \in [S -> 1..Cardinality(S)]
      /\ \A m, n \in S : m < n <=> r[m] < r[n]
  BY PlacesDiffer
<1>2. InOrder(S) = [k \in 1..Cardinality(S) |-> CHOOSE n \in S : r[n] = k]
  <2>1. \A k \in 1..Cardinality(S) :
          (CHOOSE n \in S : Cardinality(UpTo(S, n)) = k) = CHOOSE n \in S : r[n] = k
    <3> TAKE k \in 1..Cardinality(S)
    <3>1. \A n : (n \in S /\ Cardinality(UpTo(S, n)) = k) <=> (n \in S /\ r[n] = k)
      OBVIOUS
    <3> QED BY <3>1, Zenon
  <2>2. InOrder(S) = [k \in 1..Cardinality(S) |-> CHOOSE n \in S : Cardinality(UpTo(S, n)) = k]
    BY Zenon DEF InOrder, UpTo
  <2> HIDE DEF r
  <2> QED BY <2>1, <2>2, Zenon
<1> HIDE DEF r
<1>3. \A m, n \in S : r[m] = r[n] => m = n
  <2> TAKE m, n \in S
  <2>1. r[m] \in 1..Cardinality(S) /\ r[n] \in 1..Cardinality(S)
    BY <1>1
  <2>2. m \in Int /\ n \in Int
    OBVIOUS
  <2> QED BY <2>1, <2>2, <1>1
<1>4. \A k \in 1..Cardinality(S) : \E n \in S : r[n] = k
  BY <1>1, <1>3, RanksTaken
<1>5. \A k \in 1..Cardinality(S) : InOrder(S)[k] \in S /\ r[InOrder(S)[k]] = k
  BY <1>2, <1>4
<1>6. InOrder(S) \in [1..Cardinality(S) -> S]
  BY <1>2, <1>5
<1>7. \A n \in S : InOrder(S)[r[n]] = n
  BY <1>1, <1>3, <1>5
<1>8. \A k, l \in 1..Cardinality(S) : k < l <=> InOrder(S)[k] < InOrder(S)[l]
  <2> TAKE k, l \in 1..Cardinality(S)
  <2> DEFINE m == InOrder(S)[k]
             n == InOrder(S)[l]
  <2>1. m \in S /\ n \in S /\ r[m] = k /\ r[n] = l
    BY <1>5
  <2> HIDE DEF m, n
  <2>2. m < n <=> k < l
    BY <2>1, <1>1
  <2> QED BY <2>2 DEF m, n
<1> QED BY <1>1, <1>6, <1>7, <1>8

\* The places are numbers from one: listed in order they are themselves.
LEMMA IntervalInOrder ==
  ASSUME NEW n \in Nat
  PROVE  InOrder(1..n) = [k \in 1..n |-> k]
<1>1. \A m \in 1..n : UpTo(1..n, m) = 1..m /\ Cardinality(1..m) = m
  BY FS_Interval DEF UpTo
<1>2. Cardinality(1..n) = n
  BY FS_Interval
<1>3. InOrder(1..n) = [k \in 1..n |-> CHOOSE m \in 1..n : m = k]
  <2>1. \A k \in 1..n : (CHOOSE m \in 1..n : Cardinality(UpTo(1..n, m)) = k) = CHOOSE m \in 1..n : m = k
    <3> TAKE k \in 1..n
    <3>1. \A m \in 1..n : Cardinality(UpTo(1..n, m)) = k <=> m = k
      BY <1>1
    <3> QED BY <3>1
  <2>2. InOrder(1..n) = [k \in 1..n |-> CHOOSE m \in 1..n : Cardinality(UpTo(1..n, m)) = k]
    BY <1>2, Zenon DEF InOrder, UpTo
  <2> QED BY <2>1, <2>2
<1> QED BY <1>3

\* The places of a sequence that satisfy something are finitely many.
LEMMA PlacesFinite ==
  ASSUME NEW n \in Nat, NEW places \in SUBSET (1..n)
  PROVE  /\ IsFiniteSet(places) /\ Cardinality(places) \in Nat /\ Cardinality(places) <= n
         /\ places \in SUBSET Int
         /\ Cardinality(places) = n => places = 1..n
<1>1. IsFiniteSet(1..n) /\ Cardinality(1..n) = n
  BY FS_Interval
<1>2. IsFiniteSet(places) /\ Cardinality(places) <= n /\ (Cardinality(places) = n => places = 1..n)
  BY <1>1, FS_Subset, Zenon
<1> QED BY <1>2, FS_CardinalityType

\* At(s, places) has the elements of s at these places: a one-to-one list of
\* the places says which.
LEMMA AtPlaces ==
  ASSUME NEW n \in Nat, NEW s, NEW places \in SUBSET (1..n)
  PROVE  /\ Cardinality(places) \in Nat
         /\ DOMAIN At(s, places) = 1..Cardinality(places)
         /\ Len(At(s, places)) = Cardinality(places)
         /\ InOrder(places) \in [1..Cardinality(places) -> places]
         /\ \A k \in 1..Cardinality(places) : At(s, places)[k] = s[InOrder(places)[k]]
         /\ \A i \in places : \E k \in 1..Cardinality(places) : InOrder(places)[k] = i
         /\ \A k, l \in 1..Cardinality(places) : InOrder(places)[k] = InOrder(places)[l] => k = l
<1>1. /\ IsFiniteSet(places) /\ Cardinality(places) \in Nat
      /\ places \in SUBSET Int
  BY PlacesFinite
<1>2. /\ InOrder(places) \in [1..Cardinality(places) -> places]
      /\ \A i \in places : \E k \in 1..Cardinality(places) : InOrder(places)[k] = i
      /\ \A k, l \in 1..Cardinality(places) : k < l <=> InOrder(places)[k] < InOrder(places)[l]
  BY <1>1, Ascends
<1>3. \A k, l \in 1..Cardinality(places) : InOrder(places)[k] = InOrder(places)[l] => k = l
  <2> SUFFICES ASSUME NEW k \in 1..Cardinality(places), NEW l \in 1..Cardinality(places),
                      InOrder(places)[k] = InOrder(places)[l]
               PROVE  k = l
    OBVIOUS
  <2>1. InOrder(places)[k] \in Int /\ InOrder(places)[l] \in Int
    BY <1>1, <1>2
  <2>2. ~ (k < l) /\ ~ (l < k)
    BY <2>1, <1>2
  <2> QED BY <2>2, <1>1
<1>4. At(s, places) = [k \in 1..Cardinality(places) |-> s[InOrder(places)[k]]]
  BY DEF At
<1>5. Len(At(s, places)) = Cardinality(places)
  BY <1>1, <1>4
<1> QED BY <1>1, <1>2, <1>3, <1>4, <1>5

\* A list: what is at the places 1 to n.
IsList(s, n) == s = [i \in 1..n |-> s[i]]

\* keys is a list of the elements of a list s, each of them once.
Lists(keys, m, s, n) ==
  /\ m \in Nat /\ IsList(keys, m)
  /\ \A k \in 1..m : \E i \in 1..n : keys[k] = s[i]
  /\ \A i \in 1..n : \E k \in 1..m : keys[k] = s[i]
  /\ \A k, l \in 1..m : keys[k] = keys[l] => k = l

\* Uniq(s) has each element of s once, and is s where it is as long as s.
LEMMA UniqOnce ==
  ASSUME NEW n \in Nat, NEW s, IsList(s, n)
  PROVE  \E m \in Nat :
           m <= n /\ Len(Uniq(s)) = m /\ Lists(Uniq(s), m, s, n) /\ (m = n => Uniq(s) = s)
<1>1. DOMAIN s = 1..n
  BY DEF IsList
<1> DEFINE F == Firsts(s)
           m == Cardinality(F)
<1>2. \A i : i \in F <=> i \in 1..n /\ \A j \in 1..(i - 1) : s[j] # s[i]
  BY <1>1 DEF Firsts
<1>3. F \in SUBSET (1..n) /\ Uniq(s) = At(s, F)
  BY <1>2 DEF Uniq
<1> HIDE DEF F
<1>4. /\ m \in Nat /\ m <= n
      /\ m = n => F = 1..n
  BY <1>3, PlacesFinite
<1>5. /\ DOMAIN Uniq(s) = 1..m /\ Len(Uniq(s)) = m
      /\ InOrder(F) \in [1..m -> F]
      /\ \A k \in 1..m : Uniq(s)[k] = s[InOrder(F)[k]]
      /\ \A i \in F : \E k \in 1..m : InOrder(F)[k] = i
      /\ \A k, l \in 1..m : InOrder(F)[k] = InOrder(F)[l] => k = l
      /\ Uniq(s) = [k \in 1..m |-> s[InOrder(F)[k]]]
  <2>1. Uniq(s) = [k \in 1..m |-> s[InOrder(F)[k]]]
    BY <1>3 DEF At
  <2>2. /\ DOMAIN At(s, F) = 1..m /\ Len(At(s, F)) = m
        /\ InOrder(F) \in [1..m -> F]
        /\ \A k \in 1..m : At(s, F)[k] = s[InOrder(F)[k]]
        /\ \A i \in F : \E k \in 1..m : InOrder(F)[k] = i
        /\ \A k, l \in 1..m : InOrder(F)[k] = InOrder(F)[l] => k = l
    <3>1. F \in SUBSET (1..n)
      BY <1>3
    <3> HIDE DEF m
    <3>2. /\ Cardinality(F) \in Nat
          /\ DOMAIN At(s, F) = 1..Cardinality(F)
          /\ Len(At(s, F)) = Cardinality(F)
          /\ InOrder(F) \in [1..Cardinality(F) -> F]
          /\ \A k \in 1..Cardinality(F) : At(s, F)[k] = s[InOrder(F)[k]]
          /\ \A i \in F : \E k \in 1..Cardinality(F) : InOrder(F)[k] = i
          /\ \A k, l \in 1..Cardinality(F) : InOrder(F)[k] = InOrder(F)[l] => k = l
      BY <3>1, AtPlaces, Zenon
    <3> QED BY <3>2, Zenon DEF m
  <2> QED BY <2>1, <2>2, <1>3, Zenon
<1> HIDE DEF m
<1>6. \A k \in 1..m : \E i \in 1..n : Uniq(s)[k] = s[i]
  BY <1>3, <1>5
<1>7. \A i \in 1..n : \E j \in F : s[j] = s[i]
  <2> TAKE i \in 1..n
  <2> DEFINE same == {j \in 1..n : s[j] = s[i]}
             f == InOrder(same)
  <2>1. /\ same \in SUBSET (1..n) /\ i \in same /\ same \in SUBSET Int
        /\ \A j \in 1..n : j \in same <=> s[j] = s[i]
    OBVIOUS
  <2> HIDE DEF same
  <2>2. /\ IsFiniteSet(same) /\ Cardinality(same) \in Nat
        /\ f \in [1..Cardinality(same) -> same]
        /\ \A j \in same : \E k \in 1..Cardinality(same) : f[k] = j
        /\ \A k, l \in 1..Cardinality(same) : k < l <=> f[k] < f[l]
    BY <2>1, PlacesFinite, Ascends
  <2> HIDE DEF f
  <2>3. 1 \in 1..Cardinality(same)
    BY <2>1, <2>2
  <2>4. f[1] \in same /\ f[1] \in 1..n /\ s[f[1]] = s[i]
    BY <2>1, <2>2, <2>3
  <2>5. ASSUME NEW j \in 1..(f[1] - 1), s[j] = s[f[1]]
        PROVE  FALSE
    <3>1. j \in 1..n /\ j \in Int /\ f[1] \in Int /\ j < f[1]
      BY <2>4
    <3>2. j \in same
      BY <3>1, <2>1, <2>4, <2>5
    <3>3. PICK k \in 1..Cardinality(same) : f[k] = j
      BY <3>2, <2>2
    <3>4. k < 1
      BY <3>1, <3>3, <2>2, <2>3
    <3> QED BY <3>4
  <2>6. f[1] \in F
    BY <1>2, <2>4, <2>5
  <2> QED BY <2>4, <2>6
<1>8. \A i \in 1..n : \E k \in 1..m : Uniq(s)[k] = s[i]
  BY <1>5, <1>7
<1>9. \A k, l \in 1..m : Uniq(s)[k] = Uniq(s)[l] => k = l
  <2> SUFFICES ASSUME NEW k \in 1..m, NEW l \in 1..m, Uniq(s)[k] = Uniq(s)[l]
               PROVE  k = l
    OBVIOUS
  <2>1. PICK i \in F : i = InOrder(F)[k]
    BY <1>5
  <2>2. PICK j \in F : j = InOrder(F)[l]
    BY <1>5
  <2>3. s[i] = s[j] /\ i \in 1..n /\ j \in 1..n
    BY <2>1, <2>2, <1>3, <1>5
  <2>4. ~ (i < j) /\ ~ (j < i)
    BY <2>1, <2>2, <2>3, <1>2
  <2>5. i = j
    BY <2>3, <2>4
  <2> QED BY <2>1, <2>2, <2>5, <1>5
<1>10. ASSUME m = n PROVE Uniq(s) = s
  <2>1. InOrder(F) = [k \in 1..n |-> k]
    BY <1>10, <1>4, IntervalInOrder
  <2>2. Uniq(s) = [k \in 1..n |-> s[k]]
    BY <2>1, <1>5, <1>10
  <2> QED BY <2>2 DEF IsList
<1>11. IsList(Uniq(s), m)
  BY <1>5 DEF IsList
<1>12. Lists(Uniq(s), m, s, n)
  BY <1>4, <1>6, <1>8, <1>9, <1>11 DEF Lists
<1> QED BY <1>4, <1>5, <1>10, <1>12

\* Sorted(s) has the elements of s, each where it was once, and the values of
\* them ascend.
LEMMA SortedSame ==
  ASSUME NEW n \in Nat, NEW s, IsList(s, n), \A i \in 1..n : s[i].val \in Int
  PROVE  \E p \in [1..n -> 1..n] :
           /\ IsList(Sorted(s), n)
           /\ \A k \in 1..n : Sorted(s)[k] = s[p[k]]
           /\ \A i \in 1..n : \E k \in 1..n : p[k] = i
           /\ \A k, l \in 1..n : p[k] = p[l] => k = l
           /\ \A k, l \in 1..n : k < l => Sorted(s)[k].val <= Sorted(s)[l].val
<1> DEFINE r == [i \in 1..n |-> Cardinality(NotAfter(s, i))]
<1>1. DOMAIN s = 1..n
  BY DEF IsList
<1>2. \A i, j : j \in NotAfter(s, i)
                <=> j \in 1..n /\ (s[j].val < s[i].val \/ (s[j].val = s[i].val /\ j <= i))
  BY <1>1 DEF NotAfter
<1>3. \A i \in 1..n : /\ IsFiniteSet(NotAfter(s, i)) /\ r[i] = Cardinality(NotAfter(s, i))
                       /\ r[i] \in Nat /\ r[i] <= n
  <2> TAKE i \in 1..n
  <2>1. NotAfter(s, i) \in SUBSET (1..n)
    BY <1>2
  <2> QED BY <2>1, PlacesFinite
<1>4. Sorted(s) = [k \in 1..n |-> s[CHOOSE i \in 1..n : r[i] = k]]
  <2>1. \A k \in 1..n : (CHOOSE i \in 1..n : Cardinality(NotAfter(s, i)) = k) = CHOOSE i \in 1..n : r[i] = k
    <3> TAKE k \in 1..n
    <3>1. \A i : (i \in 1..n /\ Cardinality(NotAfter(s, i)) = k) <=> (i \in 1..n /\ r[i] = k)
      BY <1>3
    <3> QED BY <3>1, Zenon
  <2>2. Sorted(s) = [k \in 1..n |-> s[CHOOSE i \in 1..n : Cardinality(NotAfter(s, i)) = k]]
    BY <1>1 DEF Sorted
  <2> HIDE DEF r
  <2> QED BY <2>1, <2>2, Zenon
<1>5. r \in [1..n -> 1..n]
  <2>1. \A i \in 1..n : r[i] # 0
    <3> TAKE i \in 1..n
    <3>1. i \in NotAfter(s, i)
      BY <1>2
    <3>2. IsFiniteSet(NotAfter(s, i)) /\ NotAfter(s, i) # {} /\ r[i] = Cardinality(NotAfter(s, i))
      BY <3>1, <1>3
    <3> HIDE DEF r
    <3> QED BY <3>2, FS_EmptySet, Zenon
  <2>2. \A i \in 1..n : r[i] \in 1..n
    <3> HIDE DEF r
    <3> QED BY <2>1, <1>3
  <2> QED BY <2>2
<1> DEFINE before(i, j) == s[i].val < s[j].val \/ (s[i].val = s[j].val /\ i < j)
<1>6. \A i, j \in 1..n : before(i, j) => r[i] < r[j]
  <2> SUFFICES ASSUME NEW i \in 1..n, NEW j \in 1..n, before(i, j)
               PROVE  r[i] < r[j]
    OBVIOUS
  <2>1. j \in NotAfter(s, j) /\ j \notin NotAfter(s, i)
    BY <1>2
  <2>2. \A x \in NotAfter(s, i) : x \in NotAfter(s, j)
    <3> TAKE x \in NotAfter(s, i)
    <3>1. x \in 1..n /\ s[x].val \in Int /\ s[i].val \in Int /\ s[j].val \in Int
      BY <1>2
    <3>2. s[x].val < s[i].val \/ (s[x].val = s[i].val /\ x <= i)
      BY <1>2
    <3>3. s[x].val < s[j].val \/ (s[x].val = s[j].val /\ x <= j)
      BY <3>1, <3>2
    <3> QED BY <3>1, <3>3, <1>2
  <2>3. NotAfter(s, i) \in SUBSET NotAfter(s, j) /\ NotAfter(s, i) # NotAfter(s, j)
    BY <2>1, <2>2
  <2> HIDE DEF r
  <2>4. r[i] <= r[j] /\ r[i] # r[j]
    BY <2>3, <1>3, FS_Subset, Zenon
  <2> QED BY <2>4, <1>3
<1> HIDE DEF r
<1>7. \A i, j \in 1..n : i = j \/ before(i, j) \/ before(j, i)
  OBVIOUS
<1> HIDE DEF before
<1>8. \A i, j \in 1..n : r[i] = r[j] => i = j
  <2> TAKE i, j \in 1..n
  <2>1. r[i] \in Int /\ r[j] \in Int
    BY <1>5
  <2> QED BY <2>1, <1>6, <1>7
<1>9. \A k \in 1..n : \E i \in 1..n : r[i] = k
  <2>1. IsFiniteSet(1..n) /\ Cardinality(1..n) = n
    BY FS_Interval
  <2>2. r \in [1..n -> 1..Cardinality(1..n)]
    BY <2>1, <1>5
  <2>3. \A k \in 1..Cardinality(1..n) : \E i \in 1..n : r[i] = k
    BY <2>1, <2>2, <1>8, RanksTaken, Zenon
  <2> QED BY <2>1, <2>3
<1> DEFINE p == [k \in 1..n |-> CHOOSE i \in 1..n : r[i] = k]
<1>10. p \in [1..n -> 1..n] /\ \A k \in 1..n : r[p[k]] = k
  BY <1>9
<1>11. Sorted(s) = [k \in 1..n |-> s[p[k]]]
  BY <1>4
<1> HIDE DEF p
<1>12. \A i \in 1..n : \E k \in 1..n : p[k] = i
  <2> TAKE i \in 1..n
  <2>1. r[i] \in 1..n /\ p[r[i]] = i
    BY <1>5, <1>8, <1>10
  <2> QED BY <2>1
<1>13. \A k, l \in 1..n : k < l => Sorted(s)[k].val <= Sorted(s)[l].val
  <2> SUFFICES ASSUME NEW k \in 1..n, NEW l \in 1..n, k < l
               PROVE  s[p[k]].val <= s[p[l]].val
    BY <1>11
  <2>1. p[k] \in 1..n /\ p[l] \in 1..n /\ r[p[k]] = k /\ r[p[l]] = l
    BY <1>10
  <2>2. ~ before(p[l], p[k])
    BY <2>1, <1>6
  <2>3. s[p[k]].val \in Int /\ s[p[l]].val \in Int
    BY <2>1
  <2>4. ~ (s[p[l]].val < s[p[k]].val)
    BY <2>2 DEF before
  <2> QED BY <2>3, <2>4
<1>14. \A k, l \in 1..n : p[k] = p[l] => k = l
  BY <1>10
<1>15. IsList(Sorted(s), n)
  BY <1>11 DEF IsList
<1> QED BY <1>10, <1>11, <1>12, <1>13, <1>14, <1>15

\* What lists the elements of s still does when it is sorted.
LEMMA SortedLists ==
  ASSUME NEW n \in Nat, NEW s, NEW m \in Nat, NEW keys, Lists(keys, m, s, n),
         \A i \in 1..n : s[i].val \in Int
  PROVE  /\ Lists(Sorted(keys), m, s, n)
         /\ \A k, l \in 1..m : k < l => Sorted(keys)[k].val <= Sorted(keys)[l].val
<1> DEFINE t == Sorted(keys)
<1>1. IsList(keys, m) /\ \A k \in 1..m : keys[k].val \in Int
  BY DEF Lists
<1>2. PICK p \in [1..m -> 1..m] :
           /\ IsList(t, m)
           /\ \A k \in 1..m : t[k] = keys[p[k]]
           /\ \A i \in 1..m : \E k \in 1..m : p[k] = i
           /\ \A k, l \in 1..m : p[k] = p[l] => k = l
           /\ \A k, l \in 1..m : k < l => t[k].val <= t[l].val
  BY <1>1, SortedSame, Zenon
<1> HIDE DEF t
<1>3. \A k \in 1..m : p[k] \in 1..m
  OBVIOUS
<1>4. \A k \in 1..m : \E i \in 1..n : t[k] = s[i]
  <2> TAKE k \in 1..m
  <2>1. p[k] \in 1..m /\ t[k] = keys[p[k]]
    BY <1>2, <1>3
  <2>2. PICK i \in 1..n : keys[p[k]] = s[i]
    BY <2>1 DEF Lists
  <2> QED BY <2>1, <2>2
<1>5. \A i \in 1..n : \E k \in 1..m : t[k] = s[i]
  <2> TAKE i \in 1..n
  <2>1. PICK k \in 1..m : keys[k] = s[i]
    BY DEF Lists
  <2>2. PICK l \in 1..m : p[l] = k
    BY <1>2
  <2> QED BY <2>1, <2>2, <1>2
<1>6. \A k, l \in 1..m : t[k] = t[l] => k = l
  <2> SUFFICES ASSUME NEW k \in 1..m, NEW l \in 1..m, t[k] = t[l]
               PROVE  k = l
    OBVIOUS
  <2>1. p[k] = p[l]
    <3>1. p[k] \in 1..m /\ p[l] \in 1..m /\ keys[p[k]] = keys[p[l]]
      BY <1>2, <1>3
    <3>2. \A x, y \in 1..m : keys[x] = keys[y] => x = y
      BY DEF Lists
    <3> QED BY <3>1, <3>2, Zenon
  <2> QED BY <2>1, <1>2, Zenon
<1> QED BY <1>2, <1>4, <1>5, <1>6 DEF Lists, t

\* The pairs that Sum counts.
Pairs(t, n) == {q \in (1..n) \X Nat : q[2] \in 1..t[q[1]]}

\* If the things of a set are of n classes, and a list has how many there are
\* of each, they add up to the things.
LEMMA ClassesAddUp ==
  ASSUME NEW n \in Nat, NEW I, IsFiniteSet(I), NEW g \in [I -> 1..n], NEW t, IsList(t, n),
         \A k \in 1..n : t[k] = Cardinality({i \in I : g[i] = k})
  PROVE  Sum(t) = Cardinality(I)
<1> DEFINE class(k) == {i \in I : g[i] = k}
           P == Pairs(t, n)
<1>1. \A k \in 1..n : t[k] \in Nat /\ ExistsBijection(1..t[k], class(k))
  <2> TAKE k \in 1..n
  <2>1. class(k) \in SUBSET I
    OBVIOUS
  <2>2. IsFiniteSet(class(k)) /\ t[k] = Cardinality(class(k))
    BY <2>1, FS_Subset
  <2> HIDE DEF class
  <2> QED BY <2>2, FS_CardinalityType, Zenon
<1> DEFINE b == [k \in 1..n |-> CHOOSE f : f \in Bijection(1..t[k], class(k))]
<1>2. \A k \in 1..n : b[k] \in Bijection(1..t[k], class(k))
  <2> TAKE k \in 1..n
  <2>1. \E f : f \in Bijection(1..t[k], class(k))
    BY <1>1 DEF ExistsBijection
  <2> QED BY <2>1
<1> HIDE DEF b
<1>3. \A k \in 1..n :
        /\ \A x \in 1..t[k] : b[k][x] \in I /\ g[b[k][x]] = k
        /\ \A x, y \in 1..t[k] : b[k][x] = b[k][y] => x = y
        /\ \A i \in I : g[i] = k => \E x \in 1..t[k] : b[k][x] = i
  <2> TAKE k \in 1..n
  <2>1. b[k] \in Bijection(1..t[k], class(k))
    BY <1>2
  <2> QED BY <2>1 DEF Bijection, Injection, Surjection, IsInjective
<1>4. \A q : q \in P <=> /\ q = <<q[1], q[2]>> /\ q[1] \in 1..n /\ q[2] \in Nat
                         /\ q[2] \in 1..t[q[1]]
  BY DEF Pairs
<1>5. UNION {{i} \X (1..t[i]) : i \in DOMAIN t} = P
  <2>1. DOMAIN t = 1..n
    BY DEF IsList
  <2>2. \A q : q \in UNION {{i} \X (1..t[i]) : i \in DOMAIN t} <=> \E i \in 1..n : q \in {i} \X (1..t[i])
    BY <2>1
  <2>3. \A q : (\E i \in 1..n : q \in {i} \X (1..t[i]))
              <=> q = <<q[1], q[2]>> /\ q[1] \in 1..n /\ q[2] \in 1..t[q[1]]
    OBVIOUS
  <2>4. \A i \in 1..n : \A x \in 1..t[i] : x \in Nat
    OBVIOUS
  <2> HIDE DEF P
  <2>5. \A q : q \in UNION {{i} \X (1..t[i]) : i \in DOMAIN t} <=> q \in P
    BY <2>2, <2>3, <2>4, <1>4, Zenon
  <2> QED BY <2>5, Zenon
<1> HIDE DEF P, class
<1> DEFINE f == [q \in P |-> b[q[1]][q[2]]]
<1>6. f \in [P -> I]
  BY <1>3, <1>4
<1>7. \A q \in P : f[q] = b[q[1]][q[2]] /\ q[1] = g[f[q]] /\ q[2] \in 1..t[q[1]] /\ q[1] \in 1..n
  BY <1>3, <1>4
<1>8. \A q, u \in P : f[q] = f[u] => q = u
  <2> SUFFICES ASSUME NEW q \in P, NEW u \in P, f[q] = f[u]
               PROVE  q = u
    OBVIOUS
  <2> HIDE DEF f
  <2>1. q[1] = u[1] /\ b[q[1]][q[2]] = b[q[1]][u[2]]
    BY <1>7
  <2>2. q[2] = u[2]
    BY <2>1, <1>3, <1>7
  <2>3. q = <<q[1], q[2]>> /\ u = <<u[1], u[2]>>
    BY <1>4
  <2> QED BY <2>1, <2>2, <2>3
<1>9. \A i \in I : \E q \in P : f[q] = i
  <2> TAKE i \in I
  <2>1. PICK x \in 1..t[g[i]] : b[g[i]][x] = i
    BY <1>3
  <2>2. t[g[i]] \in Nat /\ g[i] \in 1..n
    BY <1>1
  <2>3. <<g[i], x>> \in P
    BY <2>1, <2>2, <1>4
  <2> QED BY <2>1, <2>3
<1> HIDE DEF f
<1>10. f \in Bijection(P, I)
  BY <1>6, <1>8, <1>9 DEF Bijection, Injection, Surjection, IsInjective
<1>11. ExistsBijection(I, P)
  BY <1>10, Fun_ExistsBijSymmetric DEF ExistsBijection
<1> QED BY <1>5, <1>11, FS_Bijection DEF Sum

\* How many times each of m keys is in s.
Counts(s, keys, m) == [k \in 1..m |-> Count(s, keys[k])]

\* If keys has each element of s, and each once, how many times each of them
\* is in s adds up to how long s is.
LEMMA CountsTotal ==
  ASSUME NEW n \in Nat, NEW s, IsList(s, n), NEW m \in Nat, NEW keys, Lists(keys, m, s, n)
  PROVE  Sum(Counts(s, keys, m)) = n
<1> DEFINE g == [i \in 1..n |-> CHOOSE k \in 1..m : keys[k] = s[i]]
           t == Counts(s, keys, m)
<1>1. g \in [1..n -> 1..m] /\ \A i \in 1..n : keys[g[i]] = s[i]
  BY DEF Lists
<1>2. IsFiniteSet(1..n) /\ Cardinality(1..n) = n
  BY FS_Interval
<1>3. DOMAIN s = 1..n
  BY DEF IsList
<1> HIDE DEF g
<1>4. \A k \in 1..m : t[k] = Cardinality({i \in 1..n : g[i] = k})
  <2> TAKE k \in 1..m
  <2>1. \A i \in 1..n : s[i] = keys[k] <=> g[i] = k
    BY <1>1 DEF Lists
  <2>2. {i \in DOMAIN s : s[i] = keys[k]} = {i \in 1..n : g[i] = k}
    BY <2>1, <1>3
  <2> QED BY <2>2 DEF Count, Counts
<1>5. IsList(t, m)
  BY DEF IsList, Counts
<1> HIDE DEF t
<1>6. Sum(t) = Cardinality(1..n)
  <2>1. g \in [1..n -> 1..m] /\ IsFiniteSet(1..n)
    BY <1>1, <1>2
  <2> QED BY <2>1, <1>4, <1>5, ClassesAddUp, Zenon
<1> QED BY <1>2, <1>6 DEF t

\* The same of the points of a chart.
Points(s, keys) == [k \in DOMAIN keys |-> [x |-> keys[k], y |-> Count(s, keys[k])]]

LEMMA PointsTotal ==
  ASSUME NEW n \in Nat, NEW s, IsList(s, n), NEW m \in Nat, NEW keys, Lists(keys, m, s, n)
  PROVE  Total(Points(s, keys)) = n
<1>1. DOMAIN keys = 1..m
  BY DEF Lists, IsList
<1>2. [k \in DOMAIN Points(s, keys) |-> Points(s, keys)[k].y] = [k \in 1..m |-> Count(s, keys[k])]
  BY <1>1 DEF Points
<1>3. Sum(Counts(s, keys, m)) = n
  BY CountsTotal, Zenon
<1> QED BY <1>2, <1>3 DEF Total, Counts

\* A list of features.
FeatureList(fs, n) == IsList(fs, n) /\ \A i \in 1..n : fs[i] \in Features

\* What a feature has in its columns.
LEMMA ValuesTyped ==
  ASSUME NEW f \in Features
  PROVE  /\ f.n \in Value /\ f.sex \in {Male, Female} /\ f.sex \in Value /\ f.sex # Null
         /\ f.date.val \in DOMAIN Years /\ f.date = Date(f.date.val) /\ YearOf(f) \in Nat
         /\ DOMAIN f = {"date", "sex", "n"}
<1>1. f \in [date : {Date(d) : d \in DOMAIN Years}, sex : {Male, Female}, n : Value]
  BY StatsAssumption DEF StatsAssumption
<1>2. f.n \in Value /\ f.sex \in {Male, Female} /\ DOMAIN f = {"date", "sex", "n"}
  BY <1>1
<1>3. f.sex \in Value /\ f.sex # Null
  BY <1>2 DEF Value, Male, Female, Word, Null
<1>4. PICK d \in DOMAIN Years : f.date = Date(d)
  BY <1>1
<1>5. f.date.val = d
  BY <1>4 DEF Date
<1>6. Years[d] \in Nat
  BY <1>4, StatsAssumption DEF StatsAssumption
<1> QED BY <1>2, <1>3, <1>4, <1>5, <1>6 DEF YearOf

\* The values without nulls: as many as there are features that have one.
LEMMA PlainsOf ==
  ASSUME NEW n \in Nat, NEW fs, FeatureList(fs, n), NEW c \in {"sex", "n"}
  PROVE  /\ Cardinality({i \in 1..n : fs[i][c] # Null}) \in Nat
         /\ IsList(Plains(fs, c), Cardinality({i \in 1..n : fs[i][c] # Null}))
         /\ \A k \in 1..Cardinality({i \in 1..n : fs[i][c] # Null}) : Plains(fs, c)[k].val \in Int
<1> DEFINE P == {i \in 1..n : fs[i][c] # Null}
           m == Cardinality(P)
<1>1. DOMAIN fs = 1..n /\ \A i \in 1..n : fs[i] \in Features
  BY DEF FeatureList, IsList
<1>2. P \in SUBSET (1..n) /\ {i \in DOMAIN fs : fs[i][c] # Null} = P
  BY <1>1
<1> HIDE DEF P
<1>3. /\ m \in Nat /\ DOMAIN At(fs, P) = 1..m /\ InOrder(P) \in [1..m -> P]
      /\ \A k \in 1..m : At(fs, P)[k] = fs[InOrder(P)[k]]
  <2>1. P \in SUBSET (1..n)
    BY <1>2
  <2> HIDE DEF m
  <2>2. /\ Cardinality(P) \in Nat
        /\ DOMAIN At(fs, P) = 1..Cardinality(P)
        /\ Len(At(fs, P)) = Cardinality(P)
        /\ InOrder(P) \in [1..Cardinality(P) -> P]
        /\ \A k \in 1..Cardinality(P) : At(fs, P)[k] = fs[InOrder(P)[k]]
        /\ \A i \in P : \E k \in 1..Cardinality(P) : InOrder(P)[k] = i
        /\ \A k, l \in 1..Cardinality(P) : InOrder(P)[k] = InOrder(P)[l] => k = l
    BY <2>1, AtPlaces, Zenon
  <2> QED BY <2>2, Zenon DEF m
<1>4. Plains(fs, c) = [k \in 1..m |-> Plain(At(fs, P)[k][c])]
  BY <1>2, <1>3 DEF Plains
<1> HIDE DEF m
<1>5. \A k \in 1..m : At(fs, P)[k] \in Features
  BY <1>1, <1>2, <1>3
<1>6. \A x \in Value : Plain(x).val \in Int
  BY DEF Value, Plain, Num, Null, IsStringNumeric
<1>7. \A f \in Features : f[c] \in Value
  BY ValuesTyped
<1>8. \A k \in 1..m : Plains(fs, c)[k].val \in Int
  BY <1>4, <1>5, <1>6, <1>7
<1>9. IsList(Plains(fs, c), m)
  BY <1>4 DEF IsList
<1> QED BY <1>3, <1>8, <1>9 DEF m, P

\* The counts of a chart of one kind add up to the features with a value.
LEMMA ChartTotal ==
  ASSUME NEW n \in Nat, NEW fs, FeatureList(fs, n), NEW c \in {"sex", "n"}
  PROVE  Total(XYObjectByProperty(fs, c)) = Cardinality({i \in 1..n : fs[i][c] # Null})
<1> DEFINE s == Plains(fs, c)
           u == Uniq(s)
           keys == Sorted(u)
           l == Cardinality({i \in 1..n : fs[i][c] # Null})
<1>1. l \in Nat /\ IsList(s, l) /\ \A k \in 1..l : s[k].val \in Int
  BY PlainsOf, Zenon
<1> HIDE DEF s, l
<1>2. PICK m \in Nat : Lists(u, m, s, l)
  BY <1>1, UniqOnce, Zenon
<1> HIDE DEF u
<1>3. Lists(keys, m, s, l)
  BY <1>1, <1>2, SortedLists, Zenon
<1> HIDE DEF keys
<1>4. Total(Points(s, keys)) = l
  BY <1>1, <1>3, PointsTotal, Zenon
<1>5. XYObjectByProperty(fs, c) = Points(s, keys)
  BY DEF XYObjectByProperty, Points, keys, u, s
<1> QED BY <1>4, <1>5 DEF l

---------------------------------------------------------------------------
\* What there is of the state: features of a file, at least one.
StatsInv == features \in Seq(Features) /\ features # <<>>

\* Reading one more feature keeps it so.
LEMMA StatsInvariance == StatsSpec => []StatsInv
<1>1. StatsInit => StatsInv
  BY DEF StatsInit, StatsInv
<1>2. StatsInv /\ [StatsNext]_features => StatsInv'
  <2> SUFFICES ASSUME StatsInv, [StatsNext]_features PROVE StatsInv'
    OBVIOUS
  <2>1. CASE StatsNext
    <3>1. PICK f \in Features : features' = Append(features, f)
      BY <2>1 DEF StatsNext, Add
    <3> QED BY <3>1 DEF StatsInv
  <2>2. CASE UNCHANGED features
    BY <2>2 DEF StatsInv
  <2> QED BY <2>1, <2>2
<1> QED BY <1>1, <1>2, PTL DEF StatsSpec

\* The features are a list, and so is each column of them.
LEMMA FeaturesListed ==
  ASSUME StatsInv
  PROVE  /\ Len(features) \in Nat /\ Len(features) # 0 /\ DOMAIN features = 1..Len(features)
         /\ FeatureList(features, Len(features))
         /\ \A i \in 1..Len(features) : features[i] \in Features
         /\ \A c : IsList(Column(c), Len(features)) /\ Len(Column(c)) = Len(features)
         /\ \A c : \A i \in 1..Len(features) : Column(c)[i] = features[i][c]
<1>1. /\ Len(features) \in Nat /\ Len(features) # 0 /\ DOMAIN features = 1..Len(features)
      /\ features = [i \in 1..Len(features) |-> features[i]]
      /\ \A i \in 1..Len(features) : features[i] \in Features
  BY DEF StatsInv
<1>2. \A c : Column(c) = [i \in 1..Len(features) |-> features[i][c]]
  BY <1>1 DEF Column
<1>3. \A c : /\ IsList(Column(c), Len(features)) /\ Len(Column(c)) = Len(features)
             /\ \A i \in 1..Len(features) : Column(c)[i] = features[i][c]
  BY <1>1, <1>2 DEF IsList
<1>4. FeatureList(features, Len(features))
  BY <1>1, Zenon DEF FeatureList, IsList
<1> QED BY <1>1, <1>3, <1>4

\* Those with a value and those without are all.
LEMMA WithValue ==
  ASSUME StatsInv, NEW c
  PROVE  Cardinality({i \in 1..Len(features) : features[i][c] # Null})
         = Len(features) - Count(Column(c), Null)
<1> DEFINE n == Len(features)
           I == {i \in 1..n : features[i][c] = Null}
<1>1. n \in Nat /\ DOMAIN Column(c) = 1..n /\ \A i \in 1..n : Column(c)[i] = features[i][c]
  BY FeaturesListed DEF IsList
<1> HIDE DEF n
<1>2. IsFiniteSet(1..n) /\ Cardinality(1..n) = n
  BY <1>1, FS_Interval
<1>3. /\ {i \in 1..n : features[i][c] # Null} = (1..n) \ I
      /\ (1..n) \cap I = I
  OBVIOUS
<1>4. {i \in DOMAIN Column(c) : Column(c)[i] = Null} = I
  BY <1>1
<1> HIDE DEF I
<1>5. Cardinality((1..n) \ I) = Cardinality(1..n) - Cardinality((1..n) \cap I)
  BY <1>2, FS_Difference
<1> QED BY <1>2, <1>3, <1>4, <1>5 DEF Count, n

\* The years of the features, and what is counted of them.
YearsList == [i \in DOMAIN features |-> YearOf(features[i])]
YearSet == {YearOf(features[i]) : i \in DOMAIN features}
OfYear(y, v) == {i \in DOMAIN features : YearOf(features[i]) = y /\ features[i].sex = v}

\* YearKeys has the years of the features, each once.
LEMMA YearsInOrder ==
  ASSUME StatsInv
  PROVE  /\ IsFiniteSet(YearSet) /\ YearSet \in SUBSET Int /\ Cardinality(YearSet) \in Nat
         /\ IsList(YearsList, Len(features))
         /\ Lists(YearKeys, Cardinality(YearSet), YearsList, Len(features))
         /\ \A k \in 1..Cardinality(YearSet) : YearKeys[k] \in YearSet
         /\ Len(YearKeys) = Cardinality(YearSet)
<1> DEFINE n == Len(features)
           m == Cardinality(YearSet)
<1>1. n \in Nat /\ DOMAIN features = 1..n /\ \A i \in 1..n : YearOf(features[i]) \in Nat
  BY FeaturesListed, ValuesTyped
<1>2. IsFiniteSet(1..n)
  BY <1>1, FS_Interval
<1>3. YearSet \in SUBSET Int
  BY <1>1 DEF YearSet
<1>4. YearsList \in Surjection(1..n, YearSet)
  BY <1>1 DEF YearsList, YearSet, Surjection
<1>5. IsFiniteSet(YearSet)
  BY <1>2, <1>4, FS_Surjection
<1>6. IsList(YearsList, n) /\ \A i \in 1..n : YearsList[i] = YearOf(features[i])
  BY <1>1 DEF IsList, YearsList
<1>7. /\ m \in Nat
      /\ YearKeys \in [1..m -> YearSet]
      /\ \A y \in YearSet : \E k \in 1..m : YearKeys[k] = y
      /\ \A k, l \in 1..m : k < l <=> YearKeys[k] < YearKeys[l]
  BY <1>3, <1>5, Ascends DEF YearKeys, YearSet
<1> HIDE DEF m, n
<1>8. \A k, l \in 1..m : YearKeys[k] = YearKeys[l] => k = l
  <2> SUFFICES ASSUME NEW k \in 1..m, NEW l \in 1..m, YearKeys[k] = YearKeys[l]
               PROVE  k = l
    OBVIOUS
  <2>1. YearKeys[k] \in Int /\ YearKeys[l] \in Int
    BY <1>3, <1>7
  <2>2. ~ (k < l) /\ ~ (l < k)
    BY <2>1, <1>7
  <2> QED BY <2>2, <1>7
<1>9. \A k \in 1..m : YearKeys[k] \in YearSet
  BY <1>7
<1>10. \A k \in 1..m : \E i \in 1..n : YearKeys[k] = YearsList[i]
  <2> TAKE k \in 1..m
  <2>1. PICK i \in 1..n : YearKeys[k] = YearOf(features[i])
    BY <1>1, <1>9 DEF YearSet
  <2> QED BY <2>1, <1>6
<1>11. \A i \in 1..n : \E k \in 1..m : YearKeys[k] = YearsList[i]
  <2> TAKE i \in 1..n
  <2>1. YearsList[i] \in YearSet
    BY <1>1, <1>6 DEF YearSet
  <2> QED BY <2>1, <1>7
<1>12. IsList(YearKeys, m) /\ Len(YearKeys) = m
  BY <1>7 DEF IsList
<1> QED BY <1>3, <1>5, <1>6, <1>7, <1>8, <1>9, <1>10, <1>11, <1>12 DEF Lists, m, n

\* A row of propertyCountByProperty has the sexes of that year, with how many
\* features of that year and sex there are.
LEMMA RowsCount ==
  ASSUME StatsInv, NEW y \in YearSet
  PROVE  /\ DOMAIN PropertyCountByYear = YearSet
         /\ \A v : v \in DOMAIN PropertyCountByYear[y] <=> OfYear(y, v) # {}
         /\ \A v \in DOMAIN PropertyCountByYear[y] : PropertyCountByYear[y][v] = Cardinality(OfYear(y, v))
         /\ \A v : CountOf(y, v) = Cardinality(OfYear(y, v))
<1> DEFINE sexes == {features[i].sex : i \in {j \in DOMAIN features : YearOf(features[j]) = y}}
<1>1. PropertyCountByYear = [z \in YearSet |->
        [v \in {features[i].sex : i \in {j \in DOMAIN features : YearOf(features[j]) = z}} |->
           Cardinality(OfYear(z, v))]]
  BY Zenon DEF PropertyCountByYear, YearSet, OfYear
<1>2. PropertyCountByYear[y] = [v \in sexes |-> Cardinality(OfYear(y, v))]
  BY <1>1
<1>3. \A v : v \in sexes <=> OfYear(y, v) # {}
  BY DEF OfYear
<1>4. DOMAIN PropertyCountByYear = YearSet
  BY <1>1
<1> HIDE DEF sexes
<1>5. /\ \A v : v \in DOMAIN PropertyCountByYear[y] <=> OfYear(y, v) # {}
      /\ \A v \in DOMAIN PropertyCountByYear[y] : PropertyCountByYear[y][v] = Cardinality(OfYear(y, v))
  BY <1>2, <1>3
<1>6. \A v : CountOf(y, v) = Cardinality(OfYear(y, v))
  BY <1>5, FS_EmptySet DEF CountOf
<1> QED BY <1>4, <1>5, <1>6

\* Every feature of a year is of one of the two sexes.
LEMMA SexesOfYear ==
  ASSUME StatsInv, NEW y \in YearSet
  PROVE  CountOf(y, Male) + CountOf(y, Female) = Count(YearsList, y)
<1> DEFINE M == OfYear(y, Male)
           F == OfYear(y, Female)
<1>1. Len(features) \in Nat /\ DOMAIN features = 1..Len(features)
  BY FeaturesListed
<1>2. \A i \in DOMAIN features : features[i].sex \in {Male, Female}
  BY FeaturesListed, ValuesTyped
<1>3. Male # Female
  BY DEF Male, Female, Word
<1>4. M \in SUBSET (1..Len(features)) /\ F \in SUBSET (1..Len(features))
  BY <1>1 DEF OfYear
<1>5. M \cap F = {}
  BY <1>3 DEF OfYear
<1>6. {i \in DOMAIN YearsList : YearsList[i] = y} = M \cup F
  BY <1>2 DEF YearsList, OfYear
<1> HIDE DEF M, F
<1>7. IsFiniteSet(M) /\ IsFiniteSet(F) /\ Cardinality(M) \in Nat /\ Cardinality(F) \in Nat
  BY <1>1, <1>4, PlacesFinite
<1>8. Cardinality(M \cup F) = Cardinality(M) + Cardinality(F) - Cardinality({})
  BY <1>5, <1>7, FS_Union
<1>9. Cardinality(M \cup F) = Cardinality(M) + Cardinality(F)
  BY <1>7, <1>8, FS_EmptySet
<1>10. CountOf(y, Male) = Cardinality(M) /\ CountOf(y, Female) = Cardinality(F)
  BY RowsCount DEF M, F
<1> QED BY <1>6, <1>9, <1>10 DEF Count

\* The counts by value, by kind and by year.
LEMMA CountsOfFeatures == StatsInv => CountsAddUp
<1> SUFFICES ASSUME StatsInv PROVE CountsAddUp
  OBVIOUS
<1> DEFINE n == Len(features)
<1>1. n \in Nat /\ FeatureList(features, n)
  BY FeaturesListed
<1>2. \A c : IsList(Column(c), n)
  BY FeaturesListed
<1> HIDE DEF n
<1>3. \A c : Total(PropertyCount(c, GetPropertyValues(c))) = n
  <2> TAKE c
  <2> DEFINE s == Column(c)
             u == Uniq(s)
  <2>1. n \in Nat /\ IsList(s, n)
    BY <1>1, <1>2
  <2> HIDE DEF s
  <2>2. PICK m \in Nat : Lists(u, m, s, n)
    BY <2>1, UniqOnce, Zenon
  <2> HIDE DEF u
  <2>3. Total(Points(s, u)) = n
    BY <2>1, <2>2, PointsTotal, Zenon
  <2>4. PropertyCount(c, GetPropertyValues(c)) = Points(s, u)
    BY DEF PropertyCount, GetPropertyValues, Points, s, u
  <2> QED BY <2>3, <2>4
<1>4. \A c \in {"sex", "n"} : Total(XYObjectByProperty(features, c)) = n - Count(Column(c), Null)
  <2> TAKE c \in {"sex", "n"}
  <2>1. Total(XYObjectByProperty(features, c)) = Cardinality({i \in 1..n : features[i][c] # Null})
    BY <1>1, ChartTotal, Zenon
  <2> QED BY <2>1, WithValue DEF n
<1>5. Sum([k \in DOMAIN YearKeys |-> CountOf(YearKeys[k], Male) + CountOf(YearKeys[k], Female)]) = n
  <2> DEFINE m == Cardinality(YearSet)
  <2>1. /\ m \in Nat /\ IsList(YearsList, n) /\ Lists(YearKeys, m, YearsList, n)
        /\ \A k \in 1..m : YearKeys[k] \in YearSet
    BY YearsInOrder DEF n
  <2> HIDE DEF m
  <2>2. Sum(Counts(YearsList, YearKeys, m)) = n
    BY <2>1, <1>1, CountsTotal, Zenon
  <2>3. DOMAIN YearKeys = 1..m
    BY <2>1 DEF Lists, IsList
  <2>4. \A k \in 1..m : CountOf(YearKeys[k], Male) + CountOf(YearKeys[k], Female) = Count(YearsList, YearKeys[k])
    BY <2>1, SexesOfYear
  <2> QED BY <2>2, <2>3, <2>4 DEF Counts
<1>6. ASSUME NEW c \in {"sex", "n"}
      PROVE  LET chart == ArrayPlotProps(c) IN
               CASE chart.type = "continuous" -> Len(chart.data) = n
                 [] chart.type = "cardinal" -> Total(chart.data) = n - Count(Column(c), Null)
                 [] chart.type = "null" -> UniqueValues(c)
  <2>1. CASE MostlyNumbers(c)
    <3>1. ArrayPlotProps(c) = [type |-> "continuous",
                               data |-> [i \in DOMAIN features |-> [x |-> Num(i - 1), y |-> features[i][c]]]]
      BY <2>1 DEF ArrayPlotProps
    <3>2. Len([i \in DOMAIN features |-> [x |-> Num(i - 1), y |-> features[i][c]]]) = n
      BY FeaturesListed DEF n
    <3> QED BY <3>1, <3>2
  <2>2. CASE ~ MostlyNumbers(c) /\ UniqueValues(c)
    <3>1. ArrayPlotProps(c) = [type |-> "null", data |-> <<>>]
      BY <2>2 DEF ArrayPlotProps
    <3> QED BY <2>2, <3>1
  <2>3. CASE ~ MostlyNumbers(c) /\ ~ UniqueValues(c)
    <3>1. ArrayPlotProps(c) = [type |-> "cardinal", data |-> XYObjectByProperty(features, c)]
      BY <2>3 DEF ArrayPlotProps
    <3> QED BY <1>4, <3>1
  <2> QED BY <2>1, <2>2, <2>3
<1> QED BY <1>3, <1>4, <1>5, <1>6 DEF CountsAddUp, n

\* Whichever features a file has, propertyCount, xyObjectByProperty,
\* propertyCountByProperty and arrayPlotProps count each of them that has a
\* value, once.
THEOREM CountedOnce == StatsSpec => []CountsAddUp
BY StatsInvariance, CountsOfFeatures, PTL

---------------------------------------------------------------------------
\* The values that a domain is made of, as they come.
Coloured(c) == {i \in 1..Len(features) : Truthy(features[i][c])}
Colours(c) == [k \in 1..Cardinality(Coloured(c)) |-> DomainValue(features[InOrder(Coloured(c))[k]][c])]

\* A value of a column that is worth something still is as a number.
LEMMA DomainValueKept ==
  ASSUME NEW x \in Value
  PROVE  /\ DomainValue(x).val \in Int
         /\ Truthy(x) => Truthy(DomainValue(x))
         /\ Truthy(x) /\ x.kind \in {"number", "text", "null"} /\ x # Text(0)
              => DomainValue(x) = Num(x.val)
<1>1. CASE x = Null
  BY <1>1 DEF Null, DomainValue, Truthy
<1>2. CASE x \in [kind : {"number", "text", "word", "date"}, val : Int]
  <2>1. /\ x = [kind |-> x.kind, val |-> x.val] /\ x.val \in Int
        /\ x.kind \in {"number", "text", "word", "date"}
    BY <1>2
  <2>2. x.kind = "text" /\ x.val = 0 => x = Text(0)
    BY <2>1 DEF Text
  <2>3. x.kind = "number" => (Truthy(x) <=> x.val # 0)
    BY DEF Truthy
  <2>4. x.kind \in {"text", "word", "date"} => Truthy(x)
    BY DEF Truthy
  <2>5. \A v \in Int : Truthy(Num(v)) <=> v # 0
    BY DEF Truthy, Num
  <2>6. /\ x.kind \in {"number", "text"} /\ x.val # 0 => DomainValue(x) = Num(x.val)
        /\ ~ (x.kind \in {"number", "text"} /\ x.val # 0) => DomainValue(x) = x
    BY DEF DomainValue
  <2>7. \A v \in Int : Num(v).val = v
    BY DEF Num
  <2> QED BY <2>1, <2>2, <2>3, <2>4, <2>5, <2>6, <2>7
<1> QED BY <1>1, <1>2 DEF Value

\* generateDomain: sorted or not, each value of the features that have one,
\* once; and ascending if sorted.
LEMMA DomainListed ==
  ASSUME StatsInv, NEW c \in {"sex", "n"}
  PROVE  /\ Cardinality(Coloured(c)) \in Nat
         /\ \A k \in 1..Cardinality(Coloured(c)) :
              \E i \in Coloured(c) : Colours(c)[k] = DomainValue(features[i][c])
         /\ \A i \in Coloured(c) :
              \E k \in 1..Cardinality(Coloured(c)) : Colours(c)[k] = DomainValue(features[i][c])
         /\ \E m \in Nat :
              /\ Lists(GenerateDomain(c), m, Colours(c), Cardinality(Coloured(c)))
              /\ (\A k \in 1..Cardinality(Coloured(c)) : Colours(c)[k].kind = "number")
                 => \A k, l \in 1..m : k < l => GenerateDomain(c)[k].val <= GenerateDomain(c)[l].val
<1> DEFINE n == Len(features)
           P == Coloured(c)
           m == Cardinality(P)
           s == Colours(c)
<1>1. n \in Nat /\ DOMAIN features = 1..n /\ \A i \in 1..n : features[i] \in Features
  BY FeaturesListed
<1>2. /\ P \in SUBSET (1..n)
      /\ {i \in DOMAIN features : Truthy(features[i][c])} = P
  BY <1>1 DEF Coloured
<1> HIDE DEF n, P, m, s
<1>3. /\ Cardinality(P) \in Nat
      /\ DOMAIN At(features, P) = 1..Cardinality(P)
      /\ Len(At(features, P)) = Cardinality(P)
      /\ InOrder(P) \in [1..Cardinality(P) -> P]
      /\ \A k \in 1..Cardinality(P) : At(features, P)[k] = features[InOrder(P)[k]]
      /\ \A i \in P : \E k \in 1..Cardinality(P) : InOrder(P)[k] = i
      /\ \A k, l \in 1..Cardinality(P) : InOrder(P)[k] = InOrder(P)[l] => k = l
  <2>1. n \in Nat /\ P \in SUBSET (1..n)
    BY <1>1, <1>2
  <2> QED BY <2>1, AtPlaces, Zenon
<1>4. /\ s = [k \in 1..m |-> DomainValue(features[InOrder(P)[k]][c])]
      /\ [k \in DOMAIN At(features, P) |-> DomainValue(At(features, P)[k][c])] = s
  BY <1>3 DEF Colours, s, m, P
<1>5. DomainValues(c) = Uniq(s)
  BY <1>2, <1>4 DEF DomainValues
<1>6. IsList(s, m)
  BY <1>4 DEF IsList
<1>7. m \in Nat
  BY <1>3 DEF m
<1>8. PICK l \in Nat : Lists(DomainValues(c), l, s, m)
  BY <1>5, <1>6, <1>7, UniqOnce, Zenon
<1>9. \A i \in P : features[i][c] \in Value
  BY <1>1, <1>2, ValuesTyped
<1>10. \A k \in 1..m : InOrder(P)[k] \in P /\ s[k] = DomainValue(features[InOrder(P)[k]][c])
  BY <1>3, <1>4 DEF m
<1>11. \A k \in 1..m : s[k].val \in Int
  BY <1>9, <1>10, DomainValueKept
<1> DEFINE numbers == \A i \in DOMAIN DomainValues(c) : DomainValues(c)[i].kind = "number"
<1>12. /\ Lists(Sorted(DomainValues(c)), l, s, m)
       /\ \A j, k \in 1..l : j < k => Sorted(DomainValues(c))[j].val <= Sorted(DomainValues(c))[k].val
  BY <1>7, <1>8, <1>11, SortedLists, Zenon
<1>13. (\A k \in 1..m : s[k].kind = "number") => numbers
  <2>1. DOMAIN DomainValues(c) = 1..l /\ \A k \in 1..l : \E i \in 1..m : DomainValues(c)[k] = s[i]
    BY <1>8 DEF Lists, IsList
  <2> QED BY <2>1
<1>14. /\ numbers => GenerateDomain(c) = Sorted(DomainValues(c))
       /\ ~ numbers => GenerateDomain(c) = DomainValues(c)
  BY DEF GenerateDomain
<1> HIDE DEF numbers
<1>15. /\ Lists(GenerateDomain(c), l, s, m)
       /\ (\A k \in 1..m : s[k].kind = "number")
            => \A j, k \in 1..l : j < k => GenerateDomain(c)[j].val <= GenerateDomain(c)[k].val
  BY <1>8, <1>12, <1>13, <1>14, Zenon
<1>16. \A i \in P : \E k \in 1..m : s[k] = DomainValue(features[i][c])
  <2> TAKE i \in P
  <2>1. PICK k \in 1..m : InOrder(P)[k] = i
    BY <1>3 DEF m
  <2> QED BY <2>1, <1>10
<1> QED BY <1>7, <1>10, <1>15, <1>16 DEF m, s, P

\* The value of a feature is found once in the domain, and two numbers of a
\* sorted domain are not the same.
LEMMA ColoursOfFeatures == StatsInv => DomainColours
<1> SUFFICES ASSUME StatsInv PROVE DomainColours
  OBVIOUS
<1>1. ASSUME NEW c \in {"sex", "n"}, NEW i \in DOMAIN features, Truthy(features[i][c])
      PROVE  Cardinality(ColourIndex(features[i], c)) = 1
  <2> DEFINE v == DomainValue(features[i][c])
             D == GenerateDomain(c)
             s == Colours(c)
             n == Cardinality(Coloured(c))
  <2>1. i \in Coloured(c) /\ features[i][c] \in Value
    BY <1>1, FeaturesListed, ValuesTyped DEF Coloured
  <2>2. PICK m \in Nat : Lists(D, m, s, n)
    BY DomainListed
  <2>3. PICK k \in 1..n : s[k] = v
    BY <2>1, DomainListed
  <2>4. Truthy(v)
    BY <2>1, <1>1, DomainValueKept
  <2>5. ColourIndex(features[i], c) = {j \in DOMAIN D : D[j] = v}
    BY <2>4 DEF ColourIndex
  <2> HIDE DEF v, D, s, n
  <2>6. PICK j \in 1..m : D[j] = v
    BY <2>2, <2>3 DEF Lists
  <2>7. DOMAIN D = 1..m /\ \A x, y \in 1..m : D[x] = D[y] => x = y
    BY <2>2 DEF Lists, IsList
  <2>8. ColourIndex(features[i], c) = {j}
    BY <2>5, <2>6, <2>7
  <2> QED BY <2>8, FS_Singleton
<1>2. ASSUME \A i \in DOMAIN features : features[i].n.kind \in {"number", "text", "null"} /\ features[i].n # Text(0)
      PROVE  \A i, j \in DOMAIN GenerateDomain("n") :
               i < j => GenerateDomain("n")[i].val < GenerateDomain("n")[j].val
  <2> DEFINE D == GenerateDomain("n")
             s == Colours("n")
             n == Cardinality(Coloured("n"))
  <2>1. \A i \in Coloured("n") : \E x \in Int : DomainValue(features[i].n) = Num(x)
    <3> TAKE i \in Coloured("n")
    <3>1. /\ i \in DOMAIN features /\ features[i].n \in Value
          /\ Truthy(features[i].n)
      BY FeaturesListed, ValuesTyped DEF Coloured
    <3>2. DomainValue(features[i].n) = Num(features[i].n.val)
      BY <1>2, <3>1, DomainValueKept
    <3>3. features[i].n.val \in Int
      BY <3>1 DEF Value, Null
    <3> QED BY <3>2, <3>3
  <2>2. \A k \in 1..n : \E x \in Int : s[k] = Num(x)
    <3> TAKE k \in 1..n
    <3>1. PICK i \in Coloured("n") : s[k] = DomainValue(features[i].n)
      BY DomainListed
    <3> QED BY <3>1, <2>1
  <2>3. \A k \in 1..n : s[k].kind = "number"
    <3>1. \A x : Num(x).kind = "number"
      BY DEF Num
    <3> HIDE DEF n, s
    <3> QED BY <2>2, <3>1
  <2>4. PICK m \in Nat : /\ Lists(D, m, s, n)
                         /\ \A k, l \in 1..m : k < l => D[k].val <= D[l].val
    BY <2>3, DomainListed
  <2> HIDE DEF D, s, n
  <2>5. DOMAIN D = 1..m
    BY <2>4 DEF Lists, IsList
  <2>6. \A k \in 1..m : \E x \in Int : D[k] = Num(x)
    BY <2>2, <2>4 DEF Lists
  <2>7. \A k, l \in 1..m : k < l => D[k].val < D[l].val
    <3> SUFFICES ASSUME NEW k \in 1..m, NEW l \in 1..m, k < l
                 PROVE  D[k].val < D[l].val
      OBVIOUS
    <3>1. PICK x \in Int : D[k] = Num(x)
      BY <2>6
    <3>2. PICK y \in Int : D[l] = Num(y)
      BY <2>6
    <3>3. D[k] # D[l]
      BY <2>4 DEF Lists
    <3>4. D[k].val = x /\ D[l].val = y /\ x # y
      BY <3>1, <3>2, <3>3 DEF Num
    <3>5. D[k].val <= D[l].val
      BY <2>4
    <3> QED BY <3>4, <3>5
  <2> QED BY <2>5, <2>7 DEF D
<1> QED BY <1>1, <1>2 DEF DomainColours

\* A feature with a value has one place in what generateDomain returns, and so
\* one colour by colorScale, whatever the columns hold.
THEOREM OneColourEach == StatsSpec => []DomainColours
BY StatsInvariance, ColoursOfFeatures, PTL

---------------------------------------------------------------------------
\* A column without repetitions is the list of its values.
LEMMA KeyColumn ==
  ASSUME StatsInv, NEW c \in GetKeyColumns
  PROVE  GetPropertyValues(c) = Column(c)
<1> DEFINE n == Len(features)
           s == Column(c)
<1>1. n \in Nat /\ IsList(s, n)
  BY FeaturesListed
<1>2. Len(Uniq(s)) = n
  BY DEF GetKeyColumns, GetPropertyValues
<1> HIDE DEF n, s
<1>3. PICK m \in Nat : /\ m <= n /\ Len(Uniq(s)) = m /\ Lists(Uniq(s), m, s, n)
                       /\ m = n => Uniq(s) = s
  BY <1>1, UniqOnce, Zenon
<1> QED BY <1>2, <1>3 DEF GetPropertyValues, s

\* The x of a line are the years with both sexes, in the order they have
\* already, so sorting them alone moves none.
LEMMA PointsOfFeatures == StatsInv => PointsMatch
<1> SUFFICES ASSUME StatsInv PROVE PointsMatch
  OBVIOUS
<1> DEFINE counted(y) == Cardinality({i \in DOMAIN features : YearOf(features[i]) = y /\ features[i].sex = Male})
<1>1. \A y : counted(y) = Cardinality(OfYear(y, Male))
  BY DEF OfYear
<1> HIDE DEF counted
<1>2. \A i \in DOMAIN PlotByPropertyByDate.x :
        PlotByPropertyByDate.y[i] = counted(PlotByPropertyByDate.x[i])
  <2> DEFINE rows == PropertyCountByYear
             K == {y \in DOMAIN rows : DOMAIN rows[y] = {Male, Female}}
             keys == InOrder(K)
             r == LinesOfYears
             X == {r[i].x : i \in DOMAIN r}
  <2>1. PlotByPropertyByDate.x = InOrder(X) /\ PlotByPropertyByDate.y = [i \in DOMAIN r |-> r[i].y]
    BY DEF PlotByPropertyByDate
  <2>2. CASE Len(YearKeys) < 2
    <3>1. r = <<>>
      BY <2>2 DEF LinesOfYears
    <3>2. X = {}
      BY <3>1
    <3>3. DOMAIN InOrder({}) = {}
      BY FS_EmptySet DEF InOrder
    <3> QED BY <2>1, <3>2, <3>3
  <2>3. CASE ~ (Len(YearKeys) < 2)
    <3>1. r = [i \in DOMAIN keys |-> [x |-> keys[i], y |-> rows[keys[i]][Male]]]
      BY <2>3 DEF LinesOfYears
    <3>2. \E y : y \in YearSet
      <4>1. 1 \in DOMAIN features
        BY FeaturesListed
      <4> QED BY <4>1 DEF YearSet
    <3>3. DOMAIN rows = YearSet
      BY <3>2, RowsCount
    <3>4. K \in SUBSET YearSet /\ IsFiniteSet(YearSet) /\ YearSet \in SUBSET Int
      BY <3>3, YearsInOrder
    <3>5. K \in SUBSET Int /\ IsFiniteSet(K)
      BY <3>4, FS_Subset
    <3>6. \A y \in K : Male \in DOMAIN rows[y]
      OBVIOUS
    <3> HIDE DEF K, rows
    <3>7. /\ keys \in [1..Cardinality(K) -> K]
          /\ \A y \in K : \E k \in 1..Cardinality(K) : keys[k] = y
      BY <3>5, Ascends
    <3>8. \A y \in K : rows[y][Male] = Cardinality(OfYear(y, Male))
      BY <3>4, <3>6, RowsCount DEF rows
    <3> HIDE DEF keys, r
    <3>9. \A i \in 1..Cardinality(K) : r[i].x = keys[i] /\ r[i].y = rows[keys[i]][Male]
      BY <3>1, <3>7
    <3>10. DOMAIN r = 1..Cardinality(K)
      BY <3>1, <3>7
    <3>11. X = K
      <4>1. \A y : y \in X <=> \E i \in 1..Cardinality(K) : y = r[i].x
        BY <3>10
      <4> HIDE DEF X
      <4>2. \A y \in X : y \in K
        <5> TAKE y \in X
        <5>1. PICK i \in 1..Cardinality(K) : y = r[i].x
          BY <4>1
        <5>2. y = keys[i]
          BY <5>1, <3>9
        <5> QED BY <5>2, <3>7
      <4>3. \A y \in K : y \in X
        <5> TAKE y \in K
        <5>1. PICK k \in 1..Cardinality(K) : keys[k] = y
          BY <3>7
        <5> QED BY <5>1, <3>9, <4>1
      <4>4. \A y : y \in X <=> y \in K
        BY <4>2, <4>3
      <4> QED BY <4>4
    <3> HIDE DEF X
    <3>12. PlotByPropertyByDate.x = keys
      BY <2>1, <3>11 DEF keys
    <3> QED BY <2>1, <3>7, <3>8, <3>9, <3>10, <3>12, <1>1
  <2> QED BY <2>2, <2>3
<1>3. \A i \in DOMAIN PyramidPlot : PyramidPlot[i] = -1 \/ PyramidPlot[i] = counted(YearKeys[i])
  <2>1. CASE Len(YearKeys) = 1
    <3>1. PyramidPlot = <<>>
      BY <2>1 DEF PyramidPlot
    <3> QED BY <3>1
  <2>2. CASE Len(YearKeys) # 1
    <3>1. PyramidPlot = [i \in DOMAIN YearKeys |->
            IF Male \in DOMAIN PropertyCountByYear[YearKeys[i]] THEN PropertyCountByYear[YearKeys[i]][Male] ELSE -1]
      BY <2>2 DEF PyramidPlot
    <3>2. \A i \in DOMAIN YearKeys : YearKeys[i] \in YearSet
      BY YearsInOrder DEF Lists, IsList
    <3>3. \A i \in DOMAIN YearKeys : Male \in DOMAIN PropertyCountByYear[YearKeys[i]]
            => PropertyCountByYear[YearKeys[i]][Male] = counted(YearKeys[i])
      BY <3>2, <1>1, RowsCount
    <3> QED BY <3>1, <3>3
  <2> QED BY <2>1, <2>2
<1>4. \A c \in {"sex", "n"} : {"date", c} \subseteq GetKeyColumns =>
        \A i \in DOMAIN features :
          TimePlot(c).x[i] = features[i].date /\ TimePlot(c).y[i] = features[i][c]
  <2> SUFFICES ASSUME NEW c \in {"sex", "n"}, {"date", c} \subseteq GetKeyColumns, NEW i \in DOMAIN features
               PROVE  TimePlot(c).x[i] = features[i].date /\ TimePlot(c).y[i] = features[i][c]
    OBVIOUS
  <2>1. TimePlot(c).x = Column("date") /\ TimePlot(c).y = Column(c)
    BY KeyColumn DEF TimePlot
  <2> QED BY <2>1 DEF Column
<1> QED BY <1>2, <1>3, <1>4 DEF PointsMatch, counted

\* No point that plotByPropertyByDate, PyramidPlot or timePlot draws is another
\* year's or another feature's.
THEOREM PointsStay == StatsSpec => []PointsMatch
BY StatsInvariance, PointsOfFeatures, PTL

---------------------------------------------------------------------------
\* Where the pages of l rows are: the next begins where one ends.
LEMMA PagesApart ==
  ASSUME NEW l \in Nat \ {0}, NEW p \in Nat, NEW q \in Nat, p < q
  PROVE  p * l + l <= q * l
<1> DEFINE d == q - p - 1
<1>1. d \in Nat /\ q = p + 1 + d
  OBVIOUS
<1> HIDE DEF d
<1>2. d * l \in Nat /\ p * l \in Nat
  BY <1>1
<1>3. q * l = p * l + l + d * l
  BY <1>1
<1> QED BY <1>2, <1>3

\* A row after the first l is on some page.
LEMMA PageOfRow ==
  ASSUME NEW l \in Nat \ {0}, NEW i \in Nat, l < i
  PROVE  \E p \in Nat \ {0} : p * l + 1 <= i /\ i <= p * l + l
<1> DEFINE p == (i - 1) \div l
           q == (i - 1) % l
<1>1. p \in Nat /\ q \in 0..(l - 1) /\ i - 1 = l * p + q
  OBVIOUS
<1> HIDE DEF p, q
<1>2. p # 0
  BY <1>1
<1>3. l * p = p * l /\ p * l \in Nat
  BY <1>1
<1> QED BY <1>1, <1>2, <1>3

\* The plot with a limit, and the pages of the table.
LEMMA LimitsOfFeatures == StatsInv => LimitsShow
<1> SUFFICES ASSUME StatsInv PROVE LimitsShow
  OBVIOUS
<1> DEFINE n == Len(features)
<1>1. /\ n \in Nat /\ DOMAIN features = 1..n /\ FeatureList(features, n)
      /\ \A i \in 1..n : features[i] \in Features
  BY FeaturesListed
<1>2. Limit \in Nat \ {0}
  BY StatsAssumption DEF StatsAssumption
<1>3. ASSUME NEW m \in Nat, NEW fs, FeatureList(fs, m)
      PROVE  Total(XYObjectByProperty(fs, "sex")) = m
  <2>1. Total(XYObjectByProperty(fs, "sex")) = Cardinality({i \in 1..m : fs[i]["sex"] # Null})
    BY <1>3, ChartTotal
  <2>2. \A i \in 1..m : fs[i]["sex"] # Null
    BY <1>3, ValuesTyped DEF FeatureList
  <2>3. {i \in 1..m : fs[i]["sex"] # Null} = 1..m
    BY <2>2
  <2>4. Cardinality(1..m) = m
    BY FS_Interval
  <2> QED BY <2>1, <2>3, <2>4
<1>4. Total(PropertyPlot("sex", FALSE)) = IF n > Limit THEN Limit ELSE n
  <2>1. CASE n > Limit
    <3> DEFINE fs == SubSeq(features, 1, Limit)
    <3>1. fs = [i \in 1..Limit |-> features[i]]
      BY <2>1, <1>1, <1>2
    <3>2. FeatureList(fs, Limit)
      BY <3>1, <2>1, <1>1, <1>2 DEF FeatureList, IsList
    <3>3. PropertyPlot("sex", FALSE) = XYObjectByProperty(fs, "sex")
      BY <2>1 DEF PropertyPlot
    <3> HIDE DEF fs
    <3>4. Total(XYObjectByProperty(fs, "sex")) = Limit
      BY <3>2, <1>2, <1>3
    <3> QED BY <2>1, <3>3, <3>4
  <2>2. CASE ~ (n > Limit)
    <3>1. PropertyPlot("sex", FALSE) = XYObjectByProperty(features, "sex")
      BY <2>2 DEF PropertyPlot
    <3>2. Total(XYObjectByProperty(features, "sex")) = n
      BY <1>1, <1>3
    <3> QED BY <2>2, <3>1, <3>2
  <2> QED BY <2>1, <2>2
<1>5. ASSUME NEW i \in 1..n
      PROVE  Cardinality({p \in 1..NumPages : i \in TableRows(p)}) = IF n > Limit /\ i <= Limit THEN 0 ELSE 1
  <2> DEFINE pages == {p \in 1..NumPages : i \in TableRows(p)}
  <2>1. CASE ~ (n > Limit)
    <3>1. NumPages = 1 /\ \A p : i \in TableRows(p)
      BY <2>1, <1>1 DEF NumPages, TableRows
    <3>2. pages = {1}
      BY <3>1
    <3> HIDE DEF pages
    <3> QED BY <2>1, <3>2, FS_Singleton DEF pages
  <2>2. CASE n > Limit
    <3>1. \A p \in Nat : i \in TableRows(p) <=> p * Limit + 1 <= i /\ i <= p * Limit + Limit
      <4> TAKE p \in Nat
      <4>1. p * Limit \in Nat
        BY <1>2
      <4>2. TableRows(p) = (p * Limit + 1) .. (p * Limit + Limit) \intersect DOMAIN features
        BY <2>2 DEF TableRows
      <4> HIDE DEF n
      <4> QED BY <4>1, <4>2, <1>1, <1>2
    <3>2. NumPages = n \div Limit /\ NumPages \in Nat
      BY <2>2, <1>1, <1>2 DEF NumPages
    <3>3. CASE i <= Limit
      <4>1. \A p \in 1..NumPages : ~ (p * Limit + 1 <= i)
        <5> TAKE p \in 1..NumPages
        <5>1. 0 * Limit + Limit <= p * Limit
          BY <3>2, <1>2, PagesApart
        <5> QED BY <5>1, <3>3, <1>2
      <4>2. pages = {}
        BY <4>1, <3>1, <3>2
      <4> HIDE DEF pages
      <4> QED BY <4>2, <2>2, <3>3, FS_EmptySet DEF pages
    <3>4. CASE ~ (i <= Limit)
      <4>1. PICK p \in Nat \ {0} : p * Limit + 1 <= i /\ i <= p * Limit + Limit
        <5>1. i \in Nat /\ Limit < i
          BY <3>4, <1>1, <1>2
        <5> QED BY <5>1, <1>2, PageOfRow, Zenon
      <4>2. p <= NumPages
        <5>1. NumPages \in Nat /\ n < NumPages * Limit + Limit
          BY <3>2, <1>1, <1>2
        <5>2. ASSUME NumPages < p PROVE FALSE
          <6>1. NumPages * Limit + Limit <= p * Limit
            BY <5>1, <5>2, <1>2, PagesApart
          <6> QED BY <6>1, <5>1, <4>1, <1>1, <1>2
        <5> QED BY <5>1, <5>2
      <4>3. \A q \in 1..NumPages : i \in TableRows(q) => q = p
        <5> SUFFICES ASSUME NEW q \in 1..NumPages, i \in TableRows(q), q # p
                     PROVE  FALSE
          OBVIOUS
        <5>1. q * Limit + 1 <= i /\ i <= q * Limit + Limit
          BY <3>1, <3>2
        <5>2. p < q => p * Limit + Limit <= q * Limit
          BY <3>2, <1>2, PagesApart
        <5>3. q < p => q * Limit + Limit <= p * Limit
          BY <3>2, <1>2, PagesApart
        <5>4. p * Limit \in Nat /\ q * Limit \in Nat
          BY <3>2, <1>2
        <5> QED BY <5>1, <5>2, <5>3, <5>4, <4>1, <3>2, <1>2
      <4>4. p \in 1..NumPages /\ i \in TableRows(p)
        BY <4>1, <4>2, <3>1, <3>2
      <4>5. pages = {p}
        BY <4>3, <4>4
      <4> HIDE DEF pages
      <4> QED BY <4>5, <3>4, FS_Singleton DEF pages
    <3> QED BY <3>3, <3>4
  <2> QED BY <2>1, <2>2
<1> QED BY <1>1, <1>4, <1>5 DEF LimitsShow

\* PropertyPlot with a limit counts the first features only, and a row of the
\* table is on one page, but for the first ones, which no page of it shows.
THEOREM RowsShown == StatsSpec => []LimitsShow
BY StatsInvariance, LimitsOfFeatures, PTL
=============================================================================

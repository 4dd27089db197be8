-------------------------- MODULE PlotlyComponent --------------------------
(***************************************************************************)
(* The React class of components/showcases/factory.js around Plotly. Every *)
(* mount and every update of a plot adds two steps to a promise chain that *)
(* belongs to the instance and outlives it: the first calls Plotly.react,  *)
(* the second, when that is done, attaches listeners and calls the owner.  *)
(* A catch behind the two calls onError; what onError throws rejects the   *)
(* chain, and the steps of the next update are passed over to its catch.   *)
(* Several instances run at once; each is one element of Plots.            *)
(***************************************************************************)
EXTENDS Naturals, Sequences

CONSTANTS
  Plots,        \* the instances of the class
  Figures,      \* data, layout, config and number of frames, by identity
  Revisions,    \* the values of the prop revision
  Handlers,     \* functions given as onClick; the other events behave alike
  None,         \* no handler, no figure, no revision
  Given,        \* the props an owner may give
  Throwing,     \* the callbacks of the owner that may throw
  MaxUpdates    \* bound on the updates waiting in a chain

Props == [figure : Figures, revision : Revisions \union {None},
          onClick : Handlers \union {None}, useResizeHandler : BOOLEAN]

ASSUME PlotlyAssumption ==
  /\ None \notin Figures \union Revisions \union Handlers
  /\ Given \subseteq Props
  /\ Throwing \subseteq {"init", "update", "error", "purge"}
  /\ MaxUpdates \in Nat \ {0}

VARIABLES
  phase,          \* "new", "mounted" or "unmounted" (this.unmounting)
  props,
  chain,          \* this.p: the updates whose steps have not all run
  drawing,        \* the figure Plotly.react is at work on
  drawn,          \* the figure of the element
  failed,         \* the last draw of the instance failed
  rejected,       \* this.p is rejected: the last onError threw
  lost,           \* the last update was passed over, by a rejected this.p
  handlers,       \* this.handlers
  clicks,         \* on the element: how often each handler is attached
  updates,        \* on the element: how often handleUpdate is attached
  resizeHandler,  \* this.resizeHandler is set
  window,         \* listeners of the instance on the window
  heard,          \* the last callback of the owner, and
  initialized,    \* whether onInitialized was called
  purgeThrew      \* onPurge threw, in componentWillUnmount

element == <<drawn, clicks, updates>>
listeners == <<handlers, clicks, updates, resizeHandler, window>>
owner == <<heard, initialized, purgeThrew>>
outcome == <<failed, rejected, lost>>
vars == <<phase, props, chain, drawing, drawn, failed, rejected, lost, handlers,
          clicks, updates, resizeHandler, window, heard, initialized, purgeThrew>>

NoClicks == [h \in Handlers |-> 0]

TypeOK ==
  /\ phase \in [Plots -> {"new", "mounted", "unmounted"}]
  /\ props \in [Plots -> Props]
  /\ chain \in [Plots -> Seq({"init", "update"})]
  /\ drawing \in [Plots -> Figures \union {None}]
  /\ drawn \in [Plots -> Figures \union {None}]
  /\ failed \in [Plots -> BOOLEAN]
  /\ rejected \in [Plots -> BOOLEAN]
  /\ lost \in [Plots -> BOOLEAN]
  /\ handlers \in [Plots -> Handlers \union {None}]
  /\ clicks \in [Plots -> [Handlers -> Nat]]
  /\ updates \in [Plots -> Nat]
  /\ resizeHandler \in [Plots -> BOOLEAN]
  /\ window \in [Plots -> Nat]
  /\ heard \in [Plots -> {"none", "init", "update", "error", "purge"}]
  /\ initialized \in [Plots -> BOOLEAN]
  /\ purgeThrew \in [Plots -> BOOLEAN]

Init ==
  /\ phase = [p \in Plots |-> "new"]
  /\ props \in [Plots -> Given]
  /\ chain = [p \in Plots |-> <<>>]
  /\ drawing = [p \in Plots |-> None]
  /\ drawn = [p \in Plots |-> None]
  /\ failed = [p \in Plots |-> FALSE]
  /\ rejected = [p \in Plots |-> FALSE]
  /\ lost = [p \in Plots |-> FALSE]
  /\ handlers = [p \in Plots |-> None]
  /\ clicks = [p \in Plots |-> NoClicks]
  /\ updates = [p \in Plots |-> 0]
  /\ resizeHandler = [p \in Plots |-> FALSE]
  /\ window = [p \in Plots |-> 0]
  /\ heard = [p \in Plots |-> "none"]
  /\ initialized = [p \in Plots |-> FALSE]
  /\ purgeThrew = [p \in Plots |-> FALSE]

Is(f, p, value) == [f EXCEPT ![p] = value]

(* React: mounting, giving new props, unmounting.                          *)

Mount(p) ==
  /\ phase[p] = "new"
  /\ phase' = Is(phase, p, "mounted")
  /\ chain' = Is(chain, p, <<"init">>)
  /\ UNCHANGED <<props, drawing, drawn, outcome, listeners, owner>>

\* Mutant: only a revision asks for a redraw.
UpdateNeededByRevision(prev, next) ==
  prev.revision # None /\ prev.revision # next.revision

UpdateNeeded(prev, next) ==
  \/ prev.figure # next.figure
  \/ prev.revision # None /\ prev.revision # next.revision

Update(p, given) ==
  /\ phase[p] = "mounted"
  /\ Len(chain[p]) < MaxUpdates
  /\ props' = Is(props, p, given)
  /\ chain' = IF UpdateNeeded(props[p], given)
              THEN Is(chain, p, Append(chain[p], "update"))
              ELSE chain
  /\ UNCHANGED <<phase, drawing, drawn, outcome, listeners, owner>>

\* handleUpdate on the element, for all of updateEvents alike.
AttachUpdateEvents(p) == updates' = Is(updates, p, updates[p] + 1)
RemoveUpdateEvents(p) == updates' = Is(updates, p, 0)

\* Mutant: the listener on the window is left.
UnmountWindowKept(p) ==
  /\ phase[p] = "mounted"
  /\ phase' = Is(phase, p, "unmounted")
  /\ heard' = Is(heard, p, "purge")
  /\ clicks' = Is(clicks, p, NoClicks)
  /\ updates' = Is(updates, p, 0)
  /\ drawn' = Is(drawn, p, None)
  /\ UNCHANGED <<props, chain, drawing, outcome, handlers, resizeHandler,
                 window, initialized, purgeThrew>>

\* componentWillUnmount, and Plotly.purge, which empties the element and
\* drops its listeners. Whatever onPurge throws ends the method.
Unmount(p) ==
  /\ phase[p] = "mounted"
  /\ phase' = Is(phase, p, "unmounted")
  /\ heard' = Is(heard, p, "purge")
  /\ \/ /\ clicks' = Is(clicks, p, NoClicks)
        /\ RemoveUpdateEvents(p)
        /\ drawn' = Is(drawn, p, None)
        /\ resizeHandler' = Is(resizeHandler, p, FALSE)
        /\ window' = IF resizeHandler[p]
                     THEN Is(window, p, window[p] - 1)
                     ELSE window
        /\ UNCHANGED purgeThrew
     \/ /\ "purge" \in Throwing
        /\ purgeThrew' = Is(purgeThrew, p, TRUE)
        /\ UNCHANGED <<clicks, updates, drawn, resizeHandler, window>>
  /\ UNCHANGED <<props, chain, drawing, outcome, handlers, initialized>>

(* The promise chain: the head of chain[p] is the update at work, and      *)
(* drawing[p] tells whether its first step has called Plotly.react.        *)

React(p) ==
  /\ chain[p] # <<>> /\ drawing[p] = None
  /\ ~rejected[p]
  /\ phase[p] = "mounted"
  /\ drawing' = Is(drawing, p, props[p].figure)
  /\ UNCHANGED <<phase, props, chain, drawn, outcome, listeners, owner>>

Shift(p) ==
  /\ chain' = Is(chain, p, Tail(chain[p]))
  /\ drawing' = Is(drawing, p, None)

\* Both steps find the component unmounting.
Skip(p) ==
  /\ chain[p] # <<>>
  /\ ~rejected[p]
  /\ phase[p] = "unmounted"
  /\ Shift(p)
  /\ UNCHANGED <<phase, props, drawn, outcome, listeners, owner>>

\* The catch of an update. The promise it leaves is this.p.
OnError(p) ==
  /\ heard' = Is(heard, p, "error")
  /\ \E throws \in BOOLEAN :
       /\ throws => "error" \in Throwing
       /\ rejected' = Is(rejected, p, throws)

\* Plotly.react throws or rejects, before or after an unmount.
Reject(p) ==
  /\ chain[p] # <<>> /\ drawing[p] # None
  /\ OnError(p)
  /\ failed' = Is(failed, p, TRUE)
  /\ lost' = Is(lost, p, FALSE)
  /\ Shift(p)
  /\ UNCHANGED <<phase, props, drawn, listeners, initialized, purgeThrew>>

\* On a rejected this.p neither step runs; the catch hears the old error.
PassOver(p) ==
  /\ chain[p] # <<>> /\ rejected[p]
  /\ OnError(p)
  /\ lost' = Is(lost, p, TRUE)
  /\ Shift(p)
  /\ UNCHANGED <<phase, props, drawn, failed, listeners, initialized,
                 purgeThrew>>

SyncWindowResize(p) ==
  LET wants == props[p].useResizeHandler
  IN /\ resizeHandler' = Is(resizeHandler, p, wants)
     /\ window' = IF wants /\ ~resizeHandler[p] THEN Is(window, p, window[p] + 1)
                  ELSE IF ~wants /\ resizeHandler[p] THEN Is(window, p, window[p] - 1)
                  ELSE window

On(attached, h) == [attached EXCEPT ![h] = @ + 1]
RemoveListener(attached, h) == [attached EXCEPT ![h] = IF @ > 0 THEN @ - 1 ELSE 0]

\* Mutant: the old handler is not taken off the element.
SyncEventHandlersAdded(p) ==
  LET new == props[p].onClick
  IN /\ handlers' = Is(handlers, p, new)
     /\ clicks' = IF new # None /\ new # handlers[p]
                  THEN Is(clicks, p, On(clicks[p], new)) ELSE clicks

SyncEventHandlers(p) ==
  LET new == props[p].onClick
      old == handlers[p]
      bare == IF old # None THEN RemoveListener(clicks[p], old) ELSE clicks[p]
  IN /\ handlers' = Is(handlers, p, new)
     /\ clicks' = IF new = old THEN clicks
                  ELSE Is(clicks, p, IF new = None THEN bare ELSE On(bare, new))

\* Mutant: the second step does not look whether the component is unmounting.
SettledUnmounting(p) == drawing[p] # None

\* The second step goes on.
Settled(p) == drawing[p] # None /\ phase[p] = "mounted"

\* The owner's callback may throw: then onError, and no update events.
Settle(p) ==
  /\ chain[p] # <<>>
  /\ Settled(p)
  /\ drawn' = Is(drawn, p, drawing[p])
  /\ SyncWindowResize(p)
  /\ SyncEventHandlers(p)
  /\ initialized' = Is(initialized, p,
                       initialized[p] \/ Head(chain[p]) = "init")
  /\ \/ /\ heard' = Is(heard, p, Head(chain[p]))
        /\ IF Head(chain[p]) = "init"
           THEN AttachUpdateEvents(p) ELSE UNCHANGED updates
        /\ UNCHANGED rejected
     \/ /\ Head(chain[p]) \in Throwing
        /\ OnError(p)
        /\ UNCHANGED updates
  /\ failed' = Is(failed, p, FALSE)
  /\ lost' = Is(lost, p, FALSE)
  /\ Shift(p)
  /\ UNCHANGED <<phase, props, purgeThrew>>

\* Plotly emits one of updateEvents, on an element it still knows.
HandleUpdate(p) ==
  /\ updates[p] > 0
  /\ phase[p] = "mounted"
  /\ heard' = Is(heard, p, "update")
  /\ UNCHANGED <<phase, props, chain, drawing, drawn, outcome, listeners,
                 initialized, purgeThrew>>

Chain(p) == React(p) \/ Skip(p) \/ Reject(p) \/ PassOver(p) \/ Settle(p)

Next ==
  \E p \in Plots :
    \/ Mount(p) \/ Unmount(p) \/ \E given \in Given : Update(p, given)
    \/ Chain(p) \/ HandleUpdate(p)

Spec == Init /\ [][Next]_vars

\* Promises are settled by the browser and by Plotly in finite time.
FairSpec == Spec /\ \A p \in Plots : WF_vars(Chain(p))
-----------------------------------------------------------------------------
(* Properties                                                              *)

\* The instance and the element agree on what is attached: at most one
\* handler of the owner, the one in this.handlers, at most one handleUpdate,
\* and one listener on the window exactly while resizeHandler is set
\* (syncEventHandlers, syncWindowResize, attachUpdateEvents). That is what
\* the last redraw found in the props; a new handler alone brings no redraw.
ListenersMatch ==
  \A p \in Plots :
    /\ window[p] = IF resizeHandler[p] THEN 1 ELSE 0
    /\ updates[p] <= 1
    /\ phase[p] # "unmounted" =>
         clicks[p] = [h \in Handlers |-> IF h = handlers[p] THEN 1 ELSE 0]

\* Whatever was in flight when a plot was unmounted, its element and the
\* window are left without listeners and nothing is drawn later
\* (componentWillUnmount and the tests of this.unmounting in the chain).
NothingLeftBehind ==
  \A p \in Plots :
    phase[p] = "unmounted" /\ ~purgeThrew[p] =>
      /\ window[p] = 0 /\ updates[p] = 0
      /\ clicks[p] = NoClicks
      /\ drawn[p] = None

\* When the chain has run out, its last draw did not fail and its last update
\* was not passed over, the element shows the figure of the props, though the
\* updates that queued read the props when they run and not when they were
\* queued. (An onError that throws costs the plot the update behind it.)
SettledShowsProps ==
  \A p \in Plots :
    phase[p] = "mounted" /\ chain[p] = <<>> /\ ~failed[p] /\ ~lost[p] =>
      drawn[p] = props[p].figure

\* An owner that was told of the purge is not called again, but by onError,
\* and only for a draw that was in flight or an update queued behind an
\* onError that threw (the tests of this.unmounting).
PurgeIsLast ==
  [][\A p \in Plots :
       phase[p] = "unmounted" /\ heard'[p] # heard[p] =>
         heard'[p] = "error" /\ (drawing[p] # None \/ rejected[p])]_vars

\* A figure given to a mounted plot is drawn, unless drawing it fails, an
\* onError that threw before costs it the update, or another figure or an
\* unmount comes first.
FigureReached ==
  \A p \in Plots : \A f \in Figures :
    (phase[p] = "mounted" /\ props[p].figure = f)
      ~> (drawn[p] = f \/ failed[p] \/ lost[p] \/ props[p].figure # f
          \/ phase[p] = "unmounted")
=============================================================================

--------------------------- MODULE DisplayRegistry ---------------------------
(***************************************************************************)
(* The displays of system_sim_client: wt_server keeps their data behind    *)
(* dd_mx, the active state of the client fills and clears the data of its  *)
(* charts and posts updates to the pages of the browser, and the pages     *)
(* read the data and paint the system behind the mutex of the active state.*)
(*                                                                         *)
(* Three kinds of thread take part: the session of the terminal, on which  *)
(* commands are handled; the round, which advances the system, on the      *)
(* session's thread for a step and on its own for a run; and the pages.    *)
(*                                                                         *)
(* Abstractions: a critical section of dd_mx is one step; a chart's data   *)
(* are the frames it has points for; commands meet the control machine     *)
(* alone (ClientControl is about when they do not).  Left out: what a page *)
(* paints after the active state of its drawer has gone, and what updating *)
(* the deleted widget of a closed window does, which the code leaves       *)
(* undefined; and the text of the terminal.                                *)
(***************************************************************************)
EXTENDS Naturals, Sequences, FiniteSets, FiniteSetsExt, SequencesExt

CONSTANTS
    NumTerminals,   \* the terminals that a browser opens
    MaxDisplays,    \* bound on the displays
    MaxPages,       \* bound on the pages that open them
    MaxFrames,      \* bound on the frame count
    MaxEras         \* bound on the active states

ASSUME DisplayAssumption ==
    {NumTerminals, MaxDisplays, MaxPages, MaxFrames, MaxEras} \subseteq Nat

VARIABLES
    terminal,       \* the terminal that commands come from, 0 if none is open
    op,             \* op[t]: what is left to do of the command of terminal t
    activeState,    \* active: whether there is one, the how manieth, and its members
    round,          \* step_system: whose it is, where it is, and what is left of its loop
    interruptRun,   \* running::interrupt_request
    sysHolder,      \* who holds active::sys_mx
    ddHolder,       \* who holds dd_mx between get_display_data and release_display_data
    nextId,         \* next_id
    registry,       \* display_data_mp
    pages           \* the sessions of the display pages

displayVars == <<terminal, op, activeState, round, interruptRun, sysHolder, ddHolder,
                 nextId, registry, pages>>
lockVars == <<sysHolder, ddHolder>>
runVars == <<round, interruptRun>>

Terminals == 1..NumTerminals    \* in the order they open
Kinds == {"chart", "drawer"}
Pages == 1..MaxPages

NoOp == [do |-> "idle", id |-> 0, kind |-> "chart", todo |-> {}]
NoRound == [by |-> "none", at |-> "update", todo |-> {}, redraw |-> FALSE, ends |-> FALSE]
Inactive(n) ==
    [alive |-> FALSE, era |-> n, charts |-> {}, drawers |-> {}, frame |-> 0, complete |-> FALSE]
NoPage == [id |-> 0, open |-> FALSE, rows |-> << >>, pending |-> 0, dirty |-> FALSE]

DisplayInit ==
    /\ terminal = 0
    /\ op = [t \in Terminals |-> NoOp]
    /\ activeState = Inactive(0)
    /\ round = NoRound
    /\ interruptRun = FALSE
    /\ sysHolder = "none"
    /\ ddHolder = "none"
    /\ nextId = 1
    /\ registry = << >>
    /\ pages = [s \in Pages |-> NoPage]

-----------------------------------------------------------------------------
(* The registry.  Displays are never removed. *)

Registered == DOMAIN registry

\* create_wt_display: the browser is told to open the page once the data are there.
NewDisplay(id, kind) ==
    [i \in Registered \cup {id} |->
        IF i = id THEN [kind |-> kind, era |-> activeState.era, page |-> 0,
                        points |-> << >>, reload |-> FALSE]
        ELSE registry[i]]

\* Faulty: does not unlock.
AfterGetLocked(t, id) == t

\* get_display_data throws for an unknown id with the lock held.
AfterGet(t, id) == IF id \in Registered THEN "none" ELSE t

\* update_display: a page that is not open, or no longer, never gets what is posted to it.
Posted(id) ==
    [s \in Pages |-> IF s = registry[id].page /\ pages[s].open
                     THEN [pages[s] EXCEPT !.pending = @ + 1] ELSE pages[s]]

\* Faulty: the points are kept.
ClearedLater(id) == [registry EXCEPT ![id].reload = TRUE]

\* Faulty: the page is not told to start over.
ClearedSilently(id) == [registry EXCEPT ![id].points = << >>]

\* clear_chart_data; reload stays set for good.
Cleared(id) == [registry EXCEPT ![id].points = << >>, ![id].reload = TRUE]

\* store_chart_series_data, for one chart.
Stored(id) == [registry EXCEPT ![id].points = Append(@, activeState.frame)]

\* update_from_data of a chart with these rows.
Rows(rows, d) ==
    LET existing == IF d.reload THEN << >> ELSE rows
    IN existing \o SubSeq(d.points, Len(existing) + 1, Len(d.points))

-----------------------------------------------------------------------------
(* Terminals and commands. *)

\* Any but the first terminal is refused: "currently can't handler multiple sessions".
MayCommand(t) == terminal = t

OpenTerminal ==
    /\ terminal = 0
    /\ terminal' = 1
    /\ UNCHANGED <<op, activeState, lockVars, runVars, nextId, registry, pages>>

\* The session handles its events one after the other.
Accepts(t) == MayCommand(t) /\ op[t] = NoOp /\ round.by # "session"

\* A new active state, whose system has been initialized and has no displays.
Activated == [Inactive(activeState.era + 1) EXCEPT !.alive = TRUE]

Activate(t) ==
    /\ Accepts(t) /\ ~activeState.alive /\ activeState.era < MaxEras
    /\ activeState' = Activated
    /\ UNCHANGED <<terminal, op, lockVars, runVars, nextId, registry, pages>>

Paused == activeState.alive /\ round.by = "none"

\* chart and drawer: next_id is read, ...
Create(t, kind) ==
    /\ Accepts(t) /\ Paused /\ nextId <= MaxDisplays
    /\ kind = "chart" => ~activeState.complete
    /\ op' = [op EXCEPT ![t] = [NoOp EXCEPT !.do = "number", !.id = nextId, !.kind = kind]]
    /\ UNCHANGED <<terminal, activeState, lockVars, runVars, nextId, registry, pages>>

\* ... and written, outside dd_mx, ...
NumberDisplay(t) ==
    /\ op[t].do = "number"
    /\ nextId' = op[t].id + 1
    /\ op' = [op EXCEPT ![t].do = "register"]
    /\ UNCHANGED <<terminal, activeState, lockVars, runVars, registry, pages>>

\* ... the display is registered, ...
RegisterDisplay(t) ==
    /\ op[t].do = "register" /\ ddHolder = "none"
    /\ registry' = NewDisplay(op[t].id, op[t].kind)
    /\ op' = [op EXCEPT ![t].do = "add"]
    /\ UNCHANGED <<terminal, activeState, lockVars, runVars, nextId, pages>>

\* ... and the active state adds it to its own.
AddDisplay(t) ==
    /\ op[t].do = "add"
    /\ activeState' = IF op[t].kind = "chart"
                      THEN [activeState EXCEPT !.charts = @ \cup {op[t].id}]
                      ELSE [activeState EXCEPT !.drawers = @ \cup {op[t].id}]
    /\ op' = [op EXCEPT ![t] = NoOp]
    /\ UNCHANGED <<terminal, lockVars, runVars, nextId, registry, pages>>

MayRun == Paused /\ ~activeState.complete /\ activeState.frame < MaxFrames

\* step: one round on the session thread, with everything redrawn.
StepCmd(t) ==
    /\ Accepts(t) /\ MayRun
    /\ round' = [NoRound EXCEPT !.by = "session", !.redraw = TRUE]
    /\ UNCHANGED <<terminal, op, activeState, lockVars, interruptRun, nextId, registry, pages>>

\* run: without a frame rate nothing is redrawn.
RunCmd(t) ==
    /\ Accepts(t) /\ MayRun
    /\ \E redraw \in BOOLEAN : round' = [NoRound EXCEPT !.by = "runner", !.redraw = redraw]
    /\ interruptRun' = FALSE
    /\ UNCHANGED <<terminal, op, activeState, lockVars, nextId, registry, pages>>

\* Leaving the running state interrupts its thread and waits for it.
Leave(t, next) ==
    /\ interruptRun' = TRUE
    /\ op' = [op EXCEPT ![t] = [NoOp EXCEPT !.do = next]]

StopCmd(t) ==
    /\ Accepts(t) /\ round.by = "runner"
    /\ Leave(t, "stop")
    /\ UNCHANGED <<terminal, activeState, lockVars, round, nextId, registry, pages>>

ExitCmd(t) ==
    /\ Accepts(t) /\ activeState.alive
    /\ Leave(t, "exit")
    /\ UNCHANGED <<terminal, activeState, lockVars, round, nextId, registry, pages>>

\* reset_system: the system is initialized behind sys_mx, and the frame count restarts
\* while the run may still be on.
ResetCmd(t) ==
    /\ Accepts(t) /\ activeState.alive /\ sysHolder = "none" /\ activeState.era < MaxEras
    /\ activeState' = [activeState EXCEPT !.frame = 0, !.complete = FALSE]
    /\ op' = [op EXCEPT ![t] = [NoOp EXCEPT !.do = "clear", !.todo = activeState.charts]]
    /\ UNCHANGED <<terminal, lockVars, runVars, nextId, registry, pages>>

\* clear_all_chart_data: each chart is cleared, ...
ClearChart(t) ==
    /\ op[t].do = "clear" /\ op[t].todo # {} /\ ddHolder = "none"
    /\ LET id == Min(op[t].todo)
       IN /\ registry' = Cleared(id)
          /\ ddHolder' = AfterGet("session", id)
          /\ op' = [op EXCEPT ![t] = [@ EXCEPT !.do = "post", !.id = id]]
    /\ UNCHANGED <<terminal, activeState, sysHolder, runVars, nextId, pages>>

\* ... and its page told.
PostCleared(t) ==
    /\ op[t].do = "post" /\ ddHolder = "none"
    /\ pages' = Posted(op[t].id)
    /\ op' = [op EXCEPT ![t].do = "clear", ![t].todo = @ \ {op[t].id}]
    /\ UNCHANGED <<terminal, activeState, lockVars, runVars, nextId, registry>>

ChartsCleared(t) ==
    /\ op[t].do = "clear" /\ op[t].todo = {}
    /\ op' = [op EXCEPT ![t] = [@ EXCEPT !.do = "drawers", !.todo = activeState.drawers]]
    /\ UNCHANGED <<terminal, activeState, lockVars, runVars, nextId, registry, pages>>

PostDrawer(t) ==
    /\ op[t].do = "drawers" /\ op[t].todo # {} /\ ddHolder = "none"
    /\ pages' = Posted(Min(op[t].todo))
    /\ op' = [op EXCEPT ![t].todo = @ \ {Min(@)}]
    /\ UNCHANGED <<terminal, activeState, lockVars, runVars, nextId, registry>>

\* The reset system is given up: the machine leaves the active state and enters it anew.
DrawersPosted(t) ==
    /\ op[t].do = "drawers" /\ op[t].todo = {}
    /\ Leave(t, "renew")
    /\ UNCHANGED <<terminal, activeState, lockVars, round, nextId, registry, pages>>

\* ~running has returned; what the machine leaves is destroyed.
Joined(t) ==
    /\ op[t].do \in {"stop", "exit", "renew"} /\ round.by = "none"
    /\ activeState' = CASE op[t].do = "stop" -> activeState
                        [] op[t].do = "exit" -> Inactive(activeState.era)
                        [] op[t].do = "renew" -> Activated
    /\ op' = [op EXCEPT ![t] = NoOp]
    /\ UNCHANGED <<terminal, lockVars, runVars, nextId, registry, pages>>

-----------------------------------------------------------------------------
(* step_system *)

\* The system is advanced; it may report its end.
AdvanceSystem ==
    /\ round.by # "none" /\ round.at = "update" /\ sysHolder = "none"
    /\ \E ends \in BOOLEAN : round' = [round EXCEPT !.at = "lock", !.ends = ends]
    /\ UNCHANGED <<terminal, op, activeState, lockVars, interruptRun, nextId, registry, pages>>

\* store_chart_series_data holds sys_mx throughout, ...
LockSystem ==
    /\ round.at = "lock" /\ sysHolder = "none"
    /\ sysHolder' = "round"
    /\ round' = [round EXCEPT !.at = "store", !.todo = activeState.charts]
    /\ UNCHANGED <<terminal, op, activeState, ddHolder, interruptRun, nextId, registry, pages>>

\* ... and dd_mx for each chart.
StoreChart ==
    /\ round.at = "store" /\ round.todo # {} /\ ddHolder = "none"
    /\ LET id == Min(round.todo)
       IN registry' = Stored(id) /\ ddHolder' = AfterGet("round", id)
    /\ round' = [round EXCEPT !.todo = @ \ {Min(@)}]
    /\ UNCHANGED <<terminal, op, activeState, sysHolder, interruptRun, nextId, pages>>

UnlockSystem ==
    /\ round.at = "store" /\ round.todo = {}
    /\ sysHolder' = "none"
    /\ round' = [round EXCEPT !.at = "redraw",
                              !.todo = IF round.redraw THEN activeState.charts \cup activeState.drawers
                                       ELSE {}]
    /\ UNCHANGED <<terminal, op, activeState, ddHolder, interruptRun, nextId, registry, pages>>

\* redraw_all_charts and redraw_all_system_views
Redraw ==
    /\ round.at = "redraw" /\ round.todo # {} /\ ddHolder = "none"
    /\ pages' = Posted(Min(round.todo))
    /\ round' = [round EXCEPT !.todo = @ \ {Min(@)}]
    /\ UNCHANGED <<terminal, op, activeState, lockVars, interruptRun, nextId, registry>>

\* The frame is counted.  A run goes on unless it is interrupted or the system has ended;
\* a run that has ended completes the active state.
EndRound ==
    /\ round.at = "redraw" /\ round.todo = {}
    /\ LET goesOn == round.by = "runner" /\ ~round.ends /\ ~interruptRun
       IN /\ goesOn => activeState.frame + 1 < MaxFrames
          /\ round' = IF goesOn THEN [round EXCEPT !.at = "update"] ELSE NoRound
    /\ activeState' = [activeState EXCEPT !.frame = @ + 1, !.complete = @ \/ round.ends]
    /\ UNCHANGED <<terminal, op, lockVars, interruptRun, nextId, registry, pages>>

-----------------------------------------------------------------------------
(* Pages. *)

\* A window opens the URL of a display; a second one takes its place in the registry.
OpenPage(s, id) ==
    /\ id \in Registered /\ pages[s] = NoPage /\ ddHolder = "none"
    /\ \A r \in 1..(s - 1) : pages[r] # NoPage
    /\ registry' = [registry EXCEPT ![id].page = s]
    /\ pages' = [pages EXCEPT ![s] = [NoPage EXCEPT !.id = id, !.open = TRUE,
                                            !.dirty = registry[id].kind = "drawer"]]
    /\ UNCHANGED <<terminal, op, activeState, lockVars, runVars, nextId>>

\* The session expires with the window, and what was posted to it is dropped.
ClosePage(s) ==
    /\ pages[s].open /\ sysHolder # "page"
    /\ pages' = [pages EXCEPT ![s] = [NoPage EXCEPT !.id = pages[s].id]]
    /\ UNCHANGED <<terminal, op, activeState, lockVars, runVars, nextId, registry>>

\* A posted update: the session it was posted to updates the widget that the registry
\* has by then, behind dd_mx; a drawer is painted afterwards.  Nothing is shown of the
\* update of a widget whose window has closed.
RunPosted(s) ==
    LET d == registry[pages[s].id]
        w == d.page
        served == [pages EXCEPT ![s].pending = @ - 1]
    IN /\ pages[s].pending > 0 /\ ddHolder = "none"
       /\ pages' = CASE ~pages[w].open -> served
                     [] pages[w].open /\ d.kind = "chart" -> [served EXCEPT ![w].rows = Rows(@, d)]
                     [] pages[w].open /\ d.kind # "chart" -> [served EXCEPT ![w].dirty = TRUE]
       /\ UNCHANGED <<terminal, op, activeState, lockVars, runVars, nextId, registry>>

\* paintEvent, while the active state lives whose mutex the drawer has.
BeginPaint(s) ==
    /\ pages[s].open /\ pages[s].dirty /\ sysHolder = "none"
    /\ registry[pages[s].id].kind = "drawer"
    /\ activeState.alive /\ registry[pages[s].id].era = activeState.era
    /\ sysHolder' = "page"
    /\ pages' = [pages EXCEPT ![s].dirty = FALSE]
    /\ UNCHANGED <<terminal, op, activeState, ddHolder, runVars, nextId, registry>>

EndPaint ==
    /\ sysHolder = "page"
    /\ sysHolder' = "none"
    /\ UNCHANGED <<terminal, op, activeState, ddHolder, runVars, nextId, registry, pages>>

-----------------------------------------------------------------------------

CommandStarts(t) ==
    \/ Activate(t)
    \/ \E kind \in Kinds : Create(t, kind)
    \/ StepCmd(t) \/ RunCmd(t) \/ StopCmd(t) \/ ExitCmd(t) \/ ResetCmd(t)

CommandGoesOn(t) ==
    \/ NumberDisplay(t) \/ RegisterDisplay(t) \/ AddDisplay(t)
    \/ ClearChart(t) \/ PostCleared(t) \/ ChartsCleared(t)
    \/ PostDrawer(t) \/ DrawersPosted(t) \/ Joined(t)

RoundGoesOn ==
    AdvanceSystem \/ LockSystem \/ StoreChart \/ UnlockSystem \/ Redraw \/ EndRound

PageEvent(s) ==
    \/ \E id \in 1..MaxDisplays : OpenPage(s, id)
    \/ ClosePage(s) \/ RunPosted(s) \/ BeginPaint(s)

DisplayNext ==
    \/ OpenTerminal
    \/ \E t \in Terminals : CommandStarts(t) \/ CommandGoesOn(t)
    \/ RoundGoesOn
    \/ \E s \in Pages : PageEvent(s)
    \/ EndPaint

\* Threads go on, and a mutex that becomes free again and again is had in the end.
DisplayFairness ==
    /\ \A t \in Terminals : SF_displayVars(CommandGoesOn(t))
    /\ SF_displayVars(RoundGoesOn)
    /\ WF_displayVars(EndPaint)

DisplaySpec == DisplayInit /\ [][DisplayNext]_displayVars /\ DisplayFairness

-----------------------------------------------------------------------------
(* Properties *)

\* Someone is about to post an update of the display to its page.
UpdateOnItsWay(id) ==
    \/ \E s \in Pages : pages[s].id = id /\ pages[s].pending > 0
    \/ \E t \in Terminals : op[t].do = "post" /\ op[t].id = id

\* The page of a chart shows an initial part of its data, or an update is on its way that
\* makes it: points of a run that has been cleared are not shown for good, however the
\* clearing and the storing of two threads and the updates of the pages interleave.
ShownIsStored ==
    \A id \in Registered :
        LET d == registry[id] IN
        d.kind = "chart" /\ d.page # 0 /\ pages[d.page].open =>
            IsPrefix(pages[d.page].rows, d.points) \/ UpdateOnItsWay(id)

\* The points of a chart are of one run: their frames ascend, but while a reset, which
\* sets the frame count back before it clears the charts, has yet to clear them.
RunsNotMixed ==
    \A id \in Registered :
        \/ \A i, j \in DOMAIN registry[id].points :
               i < j => registry[id].points[i] < registry[id].points[j]
        \/ \E t \in Terminals : op[t].do \in {"clear", "post"} /\ id \in op[t].todo

\* No display gets the id of another, although next_id is counted without a lock: only
\* one terminal can make them.
IdsFresh ==
    \A t \in Terminals : op[t].do \in {"number", "register"} =>
        /\ op[t].id \notin Registered
        /\ \A u \in Terminals \ {t} : op[u].do \in {"number", "register"} => op[u].id # op[t].id

\* Every command ends: nobody waits for ever for dd_mx, which get_display_data leaves
\* locked, for sys_mx, which a painting page and a round hold, or for the run thread.
CommandsEnd == \A t \in Terminals : (op[t] # NoOp) ~> (op[t] = NoOp)

=============================================================================

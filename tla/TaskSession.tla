----------------------------- MODULE TaskSession -----------------------------
(***************************************************************************)
(* One conversation session and the tasks it starts: the message handlers, *)
(* confirm, pause, resume, cancel and status of                            *)
(* ConversationApplicationService, the runs they schedule on the event     *)
(* loop, the callback at the end of a run, and the recovery at start-up.   *)
(*                                                                         *)
(* The files are the session (status, ctx) and one task_state.json per     *)
(* task (store); each run works on a TaskState object of its own.  All of  *)
(* the service's file operations are synchronous, so a handler is one step *)
(* unless it awaits the router or an adapter; a run is one step from one   *)
(* await to the next.  Abstracted: messages, papers, events, memories, the *)
(* revision limit and write errors (TaskRun), and comparison tasks.        *)
(***************************************************************************)
EXTENDS Naturals, FiniteSets

CONSTANTS NumPhases,    \* phases of a task
          Messages,     \* message requests in progress at the same time
          MaxTokens,    \* bound: confirmation tokens issued
          MaxTasks,     \* bound: tasks created
          MaxRuns,      \* bound: runs alive at the same time
          MaxCrashes    \* bound: restarts of the service

ASSUME SizesAssumption ==
    /\ {NumPhases, MaxRuns} \subseteq Nat \ {0}
    /\ {MaxTokens, MaxTasks, MaxCrashes} \subseteq Nat

VARIABLES status,       \* ConversationSession.status
          ctx,          \* ConversationSession.context and active_task_id
          store,        \* task_state.json of each task
          runs,         \* the runs and their objects
          live,         \* ConversationApplicationService._task_states
          msgs,         \* message handlers suspended at an await
          leased,       \* tasks whose lease file was left by a recovery
          tokens,       \* confirmation tokens issued
          started,      \* history: tasks started with each token
          strayed,      \* history: known departures from the intended order
          crashes

vars == <<status, ctx, store, runs, live, msgs, leased, tokens, started, strayed,
          crashes>>

-----------------------------------------------------------------------------
Phases == 1..NumPhases
Completed == NumPhases + 1
Failed == 0
Tasks == 1..MaxTasks
Runs == 1..MaxRuns
Tokens == 1..MaxTokens

Statuses == {"active", "waiting_user_input", "waiting_confirmation", "running", "paused",
             "cancelled", "completed", "failed", "closed"}
Lives == {"none", "running", "paused", "cancelled", "completed", "failed"}
Controls == {"none", "pause", "cancel"}

\* pending (a confirmation token) and task are 0 when the field is None.
Context == [pending: 0..MaxTokens, task: 0..MaxTasks]
NoContext == [pending |-> 0, task |-> 0]

TaskState == [phase: 0..Completed, life: Lives, control: Controls]
NoTask == [phase |-> 1, life |-> "none", control |-> "none"]

\* ready: scheduled; flow and hooks: at an await; done: returned, its callback
\* is pending.
RunPcs == {"none", "ready", "flow", "hooks", "done"}
Run == [pc: RunPcs, task: 0..MaxTasks, recovered: BOOLEAN, obj: TaskState]
NoRun == [pc |-> "none", task |-> 0, recovered |-> FALSE, obj |-> NoTask]

Alive(r) == runs[r].pc # "none"
\* The slot of a new run: the first free one.
FreeRuns == {r \in Runs : ~Alive(r) /\ \A q \in 1..(r - 1) : Alive(q)}

Message == [pc: {"idle", "routing", "executing"}, seen: Context]
NoMessage == [pc |-> "idle", seen |-> NoContext]

\* overlap: a task was resumed while a run of it lived.  unbound: a handler
\* with an old context dropped active_task_id.  orphan: a confirmed task was
\* created and bound, and then not started.
Departures == {"overlap", "unbound", "orphan"}

-----------------------------------------------------------------------------
(* Plausible bugs.                                                         *)

SkipPhase(p) == p + 2
NoHolder(t) == 0
NotRegistered(t, r) == live
PauseOnlyMarked(s) == [s EXCEPT !.life = "paused"]
RequestForgotten(run, o) ==
    [run EXCEPT !.pc = IF o.phase \in Phases THEN "flow" ELSE "hooks", !.obj = o]
OnlyUnstarted(s) == s.life = "none"

-----------------------------------------------------------------------------
(* Operators of the code.                                                  *)

\* SESSION_STATUS_TRANSITIONS
Transitions == [s \in Statuses |->
    CASE s = "active" -> {"active", "waiting_user_input", "waiting_confirmation", "running",
                          "failed", "closed"}
      [] s = "waiting_user_input" -> {"waiting_user_input", "active", "waiting_confirmation",
                                      "failed", "closed"}
      [] s = "waiting_confirmation" -> {"waiting_confirmation", "active", "running", "failed",
                                        "closed"}
      [] s = "running" -> {"running", "paused", "cancelled", "completed", "failed"}
      [] s = "paused" -> {"paused", "running", "cancelled", "completed", "failed", "closed"}
      [] s = "failed" -> {"failed", "active"}
      [] OTHER -> {s}]

\* update_status: a forbidden transition raises and leaves the file alone.
Become(s) == status' = IF s \in Transitions[status] THEN s ELSE status

\* _TERMINAL_SESSION_STATUSES
TerminalStatuses == {"cancelled", "completed", "failed", "closed"}

Departs(d, condition) == strayed' = strayed \cup (IF condition THEN {d} ELSE {})

\* update_context; active_task_id follows the context that is written.
WriteContext(c) ==
    /\ ctx' = c
    /\ Departs("unbound", ctx.task # 0 /\ c.task = 0)

\* PHASE_TRANSITIONS
NextPhase(p) == p + 1

\* _task_states.get(task_id): the run whose object a request changes, if any.
Holder(t) == live[t]

\* _ensure_stages_initialized on a restored state
Reinitialized(s) == [s EXCEPT !.phase = IF @ = Completed THEN 1 ELSE @]

\* confirm() starts a task only while none is bound to the session.
MayStart(c) == c.pending # 0 /\ c.task = 0

\* The context that _start_processing_task writes.
ClearedContext(c, t) == [c EXCEPT !.pending = 0, !.task = t]

\* The loop of run() from its top to the next await or to its end.
FromLoopTop(run, o) ==
    CASE o.phase = Completed ->
            [run EXCEPT !.pc = "hooks", !.obj = [o EXCEPT !.life = "completed"]]
      [] o.phase = Failed ->
            [run EXCEPT !.pc = "hooks", !.obj = [o EXCEPT !.life = "failed"]]
      [] o.phase \in Phases /\ o.control = "pause" ->
            [run EXCEPT !.pc = "done", !.obj = [o EXCEPT !.life = "paused"]]
      [] o.phase \in Phases /\ o.control = "cancel" ->
            [run EXCEPT !.pc = "done", !.obj = [o EXCEPT !.life = "cancelled"]]
      [] OTHER -> [run EXCEPT !.pc = "flow", !.obj = o]

\* The session status that _on_task_done derives from the object of the run.
StatusOf(o) == IF o.life \in {"paused", "cancelled", "completed"} THEN o.life ELSE "failed"

\* _task_states[task_id] = ... and _task_states.pop(task_id)
Registered(t, r) == [live EXCEPT ![t] = r]
EntryDropped(r) == [live EXCEPT ![runs[r].task] = 0]

\* resume() and recover_once() restore the file and drop the request in it.
Restored(s) == [Reinitialized(s) EXCEPT !.control = "none", !.life = "running"]

\* The lifecycle statuses the recovery scan looks for; a task is "pending" only
\* inside one step of this model.
IsCandidate(s) == s.life = "running"

NewRun(t, s, recovered) == [pc |-> "ready", task |-> t, recovered |-> recovered, obj |-> s]

-----------------------------------------------------------------------------
Init ==
    /\ status = "active"
    /\ ctx = NoContext
    /\ store = [t \in Tasks |-> NoTask]
    /\ runs = [r \in Runs |-> NoRun]
    /\ live = [t \in Tasks |-> 0]
    /\ msgs = [m \in Messages |-> NoMessage]
    /\ leased = [t \in Tasks |-> FALSE]
    /\ tokens = 0
    /\ started = [k \in Tokens |-> 0]
    /\ strayed = {}
    /\ crashes = 0

RunVars == <<store, runs, live, leased>>

-----------------------------------------------------------------------------
(* handle_message.                                                         *)

\* A message that names a paper of an earlier search is answered at once.
SelectCandidate ==
    /\ status \notin TerminalStatuses
    /\ Become("active")
    /\ UNCHANGED <<ctx, RunVars, msgs, tokens, started, strayed, crashes>>

\* Any other message waits for the router; the session read before is kept.
Send(m) ==
    /\ msgs[m].pc = "idle"
    /\ status \notin TerminalStatuses
    /\ msgs' = [msgs EXCEPT ![m] = [pc |-> "routing", seen |-> ctx]]
    /\ UNCHANGED <<status, ctx, RunVars, tokens, started, strayed, crashes>>

Answered(m) == msgs' = [msgs EXCEPT ![m] = NoMessage]

RoutedUnmatched(m) ==
    /\ msgs[m].pc = "routing"
    /\ Become("waiting_user_input")
    /\ UNCHANGED <<ctx, RunVars, tokens, started, strayed, crashes>>
    /\ Answered(m)

\* A capability that must be confirmed leaves a pending action.  An explicit
\* paper makes the handler read the session again; else it writes what it saw.
RoutedPending(m) ==
    /\ msgs[m].pc = "routing"
    /\ tokens < MaxTokens
    /\ tokens' = tokens + 1
    /\ \E base \in {msgs[m].seen, ctx} : WriteContext([base EXCEPT !.pending = tokens'])
    /\ Become("waiting_confirmation")
    /\ UNCHANGED <<RunVars, started, crashes>>
    /\ Answered(m)

RoutedToAdapter(m) ==
    /\ msgs[m].pc = "routing"
    /\ msgs' = [msgs EXCEPT ![m].pc = "executing"]
    /\ UNCHANGED <<status, ctx, RunVars, tokens, started, strayed, crashes>>

\* The capability is unknown, denied, or fails, or needs no further change.
AnsweredOnly(m) ==
    /\ msgs[m].pc \in {"routing", "executing"}
    /\ UNCHANGED <<status, ctx, RunVars, tokens, started, strayed, crashes>>
    /\ Answered(m)

\* _persist_search_result, from the session read before the two awaits.
SearchFinished(m) ==
    /\ msgs[m].pc = "executing"
    /\ WriteContext(msgs[m].seen)
    /\ Become("waiting_confirmation")
    /\ UNCHANGED <<RunVars, tokens, started, crashes>>
    /\ Answered(m)

-----------------------------------------------------------------------------
(* confirm, pause, resume, cancel, refresh_status.                         *)

\* The id of a new task: the first that was not given out.
FreeTasks == {t \in Tasks : store[t].life = "none" /\ \A q \in 1..(t - 1) : store[q].life # "none"}

\* The task is created, saved and bound before update_status may raise.
Confirm ==
    /\ MayStart(ctx)
    /\ \E t \in FreeTasks :
          LET s == [phase |-> 1, life |-> "running", control |-> "none"]
              allowed == "running" \in Transitions[status]
          IN  /\ store' = [store EXCEPT ![t] = s]
              /\ ctx' = ClearedContext(ctx, t)
              /\ started' = [started EXCEPT ![ctx.pending] = @ + 1]
              /\ Become("running")
              /\ Departs("orphan", ~allowed)
              /\ \/ /\ allowed
                    /\ \E r \in FreeRuns : /\ runs' = [runs EXCEPT ![r] = NewRun(t, s, FALSE)]
                                          /\ live' = Registered(t, r)
                 \/ ~allowed /\ UNCHANGED <<runs, live>>
    /\ UNCHANGED <<msgs, leased, tokens, crashes>>

\* _bound_task
Bound == ctx.task # 0

\* The object of the live run, or a copy read from the file, is changed and saved.
Request(o(_)) ==
    LET t == ctx.task
        r == Holder(t)
        s == IF r = 0 THEN o(store[t]) ELSE o(runs[r].obj)
    IN  /\ store' = [store EXCEPT ![t] = s]
        /\ runs' = IF r = 0 THEN runs ELSE [runs EXCEPT ![r].obj = s]

PauseRequested(s) == [s EXCEPT !.control = "pause"]
CancelRequested(s) == [s EXCEPT !.control = "cancel", !.life = "cancelled"]

Pause ==
    /\ Bound
    /\ status = "running"
    /\ Request(PauseRequested)
    /\ Become("paused")
    /\ UNCHANGED <<ctx, live, leased, msgs, tokens, started, strayed, crashes>>

Cancel ==
    /\ Bound
    /\ status \in {"running", "paused"}
    /\ Request(CancelRequested)
    /\ Become("cancelled")
    /\ UNCHANGED <<ctx, live, leased, msgs, tokens, started, strayed, crashes>>

\* A new object is restored from the file and a new run scheduled for it.
Resume ==
    /\ Bound
    /\ status = "paused"
    /\ LET t == ctx.task
           s == Restored(store[t])
       IN  /\ store' = [store EXCEPT ![t] = s]
           /\ \E r \in FreeRuns : /\ runs' = [runs EXCEPT ![r] = NewRun(t, s, FALSE)]
                                 /\ live' = Registered(t, r)
           /\ Departs("overlap", \E r \in Runs : Alive(r) /\ runs[r].task = t)
    /\ Become("running")
    /\ UNCHANGED <<ctx, leased, msgs, tokens, started, crashes>>

\* GET of the status, and a repeated confirmation.
RefreshStatus ==
    /\ Bound
    /\ status \notin TerminalStatuses
    /\ Become(store[ctx.task].life)
    /\ UNCHANGED <<ctx, RunVars, msgs, tokens, started, strayed, crashes>>

-----------------------------------------------------------------------------
(* Runs.                                                                   *)

Saved(run) == store' = [store EXCEPT ![run.task] = run.obj]

RunBegins(r) ==
    /\ runs[r].pc = "ready"
    /\ LET run == runs[r]
           next == IF run.obj.life \in {"cancelled", "completed", "failed"}
                   THEN [run EXCEPT !.pc = "done"]
                   ELSE FromLoopTop(run, [run.obj EXCEPT !.life = "running"])
       IN  /\ runs' = [runs EXCEPT ![r] = next]
           /\ IF run.obj.life \in {"cancelled", "completed", "failed"} \/ next.pc = "flow"
              THEN UNCHANGED store
              ELSE Saved(next)
    /\ UNCHANGED <<status, ctx, live, leased, msgs, tokens, started, strayed, crashes>>

\* A phase passed, is to be revised, or failed; the object is saved and the
\* loop goes on to its next await.
FlowEnds(r) ==
    /\ runs[r].pc = "flow"
    /\ \E o \in {[runs[r].obj EXCEPT !.phase = NextPhase(@)], runs[r].obj,
                 [runs[r].obj EXCEPT !.phase = Failed, !.life = "failed"]} :
          LET next == FromLoopTop(runs[r], o)
          IN  /\ runs' = [runs EXCEPT ![r] = next]
              /\ Saved(next)
    /\ UNCHANGED <<status, ctx, live, leased, msgs, tokens, started, strayed, crashes>>

HooksEnd(r) ==
    /\ runs[r].pc = "hooks"
    /\ runs' = [runs EXCEPT ![r].pc = "done"]
    /\ UNCHANGED <<status, ctx, store, live, leased, msgs, tokens, started, strayed, crashes>>

\* _on_task_done of a run scheduled by the service.
TaskDone(r) ==
    /\ runs[r].pc = "done" /\ ~runs[r].recovered
    /\ runs' = [runs EXCEPT ![r] = NoRun]
    /\ live' = EntryDropped(r)
    /\ Become(StatusOf(runs[r].obj))
    /\ UNCHANGED <<ctx, store, leased, msgs, tokens, started, strayed, crashes>>

\* _on_task_done of a recovered run is called from inside the run: result() of
\* the unfinished asyncio task raises, and the session is marked failed.
RecoveredTaskDone(r) ==
    /\ runs[r].pc = "done" /\ runs[r].recovered
    /\ runs' = [runs EXCEPT ![r] = NoRun]
    /\ leased' = [leased EXCEPT ![runs[r].task] = FALSE]
    /\ live' = EntryDropped(r)
    /\ Become("failed")
    /\ UNCHANGED <<ctx, store, msgs, tokens, started, strayed, crashes>>

-----------------------------------------------------------------------------
(* Restart of the service.                                                 *)

\* _candidate_states and _is_recoverable
Recoverable == ctx.task # 0 /\ status = "running" /\ IsCandidate(store[ctx.task])

Lost == [r \in Runs |-> NoRun]

Stop ==
    /\ crashes < MaxCrashes
    /\ crashes' = crashes + 1
    /\ msgs' = [m \in Messages |-> NoMessage]
    /\ UNCHANGED <<status, ctx, tokens, started, strayed>>

\* Nothing is recovered: there is nothing to recover, or the lease of the
\* process that was lost has not expired.
RestartIdle ==
    /\ Stop
    /\ Recoverable => leased[ctx.task]
    /\ runs' = Lost
    /\ live' = [t \in Tasks |-> 0]
    /\ UNCHANGED <<store, leased>>

\* recover_once restores the task, without the request it may have held.
RestartRecovers ==
    /\ Stop
    /\ Recoverable
    /\ LET t == ctx.task
           s == Restored(store[t])
       IN  /\ store' = [store EXCEPT ![t] = s]
           /\ runs' = [Lost EXCEPT ![1] = NewRun(t, s, TRUE)]
           /\ live' = [[q \in Tasks |-> 0] EXCEPT ![t] = 1]
           /\ leased' = [leased EXCEPT ![t] = TRUE]

-----------------------------------------------------------------------------
RunStep(r) ==
    RunBegins(r) \/ FlowEnds(r) \/ HooksEnd(r) \/ TaskDone(r) \/ RecoveredTaskDone(r)

MessageStep(m) ==
    \/ Send(m) \/ RoutedUnmatched(m) \/ RoutedPending(m) \/ RoutedToAdapter(m)
    \/ AnsweredOnly(m) \/ SearchFinished(m)

Next ==
    \/ \E m \in Messages : MessageStep(m)
    \/ SelectCandidate
    \/ Confirm \/ Pause \/ Cancel \/ Resume \/ RefreshStatus
    \/ \E r \in Runs : RunStep(r)
    \/ RestartIdle \/ RestartRecovers

\* The event loop runs every scheduled run, and its awaits come back; users
\* are not obliged to do anything.
Spec == Init /\ [][Next]_vars /\ \A r \in Runs : WF_vars(RunStep(r))

-----------------------------------------------------------------------------
(* Properties.                                                             *)

\* Every variable keeps its type.
TypeOK ==
    /\ status \in Statuses
    /\ ctx \in Context
    /\ store \in [Tasks -> TaskState]
    /\ runs \in [Runs -> Run]
    /\ live \in [Tasks -> 0..MaxRuns]
    /\ msgs \in [Messages -> Message]
    /\ leased \in [Tasks -> BOOLEAN]
    /\ tokens \in 0..MaxTokens
    /\ started \in [Tokens -> 0..MaxTasks]
    /\ strayed \subseteq Departures
    /\ crashes \in 0..MaxCrashes

\* Nothing happened yet of what the code lets happen against its documents.
Orderly == strayed = {}

\* pause and cancel change the object of the run that works on the task: no run
\* goes on behind the back of _task_states.
RequestsReachTheRun ==
    Orderly => \A r \in Runs : Alive(r) => runs[r].task = ctx.task /\ live[ctx.task] = r

\* A paused session is quiet: what still runs has been told to stop at its
\* next safe point, or is past the last one.
PausedSessionIsQuiet ==
    (Orderly /\ status = "paused") =>
        \A r \in Runs : Alive(r) => runs[r].obj.control = "pause"

\* A session that says running is served: some run works on its task, or the task has
\* ended and the next look at the status will say so; or the process was lost and the
\* task waits for the next restart, because the lease of a lost recovery was in the way,
\* or because it had been told to pause and a look at the status made it running again.
RunningSessionIsServed ==
    (Orderly /\ status = "running") =>
        \/ \E r \in Runs : Alive(r)
        \/ store[ctx.task].life \in {"paused", "cancelled", "completed", "failed"}
        \/ Recoverable /\ (leased[ctx.task] \/ store[ctx.task].control = "pause")

\* A completed session has a completed task, and a cancelled one has a task
\* whose file keeps the request, whatever its run still saves.
EndAgreesWithTask ==
    (Orderly /\ Bound) =>
        /\ status = "completed" => store[ctx.task].life = "completed"
        /\ status = "cancelled" => store[ctx.task].control = "cancel"

\* What the session says of its task is true: of a paused one, a running one and an
\* ended one.
SessionAgrees == PausedSessionIsQuiet /\ RunningSessionIsServed /\ EndAgreesWithTask

\* A run that was told to pause or to cancel ends, even if its phase is
\* revised for ever.
RequestsAreObeyed ==
    \A r \in Runs : (Alive(r) /\ runs[r].obj.control # "none") ~> ~Alive(r)

-----------------------------------------------------------------------------
(* What the documents say and the code does not do.                        *)

\* P34: "the same task is not confirmed or resumed twice or run at the same
\* time".
OneRunPerTask ==
    \A q, r \in Runs : (Alive(q) /\ Alive(r) /\ runs[q].task = runs[r].task) => q = r

\* P34: "confirming the same token again must not create a second task".
TokenStartsOneTask == \A k \in Tokens : started[k] <= 1

\* P34, table of the state mapping: the session of a completed task is completed.
CompletedTaskNotFailed ==
    ~(Bound /\ status = "failed" /\ store[ctx.task].life = "completed")
=============================================================================

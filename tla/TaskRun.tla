------------------------------- MODULE TaskRun -------------------------------
(***************************************************************************)
(* One research task driven by MultiAgentOrchestrator.run: the phase loop, *)
(* its verdicts, the pause and cancel requests of the conversation layer,  *)
(* write errors, and the loss of the process followed by a restart from    *)
(* task_state.json.                                                        *)
(*                                                                         *)
(* A step ends at each write that a later reader can observe (the manifest *)
(* and task_state.json) and at each await that really yields (the phase    *)
(* flow, the hooks).  Files are replaced atomically (atomic_write_json).   *)
(* A task has at most one run here; overlapping runs of one task are the   *)
(* subject of TaskSession.  Abstracted: the contents of plans, outputs and *)
(* evaluations, the timestamped copies under checkpoints/ (nothing reads   *)
(* them back) and the tasks index.                                         *)
(***************************************************************************)
EXTENDS Naturals

CONSTANTS NumPhases,      \* number of phases the task works through
          MaxRevisions,   \* settings.budget.max_revisions_per_stage
          Limits,         \* the wall-time budgets a task may be given
          MaxWall,        \* bound: wall time saturates here
          MaxCrashes,     \* bound: processes lost
          MaxFaults       \* bound: writes that fail

ASSUME NumPhasesAssumption == NumPhases \in Nat \ {0}
ASSUME MaxRevisionsAssumption == MaxRevisions \in Nat
ASSUME LimitsAssumption == Limits \subseteq Nat
ASSUME BoundsAssumption == MaxWall \in Nat /\ MaxCrashes \in Nat /\ MaxFaults \in Nat

VARIABLES pc,         \* where the run is
          mem,        \* the TaskState object of the run
          disk,       \* task_state.json
          manifest,   \* manifest.json of the task
          cur,        \* the local variable phase of the loop body
          verdict,    \* eval_result.verdict of the loop body
          limit,      \* Budget.max_wall_time_minutes
          wall,       \* time since run() set _task_start_time, one unit per flow
          flows,      \* history: how often the flow of each phase was entered
          cancelled,  \* history: a cancel request was accepted
          crashes, faults

vars == <<pc, mem, disk, manifest, cur, verdict, limit, wall, flows, cancelled,
          crashes, faults>>

-----------------------------------------------------------------------------
Phases == 1..NumPhases
Completed == NumPhases + 1
Failed == 0

Lives == {"pending", "running", "paused", "cancelled", "completed", "failed"}
Controls == {"none", "pause", "cancel"}
Verdicts == {"PASS", "REVISE", "BLOCKED"}

TaskState == [phase: 0..Completed, life: Lives, control: Controls,
              rev: [Phases -> 0..MaxRevisions + 1], passed: SUBSET Phases,
              used: 0..MaxWall]

Manifest == [status: {"running", "passed", "failed"},
             phases: [Phases -> {"not_started", "running"} \cup Verdicts],
             revs: [Phases -> 0..MaxRevisions + 1]]

NewTask == [phase |-> 1, life |-> "pending", control |-> "none",
            rev |-> [p \in Phases |-> 0], passed |-> {}, used |-> 0]

NewManifest == [status |-> "running",
                phases |-> [p \in Phases |-> "not_started"],
                revs |-> [p \in Phases |-> 0]]

\* Inside the try block of the loop body, after the flow.
TryPcs == {"apply", "revsave", "close", "checkpoint"}
\* A run exists in some process.
LivePcs == {"launch", "start", "loop", "flow", "handler", "final", "mark", "hooks"} \cup TryPcs
\* No run exists: it returned, it raised, or its process was lost.
RestPcs == {"returned", "raised", "lost"}
\* Where the event loop can run another coroutine.
YieldPcs == {"start", "flow", "hooks"}

-----------------------------------------------------------------------------
(* Plausible bugs, one per property: each replaces an operator below.      *)

SkipPhase(p) == p + 2
RevisionNotCounted(s, p) == s
PhaseNotMarked(m, p, v) == m
AlwaysCompleted(s) == [s EXCEPT !.used = wall, !.life = "completed"]
LifeNotFailed(s) == [s EXCEPT !.phase = Failed]
CancelledResumable ==
    pc \in {"lost", "returned"} /\ disk.life \in {"running", "paused", "cancelled"}
LostNotResumable == pc \in {"lost", "returned"} /\ disk.life = "paused"

-----------------------------------------------------------------------------
(* The operators of the code that the steps are built from.                *)

\* PHASE_TRANSITIONS
NextPhase(p) == p + 1

\* Budget.is_exceeded
IsExceeded(s) == s.used >= limit

\* EvaluationAgent.evaluate_phase: a REVISE beyond the last revision is BLOCKED.
Evaluated(s, p, v) == IF v = "REVISE" /\ s.rev[p] >= MaxRevisions THEN "BLOCKED" ELSE v

Revised(s, p) == [s EXCEPT !.rev[p] = @ + 1]

\* The manifest updates of mark_phase_started / mark_phase_completed and of
\* record_revision, which never lowers a count.
PhaseMarked(m, p, v) == [m EXCEPT !.phases[p] = v]
RevisionMarked(m, p, r) == [m EXCEPT !.revs[p] = IF @ >= r THEN @ ELSE r]

\* _ensure_stages_initialized on a restored state
Reinitialized(s) == [s EXCEPT !.phase = IF @ = Completed THEN 1 ELSE @]

FailedState(s) == [s EXCEPT !.phase = Failed, !.life = "failed"]

\* The status that the end of run() gives to the task.
Concluded(s) == [s EXCEPT !.used = wall,
                          !.life = IF s.phase = Completed THEN "completed" ELSE "failed"]

\* What the session layer and the recovery scan accept as unfinished: a lost
\* run whose task was bound to its session, or a paused one.
Resumable == pc \in {"lost", "returned"} /\ disk.life \in {"running", "paused"}

-----------------------------------------------------------------------------
\* create_task has saved the new task.
Init ==
    /\ pc = "launch"
    /\ mem = NewTask
    /\ disk = NewTask
    /\ manifest = NewManifest
    /\ cur = 1
    /\ verdict = "PASS"
    /\ limit \in Limits
    /\ wall = 0
    /\ flows = [p \in Phases |-> 0]
    /\ cancelled = FALSE
    /\ crashes = 0
    /\ faults = 0

Env == <<limit, crashes, faults>>
Body == <<cur, verdict>>

\* The caller of create_task marks the task running, saves it and schedules run().
Launch ==
    /\ pc = "launch"
    /\ pc' = "start"
    /\ mem' = [mem EXCEPT !.life = "running", !.control = "none"]
    /\ disk' = mem'
    /\ UNCHANGED <<manifest, Body, wall, flows, cancelled, Env>>

\* The prologue of run(): a task that was ended meanwhile is left alone.
Start ==
    /\ pc = "start"
    /\ IF mem.life \in {"cancelled", "completed", "failed"}
       THEN pc' = "returned" /\ UNCHANGED <<mem, wall>>
       ELSE /\ pc' = "loop"
            /\ mem' = [mem EXCEPT !.life = "running"]
            /\ wall' = 0
    /\ UNCHANGED <<disk, manifest, Body, flows, cancelled, Env>>

AtWork == pc = "loop" /\ mem.phase \in Phases

\* The safe point: a request found before the next phase is saved and obeyed.
ObeyRequest ==
    /\ AtWork
    /\ mem.control # "none"
    /\ pc' = "returned"
    /\ mem' = [mem EXCEPT !.life = IF mem.control = "pause" THEN "paused" ELSE "cancelled"]
    /\ disk' = mem'
    /\ UNCHANGED <<manifest, Body, wall, flows, cancelled, Env>>

\* Budget exceeded.  The object learns the time used only in Conclude, and a
\* concluded task is never run again: no reachable state is stopped here.
BudgetStop ==
    /\ AtWork
    /\ mem.control = "none"
    /\ IsExceeded(mem)
    /\ pc' = "final"
    /\ mem' = FailedState(mem)
    /\ UNCHANGED <<disk, manifest, Body, wall, flows, cancelled, Env>>

\* mark_phase_started, then the phase hooks and _execute_phase_flow begin.
StartPhase ==
    /\ AtWork
    /\ mem.control = "none"
    /\ ~IsExceeded(mem)
    /\ pc' = "flow"
    /\ cur' = mem.phase
    /\ manifest' = PhaseMarked(manifest, mem.phase, "running")
    /\ flows' = [flows EXCEPT ![mem.phase] = @ + 1]
    /\ UNCHANGED <<mem, disk, verdict, wall, cancelled, Env>>

TakePhase == IF IsExceeded(mem) THEN BudgetStop ELSE StartPhase

\* The flow and the verdict hooks are over, with the verdict v of the model.
FlowReturns ==
    /\ pc = "flow"
    /\ \E v \in Verdicts : verdict' = Evaluated(mem, cur, v)
    /\ pc' = "apply"
    /\ wall' = IF wall < MaxWall THEN wall + 1 ELSE wall
    /\ UNCHANGED <<mem, disk, manifest, cur, flows, cancelled, Env>>

FlowRaises ==
    /\ pc = "flow"
    /\ pc' = "handler"
    /\ mem' = FailedState(mem)
    /\ UNCHANGED <<disk, manifest, Body, wall, flows, cancelled, Env>>

ApplyPass ==
    /\ pc = "apply" /\ verdict = "PASS"
    /\ pc' = "close"
    /\ mem' = [mem EXCEPT !.passed = @ \cup {cur}, !.phase = NextPhase(cur)]
    /\ UNCHANGED <<disk, manifest, Body, wall, flows, cancelled, Env>>

\* record_revision reaches the manifest before the checkpoint is saved.  The
\* orchestrator's own limit backs up the evaluator's.
ApplyRevise ==
    /\ pc = "apply" /\ verdict = "REVISE"
    /\ LET s == Revised(mem, cur)
       IN  /\ manifest' = RevisionMarked(manifest, cur, s.rev[cur])
           /\ IF s.rev[cur] > MaxRevisions
              THEN pc' = "close" /\ mem' = FailedState(s) /\ verdict' = "BLOCKED"
              ELSE pc' = "revsave" /\ mem' = s /\ UNCHANGED verdict
    /\ UNCHANGED <<disk, cur, wall, flows, cancelled, Env>>

ApplyBlocked ==
    /\ pc = "apply" /\ verdict = "BLOCKED"
    /\ pc' = "close"
    /\ mem' = FailedState(mem)
    /\ UNCHANGED <<disk, manifest, Body, wall, flows, cancelled, Env>>

SaveRevision ==
    /\ pc = "revsave"
    /\ pc' = "loop"
    /\ disk' = mem
    /\ UNCHANGED <<mem, manifest, Body, wall, flows, cancelled, Env>>

MarkPhaseCompleted ==
    /\ pc = "close"
    /\ pc' = "checkpoint"
    /\ manifest' = PhaseMarked(manifest, cur, verdict)
    /\ UNCHANGED <<mem, disk, Body, wall, flows, cancelled, Env>>

SavePhase ==
    /\ pc = "checkpoint"
    /\ pc' = "loop"
    /\ disk' = mem
    /\ UNCHANGED <<mem, manifest, Body, wall, flows, cancelled, Env>>

SaveException ==
    /\ pc = "handler"
    /\ pc' = "final"
    /\ disk' = mem
    /\ UNCHANGED <<mem, manifest, Body, wall, flows, cancelled, Env>>

LeaveLoop ==
    /\ pc = "loop"
    /\ mem.phase \notin Phases
    /\ pc' = "final"
    /\ UNCHANGED <<mem, disk, manifest, Body, wall, flows, cancelled, Env>>

\* _update_budget_tracking, the final status and its checkpoint.
Conclude ==
    /\ pc = "final"
    /\ pc' = "mark"
    /\ mem' = Concluded(mem)
    /\ disk' = mem'
    /\ UNCHANGED <<manifest, Body, wall, flows, cancelled, Env>>

MarkTaskCompleted ==
    /\ pc = "mark"
    /\ pc' = "hooks"
    /\ manifest' = [manifest EXCEPT !.status = IF mem.phase = Completed THEN "passed"
                                                                        ELSE "failed"]
    /\ UNCHANGED <<mem, disk, Body, wall, flows, cancelled, Env>>

Return ==
    /\ pc = "hooks"
    /\ pc' = "returned"
    /\ UNCHANGED <<mem, disk, manifest, Body, wall, flows, cancelled, Env>>

-----------------------------------------------------------------------------
(* Requests of the conversation layer: they change the live object and     *)
(* save it, wherever the run is.                                           *)

RequestPause ==
    /\ pc \in YieldPcs
    /\ mem.control = "none"          \* the session is still "running"
    /\ mem' = [mem EXCEPT !.control = "pause"]
    /\ disk' = mem'
    /\ UNCHANGED <<pc, manifest, Body, wall, flows, cancelled, Env>>

\* With no run alive, the state that is cancelled is the one loaded from disk.
RequestCancel ==
    /\ pc \in YieldPcs \/ Resumable
    /\ mem.control # "cancel"
    /\ mem' = [mem EXCEPT !.control = "cancel", !.life = "cancelled"]
    /\ disk' = mem'
    /\ cancelled' = TRUE
    /\ UNCHANGED <<pc, manifest, Body, wall, flows, Env>>

\* resume() of a paused session and recover_once() of a lost run read
\* task_state.json and save it again before the run is launched.
Restore ==
    /\ Resumable
    /\ pc' = "launch"
    /\ mem' = Reinitialized(disk)
    /\ disk' = mem'
    /\ UNCHANGED <<manifest, Body, wall, flows, cancelled, Env>>

-----------------------------------------------------------------------------
(* Failures.                                                               *)

\* A write of the loop body fails: the handler takes over.  What the object
\* already recorded of the verdict stays: the pass, or the counted revision.
WriteFails ==
    /\ pc \in TryPcs
    /\ faults < MaxFaults
    /\ faults' = faults + 1
    /\ pc' = "handler"
    /\ \/ pc = "apply" /\ verdict = "PASS"
           /\ mem' = FailedState([mem EXCEPT !.passed = @ \cup {cur}])
       \/ pc = "apply" /\ verdict = "REVISE" /\ mem' = FailedState(Revised(mem, cur))
       \/ pc # "apply" /\ mem' = FailedState(mem)
    /\ UNCHANGED <<disk, manifest, Body, limit, wall, flows, cancelled, crashes>>

\* A write outside the try block fails: the exception leaves run().
RunRaises ==
    /\ \/ AtWork /\ (mem.control # "none" \/ ~IsExceeded(mem))
       \/ pc \in {"handler", "final", "mark"}
    /\ faults < MaxFaults
    /\ faults' = faults + 1
    /\ pc' = "raised"
    /\ mem' = disk
    /\ UNCHANGED <<disk, manifest, Body, limit, wall, flows, cancelled, crashes>>

\* The process is lost; what it had in memory is gone (mem shows the file).
Crash ==
    /\ pc \in LivePcs
    /\ crashes < MaxCrashes
    /\ crashes' = crashes + 1
    /\ pc' = "lost"
    /\ mem' = disk
    /\ UNCHANGED <<disk, manifest, Body, limit, wall, flows, cancelled, faults>>

-----------------------------------------------------------------------------
RunStep ==
    \/ Launch \/ Start \/ ObeyRequest \/ TakePhase
    \/ FlowReturns \/ FlowRaises
    \/ ApplyPass \/ ApplyRevise \/ ApplyBlocked
    \/ SaveRevision \/ MarkPhaseCompleted \/ SavePhase \/ SaveException
    \/ LeaveLoop \/ Conclude \/ MarkTaskCompleted \/ Return

Next == RunStep \/ RequestPause \/ RequestCancel \/ Restore
            \/ WriteFails \/ RunRaises \/ Crash

Spec == Init /\ [][Next]_vars

\* A live run is scheduled by the event loop and its model, network and tool
\* calls return; a lost run is found by the recovery scan of the next start.
\* Nobody is obliged to resume a task whose session is paused.
RecoverLost ==
    /\ pc = "lost"
    /\ disk.life = "running"
    /\ disk.control = "none"
    /\ Restore

FairSpec == Spec /\ WF_vars(RunStep) /\ WF_vars(RecoverLost)

-----------------------------------------------------------------------------
(* Properties.                                                             *)

\* Every variable keeps its type; a revision counter never passes the limit
\* by more than the one the orchestrator itself would reject.
TypeOK ==
    /\ pc \in LivePcs \cup RestPcs
    /\ mem \in TaskState
    /\ disk \in TaskState
    /\ manifest \in Manifest
    /\ cur \in Phases
    /\ verdict \in Verdicts
    /\ limit \in Limits
    /\ wall \in 0..MaxWall
    /\ flows \in [Phases -> Nat]
    /\ cancelled \in BOOLEAN
    /\ crashes \in 0..MaxCrashes
    /\ faults \in 0..MaxFaults

\* The two places that limit revisions agree: the orchestrator's own check
\* after a REVISE never has to reject one that the evaluator let through, in
\* any run, restored or not.
RevisionsBounded == \A p \in Phases : disk.rev[p] <= MaxRevisions /\ mem.rev[p] <= MaxRevisions

\* At-least-once, and no more than the failures explain: beyond the counted
\* revisions a phase is worked on once, and once more for every process lost
\* (a lost flow, or a finished task that started over).
BoundedReexecution == \A p \in Phases : flows[p] <= disk.rev[p] + 1 + crashes

\* A checkpoint beyond a phase implies that the phase passed and that the
\* manifest, written first, says so: a reader of both files never sees the
\* task ahead of its manifest.
ManifestCoversCheckpoint ==
    \A p \in Phases : p < disk.phase =>
        p \in disk.passed /\ manifest.phases[p] = "PASS"

\* The revision counts of the two files differ by at most the revision whose
\* checkpoint was not reached, whatever was lost or failed between them.
RevisionCountsAgree ==
    \A p \in Phases : manifest.revs[p] <= disk.rev[p] + 1
                      /\ disk.rev[p] <= manifest.revs[p] + (IF disk.phase = Failed THEN 1 ELSE 0)

\* A final status is never published for work that is not finished: the
\* manifest says passed or failed only of a task whose checkpoint is at rest,
\* and a completed or failed checkpoint is in the phase of that name.
FinalStatusesAgree ==
    /\ manifest.status = "passed" => disk.phase = Completed /\ disk.passed = Phases
    /\ manifest.status = "failed" => disk.phase = Failed
    /\ disk.life = "completed" => disk.phase = Completed
    /\ disk.life = "failed" => disk.phase = Failed
    /\ disk.phase = Failed => disk.life \in {"failed", "cancelled"}

\* The two files of a task agree on its revisions and on its end.
FilesAgree == RevisionCountsAgree /\ FinalStatusesAgree

\* Once the conversation has cancelled the task no later phase is entered, in
\* this run or in any run restored from the checkpoint.
NoPhaseAfterCancel == [][cancelled => flows' = flows]_vars

\* A task that is saved as running does not stay so: revisions run out, lost
\* processes are recovered, and the task ends, or is paused, or its run raised.
Settles ==
    disk.life = "running" ~>
        \/ disk.life # "running"
        \/ pc = "raised"
        \/ pc = "lost" /\ disk.control = "pause"

\* The orchestrator implements the lifecycle of TaskLifecycle on the file.
Lifecycle == INSTANCE TaskLifecycle
                 WITH life <- disk.life, phase <- disk.phase, rev <- disk.rev
ImplementsLifecycle == Lifecycle!Spec

-----------------------------------------------------------------------------
(* What the documents say and the code does not do.                        *)

\* openspec task-lifecycle, "Stop execution when the budget is exceeded": no
\* phase starts once the time used has reached the budget.
BudgetStopsTask == [][wall >= limit => flows' = flows]_vars

\* P34: a cancelled task must not be started again, and P34's state mapping
\* shows it as cancelled: a cancelled task stays cancelled.
CancelIsFinal == [][disk.life = "cancelled" => disk'.life = "cancelled"]_vars
=============================================================================

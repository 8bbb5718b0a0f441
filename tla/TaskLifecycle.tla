---------------------------- MODULE TaskLifecycle ----------------------------
(***************************************************************************)
(* What a persisted task promises, whatever process is running it: the     *)
(* lifecycle status, the current phase and the revision counters found in  *)
(* task_state.json.  TaskRun shows that the orchestrator implements it.    *)
(*                                                                         *)
(* Phases are numbered in the order of PHASE_TRANSITIONS: 1 .. NumPhases   *)
(* are worked on, NumPhases + 1 is COMPLETED and 0 is FAILED.              *)
(***************************************************************************)
EXTENDS Naturals

CONSTANTS NumPhases,      \* phases from TASK_INITIALIZATION to RESULT_REPORTING
          MaxRevisions    \* settings.budget.max_revisions_per_stage

VARIABLES life,     \* TaskState.lifecycle_status
          phase,    \* TaskState.current_phase
          rev       \* TaskState.stages[p].revision_count

vars == <<life, phase, rev>>

Phases == 1..NumPhases
Completed == NumPhases + 1
Failed == 0

Lives == {"pending", "running", "paused", "cancelled", "completed", "failed"}

Init ==
    /\ life = "pending"
    /\ phase = 1
    /\ rev = [p \in Phases |-> 0]

\* A task that is run, resumed or recovered.
Start ==
    /\ life \in {"pending", "running", "paused"}
    /\ life' = "running"
    /\ UNCHANGED <<phase, rev>>

\* The current phase passed; a cancelled task still records the phase in hand.
Advance ==
    /\ life \in {"running", "cancelled"}
    /\ phase \in Phases
    /\ phase' = phase + 1
    /\ UNCHANGED <<life, rev>>

\* The current phase is to be retried, at most MaxRevisions times.
Revise ==
    /\ life \in {"running", "cancelled"}
    /\ phase \in Phases
    /\ rev[phase] < MaxRevisions
    /\ rev' = [rev EXCEPT ![phase] = @ + 1]
    /\ UNCHANGED <<life, phase>>

\* A blocked or crashed phase, or an exhausted budget; a revision that could
\* not be saved may be counted by the failure.
Fail ==
    /\ life \in {"running", "cancelled"}
    /\ life' = "failed"
    /\ phase' = Failed
    /\ \/ UNCHANGED rev
       \/ /\ phase \in Phases
          /\ rev[phase] < MaxRevisions
          /\ rev' = [rev EXCEPT ![phase] = @ + 1]

Complete ==
    /\ life \in {"running", "cancelled"}
    /\ phase = Completed
    /\ life' = "completed"
    /\ UNCHANGED <<phase, rev>>

Pause ==
    /\ life = "running"
    /\ life' = "paused"
    /\ UNCHANGED <<phase, rev>>

\* The conversation cancels a task; the memory hooks that follow the end of a
\* run leave room for a cancellation after the fact.
Cancel ==
    /\ life' = "cancelled"
    /\ UNCHANGED <<phase, rev>>

\* A run that is picked up again after its last phase starts over.
StartOver ==
    /\ life = "running"
    /\ phase = Completed
    /\ phase' = 1
    /\ UNCHANGED <<life, rev>>

Next == Start \/ Advance \/ Revise \/ Fail \/ Complete \/ Pause \/ Cancel \/ StartOver

Spec == Init /\ [][Next]_vars
=============================================================================

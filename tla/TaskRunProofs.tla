---------------------------- MODULE TaskRunProofs ----------------------------
(***************************************************************************)
(* Theorems about TaskRun for every number of phases, every revision limit *)
(* and every bound on crashes and write errors.                            *)
(***************************************************************************)
EXTENDS TaskRun, TLAPS

-----------------------------------------------------------------------------
(* The inductive invariant, part by part.                                  *)

\* Where the object of the run and task_state.json hold the same state.
SyncedPcs == {"launch", "start", "loop", "flow", "apply", "mark", "hooks"} \cup RestPcs

Synced == pc \in SyncedPcs => mem = disk

\* The local variable phase names the phase in hand, which the file still shows.
CurInv ==
    pc \in {"flow"} \cup TryPcs =>
        disk.phase = cur /\ disk.life \in {"running", "cancelled"}

\* What the object holds beyond the file, write by write.
AheadInv ==
    /\ pc = "apply" /\ verdict = "REVISE" => mem.rev[cur] < MaxRevisions
    /\ pc = "revsave" =>
          mem.phase = disk.phase /\ mem.life = disk.life /\ mem.passed = disk.passed
          /\ disk.rev[cur] < MaxRevisions
          /\ mem.rev = [disk.rev EXCEPT ![cur] = @ + 1]
    /\ pc \in {"close", "checkpoint"} =>
          /\ mem.rev = disk.rev
          /\ \/ /\ verdict = "PASS"
                /\ mem.phase = cur + 1 /\ mem.life = disk.life
                /\ mem.passed = disk.passed \cup {cur}
             \/ mem.phase = Failed /\ mem.life = "failed"
    /\ pc = "checkpoint" /\ verdict = "PASS" => manifest.phases[cur] = "PASS"

\* The object on the way out of the loop.
ExitInv ==
    /\ pc = "handler" =>
          /\ mem.phase = Failed /\ mem.life = "failed"
          /\ disk.phase \in Phases /\ disk.life \in {"running", "cancelled"}
          /\ \/ mem.rev = disk.rev
             \/ disk.rev[disk.phase] < MaxRevisions
                /\ mem.rev = [disk.rev EXCEPT ![disk.phase] = @ + 1]
    /\ pc = "final" =>
          \/ mem = disk /\ mem.phase = Completed /\ mem.life \in {"running", "cancelled"}
          \/ mem = disk /\ mem.phase = Failed /\ mem.life = "failed"
          \/ mem = FailedState(disk) /\ disk.life \in {"running", "cancelled"}

\* The lifecycle status fits the point the run has reached.
LifeInv ==
    /\ pc = "launch" => disk.life \in {"pending", "running", "paused"}
    /\ pc = "start" => disk.life \in {"running", "cancelled"}
    /\ pc = "loop" => \/ disk.phase # Failed /\ disk.life \in {"running", "cancelled"}
                      \/ disk.phase = Failed /\ disk.life = "failed"
    /\ disk.life = "paused" => disk.phase \in Phases
    /\ pc \in {"mark", "hooks", "returned"} => disk.life # "running"
    /\ disk.phase = Failed => disk.life \in {"failed", "cancelled"}
    /\ disk.life = "cancelled" => disk.control = "cancel"
    /\ mem.control = disk.control

\* A cancelled task is neither running nor able to be restored.
CancelInv ==
    cancelled => /\ disk.control = "cancel"
                 /\ disk.life \in {"cancelled", "completed", "failed"}

\* A flow whose outcome is not in the file yet, or never will be.
InHand(p) == pc \in {"flow", "handler", "raised"} \cup TryPcs /\ p = cur

Spent(p) == \/ p < disk.phase
            \/ disk.phase = Failed
            \/ InHand(p)

\* Each phase is worked on once per counted revision and per lost process,
\* and once more when its outcome is known or in hand; a lost process has
\* used up that last one.
ReexecutionInv ==
    \A p \in Phases :
        flows[p] <= disk.rev[p] + crashes + (IF pc # "lost" /\ Spent(p) THEN 1 ELSE 0)

IInv ==
    /\ TypeOK
    /\ RevisionsBounded
    /\ Synced
    /\ CurInv
    /\ AheadInv
    /\ ExitInv
    /\ LifeInv
    /\ CancelInv
    /\ ReexecutionInv
    /\ ManifestCoversCheckpoint

-----------------------------------------------------------------------------
(* Types.                                                                  *)

\* The phases, COMPLETED and FAILED are different numbers.
LEMMA PhaseNumbers ==
    /\ Completed \in Nat /\ Completed \notin Phases /\ Completed # Failed
    /\ Failed \in 0..Completed /\ Failed \notin Phases
    /\ 1 \in Phases
    /\ \A p \in Phases : p \in Nat /\ p + 1 \in 0..Completed /\ p \in 0..Completed
  BY NumPhasesAssumption DEF Completed, Failed, Phases

\* The fields of a task state have the types of TaskState.
LEMMA FieldTypes ==
    ASSUME NEW s \in TaskState
    PROVE  /\ s.phase \in 0..Completed /\ s.life \in Lives /\ s.control \in Controls
           /\ s.rev \in [Phases -> 0..MaxRevisions + 1] /\ s.passed \subseteq Phases
           /\ s.used \in 0..MaxWall
  BY DEF TaskState

\* Setting the lifecycle status or the control request gives a task state.
LEMMA LifeSet ==
    ASSUME NEW s \in TaskState, NEW l \in Lives, NEW c \in Controls
    PROVE  /\ [s EXCEPT !.life = l] \in TaskState
           /\ [s EXCEPT !.control = c] \in TaskState
           /\ [s EXCEPT !.life = l, !.control = c] \in TaskState
           /\ [s EXCEPT !.control = c, !.life = l] \in TaskState
  BY DEF TaskState

\* A failed task state is a task state.
LEMMA FailedStateType == ASSUME NEW s \in TaskState PROVE FailedState(s) \in TaskState
  <1>1. "failed" \in Lives BY DEF Lives
  <1> QED BY <1>1, PhaseNumbers DEF TaskState, FailedState

\* Counting a revision gives a task state while the limit is not exceeded.
LEMMA RevisedType ==
    ASSUME NEW s \in TaskState, NEW p \in Phases, s.rev[p] <= MaxRevisions
    PROVE  Revised(s, p) \in TaskState
  BY MaxRevisionsAssumption DEF TaskState, Revised

\* Recording a pass, with or without the move to the next phase, gives a task state.
LEMMA PassedType ==
    ASSUME NEW s \in TaskState, NEW p \in Phases
    PROVE  /\ [s EXCEPT !.passed = @ \cup {p}] \in TaskState
           /\ [s EXCEPT !.passed = @ \cup {p}, !.phase = NextPhase(p)] \in TaskState
  BY PhaseNumbers DEF TaskState, NextPhase

\* A restored task state is a task state.
LEMMA ReinitializedType ==
    ASSUME NEW s \in TaskState PROVE Reinitialized(s) \in TaskState
  BY PhaseNumbers DEF TaskState, Reinitialized

\* The state saved at the end of run() is a task state.
LEMMA ConcludedType ==
    ASSUME NEW s \in TaskState, wall \in 0..MaxWall PROVE Concluded(s) \in TaskState
  <1>1. {"completed", "failed"} \subseteq Lives BY DEF Lives
  <1> QED BY <1>1 DEF TaskState, Concluded

\* The manifest updates keep the type of the manifest.
LEMMA ManifestTypes ==
    ASSUME NEW m \in Manifest, NEW p \in Phases
    PROVE  /\ \A v \in {"running"} \cup Verdicts : PhaseMarked(m, p, v) \in Manifest
           /\ \A r \in 0..MaxRevisions + 1 : RevisionMarked(m, p, r) \in Manifest
           /\ [m EXCEPT !.status = "passed"] \in Manifest
           /\ [m EXCEPT !.status = "failed"] \in Manifest
  BY DEF Manifest, PhaseMarked, RevisionMarked

\* What the updates of the code leave alone.
LEMMA Reads ==
    ASSUME NEW s \in TaskState, NEW p \in Phases
    PROVE  /\ FailedState(s).phase = Failed /\ FailedState(s).life = "failed"
           /\ FailedState(s).rev = s.rev /\ FailedState(s).control = s.control
           /\ FailedState(s).passed = s.passed
           /\ Revised(s, p).rev = [s.rev EXCEPT ![p] = @ + 1]
           /\ Revised(s, p).phase = s.phase /\ Revised(s, p).life = s.life
           /\ Revised(s, p).control = s.control /\ Revised(s, p).passed = s.passed
           /\ Reinitialized(s).phase = (IF s.phase = Completed THEN 1 ELSE s.phase)
           /\ Reinitialized(s).life = s.life /\ Reinitialized(s).rev = s.rev
           /\ Reinitialized(s).control = s.control /\ Reinitialized(s).passed = s.passed
           /\ Concluded(s).life = (IF s.phase = Completed THEN "completed" ELSE "failed")
           /\ Concluded(s).phase = s.phase /\ Concluded(s).rev = s.rev
           /\ Concluded(s).control = s.control /\ Concluded(s).passed = s.passed
  BY DEF TaskState, FailedState, Revised, Reinitialized, Concluded

\* A revision counted below the limit does not exceed it.
LEMMA RevisedBound ==
    ASSUME NEW s \in TaskState, NEW p \in Phases, s.rev[p] < MaxRevisions,
           \A q \in Phases : s.rev[q] <= MaxRevisions
    PROVE  \A q \in Phases : Revised(s, p).rev[q] <= MaxRevisions
  <1>1. s.rev \in [Phases -> Nat] BY MaxRevisionsAssumption DEF TaskState
  <1>2. Revised(s, p).rev = [s.rev EXCEPT ![p] = @ + 1] BY Reads
  <1> QED BY <1>1, <1>2, MaxRevisionsAssumption

\* Every step keeps the types: a counted revision is below the limit.
LEMMA TypeStep ==
    ASSUME TypeOK, RevisionsBounded, CurInv, AheadInv, Next
    PROVE  TypeOK'
  <1> USE DEF TypeOK, LivePcs, RestPcs, TryPcs, Env, Body
  <1>1. CASE Launch BY <1>1, LifeSet DEF Launch, Lives, Controls
  <1>2. CASE Start
    <2>0. "running" \in Lives /\ "none" \in Controls BY DEF Lives, Controls
    <2>1. mem' \in TaskState BY <1>2, <2>0, LifeSet DEF Start
    <2>2. wall' \in 0..MaxWall BY <1>2, BoundsAssumption DEF Start
    <2> QED BY <1>2, <2>1, <2>2 DEF Start
  <1>3. CASE ObeyRequest
    <2>1. {"paused", "cancelled"} \subseteq Lives BY DEF Lives
    <2>2. mem' \in TaskState BY <1>3, <2>1, LifeSet, FieldTypes DEF ObeyRequest
    <2> QED BY <1>3, <2>2 DEF ObeyRequest
  <1>4. CASE BudgetStop BY <1>4, FailedStateType DEF BudgetStop
  <1>5. CASE StartPhase
    <2>1. mem.phase \in Phases BY <1>5 DEF StartPhase, AtWork
    <2>2. flows' \in [Phases -> Nat] BY <1>5, <2>1 DEF StartPhase
    <2>3. manifest' \in Manifest BY <1>5, <2>1, ManifestTypes DEF StartPhase
    <2> QED BY <1>5, <2>1, <2>2, <2>3 DEF StartPhase
  <1>6. CASE FlowReturns
    <2>1. verdict' \in Verdicts BY <1>6 DEF FlowReturns, Evaluated, Verdicts
    <2>2. wall' \in 0..MaxWall BY <1>6, BoundsAssumption DEF FlowReturns
    <2> QED BY <1>6, <2>1, <2>2 DEF FlowReturns
  <1>7. CASE FlowRaises BY <1>7, FailedStateType DEF FlowRaises
  <1>8. CASE ApplyPass BY <1>8, PassedType DEF ApplyPass
  <1>9. CASE ApplyRevise
    <2> DEFINE s == Revised(mem, cur)
    <2>1. s \in TaskState BY <1>9, RevisedType DEF ApplyRevise, RevisionsBounded
    <2>2. s.rev[cur] \in 0..MaxRevisions + 1 BY <2>1, FieldTypes
    <2>3. manifest' \in Manifest BY <1>9, <2>2, ManifestTypes DEF ApplyRevise
    <2>4. mem' \in TaskState BY <1>9, <2>1, FailedStateType DEF ApplyRevise
    <2>5. verdict' \in Verdicts BY <1>9 DEF ApplyRevise, Verdicts
    <2>6. pc' \in LivePcs BY <1>9 DEF ApplyRevise
    <2> QED BY <1>9, <2>3, <2>4, <2>5, <2>6 DEF ApplyRevise
  <1>10. CASE ApplyBlocked BY <1>10, FailedStateType DEF ApplyBlocked
  <1>11. CASE SaveRevision BY <1>11 DEF SaveRevision
  <1>12. CASE MarkPhaseCompleted BY <1>12, ManifestTypes DEF MarkPhaseCompleted
  <1>13. CASE SavePhase BY <1>13 DEF SavePhase
  <1>14. CASE SaveException BY <1>14 DEF SaveException
  <1>15. CASE LeaveLoop BY <1>15 DEF LeaveLoop
  <1>16. CASE Conclude BY <1>16, ConcludedType DEF Conclude
  <1>17. CASE MarkTaskCompleted BY <1>17, ManifestTypes, PhaseNumbers DEF MarkTaskCompleted
  <1>18. CASE Return BY <1>18 DEF Return
  <1>19. CASE RequestPause BY <1>19, LifeSet, FieldTypes DEF RequestPause, Controls
  <1>20. CASE RequestCancel BY <1>20, LifeSet DEF RequestCancel, Lives, Controls
  <1>21. CASE Restore BY <1>21, ReinitializedType DEF Restore
  <1>22. CASE WriteFails
    <2>1. Revised(mem, cur) \in TaskState BY RevisedType DEF RevisionsBounded
    <2>2. [mem EXCEPT !.passed = @ \cup {cur}] \in TaskState BY PassedType
    <2>3. mem' \in TaskState BY <1>22, <2>1, <2>2, FailedStateType DEF WriteFails
    <2>4. faults' \in 0..MaxFaults BY <1>22, BoundsAssumption DEF WriteFails
    <2> QED BY <1>22, <2>3, <2>4 DEF WriteFails
  <1>23. CASE RunRaises
    <2>1. faults' \in 0..MaxFaults BY <1>23, BoundsAssumption DEF RunRaises
    <2> QED BY <1>23, <2>1 DEF RunRaises
  <1>24. CASE Crash
    <2>1. crashes' \in 0..MaxCrashes BY <1>24, BoundsAssumption DEF Crash
    <2> QED BY <1>24, <2>1 DEF Crash
  <1> QED BY <1>1, <1>2, <1>3, <1>4, <1>5, <1>6, <1>7, <1>8, <1>9, <1>10, <1>11, <1>12,
             <1>13, <1>14, <1>15, <1>16, <1>17, <1>18, <1>19, <1>20, <1>21, <1>22, <1>23,
             <1>24 DEF Next, RunStep, TakePhase

-----------------------------------------------------------------------------
(* Control.                                                                *)

ControlInv == RevisionsBounded /\ Synced /\ CurInv /\ AheadInv /\ ExitInv /\ LifeInv /\ CancelInv

\* Every action preserves the agreement of object, file, locals and lifecycle.
LEMMA ControlStep ==
    ASSUME TypeOK, TypeOK', ControlInv, ManifestCoversCheckpoint, Next
    PROVE  ControlInv'
  <1> USE PhaseNumbers, Reads, MaxRevisionsAssumption, FieldTypes
      DEF ControlInv, RevisionsBounded, Synced, CurInv, AheadInv, ExitInv, LifeInv, CancelInv,
          TypeOK, SyncedPcs, LivePcs, RestPcs, TryPcs, YieldPcs, Env, Body, TaskState
  <1>0. mem \in TaskState /\ disk \in TaskState /\ cur \in Phases OBVIOUS
  <1>1. CASE Launch BY <1>1 DEF Launch
  <1>2. CASE Start
    <2>1. mem = disk /\ mem.life \in {"running", "cancelled"} BY <1>2 DEF Start
    <2>2. mem.life = "running" => [mem EXCEPT !.life = "running"] = mem OBVIOUS
    <2>3. mem' = mem BY <1>2, <2>1, <2>2 DEF Start
    <2>4. mem.life = "running" => disk.phase # Failed BY <2>1
    <2>5. pc' = IF mem.life = "running" THEN "loop" ELSE "returned" BY <1>2, <2>1 DEF Start
    <2>6. UNCHANGED <<disk, cancelled>> BY <1>2 DEF Start
    <2> QED BY <2>1, <2>3, <2>4, <2>5, <2>6
  <1>3. CASE ObeyRequest
    <2>1. mem = disk /\ mem.phase \in Phases BY <1>3 DEF ObeyRequest, AtWork
    <2>2. /\ mem'.phase = mem.phase /\ mem'.rev = mem.rev /\ mem'.control = mem.control
          /\ \/ mem'.life = "paused" /\ mem.control = "pause"
             \/ mem'.life = "cancelled" /\ mem.control = "cancel"
      BY <1>3 DEF ObeyRequest, Controls
    <2>3. cancelled => mem.control = "cancel" BY <2>1
    <2> QED BY <1>3, <2>1, <2>2, <2>3 DEF ObeyRequest
  <1>4. CASE BudgetStop
    <2>1. mem = disk /\ disk.life \in {"running", "cancelled"} BY <1>4 DEF BudgetStop, AtWork
    <2>2. mem' = FailedState(disk) BY <1>4, <2>1 DEF BudgetStop
    <2>3. mem'.rev = disk.rev /\ mem'.control = disk.control BY <2>2
    <2> QED BY <1>4, <2>1, <2>2, <2>3 DEF BudgetStop
  <1>5. CASE StartPhase BY <1>5 DEF StartPhase, AtWork
  <1>6. CASE FlowReturns BY <1>6 DEF FlowReturns, Evaluated
  <1>7. CASE FlowRaises BY <1>7 DEF FlowRaises
  <1>8. CASE ApplyPass BY <1>8 DEF ApplyPass, NextPhase
  <1>9. CASE ApplyRevise
    <2>1. /\ mem = disk /\ disk.phase = cur /\ mem.rev[cur] < MaxRevisions
          /\ disk.life \in {"running", "cancelled"}
      BY <1>9 DEF ApplyRevise
    <2>2. \A p \in Phases : Revised(mem, cur).rev[p] <= MaxRevisions BY <2>1, RevisedBound
    <2>3. ~(Revised(mem, cur).rev[cur] > MaxRevisions)
      <3>1. Revised(mem, cur) \in TaskState BY <2>1, RevisedType
      <3> QED BY <3>1, <2>2
    <2>4. mem' = Revised(mem, cur) /\ pc' = "revsave" BY <1>9, <2>3 DEF ApplyRevise
    <2>5. /\ mem'.phase = disk.phase /\ mem'.life = disk.life /\ mem'.passed = disk.passed
          /\ mem'.control = disk.control /\ mem'.rev = [disk.rev EXCEPT ![cur] = @ + 1]
      BY ONLY <1>0, <2>1, <2>4, Reads
    <2>6. UNCHANGED <<disk, cur, cancelled>> BY <1>9 DEF ApplyRevise
    <2> QED BY <2>1, <2>2, <2>4, <2>5, <2>6
  <1>10. CASE ApplyBlocked
    <2>1. /\ mem = disk /\ disk.phase = cur /\ disk.life \in {"running", "cancelled"}
      BY <1>10 DEF ApplyBlocked
    <2>2. /\ mem' = FailedState(disk) /\ pc' = "close" /\ UNCHANGED <<disk, cur, cancelled>>
      BY <1>10, <2>1 DEF ApplyBlocked
    <2>3. mem'.phase = Failed /\ mem'.life = "failed" /\ mem'.rev = disk.rev
          /\ mem'.control = disk.control
      BY <2>2
    <2> QED BY <2>1, <2>2, <2>3
  <1>11. CASE SaveRevision BY <1>11 DEF SaveRevision
  <1>12. CASE MarkPhaseCompleted
    <2>1. manifest'.phases[cur] = verdict BY <1>12 DEF MarkPhaseCompleted, PhaseMarked, Manifest
    <2> QED BY <1>12, <2>1 DEF MarkPhaseCompleted
  <1>13. CASE SavePhase
    <2>1. /\ mem.rev = disk.rev /\ disk.life \in {"running", "cancelled"} /\ disk.phase = cur
          /\ \/ mem.phase = cur + 1 /\ mem.life = disk.life
             \/ mem.phase = Failed /\ mem.life = "failed"
      BY <1>13 DEF SavePhase
    <2>2. cur + 1 # Failed BY DEF Failed, Phases
    <2>3. pc' = "loop" /\ disk' = mem /\ UNCHANGED <<mem, cur, cancelled>> BY <1>13 DEF SavePhase
    <2>4. cancelled => disk.control = "cancel" /\ disk.life = "cancelled" BY <2>1
    <2> QED BY <2>1, <2>2, <2>3, <2>4
  <1>14. CASE SaveException BY <1>14 DEF SaveException
  <1>15. CASE LeaveLoop
    <2>1. mem = disk /\ mem.phase \notin Phases BY <1>15 DEF LeaveLoop
    <2>2. mem.phase \in {Failed, Completed} 
      BY ONLY <1>0, <2>1, FieldTypes, NumPhasesAssumption DEF Failed, Phases, Completed
    <2>3. pc' = "final" /\ UNCHANGED <<mem, disk, cancelled>> BY <1>15 DEF LeaveLoop
    <2> QED BY <1>15, <2>1, <2>2, <2>3 DEF LeaveLoop
  <1>16. CASE Conclude
    <2>1. /\ mem' = Concluded(mem) /\ disk' = mem' /\ pc' = "mark" /\ UNCHANGED cancelled
      BY <1>16 DEF Conclude
    <2>2. /\ mem'.life = (IF mem.phase = Completed THEN "completed" ELSE "failed")
          /\ mem'.phase = mem.phase /\ mem'.rev = mem.rev /\ mem'.control = mem.control
      BY ONLY <1>0, <2>1, Reads
    <2> QED BY <2>1, <2>2
  <1>17. CASE MarkTaskCompleted BY <1>17 DEF MarkTaskCompleted
  <1>18. CASE Return BY <1>18 DEF Return
  <1>19. CASE RequestPause BY <1>19 DEF RequestPause
  <1>20. CASE RequestCancel
    <2>1. pc \in {"start", "flow", "hooks", "lost", "returned"} /\ pc' = pc /\ mem = disk
      BY <1>20 DEF RequestCancel, Resumable
    <2>2. /\ disk' = mem' /\ mem'.control = "cancel" /\ mem'.life = "cancelled"
          /\ mem'.phase = disk.phase /\ mem'.rev = disk.rev
      BY <1>20, <2>1 DEF RequestCancel
    <2> QED BY <1>20, <2>1, <2>2 DEF RequestCancel
  <1>21. CASE Restore
    <2>1. /\ mem' = Reinitialized(disk) /\ disk' = mem' /\ pc' = "launch"
          /\ disk.life \in {"running", "paused"} /\ UNCHANGED cancelled
      BY <1>21 DEF Restore, Resumable
    <2>2. /\ mem'.phase = (IF disk.phase = Completed THEN 1 ELSE disk.phase)
          /\ mem'.life = disk.life /\ mem'.rev = disk.rev /\ mem'.control = disk.control
      BY ONLY <1>0, <2>1, Reads
    <2>3. 1 # Failed /\ Completed \notin Phases /\ 1 \in Phases BY PhaseNumbers
    <2> QED BY <2>1, <2>2, <2>3
  <1>22. CASE WriteFails
    <2>1. pc' = "handler" /\ UNCHANGED <<disk, cur, cancelled>> BY <1>22 DEF WriteFails
    <2>2. disk.phase = cur /\ disk.life \in {"running", "cancelled"} BY <1>22 DEF WriteFails
    <2>3. CASE pc = "apply" /\ verdict = "REVISE"
      <3>1. mem = disk /\ mem.rev[cur] < MaxRevisions BY <2>3
      <3>2. mem' = FailedState(Revised(disk, cur)) BY <1>22, <2>3, <3>1 DEF WriteFails
      <3>3. Revised(disk, cur) \in TaskState BY <3>1, RevisedType
      <3>4. /\ mem'.phase = Failed /\ mem'.life = "failed" /\ mem'.control = disk.control
            /\ mem'.rev = [disk.rev EXCEPT ![cur] = @ + 1]
        <4> DEFINE s == Revised(disk, cur)
        <4>1. s \in TaskState /\ mem' = FailedState(s) BY ONLY <3>2, <3>3
        <4>2. s.rev = [disk.rev EXCEPT ![cur] = @ + 1] /\ s.control = disk.control
          BY ONLY <1>0, Reads
        <4> HIDE DEF s
        <4> QED BY ONLY <1>0, <4>1, <4>2, Reads
      <3>5. \A p \in Phases : Revised(disk, cur).rev[p] <= MaxRevisions BY <3>1, RevisedBound
      <3>6. mem'.rev = Revised(disk, cur).rev BY ONLY <1>0, <3>2, <3>3, Reads
      <3> QED BY <2>1, <2>2, <3>1, <3>4, <3>5, <3>6
    <2>4. CASE pc = "apply" /\ verdict = "PASS"
      <3>1. mem = disk BY <2>4
      <3> DEFINE s == [disk EXCEPT !.passed = @ \cup {cur}]
      <3>2. mem' = FailedState(s) BY <1>22, <2>4, <3>1 DEF WriteFails
      <3>3. s \in TaskState /\ s.control = disk.control /\ s.rev = disk.rev BY PassedType
      <3>4. mem'.phase = Failed /\ mem'.life = "failed" /\ mem'.control = disk.control
            /\ mem'.rev = disk.rev
        BY <3>2, <3>3
      <3> QED BY <2>1, <2>2, <3>4
    <2>5. CASE pc # "apply"
      <3>1. mem' = FailedState(mem) BY <1>22, <2>5 DEF WriteFails
      <3>2. mem'.phase = Failed /\ mem'.life = "failed" /\ mem'.control = disk.control
            /\ mem'.rev = mem.rev
        BY <3>1
      <3>3. \/ mem.rev = disk.rev
            \/ disk.rev[cur] < MaxRevisions /\ mem.rev = [disk.rev EXCEPT ![cur] = @ + 1]
        BY <1>22, <2>5 DEF WriteFails
      <3> QED BY <2>1, <2>2, <3>2, <3>3
    <2> QED BY <1>22, <2>3, <2>4, <2>5 DEF WriteFails
  <1>23. CASE RunRaises BY <1>23 DEF RunRaises
  <1>24. CASE Crash BY <1>24 DEF Crash
  <1> QED BY <1>1, <1>2, <1>3, <1>4, <1>5, <1>6, <1>7, <1>8, <1>9, <1>10, <1>11, <1>12,
       <1>13, <1>14, <1>15, <1>16, <1>17, <1>18, <1>19, <1>20, <1>21, <1>22, <1>23, <1>24
       DEF Next, RunStep, TakePhase

-----------------------------------------------------------------------------
(* Re-execution.                                                           *)

\* What the file shows of the phase and the revisions after a step that does
\* not close the phase in hand is what it showed before.
KeepsFile == disk'.phase = disk.phase /\ disk'.rev = disk.rev

\* Every action pays for the flows it enters: with a counted revision, a lost
\* process, or the one flow a phase has for itself.
LEMMA ReexecutionStep ==
    ASSUME TypeOK, TypeOK', ControlInv, ReexecutionInv, Next
    PROVE  ReexecutionInv'
  <1> SUFFICES ASSUME NEW p \in Phases
               PROVE  flows'[p] <= disk'.rev[p] + crashes'
                                   + (IF pc' # "lost" /\ Spent(p)' THEN 1 ELSE 0)
    BY DEF ReexecutionInv
  <1> DEFINE Slack == IF pc # "lost" /\ Spent(p) THEN 1 ELSE 0
  <1>1. /\ disk \in TaskState /\ mem \in TaskState /\ cur \in Phases
        /\ disk.rev[p] \in Nat /\ disk'.rev[p] \in Nat /\ flows[p] \in Nat /\ crashes \in Nat
    BY FieldTypes, MaxRevisionsAssumption, BoundsAssumption DEF TypeOK
  <1>2. flows[p] <= disk.rev[p] + crashes + Slack BY DEF ReexecutionInv
  <1>3. Slack \in {0, 1} OBVIOUS
  \* A step that spends nothing and keeps what was spent.
  <1>4. ASSUME flows' = flows, crashes' = crashes, disk'.rev[p] >= disk.rev[p],
               pc # "lost" /\ Spent(p) => pc' # "lost" /\ Spent(p)'
        PROVE  flows'[p] <= disk'.rev[p] + crashes'
                            + (IF pc' # "lost" /\ Spent(p)' THEN 1 ELSE 0)
    BY <1>1, <1>2, <1>4
  <1> HIDE DEF Slack
  <1>5. CASE Launch
    <2>1. flows' = flows /\ crashes' = crashes BY <1>5 DEF Launch, Env
    <2>2. KeepsFile BY <1>5 DEF Launch, KeepsFile, ControlInv, Synced, SyncedPcs, RestPcs, YieldPcs, TypeOK, TaskState
    <2>3. pc # "lost" /\ Spent(p) => pc' # "lost" /\ Spent(p)'
      BY <1>5, <2>2 DEF Launch, KeepsFile, Spent, InHand, TryPcs, Body, Env
    <2> QED BY <1>1, <1>4, <2>1, <2>2, <2>3 DEF KeepsFile
  <1>6. CASE Start
    <2>1. flows' = flows /\ crashes' = crashes BY <1>6 DEF Start, Env
    <2>2. KeepsFile BY <1>6 DEF Start, KeepsFile, ControlInv, Synced, SyncedPcs, RestPcs, YieldPcs, TypeOK, TaskState
    <2>3. pc # "lost" /\ Spent(p) => pc' # "lost" /\ Spent(p)'
      BY <1>6, <2>2 DEF Start, KeepsFile, Spent, InHand, TryPcs, Body, Env
    <2> QED BY <1>1, <1>4, <2>1, <2>2, <2>3 DEF KeepsFile
  <1>7. CASE ObeyRequest
    <2>1. flows' = flows /\ crashes' = crashes BY <1>7 DEF ObeyRequest, Env
    <2>2. KeepsFile BY <1>7 DEF ObeyRequest, AtWork, KeepsFile, ControlInv, Synced, SyncedPcs, RestPcs, YieldPcs, TypeOK, TaskState
    <2>3. pc # "lost" /\ Spent(p) => pc' # "lost" /\ Spent(p)'
      BY <1>7, <2>2 DEF ObeyRequest, AtWork, KeepsFile, Spent, InHand, TryPcs, Body, Env
    <2> QED BY <1>1, <1>4, <2>1, <2>2, <2>3 DEF KeepsFile
  <1>8. CASE BudgetStop
    <2>1. flows' = flows /\ crashes' = crashes BY <1>8 DEF BudgetStop, Env
    <2>2. KeepsFile BY <1>8 DEF BudgetStop, AtWork, KeepsFile, ControlInv, Synced, SyncedPcs, RestPcs, YieldPcs, TypeOK, TaskState
    <2>3. pc # "lost" /\ Spent(p) => pc' # "lost" /\ Spent(p)'
      BY <1>8, <2>2 DEF BudgetStop, AtWork, KeepsFile, Spent, InHand, TryPcs, Body, Env
    <2> QED BY <1>1, <1>4, <2>1, <2>2, <2>3 DEF KeepsFile
  <1>9. CASE FlowReturns
    <2>1. flows' = flows /\ crashes' = crashes BY <1>9 DEF FlowReturns, Env
    <2>2. KeepsFile BY <1>9 DEF FlowReturns, KeepsFile, ControlInv, Synced, SyncedPcs, RestPcs, YieldPcs, TypeOK, TaskState
    <2>3. pc # "lost" /\ Spent(p) => pc' # "lost" /\ Spent(p)'
      BY <1>9, <2>2 DEF FlowReturns, KeepsFile, Spent, InHand, TryPcs, Body, Env
    <2> QED BY <1>1, <1>4, <2>1, <2>2, <2>3 DEF KeepsFile
  <1>10. CASE FlowRaises
    <2>1. flows' = flows /\ crashes' = crashes BY <1>10 DEF FlowRaises, Env
    <2>2. KeepsFile BY <1>10 DEF FlowRaises, KeepsFile, ControlInv, Synced, SyncedPcs, RestPcs, YieldPcs, TypeOK, TaskState
    <2>3. pc # "lost" /\ Spent(p) => pc' # "lost" /\ Spent(p)'
      BY <1>10, <2>2 DEF FlowRaises, KeepsFile, Spent, InHand, TryPcs, Body, Env
    <2> QED BY <1>1, <1>4, <2>1, <2>2, <2>3 DEF KeepsFile
  <1>11. CASE ApplyPass
    <2>1. flows' = flows /\ crashes' = crashes BY <1>11 DEF ApplyPass, Env
    <2>2. KeepsFile BY <1>11 DEF ApplyPass, KeepsFile, ControlInv, Synced, SyncedPcs, RestPcs, YieldPcs, TypeOK, TaskState
    <2>3. pc # "lost" /\ Spent(p) => pc' # "lost" /\ Spent(p)'
      BY <1>11, <2>2 DEF ApplyPass, KeepsFile, Spent, InHand, TryPcs, Body, Env
    <2> QED BY <1>1, <1>4, <2>1, <2>2, <2>3 DEF KeepsFile
  <1>12. CASE ApplyRevise
    <2>1. flows' = flows /\ crashes' = crashes BY <1>12 DEF ApplyRevise, Env
    <2>2. KeepsFile BY <1>12 DEF ApplyRevise, KeepsFile, ControlInv, Synced, SyncedPcs, RestPcs, YieldPcs, TypeOK, TaskState
    <2>3. pc # "lost" /\ Spent(p) => pc' # "lost" /\ Spent(p)'
      BY <1>12, <2>2 DEF ApplyRevise, KeepsFile, Spent, InHand, TryPcs, Body, Env
    <2> QED BY <1>1, <1>4, <2>1, <2>2, <2>3 DEF KeepsFile
  <1>13. CASE ApplyBlocked
    <2>1. flows' = flows /\ crashes' = crashes BY <1>13 DEF ApplyBlocked, Env
    <2>2. KeepsFile BY <1>13 DEF ApplyBlocked, KeepsFile, ControlInv, Synced, SyncedPcs, RestPcs, YieldPcs, TypeOK, TaskState
    <2>3. pc # "lost" /\ Spent(p) => pc' # "lost" /\ Spent(p)'
      BY <1>13, <2>2 DEF ApplyBlocked, KeepsFile, Spent, InHand, TryPcs, Body, Env
    <2> QED BY <1>1, <1>4, <2>1, <2>2, <2>3 DEF KeepsFile
  <1>14. CASE MarkPhaseCompleted
    <2>1. flows' = flows /\ crashes' = crashes BY <1>14 DEF MarkPhaseCompleted, Env
    <2>2. KeepsFile BY <1>14 DEF MarkPhaseCompleted, KeepsFile, ControlInv, Synced, SyncedPcs, RestPcs, YieldPcs, TypeOK, TaskState
    <2>3. pc # "lost" /\ Spent(p) => pc' # "lost" /\ Spent(p)'
      BY <1>14, <2>2 DEF MarkPhaseCompleted, KeepsFile, Spent, InHand, TryPcs, Body, Env
    <2> QED BY <1>1, <1>4, <2>1, <2>2, <2>3 DEF KeepsFile
  <1>15. CASE LeaveLoop
    <2>1. flows' = flows /\ crashes' = crashes BY <1>15 DEF LeaveLoop, Env
    <2>2. KeepsFile BY <1>15 DEF LeaveLoop, KeepsFile, ControlInv, Synced, SyncedPcs, RestPcs, YieldPcs, TypeOK, TaskState
    <2>3. pc # "lost" /\ Spent(p) => pc' # "lost" /\ Spent(p)'
      BY <1>15, <2>2 DEF LeaveLoop, KeepsFile, Spent, InHand, TryPcs, Body, Env
    <2> QED BY <1>1, <1>4, <2>1, <2>2, <2>3 DEF KeepsFile
  <1>16. CASE MarkTaskCompleted
    <2>1. flows' = flows /\ crashes' = crashes BY <1>16 DEF MarkTaskCompleted, Env
    <2>2. KeepsFile BY <1>16 DEF MarkTaskCompleted, KeepsFile, ControlInv, Synced, SyncedPcs, RestPcs, YieldPcs, TypeOK, TaskState
    <2>3. pc # "lost" /\ Spent(p) => pc' # "lost" /\ Spent(p)'
      BY <1>16, <2>2 DEF MarkTaskCompleted, KeepsFile, Spent, InHand, TryPcs, Body, Env
    <2> QED BY <1>1, <1>4, <2>1, <2>2, <2>3 DEF KeepsFile
  <1>17. CASE Return
    <2>1. flows' = flows /\ crashes' = crashes BY <1>17 DEF Return, Env
    <2>2. KeepsFile BY <1>17 DEF Return, KeepsFile, ControlInv, Synced, SyncedPcs, RestPcs, YieldPcs, TypeOK, TaskState
    <2>3. pc # "lost" /\ Spent(p) => pc' # "lost" /\ Spent(p)'
      BY <1>17, <2>2 DEF Return, KeepsFile, Spent, InHand, TryPcs, Body, Env
    <2> QED BY <1>1, <1>4, <2>1, <2>2, <2>3 DEF KeepsFile
  <1>18. CASE RequestPause
    <2>1. flows' = flows /\ crashes' = crashes BY <1>18 DEF RequestPause, Env
    <2>2. KeepsFile BY <1>18 DEF RequestPause, KeepsFile, ControlInv, Synced, SyncedPcs, RestPcs, YieldPcs, TypeOK, TaskState
    <2>3. pc # "lost" /\ Spent(p) => pc' # "lost" /\ Spent(p)'
      BY <1>18, <2>2 DEF RequestPause, KeepsFile, Spent, InHand, TryPcs, Body, Env
    <2> QED BY <1>1, <1>4, <2>1, <2>2, <2>3 DEF KeepsFile
  <1>19. CASE RequestCancel
    <2>1. flows' = flows /\ crashes' = crashes BY <1>19 DEF RequestCancel, Env
    <2>2. KeepsFile BY <1>19 DEF RequestCancel, Resumable, KeepsFile, ControlInv, Synced, SyncedPcs, RestPcs, YieldPcs, TypeOK, TaskState
    <2>3. pc # "lost" /\ Spent(p) => pc' # "lost" /\ Spent(p)'
      BY <1>19, <2>2 DEF RequestCancel, Resumable, KeepsFile, Spent, InHand, TryPcs, Body, Env
    <2> QED BY <1>1, <1>4, <2>1, <2>2, <2>3 DEF KeepsFile
  <1>20. CASE WriteFails
    <2>1. flows' = flows /\ crashes' = crashes BY <1>20 DEF WriteFails, Env
    <2>2. KeepsFile BY <1>20 DEF WriteFails, KeepsFile, ControlInv, Synced, SyncedPcs, RestPcs, YieldPcs, TypeOK, TaskState
    <2>3. pc # "lost" /\ Spent(p) => pc' # "lost" /\ Spent(p)'
      BY <1>20, <2>2 DEF WriteFails, KeepsFile, Spent, InHand, TryPcs, Body, Env
    <2> QED BY <1>1, <1>4, <2>1, <2>2, <2>3 DEF KeepsFile
  <1>21. CASE RunRaises
    <2>1. flows' = flows /\ crashes' = crashes BY <1>21 DEF RunRaises, Env
    <2>2. KeepsFile BY <1>21 DEF RunRaises, AtWork, KeepsFile, ControlInv, Synced, SyncedPcs, RestPcs, YieldPcs, TypeOK, TaskState
    <2>3. pc # "lost" /\ Spent(p) => pc' # "lost" /\ Spent(p)'
      BY <1>21, <2>2 DEF RunRaises, AtWork, KeepsFile, Spent, InHand, TryPcs, Body, Env
    <2> QED BY <1>1, <1>4, <2>1, <2>2, <2>3 DEF KeepsFile
  <1>22. CASE StartPhase
    <2>1. UNCHANGED <<disk, crashes>> /\ cur' = disk.phase /\ pc' = "flow" /\ disk.phase \in Phases
      BY <1>22 DEF StartPhase, AtWork, Env, ControlInv, Synced, SyncedPcs
    <2>2. CASE p = disk.phase
      <3>1. flows'[p] = flows[p] + 1 BY <1>22, <2>1, <2>2 DEF StartPhase, AtWork, ControlInv, Synced, SyncedPcs, TypeOK
      <3>2. Slack = 0
        BY <1>22, <2>1, <2>2, PhaseNumbers DEF Slack, Spent, InHand, StartPhase, AtWork, TryPcs
      <3>3. Spent(p)' BY <2>1, <2>2 DEF Spent, InHand
      <3> QED BY <1>1, <1>2, <2>1, <3>1, <3>2, <3>3
    <2>3. CASE p # disk.phase
      <3>1. flows'[p] = flows[p] BY <1>22, <2>1, <2>3 DEF StartPhase, AtWork, ControlInv, Synced, SyncedPcs, TypeOK
      <3>2. Spent(p) => Spent(p)'
        BY <1>22, <2>1, <2>3 DEF Spent, InHand, StartPhase, AtWork, TryPcs
      <3> QED BY <1>1, <1>2, <2>1, <3>1, <3>2 DEF Slack
    <2> QED BY <2>2, <2>3
  <1>23. CASE SaveRevision
    <2>1. /\ disk'.phase = disk.phase /\ disk'.rev = [disk.rev EXCEPT ![cur] = @ + 1]
          /\ UNCHANGED <<flows, crashes>> /\ pc' = "loop" /\ pc = "revsave"
      BY <1>23 DEF SaveRevision, Env, ControlInv, AheadInv
    <2>2. disk.rev \in [Phases -> Nat] BY <1>1, FieldTypes, MaxRevisionsAssumption
    <2>3. CASE p = cur
      BY <1>1, <1>2, <1>3, <2>1, <2>2, <2>3
    <2>4. CASE p # cur
      <3>1. Spent(p) => Spent(p)' BY <2>1, <2>4 DEF Spent, InHand
      <3> QED BY <1>1, <1>2, <2>1, <2>2, <2>4, <3>1 DEF Slack
    <2> QED BY <2>3, <2>4
  <1>24. CASE SavePhase
    <2>1. /\ disk.phase = cur /\ disk'.phase \in {cur + 1, Failed} /\ disk'.rev = disk.rev
          /\ UNCHANGED <<flows, crashes>> /\ pc' = "loop" /\ pc = "checkpoint"
      BY <1>24 DEF SavePhase, Env, ControlInv, AheadInv, CurInv, TryPcs
    <2>2. Spent(p) => Spent(p)' BY <1>1, <2>1, PhaseNumbers DEF Spent, InHand, Phases, Failed
    <2> QED BY <1>1, <1>4, <2>1, <2>2
  <1>25. CASE SaveException
    <2>1. /\ disk'.phase = Failed /\ UNCHANGED <<flows, crashes>> /\ pc' = "final"
          /\ \/ disk'.rev = disk.rev
             \/ disk.phase \in Phases /\ disk'.rev = [disk.rev EXCEPT ![disk.phase] = @ + 1]
      BY <1>25 DEF SaveException, Env, ControlInv, ExitInv
    <2>2. disk.rev \in [Phases -> Nat] BY <1>1, FieldTypes, MaxRevisionsAssumption
    <2>3. disk'.rev[p] >= disk.rev[p] BY <1>1, <2>1, <2>2
    <2> QED BY <1>4, <2>1, <2>3 DEF Spent
  <1>26. CASE Conclude
    <2>1. /\ disk' = Concluded(mem) /\ UNCHANGED <<flows, crashes>> /\ pc' = "mark" /\ pc = "final"
      BY <1>26 DEF Conclude, Env
    <2>2. disk'.phase = mem.phase /\ disk'.rev = mem.rev BY ONLY <1>1, <2>1, Reads
    <2>3. mem.rev = disk.rev /\ (mem.phase = disk.phase \/ mem.phase = Failed)
      <3>1. mem = disk \/ mem = FailedState(disk) BY <2>1 DEF ControlInv, ExitInv
      <3> QED BY ONLY <1>1, <3>1, Reads
    <2>4. Spent(p) => Spent(p)' BY <2>1, <2>2, <2>3 DEF Spent, InHand, TryPcs
    <2> QED BY <1>1, <1>4, <2>1, <2>2, <2>3, <2>4
  <1>27. CASE Restore
    <2>1. /\ disk' = Reinitialized(disk) /\ UNCHANGED <<flows, crashes, cur>> /\ pc' = "launch"
          /\ pc \in {"lost", "returned"} /\ disk.life \in {"running", "paused"}
      BY <1>27 DEF Restore, Resumable, Env, Body
    <2>2. /\ disk'.phase = (IF disk.phase = Completed THEN 1 ELSE disk.phase)
          /\ disk'.rev = disk.rev
      BY ONLY <1>1, <2>1, Reads
    <2>3. CASE pc = "lost" BY <1>1, <1>2, <2>1, <2>2, <2>3 DEF Slack
    \* A run that returned without ending the task was paused in a phase.
    <2>4. CASE pc = "returned"
      <3>1. disk.phase \in Phases
        BY <2>1, <2>4 DEF ControlInv, LifeInv
      <3>2. disk'.phase = disk.phase BY <2>2, <3>1, PhaseNumbers
      <3>3. Spent(p) => Spent(p)' BY <2>1, <2>4, <3>2 DEF Spent, InHand, TryPcs
      <3> QED BY <1>1, <1>4, <2>1, <2>2, <3>3
    <2> QED BY <2>1, <2>3, <2>4
  <1>28. CASE Crash
    <2>1. UNCHANGED <<disk, flows>> /\ crashes' = crashes + 1 /\ pc' = "lost" BY <1>28 DEF Crash
    <2> QED BY <1>1, <1>2, <1>3, <2>1
  <1> QED BY <1>5, <1>6, <1>7, <1>8, <1>9, <1>10, <1>11, <1>12, <1>13, <1>14, <1>15,
       <1>16, <1>17, <1>18, <1>19, <1>20, <1>21, <1>22, <1>23, <1>24, <1>25, <1>26, <1>27,
       <1>28 DEF Next, RunStep, TakePhase

-----------------------------------------------------------------------------
(* The manifest.                                                           *)

\* Every action keeps the manifest ahead of the checkpoint.
LEMMA ManifestStep ==
    ASSUME TypeOK, TypeOK', ControlInv, ManifestCoversCheckpoint, Next
    PROVE  ManifestCoversCheckpoint'
  <1>1. /\ disk \in TaskState /\ mem \in TaskState /\ cur \in Phases /\ manifest \in Manifest
        /\ disk.phase \in Nat
    BY FieldTypes, PhaseNumbers DEF TypeOK
  \* A step that keeps the phase, the passes and the marks of the phases.
  <1>2. ASSUME disk'.phase = disk.phase, disk'.passed = disk.passed,
               manifest'.phases = manifest.phases
        PROVE  ManifestCoversCheckpoint'
    BY <1>2 DEF ManifestCoversCheckpoint
  <1>3. CASE Launch
    <2>1. disk'.phase = disk.phase /\ disk'.passed = disk.passed
      BY <1>1, <1>3 DEF Launch, ControlInv, Synced, SyncedPcs, RestPcs, YieldPcs,
           AheadInv, TaskState
    <2>2. manifest'.phases = manifest.phases BY <1>1, <1>3 DEF Launch
    <2> QED BY <1>2, <2>1, <2>2
  <1>4. CASE Start
    <2>1. disk'.phase = disk.phase /\ disk'.passed = disk.passed
      BY <1>1, <1>4 DEF Start, ControlInv, Synced, SyncedPcs, RestPcs, YieldPcs,
           AheadInv, TaskState
    <2>2. manifest'.phases = manifest.phases BY <1>1, <1>4 DEF Start
    <2> QED BY <1>2, <2>1, <2>2
  <1>5. CASE ObeyRequest
    <2>1. disk'.phase = disk.phase /\ disk'.passed = disk.passed
      BY <1>1, <1>5 DEF ObeyRequest, AtWork, ControlInv, Synced, SyncedPcs, RestPcs,
           YieldPcs, AheadInv, TaskState
    <2>2. manifest'.phases = manifest.phases BY <1>1, <1>5 DEF ObeyRequest, AtWork
    <2> QED BY <1>2, <2>1, <2>2
  <1>6. CASE BudgetStop
    <2>1. disk'.phase = disk.phase /\ disk'.passed = disk.passed
      BY <1>1, <1>6 DEF BudgetStop, AtWork, ControlInv, Synced, SyncedPcs, RestPcs,
           YieldPcs, AheadInv, TaskState
    <2>2. manifest'.phases = manifest.phases BY <1>1, <1>6 DEF BudgetStop, AtWork
    <2> QED BY <1>2, <2>1, <2>2
  <1>7. CASE FlowReturns
    <2>1. disk'.phase = disk.phase /\ disk'.passed = disk.passed
      BY <1>1, <1>7 DEF FlowReturns, ControlInv, Synced, SyncedPcs, RestPcs, YieldPcs,
           AheadInv, TaskState
    <2>2. manifest'.phases = manifest.phases BY <1>1, <1>7 DEF FlowReturns
    <2> QED BY <1>2, <2>1, <2>2
  <1>8. CASE FlowRaises
    <2>1. disk'.phase = disk.phase /\ disk'.passed = disk.passed
      BY <1>1, <1>8 DEF FlowRaises, ControlInv, Synced, SyncedPcs, RestPcs, YieldPcs,
           AheadInv, TaskState
    <2>2. manifest'.phases = manifest.phases BY <1>1, <1>8 DEF FlowRaises
    <2> QED BY <1>2, <2>1, <2>2
  <1>9. CASE ApplyPass
    <2>1. disk'.phase = disk.phase /\ disk'.passed = disk.passed
      BY <1>1, <1>9 DEF ApplyPass, ControlInv, Synced, SyncedPcs, RestPcs, YieldPcs,
           AheadInv, TaskState
    <2>2. manifest'.phases = manifest.phases BY <1>1, <1>9 DEF ApplyPass
    <2> QED BY <1>2, <2>1, <2>2
  <1>10. CASE ApplyRevise
    <2>1. disk'.phase = disk.phase /\ disk'.passed = disk.passed
      BY <1>1, <1>10 DEF ApplyRevise, RevisionMarked, Manifest, ControlInv, Synced,
           SyncedPcs, RestPcs, YieldPcs, AheadInv, TaskState
    <2>2. manifest'.phases = manifest.phases BY <1>1, <1>10 DEF ApplyRevise, RevisionMarked, Manifest
    <2> QED BY <1>2, <2>1, <2>2
  <1>11. CASE ApplyBlocked
    <2>1. disk'.phase = disk.phase /\ disk'.passed = disk.passed
      BY <1>1, <1>11 DEF ApplyBlocked, ControlInv, Synced, SyncedPcs, RestPcs,
           YieldPcs, AheadInv, TaskState
    <2>2. manifest'.phases = manifest.phases BY <1>1, <1>11 DEF ApplyBlocked
    <2> QED BY <1>2, <2>1, <2>2
  <1>12. CASE SaveRevision
    <2>1. disk'.phase = disk.phase /\ disk'.passed = disk.passed
      BY <1>1, <1>12 DEF SaveRevision, ControlInv, Synced, SyncedPcs, RestPcs,
           YieldPcs, AheadInv, TaskState
    <2>2. manifest'.phases = manifest.phases BY <1>1, <1>12 DEF SaveRevision
    <2> QED BY <1>2, <2>1, <2>2
  <1>13. CASE LeaveLoop
    <2>1. disk'.phase = disk.phase /\ disk'.passed = disk.passed
      BY <1>1, <1>13 DEF LeaveLoop, ControlInv, Synced, SyncedPcs, RestPcs, YieldPcs,
           AheadInv, TaskState
    <2>2. manifest'.phases = manifest.phases BY <1>1, <1>13 DEF LeaveLoop
    <2> QED BY <1>2, <2>1, <2>2
  <1>14. CASE MarkTaskCompleted
    <2>1. disk'.phase = disk.phase /\ disk'.passed = disk.passed
      BY <1>1, <1>14 DEF MarkTaskCompleted, Manifest, ControlInv, Synced, SyncedPcs,
           RestPcs, YieldPcs, AheadInv, TaskState
    <2>2. manifest'.phases = manifest.phases BY <1>1, <1>14 DEF MarkTaskCompleted, Manifest
    <2> QED BY <1>2, <2>1, <2>2
  <1>15. CASE Return
    <2>1. disk'.phase = disk.phase /\ disk'.passed = disk.passed
      BY <1>1, <1>15 DEF Return, ControlInv, Synced, SyncedPcs, RestPcs, YieldPcs,
           AheadInv, TaskState
    <2>2. manifest'.phases = manifest.phases BY <1>1, <1>15 DEF Return
    <2> QED BY <1>2, <2>1, <2>2
  <1>16. CASE RequestPause
    <2>1. disk'.phase = disk.phase /\ disk'.passed = disk.passed
      BY <1>1, <1>16 DEF RequestPause, ControlInv, Synced, SyncedPcs, RestPcs,
           YieldPcs, AheadInv, TaskState
    <2>2. manifest'.phases = manifest.phases BY <1>1, <1>16 DEF RequestPause
    <2> QED BY <1>2, <2>1, <2>2
  <1>17. CASE RequestCancel
    <2>1. disk'.phase = disk.phase /\ disk'.passed = disk.passed
      BY <1>1, <1>17 DEF RequestCancel, Resumable, ControlInv, Synced, SyncedPcs,
           RestPcs, YieldPcs, AheadInv, TaskState
    <2>2. manifest'.phases = manifest.phases BY <1>1, <1>17 DEF RequestCancel, Resumable
    <2> QED BY <1>2, <2>1, <2>2
  <1>18. CASE WriteFails
    <2>1. disk'.phase = disk.phase /\ disk'.passed = disk.passed
      BY <1>1, <1>18 DEF WriteFails, ControlInv, Synced, SyncedPcs, RestPcs, YieldPcs,
           AheadInv, TaskState
    <2>2. manifest'.phases = manifest.phases BY <1>1, <1>18 DEF WriteFails
    <2> QED BY <1>2, <2>1, <2>2
  <1>19. CASE RunRaises
    <2>1. disk'.phase = disk.phase /\ disk'.passed = disk.passed
      BY <1>1, <1>19 DEF RunRaises, AtWork, ControlInv, Synced, SyncedPcs, RestPcs,
           YieldPcs, AheadInv, TaskState
    <2>2. manifest'.phases = manifest.phases BY <1>1, <1>19 DEF RunRaises, AtWork
    <2> QED BY <1>2, <2>1, <2>2
  <1>20. CASE Crash
    <2>1. disk'.phase = disk.phase /\ disk'.passed = disk.passed
      BY <1>1, <1>20 DEF Crash, ControlInv, Synced, SyncedPcs, RestPcs, YieldPcs,
           AheadInv, TaskState
    <2>2. manifest'.phases = manifest.phases BY <1>1, <1>20 DEF Crash
    <2> QED BY <1>2, <2>1, <2>2
  <1>21. CASE StartPhase
    <2>1. disk' = disk /\ \A q \in Phases : q < disk.phase => manifest'.phases[q] = manifest.phases[q]
      BY <1>1, <1>21, PhaseNumbers
      DEF StartPhase, AtWork, ControlInv, Synced, SyncedPcs, PhaseMarked, Manifest
    <2> QED BY <2>1 DEF ManifestCoversCheckpoint
  <1>22. CASE MarkPhaseCompleted
    <2>1. disk' = disk /\ disk.phase = cur
      BY <1>22 DEF MarkPhaseCompleted, ControlInv, CurInv, TryPcs
    <2>2. \A q \in Phases : q < disk.phase => manifest'.phases[q] = manifest.phases[q]
      BY <1>1, <1>22, <2>1, PhaseNumbers DEF MarkPhaseCompleted, PhaseMarked, Manifest
    <2> QED BY <2>1, <2>2 DEF ManifestCoversCheckpoint
  <1>23. CASE SavePhase
    <2>1. disk' = mem /\ manifest' = manifest /\ disk.phase = cur
      BY <1>23 DEF SavePhase, ControlInv, CurInv, TryPcs
    <2>2. CASE mem.phase = Failed BY <2>1, <2>2 DEF ManifestCoversCheckpoint, Failed, Phases
    <2>3. CASE mem.phase # Failed
      <3>1. /\ mem.phase = cur + 1 /\ mem.passed = disk.passed \cup {cur}
            /\ manifest.phases[cur] = "PASS"
        BY <1>23, <2>3 DEF SavePhase, ControlInv, AheadInv
      <3> SUFFICES ASSUME NEW q \in Phases, q < cur + 1
                   PROVE  q \in mem.passed /\ manifest.phases[q] = "PASS"
        BY <2>1, <3>1 DEF ManifestCoversCheckpoint
      <3>2. q = cur \/ q < disk.phase BY <1>1, <2>1, PhaseNumbers
      <3> QED BY <3>1, <3>2 DEF ManifestCoversCheckpoint
    <2> QED BY <2>2, <2>3
  <1>24. CASE SaveException
    <2>1. disk'.phase = Failed BY <1>24 DEF SaveException, ControlInv, ExitInv
    <2> QED BY <2>1 DEF ManifestCoversCheckpoint, Failed, Phases
  <1>25. CASE Conclude
    <2>1. disk' = Concluded(mem) /\ manifest' = manifest BY <1>25 DEF Conclude
    <2>2. disk'.phase = mem.phase /\ disk'.passed = mem.passed BY ONLY <1>1, <2>1, Reads
    <2>3. CASE mem = disk BY <1>2, <2>1, <2>2, <2>3
    <2>4. CASE mem = FailedState(disk)
      <3>1. mem.phase = Failed BY ONLY <1>1, <2>4, Reads
      <3> QED BY <2>2, <3>1 DEF ManifestCoversCheckpoint, Failed, Phases
    <2> QED BY <1>25, <2>3, <2>4 DEF Conclude, ControlInv, ExitInv
  <1>26. CASE Restore
    <2>1. disk' = Reinitialized(disk) /\ manifest' = manifest BY <1>26 DEF Restore
    <2>2. /\ disk'.phase = (IF disk.phase = Completed THEN 1 ELSE disk.phase)
          /\ disk'.passed = disk.passed
      BY ONLY <1>1, <2>1, Reads
    <2>3. CASE disk.phase = Completed BY <2>2, <2>3 DEF ManifestCoversCheckpoint, Phases
    <2>4. CASE disk.phase # Completed BY <1>2, <2>1, <2>2, <2>4
    <2> QED BY <2>3, <2>4
  <1> QED BY <1>3, <1>4, <1>5, <1>6, <1>7, <1>8, <1>9, <1>10, <1>11, <1>12, <1>13, <1>14,
       <1>15, <1>16, <1>17, <1>18, <1>19, <1>20, <1>21, <1>22, <1>23, <1>24, <1>25, <1>26
       DEF Next, RunStep, TakePhase

-----------------------------------------------------------------------------
(* The inductive invariant and what follows from it.                       *)

\* The initial states satisfy the invariant.
LEMMA InitIInv == Init => IInv
  <1> SUFFICES ASSUME Init PROVE IInv OBVIOUS
  <1>1. NewTask \in TaskState
    BY PhaseNumbers, MaxRevisionsAssumption, BoundsAssumption
    DEF TaskState, Lives, Controls, NewTask
  <1>2. NewManifest \in Manifest BY MaxRevisionsAssumption DEF Manifest, NewManifest
  <1>3. TypeOK
    <2>1. cur \in Phases /\ verdict \in Verdicts /\ pc \in LivePcs \cup RestPcs
      BY PhaseNumbers DEF Init, Verdicts, LivePcs
    <2>2. flows \in [Phases -> Nat] BY DEF Init
    <2>3. wall \in 0..MaxWall /\ crashes \in 0..MaxCrashes /\ faults \in 0..MaxFaults
      BY BoundsAssumption DEF Init
    <2> QED BY <1>1, <1>2, <2>1, <2>2, <2>3 DEF Init, TypeOK
  <1> USE DEF Init, NewTask, NewManifest
  <1>4. ControlInv
    BY PhaseNumbers, MaxRevisionsAssumption
    DEF ControlInv, RevisionsBounded, Synced, CurInv, AheadInv, ExitInv, LifeInv, CancelInv, TryPcs
  <1>5. ReexecutionInv BY DEF ReexecutionInv
  <1>6. ManifestCoversCheckpoint BY DEF ManifestCoversCheckpoint, Phases
  <1> QED BY <1>3, <1>4, <1>5, <1>6 DEF IInv, ControlInv

\* So does a step that changes nothing.
LEMMA StutterIInv == IInv /\ UNCHANGED vars => IInv'
  BY DEF IInv, TypeOK, RevisionsBounded, Synced, CurInv, AheadInv, ExitInv, LifeInv, CancelInv,
         ReexecutionInv, Spent, InHand, ManifestCoversCheckpoint, vars

\* The strengthening is inductive.
THEOREM Invariance == Spec => []IInv
  <1>1. IInv /\ [Next]_vars => IInv'
    <2> SUFFICES ASSUME IInv, Next PROVE IInv' BY StutterIInv
    <2>1. TypeOK /\ ControlInv /\ ReexecutionInv /\ ManifestCoversCheckpoint
      BY DEF IInv, ControlInv
    <2>2. TypeOK' BY <2>1, TypeStep DEF ControlInv
    <2>3. ControlInv' BY <2>1, <2>2, ControlStep
    <2>4. ReexecutionInv' BY <2>1, <2>2, ReexecutionStep
    <2>5. ManifestCoversCheckpoint' BY <2>1, <2>2, ManifestStep
    <2> QED BY <2>2, <2>3, <2>4, <2>5 DEF IInv, ControlInv
  <1> QED BY <1>1, InitIInv, PTL DEF Spec

\* Every variable of the run keeps its type.
THEOREM TypeCorrect == Spec => []TypeOK
  BY Invariance, PTL DEF IInv

\* The orchestrator never counts a revision beyond the limit that the
\* evaluator enforces, in memory or in the checkpoint.
THEOREM RevisionLimit == Spec => []RevisionsBounded
  BY Invariance, PTL DEF IInv

\* A phase is entered at most once more than its saved revisions and the
\* lost processes account for.
THEOREM ReexecutionLimit == Spec => []BoundedReexecution
  <1>1. IInv => BoundedReexecution
    <2> SUFFICES ASSUME IInv, NEW p \in Phases
                 PROVE  flows[p] <= disk.rev[p] + 1 + crashes
      BY DEF BoundedReexecution
    <2>1. disk.rev[p] \in Nat /\ flows[p] \in Nat /\ crashes \in Nat
      BY FieldTypes, MaxRevisionsAssumption, BoundsAssumption DEF IInv, TypeOK
    <2>2. flows[p] <= disk.rev[p] + crashes + (IF pc # "lost" /\ Spent(p) THEN 1 ELSE 0)
      BY DEF IInv, ReexecutionInv
    <2> QED BY <2>1, <2>2
  <1> QED BY <1>1, Invariance, PTL

\* The checkpoint is never ahead of the manifest.
THEOREM ManifestFirst == Spec => []ManifestCoversCheckpoint
  BY Invariance, PTL DEF IInv

\* No phase is entered after a cancel request was accepted.
THEOREM CancelStopsPhases == Spec => NoPhaseAfterCancel
  <1>1. IInv /\ [Next]_vars => [cancelled => flows' = flows]_vars
    <2> SUFFICES ASSUME IInv, Next, cancelled PROVE flows' = flows BY DEF vars
    <2>1. disk.control = "cancel" /\ mem.control = disk.control BY DEF IInv, CancelInv, LifeInv
    <2>2. ~StartPhase BY <2>1 DEF StartPhase
    <2> QED
      BY <2>2 DEF Next, RunStep, TakePhase, Launch, Start, ObeyRequest, BudgetStop,
           FlowReturns, FlowRaises,
         ApplyPass, ApplyRevise, ApplyBlocked, SaveRevision, MarkPhaseCompleted, SavePhase,
         SaveException, LeaveLoop, Conclude, MarkTaskCompleted, Return, RequestPause,
         RequestCancel, Restore, WriteFails, RunRaises, Crash
  <1> QED BY <1>1, Invariance, PTL DEF Spec, NoPhaseAfterCancel

-----------------------------------------------------------------------------
(* The two files.                                                          *)

\* What keeps FilesAgree: a revision is in the manifest before it is saved, a
\* run that marks its end has saved it, and a marked end is never left.
FilesInv ==
    /\ FilesAgree
    /\ pc = "revsave" => mem.rev[cur] <= manifest.revs[cur]
    /\ pc = "mark" => \/ disk.phase = Completed /\ disk.life = "completed"
                      \/ disk.phase = Failed /\ disk.life = "failed"
    /\ manifest.status # "running" =>
          /\ pc \in {"hooks", "returned", "lost"}
          /\ disk.life \in {"completed", "failed", "cancelled"}

\* What the updates leave alone in a manifest, and what they set.
LEMMA ManifestReads ==
    ASSUME NEW m \in Manifest, NEW p \in Phases, NEW v, NEW r
    PROVE  /\ PhaseMarked(m, p, v).revs = m.revs
           /\ PhaseMarked(m, p, v).status = m.status
           /\ RevisionMarked(m, p, r).status = m.status
           /\ RevisionMarked(m, p, r).revs
                = [m.revs EXCEPT ![p] = IF @ >= r THEN @ ELSE r]
  BY DEF Manifest, PhaseMarked, RevisionMarked

\* The checkpoint of a completed task records a pass of every phase.
LEMMA CompletedPassed ==
    ASSUME TypeOK, ManifestCoversCheckpoint, disk.phase = Completed
    PROVE  disk.passed = Phases
  <1>1. disk.passed \subseteq Phases BY DEF TypeOK, TaskState
  <1>2. \A p \in Phases : p < disk.phase BY NumPhasesAssumption DEF Phases, Completed
  <1> QED BY <1>1, <1>2 DEF ManifestCoversCheckpoint

\* A step that leaves the counts, the phase and the lifecycle of both files
\* alone, and does not reach a point where something new is claimed.
LEMMA FilesKept ==
    ASSUME FilesInv,
           manifest'.revs = manifest.revs, manifest'.status = manifest.status,
           disk'.rev = disk.rev, disk'.phase = disk.phase, disk'.life = disk.life,
           disk'.passed = disk.passed,
           pc' \notin {"revsave", "mark"},
           manifest.status # "running" => pc' \in {"hooks", "returned", "lost"}
    PROVE  FilesInv'
  BY DEF FilesInv, FilesAgree, RevisionCountsAgree, FinalStatusesAgree

\* Every step keeps the two files in agreement.
LEMMA FilesStep ==
    ASSUME IInv, IInv', FilesInv, Next
    PROVE  FilesInv'
  <1>0. /\ mem \in TaskState /\ disk \in TaskState /\ cur \in Phases /\ manifest \in Manifest
        /\ TypeOK /\ Synced /\ CurInv /\ AheadInv /\ ExitInv /\ LifeInv
        /\ TypeOK' /\ ManifestCoversCheckpoint'
    BY DEF IInv, TypeOK
  <1>00. /\ disk.rev \in [Phases -> Nat] /\ mem.rev \in [Phases -> Nat]
         /\ manifest.revs \in [Phases -> Nat]
    BY <1>0, MaxRevisionsAssumption DEF TaskState, Manifest
  <1> DEFINE Open == manifest.status = "running"
  <1>a. ASSUME pc \notin {"hooks", "returned", "lost"} PROVE Open BY <1>a DEF FilesInv
  <1>b. ASSUME Open, UNCHANGED <<disk, manifest>>, pc' \notin {"revsave", "mark"}
        PROVE  FilesInv'
    BY <1>b, FilesKept
  <1>1. CASE Launch
    <2>1. pc = "launch" /\ pc' = "start" /\ UNCHANGED manifest
          /\ disk' = [disk EXCEPT !.life = "running", !.control = "none"]
      BY <1>0, <1>1 DEF Launch, Synced, SyncedPcs
    <2>2. /\ disk'.life = "running" /\ disk'.phase = disk.phase /\ disk'.rev = disk.rev
          /\ disk.phase # Failed
      BY <1>0, <2>1 DEF TaskState, LifeInv
    <2> QED BY <1>a, <2>1, <2>2
         DEF FilesInv, FilesAgree, RevisionCountsAgree, FinalStatusesAgree
  <1>2. CASE Start BY <1>2, <1>a, <1>b DEF Start
  <1>3. CASE ObeyRequest
    <2>1. /\ mem = disk /\ disk' = mem' /\ disk.phase \in Phases /\ pc = "loop"
          /\ pc' = "returned" /\ UNCHANGED manifest
      BY <1>0, <1>3 DEF ObeyRequest, AtWork, Synced, SyncedPcs
    <2>2. /\ disk'.phase = disk.phase /\ disk'.rev = disk.rev
          /\ disk'.life \in {"paused", "cancelled"}
      BY <1>0, <1>3, <2>1 DEF ObeyRequest, TaskState
    <2> QED BY <1>a, <2>1, <2>2, PhaseNumbers
         DEF FilesInv, FilesAgree, RevisionCountsAgree, FinalStatusesAgree
  <1>4. CASE BudgetStop BY <1>4, <1>a, <1>b DEF BudgetStop, AtWork
  <1>5. CASE StartPhase
    <2>1. mem.phase \in Phases /\ pc = "loop" BY <1>5 DEF StartPhase, AtWork
    <2>2. manifest'.revs = manifest.revs /\ manifest'.status = manifest.status
      BY <1>0, <1>5, <2>1, ManifestReads DEF StartPhase
    <2> QED BY <1>5, <1>a, <2>1, <2>2, FilesKept DEF StartPhase
  <1>6. CASE FlowReturns BY <1>6, <1>a, <1>b DEF FlowReturns
  <1>7. CASE FlowRaises BY <1>7, <1>a, <1>b DEF FlowRaises
  <1>8. CASE ApplyPass BY <1>8, <1>a, <1>b DEF ApplyPass
  <1>9. CASE ApplyRevise
    <2> DEFINE r == disk.rev[cur] + 1
    <2>1. /\ mem = disk /\ disk.phase = cur /\ mem.rev[cur] < MaxRevisions
          /\ UNCHANGED <<disk, cur>> /\ Open
      BY <1>0, <1>9, <1>a DEF ApplyRevise, Synced, SyncedPcs, CurInv, TryPcs, AheadInv
    <2>2. Revised(mem, cur).rev = [disk.rev EXCEPT ![cur] = @ + 1]
      BY <1>0, <2>1, Reads
    <2>3. Revised(mem, cur).rev[cur] = r BY <1>00, <1>0, <2>2
    <2>4. pc' = "revsave" /\ mem' = Revised(mem, cur)
          /\ manifest' = RevisionMarked(manifest, cur, r)
      BY <1>0, <1>00, <1>9, <2>1, <2>3, MaxRevisionsAssumption DEF ApplyRevise
    <2>5. /\ manifest'.status = manifest.status
          /\ manifest'.revs = [manifest.revs EXCEPT ![cur] = IF @ >= r THEN @ ELSE r]
      BY <1>0, <2>4, ManifestReads
    <2>6. \A p \in Phases : manifest'.revs[p] >= manifest.revs[p]
                            /\ manifest'.revs[p] <= disk.rev[p] + 1
      BY <1>0, <1>00, <2>5 DEF FilesInv, FilesAgree, RevisionCountsAgree
    <2>7. mem'.rev[cur'] <= manifest'.revs[cur'] BY <1>0, <1>00, <2>1, <2>3, <2>4, <2>5
    <2>8. manifest'.revs \in [Phases -> Nat]
      BY <1>0, MaxRevisionsAssumption DEF TypeOK, Manifest
    <2>9. RevisionCountsAgree'
      BY <1>00, <2>1, <2>6, <2>8 DEF FilesInv, FilesAgree, RevisionCountsAgree
    <2> QED BY <2>1, <2>4, <2>5, <2>7, <2>9 DEF FilesInv, FilesAgree, FinalStatusesAgree
  <1>10. CASE ApplyBlocked BY <1>10, <1>a, <1>b DEF ApplyBlocked
  <1>11. CASE SaveRevision
    <2>1. /\ pc = "revsave" /\ pc' = "loop" /\ disk' = mem /\ UNCHANGED manifest
          /\ mem.phase = disk.phase /\ mem.life = disk.life /\ mem.passed = disk.passed
          /\ mem.rev = [disk.rev EXCEPT ![cur] = @ + 1]
      BY <1>0, <1>11 DEF SaveRevision, AheadInv
    <2>2. mem.rev[cur] <= manifest.revs[cur] BY <2>1 DEF FilesInv
    <2>3. RevisionCountsAgree'
      BY <1>0, <1>00, <2>1, <2>2 DEF FilesInv, FilesAgree, RevisionCountsAgree
    <2> QED BY <1>a, <2>1, <2>3 DEF FilesInv, FilesAgree, FinalStatusesAgree
  <1>12. CASE MarkPhaseCompleted
    <2>1. manifest'.revs = manifest.revs /\ manifest'.status = manifest.status
      BY <1>0, <1>12, ManifestReads DEF MarkPhaseCompleted
    <2> QED BY <1>12, <1>a, <2>1, FilesKept DEF MarkPhaseCompleted
  <1>13. CASE SavePhase
    <2>1. /\ pc = "checkpoint" /\ pc' = "loop" /\ disk' = mem /\ UNCHANGED manifest
          /\ mem.rev = disk.rev /\ disk.phase = cur
          /\ disk.life \in {"running", "cancelled"}
          /\ \/ mem.phase = cur + 1 /\ mem.life = disk.life
             \/ mem.phase = Failed /\ mem.life = "failed"
      BY <1>0, <1>13 DEF SavePhase, AheadInv, CurInv, TryPcs
    <2>2. cur # Failed /\ cur + 1 # Failed BY <1>0, PhaseNumbers DEF Phases, Failed
    <2>3. RevisionCountsAgree'
      BY <1>0, <1>00, <2>1, <2>2 DEF FilesInv, FilesAgree, RevisionCountsAgree
    <2> QED BY <1>a, <2>1, <2>2, <2>3 DEF FilesInv, FilesAgree, FinalStatusesAgree
  <1>14. CASE SaveException
    <2>1. /\ pc = "handler" /\ pc' = "final" /\ disk' = mem /\ UNCHANGED manifest
          /\ mem.phase = Failed /\ mem.life = "failed" /\ disk.phase \in Phases
          /\ \/ mem.rev = disk.rev
             \/ mem.rev = [disk.rev EXCEPT ![disk.phase] = @ + 1]
      BY <1>0, <1>14 DEF SaveException, ExitInv
    <2>2. \A p \in Phases : disk.rev[p] <= manifest.revs[p]
      BY <1>00, <2>1, PhaseNumbers DEF FilesInv, FilesAgree, RevisionCountsAgree
    <2>3. RevisionCountsAgree'
      BY <1>00, <2>1, <2>2 DEF FilesInv, FilesAgree, RevisionCountsAgree
    <2> QED BY <1>a, <2>1, <2>3, PhaseNumbers DEF FilesInv, FilesAgree, FinalStatusesAgree
  <1>15. CASE LeaveLoop BY <1>15, <1>a, <1>b DEF LeaveLoop
  <1>16. CASE Conclude
    <2>1. disk' = Concluded(mem) /\ pc = "final" /\ pc' = "mark" /\ UNCHANGED manifest
      BY <1>16 DEF Conclude
    <2>2. /\ disk'.life = (IF mem.phase = Completed THEN "completed" ELSE "failed")
          /\ disk'.phase = mem.phase /\ disk'.rev = mem.rev
      BY ONLY <1>0, <2>1, Reads
    <2>3. mem.phase \in {Completed, Failed} /\ mem.rev = disk.rev
          /\ (mem.phase = disk.phase \/ mem.phase = Failed)
      <3>1. FailedState(disk).phase = Failed /\ FailedState(disk).rev = disk.rev
        BY ONLY <1>0, Reads, PhaseNumbers
      <3> QED BY <1>0, <2>1, <3>1 DEF ExitInv
    <2>4. RevisionCountsAgree'
      BY <1>00, <2>1, <2>2, <2>3 DEF FilesInv, FilesAgree, RevisionCountsAgree
    <2> QED BY <1>a, <2>1, <2>2, <2>3, <2>4, PhaseNumbers
         DEF FilesInv, FilesAgree, FinalStatusesAgree
  <1>17. CASE MarkTaskCompleted
    <2>1. /\ pc = "mark" /\ pc' = "hooks" /\ UNCHANGED disk /\ mem = disk
          /\ manifest' = [manifest EXCEPT !.status = IF disk.phase = Completed
                                                     THEN "passed" ELSE "failed"]
      BY <1>0, <1>17 DEF MarkTaskCompleted, Synced, SyncedPcs
    <2>2. /\ manifest'.revs = manifest.revs
          /\ manifest'.status = (IF disk.phase = Completed THEN "passed" ELSE "failed")
      BY <1>0, <2>1 DEF Manifest
    <2>3. \/ disk.phase = Completed /\ disk.life = "completed"
          \/ disk.phase = Failed /\ disk.life = "failed"
      BY <2>1 DEF FilesInv
    <2>4. disk.phase = Completed => disk.passed = Phases
      BY CompletedPassed DEF IInv
    <2> QED BY <2>1, <2>2, <2>3, <2>4, PhaseNumbers
         DEF FilesInv, FilesAgree, RevisionCountsAgree, FinalStatusesAgree
  <1>18. CASE Return BY <1>18, FilesKept DEF Return
  <1>19. CASE RequestPause
    <2>1. mem = disk /\ disk' = [disk EXCEPT !.control = "pause"]
      BY <1>0, <1>19 DEF RequestPause, YieldPcs, Synced, SyncedPcs
    <2>2. /\ disk'.rev = disk.rev /\ disk'.phase = disk.phase /\ disk'.life = disk.life
          /\ disk'.passed = disk.passed
      BY <1>0, <2>1 DEF TaskState
    <2>3. UNCHANGED <<pc, manifest>> /\ pc \in YieldPcs BY <1>19 DEF RequestPause
    <2> QED BY <1>a, <2>2, <2>3, FilesKept DEF YieldPcs
  <1>20. CASE RequestCancel
    <2>1. mem = disk /\ disk' = [disk EXCEPT !.control = "cancel", !.life = "cancelled"]
      BY <1>0, <1>20
      DEF RequestCancel, Resumable, YieldPcs, Synced, SyncedPcs, RestPcs
    <2>2. /\ disk'.rev = disk.rev /\ disk'.phase = disk.phase /\ disk'.life = "cancelled"
          /\ disk'.passed = disk.passed
      BY <1>0, <2>1 DEF TaskState
    <2>3. UNCHANGED <<pc, manifest>> /\ pc \notin {"revsave", "mark"}
      BY <1>20 DEF RequestCancel, YieldPcs, Resumable
    <2> QED BY <2>2, <2>3
         DEF FilesInv, FilesAgree, RevisionCountsAgree, FinalStatusesAgree
  <1>21. CASE Restore
    <2>1. /\ disk' = Reinitialized(disk) /\ disk.life \in {"running", "paused"}
          /\ UNCHANGED manifest /\ pc' = "launch"
      BY <1>21 DEF Restore, Resumable
    <2>2. /\ disk'.phase = (IF disk.phase = Completed THEN 1 ELSE disk.phase)
          /\ disk'.life = disk.life /\ disk'.rev = disk.rev
      BY ONLY <1>0, <2>1, Reads
    <2>3. Open /\ disk.phase # Failed /\ disk'.phase # Failed
      BY <1>0, <2>1, <2>2, PhaseNumbers DEF FilesInv, LifeInv
    <2> QED BY <2>1, <2>2, <2>3
         DEF FilesInv, FilesAgree, RevisionCountsAgree, FinalStatusesAgree
  <1>22. CASE WriteFails BY <1>22, <1>a, <1>b DEF WriteFails, TryPcs
  <1>23. CASE RunRaises BY <1>23, <1>a, <1>b DEF RunRaises, AtWork
  <1>24. CASE Crash BY <1>24, FilesKept DEF Crash
  <1> QED BY <1>1, <1>2, <1>3, <1>4, <1>5, <1>6, <1>7, <1>8, <1>9, <1>10, <1>11, <1>12,
             <1>13, <1>14, <1>15, <1>16, <1>17, <1>18, <1>19, <1>20, <1>21, <1>22, <1>23,
             <1>24 DEF Next, RunStep, TakePhase

\* The checkpoint and the manifest agree, up to the one revision a lost process
\* or a failed write leaves between them, and an end the manifest has published
\* is the end of the checkpoint.
THEOREM TwoFilesAgree == Spec => []FilesAgree
  <1>1. Init => FilesInv
    <2> SUFFICES ASSUME Init PROVE FilesInv OBVIOUS
    <2>1. /\ disk.phase = 1 /\ disk.life = "pending" /\ disk.rev = [p \in Phases |-> 0]
          /\ manifest.status = "running" /\ manifest.revs = [p \in Phases |-> 0]
          /\ pc = "launch"
      BY DEF Init, NewTask, NewManifest
    <2> QED BY <2>1, PhaseNumbers
         DEF FilesInv, FilesAgree, RevisionCountsAgree, FinalStatusesAgree
  <1>2. FilesInv /\ UNCHANGED vars => FilesInv'
    BY DEF FilesInv, FilesAgree, RevisionCountsAgree, FinalStatusesAgree, vars
  <1>3. IInv /\ IInv' /\ FilesInv /\ [Next]_vars => FilesInv' BY <1>2, FilesStep
  <1>4. FilesInv => FilesAgree BY DEF FilesInv
  <1> QED BY <1>1, <1>3, <1>4, Invariance, PTL DEF Spec

-----------------------------------------------------------------------------
(* Refinement.                                                             *)

\* Every step is, on the file, a step of TaskLifecycle or a stutter.
LEMMA LifecycleStep ==
    ASSUME IInv, IInv', Next
    PROVE  [Lifecycle!Next]_(Lifecycle!vars)
  <1> USE DEF Lifecycle!vars, Lifecycle!Next
  <1>1. /\ disk \in TaskState /\ mem \in TaskState /\ cur \in Phases
        /\ TypeOK /\ Synced /\ CurInv /\ AheadInv /\ ExitInv /\ LifeInv
    BY DEF IInv, TypeOK
  <1> DEFINE Stutters == disk'.life = disk.life /\ disk'.phase = disk.phase /\ disk'.rev = disk.rev
  <1>2. CASE Start BY <1>2 DEF Start
  <1>3. CASE BudgetStop BY <1>3 DEF BudgetStop
  <1>4. CASE StartPhase BY <1>4 DEF StartPhase
  <1>5. CASE FlowReturns BY <1>5 DEF FlowReturns
  <1>6. CASE FlowRaises BY <1>6 DEF FlowRaises
  <1>7. CASE ApplyPass BY <1>7 DEF ApplyPass
  <1>8. CASE ApplyRevise BY <1>8 DEF ApplyRevise
  <1>9. CASE ApplyBlocked BY <1>9 DEF ApplyBlocked
  <1>10. CASE MarkPhaseCompleted BY <1>10 DEF MarkPhaseCompleted
  <1>11. CASE LeaveLoop BY <1>11 DEF LeaveLoop
  <1>12. CASE MarkTaskCompleted BY <1>12 DEF MarkTaskCompleted
  <1>13. CASE Return BY <1>13 DEF Return
  <1>14. CASE WriteFails BY <1>14 DEF WriteFails
  <1>15. CASE RunRaises BY <1>15 DEF RunRaises
  <1>16. CASE Crash BY <1>16 DEF Crash
  <1>17. CASE Launch
    <2>1. pc = "launch" /\ disk' = [disk EXCEPT !.life = "running", !.control = "none"]
      BY <1>1, <1>17 DEF Launch, Synced, SyncedPcs
    <2>2. disk'.life = "running" /\ disk'.phase = disk.phase /\ disk'.rev = disk.rev
      BY ONLY <1>1, <2>1 DEF TaskState
    <2> QED BY <1>1, <2>1, <2>2 DEF Lifecycle!Start, LifeInv
  <1>18. CASE ObeyRequest
    <2>1. /\ mem = disk /\ disk' = mem' /\ disk.phase \in Phases
          /\ disk.life \in {"running", "cancelled"}
      BY <1>1, <1>18, PhaseNumbers DEF ObeyRequest, AtWork, Synced, SyncedPcs, LifeInv
    <2>2. disk'.phase = disk.phase /\ disk'.rev = disk.rev
      BY <1>1, <1>18, <2>1 DEF ObeyRequest, TaskState
    <2>3. \/ disk'.life = "paused" /\ disk.control = "pause"
          \/ disk'.life = "cancelled"
      BY <1>1, <1>18, <2>1 DEF ObeyRequest, TaskState, Controls
    <2>4. disk.control = "pause" => disk.life = "running" BY <1>1, <2>1 DEF LifeInv
    <2> QED BY <2>1, <2>2, <2>3, <2>4 DEF Lifecycle!Pause, Lifecycle!Cancel
  <1>19. CASE SaveRevision
    <2>1. /\ disk' = mem /\ mem.phase = disk.phase /\ mem.life = disk.life
          /\ disk.rev[cur] < MaxRevisions /\ mem.rev = [disk.rev EXCEPT ![cur] = @ + 1]
          /\ disk.phase = cur /\ disk.life \in {"running", "cancelled"}
      BY <1>1, <1>19 DEF SaveRevision, AheadInv, CurInv, TryPcs
    <2> QED BY <1>1, <2>1 DEF Lifecycle!Revise, Lifecycle!Phases, Phases
  <1>20. CASE SavePhase
    <2>1. /\ disk' = mem /\ mem.rev = disk.rev /\ disk.phase = cur
          /\ disk.life \in {"running", "cancelled"}
          /\ \/ mem.phase = cur + 1 /\ mem.life = disk.life
             \/ mem.phase = Failed /\ mem.life = "failed"
      BY <1>1, <1>20 DEF SavePhase, AheadInv, CurInv, TryPcs
    <2> QED BY <1>1, <2>1 DEF Lifecycle!Advance, Lifecycle!Fail, Lifecycle!Phases, Phases,
                             Lifecycle!Failed, Failed
  <1>21. CASE SaveException
    <2>1. /\ disk' = mem /\ mem.phase = Failed /\ mem.life = "failed"
          /\ disk.phase \in Phases /\ disk.life \in {"running", "cancelled"}
          /\ \/ mem.rev = disk.rev
             \/ disk.rev[disk.phase] < MaxRevisions
                /\ mem.rev = [disk.rev EXCEPT ![disk.phase] = @ + 1]
      BY <1>1, <1>21 DEF SaveException, ExitInv
    <2> QED BY <2>1 DEF Lifecycle!Fail, Lifecycle!Phases, Phases, Lifecycle!Failed, Failed
  <1>22. CASE Conclude
    <2>1. disk' = Concluded(mem) /\ pc = "final" BY <1>22 DEF Conclude
    <2>2. /\ disk'.life = (IF mem.phase = Completed THEN "completed" ELSE "failed")
          /\ disk'.phase = mem.phase /\ disk'.rev = mem.rev
      BY ONLY <1>1, <2>1, Reads
    <2>3. CASE mem = disk /\ mem.phase = Completed /\ mem.life \in {"running", "cancelled"}
      BY <2>2, <2>3 DEF Lifecycle!Complete, Lifecycle!Completed, Completed
    <2>4. CASE mem = disk /\ mem.phase = Failed /\ mem.life = "failed"
      BY <2>2, <2>4, PhaseNumbers
    <2>5. CASE mem = FailedState(disk) /\ disk.life \in {"running", "cancelled"}
      <3>1. mem.phase = Failed /\ mem.rev = disk.rev BY ONLY <1>1, <2>5, Reads
      <3> QED BY <2>2, <2>5, <3>1, PhaseNumbers DEF Lifecycle!Fail, Lifecycle!Failed, Failed
    <2> QED BY <1>1, <2>1, <2>3, <2>4, <2>5 DEF ExitInv
  <1>23. CASE RequestPause
    <2>1. mem = disk BY <1>1, <1>23 DEF RequestPause, YieldPcs, Synced, SyncedPcs
    <2>2. Stutters BY <1>1, <1>23, <2>1 DEF RequestPause, TaskState
    <2> QED BY <2>2
  <1>24. CASE RequestCancel
    <2>1. mem = disk
      BY <1>1, <1>24 DEF RequestCancel, Resumable, YieldPcs, Synced, SyncedPcs, RestPcs
    <2>2. disk'.life = "cancelled" /\ disk'.phase = disk.phase /\ disk'.rev = disk.rev
      BY <1>1, <1>24, <2>1 DEF RequestCancel, TaskState
    <2> QED BY <2>2 DEF Lifecycle!Cancel
  <1>25. CASE Restore
    <2>1. disk' = Reinitialized(disk) /\ disk.life \in {"running", "paused"}
      BY <1>25 DEF Restore, Resumable
    <2>2. /\ disk'.phase = (IF disk.phase = Completed THEN 1 ELSE disk.phase)
          /\ disk'.life = disk.life /\ disk'.rev = disk.rev
      BY ONLY <1>1, <2>1, Reads
    <2>3. CASE disk.phase = Completed
      <3>1. disk.life = "running" BY <1>1, <2>1, <2>3, PhaseNumbers DEF LifeInv
      <3> QED BY <2>2, <2>3, <3>1 DEF Lifecycle!StartOver, Lifecycle!Completed, Completed
    <2>4. CASE disk.phase # Completed BY <2>2, <2>4
    <2> QED BY <2>3, <2>4
  <1> QED BY <1>2, <1>3, <1>4, <1>5, <1>6, <1>7, <1>8, <1>9, <1>10, <1>11, <1>12, <1>13,
       <1>14, <1>15, <1>16, <1>17, <1>18, <1>19, <1>20, <1>21, <1>22, <1>23, <1>24, <1>25
       DEF Next, RunStep, TakePhase

\* On task_state.json the orchestrator behaves as TaskLifecycle allows: no
\* phase is skipped, revisions are limited and every end is a lawful one.
THEOREM RefinesLifecycle == Spec => ImplementsLifecycle
  <1>1. Init => Lifecycle!Init
    BY DEF Init, NewTask, Lifecycle!Init, Lifecycle!Phases, Phases
  <1>2. IInv /\ IInv' /\ [Next]_vars => [Lifecycle!Next]_(Lifecycle!vars)
    <2>1. UNCHANGED vars => UNCHANGED Lifecycle!vars BY DEF vars, Lifecycle!vars
    <2> QED BY <2>1, LifecycleStep
  <1> QED BY <1>1, <1>2, Invariance, PTL DEF Spec, ImplementsLifecycle, Lifecycle!Spec
=============================================================================

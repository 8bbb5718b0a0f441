--------------------------- MODULE TaskSessionProofs ---------------------------
(***************************************************************************)
(* Theorems about TaskSession for every number of phases, messages, tokens, *)
(* tasks, runs and restarts, and about TaskLease, the lease that a recovery *)
(* at start-up claims, for every set of processes, every time to live and   *)
(* every bound on the clock.                                                *)
(***************************************************************************)
EXTENDS TaskSession, TaskLease, FiniteSetTheorems, TLAPS

-----------------------------------------------------------------------------
(* The invariant, part by part.                                            *)

Created(t) == store[t].life # "none"
CreatedTasks == {t \in Tasks : Created(t)}

\* Every run has a task that was created, and every entry of _task_states a run.
RunsInv ==
    /\ \A r \in Runs : Alive(r) => runs[r].task \in Tasks /\ runs[r].obj.life # "none"
    /\ \A r \in Runs : runs[r].pc = "flow" => runs[r].obj.phase \in Phases
    /\ \A t \in Tasks : live[t] # 0 => Alive(live[t]) /\ runs[live[t]].task = t

\* No token starts more tasks than there are.
CountInv == \A k \in Tokens : started[k] <= Cardinality(CreatedTasks)

TypeInv == TypeOK /\ RunsInv /\ CountInv

\* The one run of a session works on its task, and suspended messages have seen
\* that task or none.
ReachInv ==
    /\ \A r \in Runs : Alive(r) => runs[r].task = ctx.task /\ live[ctx.task] = r
    /\ \A m \in Messages : msgs[m].seen.task \in {0, ctx.task}

\* Its object is the one in the file, and cannot have ended before its loop has.
ObjectInv ==
    \A r \in Runs : Alive(r) =>
        /\ runs[r].obj = store[runs[r].task]
        /\ runs[r].pc \in {"ready", "flow"} => runs[r].obj.life \in {"running", "cancelled"}

\* What the status of the session and the file of its task say of each other.
BoundStatuses == {"running", "paused", "cancelled", "completed", "failed"}
FileInv ==
    Bound =>
        /\ Created(ctx.task) /\ status \in BoundStatuses
        /\ store[ctx.task].life = "paused" => store[ctx.task].control = "pause"
        /\ store[ctx.task].life = "cancelled" => store[ctx.task].control = "cancel"
        /\ store[ctx.task].control = "cancel" <=> status = "cancelled"
        /\ status = "completed" => store[ctx.task].life = "completed"

PausedInv == status = "paused" => Bound /\ store[ctx.task].control = "pause"

ServedInv ==
    status = "running" =>
        /\ Bound
        /\ \/ \E r \in Runs : Alive(r)
           \/ store[ctx.task].life \in {"paused", "cancelled", "completed", "failed"}
           \/ leased[ctx.task] \/ store[ctx.task].control = "pause"

Sound == ReachInv /\ ObjectInv /\ FileInv /\ PausedInv /\ ServedInv
SessionInv == Orderly => Sound

-----------------------------------------------------------------------------
(* Helpers.                                                                *)

LEMMA Sizes ==
    /\ NumPhases \in Nat \ {0} /\ MaxRuns \in Nat \ {0}
    /\ MaxTokens \in Nat /\ MaxTasks \in Nat /\ MaxCrashes \in Nat
    /\ 1 \in Runs /\ 0 \notin Runs /\ 0 \notin Tasks /\ \A r \in Runs : r \in 0..MaxRuns
    /\ \A t \in Tasks : t \in 0..MaxTasks
    /\ Completed \notin Phases /\ Failed \notin Phases /\ Phases \subseteq 0..Completed
  BY SizesAssumption DEF Runs, Tasks, Phases, Completed, Failed

\* The table of transitions, as far as it matters.
LEMMA Becomes ==
    ASSUME status \in Statuses, NEW s, Become(s)
    PROVE  /\ status' \in Statuses /\ status' \in {s, status}
           /\ status \in {"cancelled", "completed"} => status' = status
           /\ status \in {"running", "paused"} /\ s \in BoundStatuses => status' = s
           /\ status = "failed" /\ s \in BoundStatuses => status' = status
           /\ status \in BoundStatuses /\ s \in {"waiting_user_input", "waiting_confirmation"}
                => status' = status
           /\ status \in {"running", "paused"} /\ s = "active" => status' = status
  <1>1. status' = IF s \in Transitions[status] THEN s ELSE status BY DEF Become
  <1>2. Transitions[status] \subseteq Statuses BY DEF Transitions, Statuses
  <1>3. /\ status \in {"cancelled", "completed"} => Transitions[status] = {status}
        /\ status = "running" => Transitions[status] = {"running", "paused", "cancelled",
                                                        "completed", "failed"}
        /\ status = "paused" => Transitions[status] = {"paused", "running", "cancelled",
                                                       "completed", "failed", "closed"}
        /\ status = "failed" => Transitions[status] = {"failed", "active"}
    BY DEF Transitions, Statuses
  <1> QED BY <1>1, <1>2, <1>3 DEF BoundStatuses

\* The loop goes on, or the object of the run says why it has ended.
LEMMA LoopTop ==
    ASSUME NEW run \in Run, NEW o \in TaskState, NEW n, n = FromLoopTop(run, o)
    PROVE  /\ n \in Run /\ n.pc \in {"flow", "hooks", "done"}
           /\ n.task = run.task /\ n.recovered = run.recovered
           /\ n.obj.control = o.control
           /\ \/ n.obj.life \in {o.life, "completed", "failed"}
              \/ n.obj.life = "paused" /\ o.control = "pause"
              \/ n.obj.life = "cancelled" /\ o.control = "cancel"
           /\ n.pc = "flow" => n.obj = o /\ o.phase \in Phases
  <1>1. \A l \in Lives : [o EXCEPT !.life = l] \in TaskState BY DEF TaskState
  <1>2. {"completed", "failed", "paused", "cancelled"} \subseteq Lives BY DEF Lives
  <1>3. \A l \in RunPcs, x \in TaskState : [run EXCEPT !.pc = l, !.obj = x] \in Run BY DEF Run
  <1>4. {"flow", "hooks", "done"} \subseteq RunPcs BY DEF RunPcs
  <1>5. o.phase \in Phases \/ o.phase = Completed \/ o.phase = Failed
    BY Sizes DEF TaskState, Phases, Completed, Failed
  <1>6. CASE o.phase = Completed
    <2>1. n = [run EXCEPT !.pc = "hooks", !.obj = [o EXCEPT !.life = "completed"]]
      BY <1>6, Sizes DEF FromLoopTop, Completed, Failed
    <2> QED BY <1>1, <1>2, <1>3, <1>4, <2>1 DEF Run, TaskState
  <1>7. CASE o.phase = Failed
    <2>1. n = [run EXCEPT !.pc = "hooks", !.obj = [o EXCEPT !.life = "failed"]]
      BY <1>7, Sizes DEF FromLoopTop, Completed, Failed
    <2> QED BY <1>1, <1>2, <1>3, <1>4, <2>1 DEF Run, TaskState
  <1>8. CASE o.phase \in Phases
    <2>0. o.phase # Completed /\ o.phase # Failed BY <1>8, Sizes
    <2>1. CASE o.control = "pause"
      <3>1. n = [run EXCEPT !.pc = "done", !.obj = [o EXCEPT !.life = "paused"]]
        BY <1>8, <2>0, <2>1 DEF FromLoopTop
      <3>2. n \in Run
        <4>1. "paused" \in Lives /\ "done" \in RunPcs BY <1>2, <1>4
        <4>2. [o EXCEPT !.life = "paused"] \in TaskState BY <1>1, <4>1
        <4> DEFINE x == [o EXCEPT !.life = "paused"]
        <4>3. n = [run EXCEPT !.pc = "done", !.obj = x] /\ x \in TaskState BY <3>1, <4>2
        <4> HIDE DEF x
        <4> QED BY <1>3, <4>1, <4>3
      <3> QED BY <2>1, <3>1, <3>2 DEF Run, TaskState
    <2>2. CASE o.control = "cancel"
      <3>1. n = [run EXCEPT !.pc = "done", !.obj = [o EXCEPT !.life = "cancelled"]]
        BY <1>8, <2>0, <2>2 DEF FromLoopTop
      <3>2. n \in Run
        <4>1. "cancelled" \in Lives /\ "done" \in RunPcs BY <1>2, <1>4
        <4>2. [o EXCEPT !.life = "cancelled"] \in TaskState BY <1>1, <4>1
        <4> DEFINE x == [o EXCEPT !.life = "cancelled"]
        <4>3. n = [run EXCEPT !.pc = "done", !.obj = x] /\ x \in TaskState BY <3>1, <4>2
        <4> HIDE DEF x
        <4> QED BY <1>3, <4>1, <4>3
      <3> QED BY <2>2, <3>1, <3>2 DEF Run, TaskState
    <2>3. CASE o.control \notin {"pause", "cancel"}
      <3>1. n = [run EXCEPT !.pc = "flow", !.obj = o] BY <1>8, <2>0, <2>3 DEF FromLoopTop
      <3> QED BY <1>3, <1>4, <1>8, <3>1 DEF Run
    <2> QED BY <2>1, <2>2, <2>3
  <1> QED BY <1>5, <1>6, <1>7, <1>8

\* Of that, what the types need.
LEMMA LoopGoesOn ==
    ASSUME NEW run \in Run, NEW o \in TaskState, o.life # "none", NEW n, n = FromLoopTop(run, o)
    PROVE  /\ n \in Run /\ n.pc # "none" /\ n.task = run.task /\ n.obj.life # "none"
           /\ n.pc = "flow" => n.obj.phase \in Phases
  <1>1. n \in Run /\ n.pc \in {"flow", "hooks", "done"} /\ n.task = run.task BY LoopTop
  <1>2. \/ n.obj.life \in {o.life, "completed", "failed"}
        \/ n.obj.life = "paused" /\ o.control = "pause"
        \/ n.obj.life = "cancelled" /\ o.control = "cancel"
    BY LoopTop
  <1>3. n.pc = "flow" => n.obj = o /\ o.phase \in Phases BY LoopTop
  <1> QED BY <1>1, <1>2, <1>3

\* Restoring a task.
LEMMA Restoring ==
    ASSUME NEW s \in TaskState
    PROVE  /\ Restored(s) \in TaskState /\ Restored(s).life = "running"
           /\ Restored(s).control = "none"
  <1>1. Reinitialized(s) \in TaskState
    BY Sizes DEF Reinitialized, TaskState, Completed
  <1> QED BY <1>1 DEF Restored, TaskState, Lives, Controls

\* A new run.
LEMMA NewRuns ==
    ASSUME NEW t \in Tasks, NEW s \in TaskState, NEW b \in BOOLEAN
    PROVE  /\ NewRun(t, s, b) \in Run /\ NewRun(t, s, b).pc = "ready"
           /\ NewRun(t, s, b).task = t /\ NewRun(t, s, b).obj = s
  BY Sizes DEF NewRun, Run, RunPcs

\* What a request leaves in an object.
LEMMA Requesting ==
    ASSUME NEW s \in TaskState
    PROVE  /\ PauseRequested(s) \in TaskState /\ CancelRequested(s) \in TaskState
           /\ PauseRequested(s).life = s.life /\ PauseRequested(s).control = "pause"
           /\ PauseRequested(s).phase = s.phase
           /\ CancelRequested(s).life = "cancelled" /\ CancelRequested(s).control = "cancel"
           /\ CancelRequested(s).phase = s.phase
  <1>1. "pause" \in Controls /\ "cancel" \in Controls /\ "cancelled" \in Lives
    BY DEF Controls, Lives
  <1>2. PauseRequested(s) = [s EXCEPT !.control = "pause"] BY DEF PauseRequested
  <1>3. CancelRequested(s) = [[s EXCEPT !.control = "cancel"] EXCEPT !.life = "cancelled"]
    BY DEF CancelRequested
  <1> QED BY <1>1, <1>2, <1>3 DEF TaskState

\* The created tasks are finitely many; creating one more adds one.
LEMMA Counts ==
    /\ IsFiniteSet(Tasks) /\ Cardinality(Tasks) = MaxTasks
    /\ \A S \in SUBSET Tasks :
          /\ IsFiniteSet(S) /\ Cardinality(S) \in Nat /\ Cardinality(S) <= MaxTasks
          /\ \A T \in SUBSET S : Cardinality(T) <= Cardinality(S)
          /\ \A t \in Tasks : t \notin S => Cardinality(S \cup {t}) = Cardinality(S) + 1
  <1>1. IsFiniteSet(Tasks) /\ Cardinality(Tasks) = MaxTasks
    <2>1. 1 \in Int /\ MaxTasks \in Int /\ MaxTasks \in Nat BY Sizes
    <2>2. IsFiniteSet(1..MaxTasks)
          /\ Cardinality(1..MaxTasks) = IF 1 > MaxTasks THEN 0 ELSE MaxTasks - 1 + 1
      BY <2>1, FS_Interval
    <2> QED BY <2>1, <2>2 DEF Tasks
  <1>2. ASSUME NEW S \in SUBSET Tasks
        PROVE  IsFiniteSet(S) /\ Cardinality(S) \in Nat /\ Cardinality(S) <= MaxTasks
    BY <1>1, <1>2, FS_Subset, FS_CardinalityType
  <1>3. ASSUME NEW S \in SUBSET Tasks, NEW T \in SUBSET S
        PROVE  Cardinality(T) <= Cardinality(S)
    BY <1>2, <1>3, FS_Subset
  <1>4. ASSUME NEW S \in SUBSET Tasks, NEW t \in Tasks, t \notin S
        PROVE  Cardinality(S \cup {t}) = Cardinality(S) + 1
    BY <1>2, <1>4, FS_AddElement
  <1> QED BY <1>1, <1>2, <1>3, <1>4

\* Nothing is started, and no task is forgotten.
LEMMA CountStays ==
    ASSUME TypeInv, started' = started, \A t \in Tasks : Created(t) => store'[t].life # "none"
    PROVE  CountInv'
  <1>1. CreatedTasks \in SUBSET Tasks /\ CreatedTasks' \in SUBSET Tasks
        /\ CreatedTasks \subseteq CreatedTasks'
    BY DEF CreatedTasks, Created
  <1>2. Cardinality(CreatedTasks) <= Cardinality(CreatedTasks')
        /\ Cardinality(CreatedTasks) \in Nat /\ Cardinality(CreatedTasks') \in Nat
    BY <1>1, Counts
  <1>3. \A k \in Tokens : started[k] \in Nat /\ started[k] <= Cardinality(CreatedTasks)
    BY Sizes DEF TypeInv, TypeOK, CountInv
  <1> QED BY <1>2, <1>3 DEF CountInv

\* A handler that changes neither tasks nor runs.
LEMMA Answers ==
    ASSUME TypeInv, UNCHANGED <<store, runs, live>>, started' = started
    PROVE  RunsInv' /\ CountInv'
  <1>1. RunsInv' BY DEF TypeInv, RunsInv, Alive
  <1>2. CountInv' BY CountStays DEF Created
  <1> QED BY <1>1, <1>2

\* A run that changes its object.
LEMMA RunMoves ==
    ASSUME TypeInv, NEW r \in Runs, NEW n \in Run, Alive(r), n.task = runs[r].task,
           n.pc # "none", n.obj.life # "none", n.pc = "flow" => n.obj.phase \in Phases,
           runs' = [runs EXCEPT ![r] = n], live' = live, started' = started,
           \/ store' = store
           \/ store' = [store EXCEPT ![n.task] = n.obj]
    PROVE  /\ store' \in [Tasks -> TaskState] /\ runs' \in [Runs -> Run]
           /\ RunsInv' /\ CountInv'
  <1>1. n.task \in Tasks BY DEF TypeInv, RunsInv
  <1>2. runs \in [Runs -> Run] /\ store \in [Tasks -> TaskState] /\ n.obj \in TaskState
    BY DEF TypeInv, TypeOK, Run
  <1>3. store' \in [Tasks -> TaskState] /\ \A t \in Tasks : Created(t) => store'[t].life # "none"
    BY <1>1, <1>2 DEF Created
  <1>4. runs' \in [Runs -> Run] BY <1>2
  <1>5. CountInv' BY <1>3, CountStays
  <1>6. RunsInv'
    <2>1. \A q \in Runs : runs'[q] = IF q = r THEN n ELSE runs[q] BY <1>2
    <2>2. \A t \in Tasks : live[t] # 0 => live[t] \in Runs
      BY Sizes DEF TypeInv, TypeOK, Runs
    <2> QED BY <1>1, <2>1, <2>2 DEF TypeInv, RunsInv, Alive
  <1> QED BY <1>3, <1>4, <1>5, <1>6

\* A handler changes the object of the run that works on the task, or its copy.
LEMMA Requests ==
    ASSUME TypeInv, Bound, NEW s \in TaskState, live' = live, started' = started,
           store' = [store EXCEPT ![ctx.task] = s], s.life = "none" => ~Created(ctx.task),
           LET r == live[ctx.task]
           IN  IF r = 0 THEN runs' = runs
               ELSE /\ runs' = [runs EXCEPT ![r].obj = s]
                    /\ s.life # "none" /\ s.phase = runs[r].obj.phase
    PROVE  /\ store' \in [Tasks -> TaskState] /\ runs' \in [Runs -> Run]
           /\ RunsInv' /\ CountInv'
  <1>0. ctx.task \in Tasks BY Sizes DEF TypeInv, TypeOK, Context, Bound, Tasks
  <1>1. runs \in [Runs -> Run] /\ store \in [Tasks -> TaskState] BY DEF TypeInv, TypeOK
  <1>2. store' \in [Tasks -> TaskState] /\ \A t \in Tasks : Created(t) => store'[t].life # "none"
    BY <1>0, <1>1 DEF Created
  <1>3. CountInv' BY <1>2, CountStays
  <1>4. CASE live[ctx.task] = 0 BY <1>1, <1>2, <1>3, <1>4 DEF TypeInv, RunsInv, Alive
  <1>5. CASE live[ctx.task] # 0
    <2> DEFINE r == live[ctx.task]
    <2>1. r \in Runs /\ Alive(r) /\ runs[r].task = ctx.task
      BY <1>0, <1>5, Sizes DEF TypeInv, TypeOK, RunsInv, Runs
    <2>2. runs' = [runs EXCEPT ![r].obj = s] /\ s.life # "none" /\ s.phase = runs[r].obj.phase
      BY <1>5
    <2> HIDE DEF r
    <2>3. runs' \in [Runs -> Run] /\ \A q \in Runs :
             /\ runs'[q].pc = runs[q].pc /\ runs'[q].task = runs[q].task
             /\ runs'[q].obj = IF q = r THEN s ELSE runs[q].obj
      BY <1>1, <2>1, <2>2 DEF Run
    <2>4. \A t \in Tasks : live[t] # 0 => live[t] \in Runs
      BY Sizes DEF TypeInv, TypeOK, Runs
    <2>5. RunsInv' BY <2>1, <2>2, <2>3, <2>4 DEF TypeInv, RunsInv, Alive
    <2> QED BY <1>2, <1>3, <2>3, <2>5
  <1> QED BY <1>4, <1>5

\* A new run takes a free slot and the entry of its task.
LEMMA RunStarts ==
    ASSUME TypeInv, NEW t \in Tasks, NEW s \in TaskState, s.life # "none", NEW r \in Runs,
           ~Alive(r), runs' = [runs EXCEPT ![r] = NewRun(t, s, FALSE)], live' = Registered(t, r)
    PROVE  runs' \in [Runs -> Run] /\ live' \in [Tasks -> 0..MaxRuns] /\ RunsInv'
  <1>0. runs \in [Runs -> Run] /\ live \in [Tasks -> 0..MaxRuns] BY DEF TypeInv, TypeOK
  <1>1. /\ NewRun(t, s, FALSE) \in Run /\ NewRun(t, s, FALSE).pc = "ready"
        /\ NewRun(t, s, FALSE).task = t /\ NewRun(t, s, FALSE).obj = s
    BY NewRuns
  <1>2. runs' \in [Runs -> Run] /\ runs'[r] = NewRun(t, s, FALSE)
        /\ \A q \in Runs : q # r => runs'[q] = runs[q]
    BY <1>0, <1>1
  <1>3. live' \in [Tasks -> 0..MaxRuns] /\ live'[t] = r
        /\ \A q \in Tasks : q # t => live'[q] = live[q]
    BY <1>0, Sizes DEF Registered
  <1>4. \A q \in Tasks : live[q] # 0 => live[q] \in Runs /\ live[q] # r
    BY <1>0, Sizes DEF TypeInv, RunsInv, Runs
  <1> DEFINE new == NewRun(t, s, FALSE)
  <1> HIDE DEF new
  <1>5. runs'[r] = new /\ new.pc = "ready" /\ new.task = t /\ new.obj = s
    BY <1>1, <1>2 DEF new
  <1>6. ASSUME NEW q \in Runs, runs'[q].pc # "none"
        PROVE  runs'[q].task \in Tasks /\ runs'[q].obj.life # "none"
    <2>1. CASE q = r BY <1>5, <2>1
    <2>2. CASE q # r BY <1>2, <1>6, <2>2 DEF TypeInv, RunsInv, Alive
    <2> QED BY <2>1, <2>2
  <1>7. ASSUME NEW q \in Runs, runs'[q].pc = "flow"
        PROVE  runs'[q].obj.phase \in Phases
    <2>1. q # r BY <1>5, <1>7
    <2> QED BY <1>2, <1>7, <2>1 DEF TypeInv, RunsInv
  <1>8. ASSUME NEW q \in Tasks, live'[q] # 0
        PROVE  runs'[live'[q]].pc # "none" /\ runs'[live'[q]].task = q
    <2>1. CASE q = t BY <1>3, <1>5, <2>1
    <2>2. CASE q # t
      <3>1. live'[q] = live[q] /\ live[q] # 0 BY <1>3, <1>8, <2>2
      <3>2. runs'[live[q]] = runs[live[q]] BY <1>2, <1>4, <3>1
      <3> QED BY <3>1, <3>2 DEF TypeInv, RunsInv, Alive
    <2> QED BY <2>1, <2>2
  <1>9. RunsInv' BY <1>6, <1>7, <1>8 DEF RunsInv, Alive
  <1> QED BY <1>2, <1>3, <1>9

\* What run r does moves it, or ends it.
LEMMA TypeRunStep ==
    ASSUME TypeInv, NEW r \in Runs, RunStep(r)
    PROVE  TypeInv'
  <1>0. /\ runs \in [Runs -> Run] /\ store \in [Tasks -> TaskState] /\ live \in [Tasks -> 0..MaxRuns]
        /\ leased \in [Tasks -> BOOLEAN] /\ runs[r] \in Run /\ runs[r].obj \in TaskState
        /\ status \in Statuses
    BY DEF TypeInv, TypeOK, Run
  <1>1. Alive(r) /\ runs[r].task \in Tasks /\ runs[r].obj.life # "none"
    BY DEF RunStep, RunBegins, FlowEnds, HooksEnd, TaskDone, RecoveredTaskDone, Alive, TypeInv, RunsInv
  <1>2. {"running", "failed", "completed", "paused", "cancelled"} \subseteq Lives
        /\ "done" \in RunPcs
    BY DEF Lives, RunPcs
  <1>3. CASE RunBegins(r)
    <2> DEFINE o == [runs[r].obj EXCEPT !.life = "running"]
    <2> DEFINE over == runs[r].obj.life \in {"cancelled", "completed", "failed"}
    <2>1. o \in TaskState /\ o.life = "running" BY <1>0, <1>2 DEF TaskState
    <2>2. PICK n : /\ n = IF over THEN [runs[r] EXCEPT !.pc = "done"] ELSE FromLoopTop(runs[r], o)
                   /\ runs' = [runs EXCEPT ![r] = n]
                   /\ store' = store \/ store' = [store EXCEPT ![n.task] = n.obj]
      BY <1>3 DEF RunBegins, Saved
    <2>3. n \in Run /\ n.pc # "none" /\ n.task = runs[r].task /\ n.obj.life # "none"
          /\ (n.pc = "flow" => n.obj.phase \in Phases)
      <3>1. CASE over BY <1>0, <1>1, <1>2, <2>2, <3>1 DEF Run
      <3>2. CASE ~over
        <4>1. n = FromLoopTop(runs[r], o) BY <2>2, <3>2
        <4> HIDE DEF o, over
        <4> QED BY <1>0, <2>1, <4>1, LoopGoesOn
      <3> QED BY <3>1, <3>2
    <2>4. UNCHANGED <<status, ctx, live, leased, msgs, tokens, started, strayed, crashes>>
      BY <1>3 DEF RunBegins
    <2> HIDE DEF o, over
    <2>5. store' \in [Tasks -> TaskState] /\ runs' \in [Runs -> Run] /\ RunsInv' /\ CountInv'
      BY <1>1, <2>2, <2>3, <2>4, RunMoves
    <2> QED BY <2>4, <2>5 DEF TypeInv, TypeOK
  <1>4. CASE FlowEnds(r)
    <2>1. PICK o \in {[runs[r].obj EXCEPT !.phase = NextPhase(@)], runs[r].obj,
                      [runs[r].obj EXCEPT !.phase = Failed, !.life = "failed"]} :
             LET next == FromLoopTop(runs[r], o)
             IN  /\ runs' = [runs EXCEPT ![r] = next]
                 /\ Saved(next)
      BY <1>4 DEF FlowEnds
    <2>2. o \in TaskState /\ o.life # "none"
      <3>1. runs[r].obj.phase \in Phases BY <1>4 DEF FlowEnds, TypeInv, RunsInv
      <3>2. NextPhase(runs[r].obj.phase) \in 0..Completed /\ Failed \in 0..Completed
        BY <3>1, Sizes DEF NextPhase, Phases, Completed, Failed
      <3>3. CASE o = [runs[r].obj EXCEPT !.phase = NextPhase(@)]
        BY <1>0, <1>1, <3>2, <3>3 DEF TaskState
      <3>4. CASE o = runs[r].obj BY <1>0, <1>1, <3>4
      <3>5. CASE o = [runs[r].obj EXCEPT !.phase = Failed, !.life = "failed"]
        <4>1. o = [[runs[r].obj EXCEPT !.phase = Failed] EXCEPT !.life = "failed"] BY <3>5
        <4> QED BY <1>0, <1>2, <3>2, <4>1 DEF TaskState
      <3> QED BY <2>1, <3>3, <3>4, <3>5
    <2> DEFINE n == FromLoopTop(runs[r], o)
    <2>3. runs' = [runs EXCEPT ![r] = n] /\ store' = [store EXCEPT ![n.task] = n.obj]
      BY <2>1 DEF Saved
    <2> HIDE DEF n
    <2>4. n = FromLoopTop(runs[r], o) BY DEF n
    <2>5. n \in Run /\ n.pc # "none" /\ n.task = runs[r].task /\ n.obj.life # "none"
          /\ (n.pc = "flow" => n.obj.phase \in Phases)
      BY <1>0, <2>2, <2>4, LoopGoesOn
    <2>6. UNCHANGED <<status, ctx, live, leased, msgs, tokens, started, strayed, crashes>>
      BY <1>4 DEF FlowEnds
    <2>7. store' \in [Tasks -> TaskState] /\ runs' \in [Runs -> Run] /\ RunsInv' /\ CountInv'
      BY <1>1, <2>3, <2>5, <2>6, RunMoves
    <2> QED BY <2>6, <2>7 DEF TypeInv, TypeOK
  <1>5. CASE HooksEnd(r)
    <2> DEFINE n == [runs[r] EXCEPT !.pc = "done"]
    <2>1. runs' = [runs EXCEPT ![r] = n] BY <1>5 DEF HooksEnd
    <2>2. n \in Run /\ n.pc = "done" /\ n.task = runs[r].task /\ n.obj = runs[r].obj
      BY <1>0, <1>2 DEF Run
    <2>3. UNCHANGED <<status, ctx, store, live, leased, msgs, tokens, started, strayed, crashes>>
      BY <1>5 DEF HooksEnd
    <2> HIDE DEF n
    <2>4. store' \in [Tasks -> TaskState] /\ runs' \in [Runs -> Run] /\ RunsInv' /\ CountInv'
      BY <1>1, <2>1, <2>2, <2>3, RunMoves
    <2> QED BY <2>3, <2>4 DEF TypeInv, TypeOK
  <1>6. CASE TaskDone(r) \/ RecoveredTaskDone(r)
    <2>1. /\ runs' = [runs EXCEPT ![r] = NoRun] /\ live' = [live EXCEPT ![runs[r].task] = 0]
          /\ UNCHANGED <<ctx, store, msgs, tokens, started, strayed, crashes>>
          /\ leased' = leased \/ leased' = [leased EXCEPT ![runs[r].task] = FALSE]
          /\ \E s : Become(s)
      BY <1>6 DEF TaskDone, RecoveredTaskDone, EntryDropped
    <2>2. NoRun \in Run /\ NoRun.pc = "none"
      BY Sizes DEF NoRun, Run, RunPcs, NoTask, TaskState, Lives, Controls, Completed
    <2>3. runs' \in [Runs -> Run] /\ live' \in [Tasks -> 0..MaxRuns] /\ leased' \in [Tasks -> BOOLEAN]
      <3>1. runs' \in [Runs -> Run] BY <1>0, <2>1, <2>2
      <3>2. live' \in [Tasks -> 0..MaxRuns] BY <1>0, <1>1, <2>1, Sizes
      <3>3. leased' = leased => leased' \in [Tasks -> BOOLEAN] BY <1>0
      <3>4. leased' = [leased EXCEPT ![runs[r].task] = FALSE] => leased' \in [Tasks -> BOOLEAN]
        BY <1>0, <1>1
      <3> QED BY <2>1, <3>1, <3>2, <3>3, <3>4
    <2>4. status' \in Statuses BY <1>0, <2>1, Becomes
    <2>5. CountInv' BY <2>1, CountStays DEF Created
    <2>6. RunsInv'
      <3>1. \A q \in Runs : runs'[q] = IF q = r THEN NoRun ELSE runs[q] BY <1>0, <2>1
      <3>2. \A q \in Runs : q # r => runs'[q] = runs[q] BY <3>1
      <3>3. runs'[r].pc = "none" BY <2>2, <3>1
      <3>4. \A t \in Tasks : live'[t] # 0 => live[t] = live'[t] /\ t # runs[r].task
        BY <1>0, <2>1
      <3>5. \A t \in Tasks : live[t] # 0 => live[t] \in Runs
        BY Sizes DEF TypeInv, TypeOK, Runs
      <3>6. \A t \in Tasks : live'[t] # 0 => live[t] # r /\ live'[t] \in Runs
        BY <3>4, <3>5 DEF TypeInv, RunsInv
      <3> QED BY <2>1, <3>2, <3>3, <3>4, <3>6 DEF TypeInv, RunsInv, Alive
    <2> QED BY <2>1, <2>3, <2>4, <2>5, <2>6 DEF TypeInv, TypeOK
  <1> QED BY <1>3, <1>4, <1>5, <1>6 DEF RunStep

\* Every step keeps the types.
LEMMA TypeStep ==
    ASSUME TypeInv, Next
    PROVE  TypeInv'
  <1>0. /\ runs \in [Runs -> Run] /\ store \in [Tasks -> TaskState] /\ live \in [Tasks -> 0..MaxRuns]
        /\ leased \in [Tasks -> BOOLEAN] /\ status \in Statuses /\ ctx \in Context
        /\ msgs \in [Messages -> Message] /\ tokens \in 0..MaxTokens /\ strayed \subseteq Departures
        /\ started \in [Tokens -> 0..MaxTasks] /\ crashes \in 0..MaxCrashes
        /\ \A m \in Messages : msgs[m].seen \in Context
    BY DEF TypeInv, TypeOK, Message
  <1>1. NoMessage \in Message /\ NoContext \in Context
    BY Sizes DEF NoMessage, Message, NoContext, Context
  <1>2. \A s : Become(s) => status' \in Statuses BY <1>0, Becomes
  <1>3. ASSUME NEW d \in Departures, NEW b, Departs(d, b) PROVE strayed' \subseteq Departures
    BY <1>0, <1>3 DEF Departs
  <1>4. CASE \E m \in Messages : MessageStep(m)
    <2>1. PICK m \in Messages : MessageStep(m) BY <1>4
    <2>2. UNCHANGED <<store, runs, live, leased, started, crashes>>
      BY <2>1 DEF MessageStep, Send, RoutedUnmatched, RoutedPending, RoutedToAdapter, AnsweredOnly,
         SearchFinished, RunVars
    <2>3. RunsInv' /\ CountInv' BY <2>2, Answers
    <2>4. status' \in Statuses
      BY <1>0, <1>2, <2>1 DEF MessageStep, Send, RoutedUnmatched, RoutedPending, RoutedToAdapter,
         AnsweredOnly, SearchFinished
    <2>5. msgs' \in [Messages -> Message]
      <3>1. CASE Send(m)
        <4>1. [pc |-> "routing", seen |-> ctx] \in Message BY <1>0 DEF Message
        <4> QED BY <1>0, <3>1, <4>1 DEF Send
      <3>2. CASE RoutedToAdapter(m) BY <1>0, <3>2 DEF RoutedToAdapter, Message
      <3>3. CASE Answered(m) BY <1>0, <1>1, <3>3 DEF Answered
      <3> QED BY <2>1, <3>1, <3>2, <3>3
          DEF MessageStep, RoutedUnmatched, RoutedPending, AnsweredOnly, SearchFinished
    <2>6. ctx' \in Context /\ tokens' \in 0..MaxTokens /\ strayed' \subseteq Departures
      <3>1. CASE RoutedPending(m)
        <4>1. tokens' = tokens + 1 /\ tokens' \in 0..MaxTokens
          BY <1>0, <3>1, Sizes DEF RoutedPending
        <4>2. PICK base \in {msgs[m].seen, ctx} : WriteContext([base EXCEPT !.pending = tokens'])
          BY <3>1 DEF RoutedPending
        <4>3. ctx' \in Context BY <1>0, <2>1, <4>1, <4>2 DEF WriteContext, Context
        <4> QED BY <1>3, <4>1, <4>2, <4>3 DEF WriteContext, Departures
      <3>2. CASE SearchFinished(m) BY <1>0, <1>3, <2>1, <3>2 DEF SearchFinished, WriteContext, Departures
      <3> QED BY <1>0, <2>1, <3>1, <3>2
          DEF MessageStep, Send, RoutedUnmatched, RoutedToAdapter, AnsweredOnly
    <2> QED BY <1>0, <2>2, <2>3, <2>4, <2>5, <2>6 DEF TypeInv, TypeOK
  <1>5. CASE SelectCandidate \/ RefreshStatus
    <2>1. UNCHANGED <<ctx, store, runs, live, leased, msgs, tokens, started, strayed, crashes>>
          /\ status' \in Statuses
      BY <1>2, <1>5 DEF SelectCandidate, RefreshStatus, RunVars
    <2>2. RunsInv' /\ CountInv' BY <2>1, Answers
    <2> QED BY <1>0, <2>1, <2>2 DEF TypeInv, TypeOK
  <1>6. CASE Confirm
    <2>1. PICK t \in FreeTasks :
             LET s == [phase |-> 1, life |-> "running", control |-> "none"]
                 allowed == "running" \in Transitions[status]
             IN  /\ store' = [store EXCEPT ![t] = s]
                 /\ ctx' = ClearedContext(ctx, t)
                 /\ started' = [started EXCEPT ![ctx.pending] = @ + 1]
                 /\ Become("running")
                 /\ Departs("orphan", ~allowed)
                 /\ \/ /\ allowed
                       /\ \E r \in FreeRuns : /\ runs' = [runs EXCEPT ![r] = NewRun(t, s, FALSE)]
                                             /\ live' = Registered(t, r)
                    \/ ~allowed /\ UNCHANGED <<runs, live>>
      BY <1>6 DEF Confirm
    <2> DEFINE s == [phase |-> 1, life |-> "running", control |-> "none"]
    <2>2. t \in Tasks /\ ~Created(t) BY DEF FreeTasks, Created
    <2>3. s \in TaskState /\ s.life # "none"
      BY Sizes DEF TaskState, Lives, Controls, Completed
    <2>4. ctx.pending \in Tokens BY <1>0, <1>6, Sizes DEF Confirm, MayStart, Context, Tokens
    <2>5. UNCHANGED <<msgs, leased, tokens, crashes>> BY <1>6 DEF Confirm
    <2> HIDE DEF s
    <2>6. store' = [store EXCEPT ![t] = s] BY <2>1 DEF s
    <2>7. store' \in [Tasks -> TaskState] BY <1>0, <2>2, <2>3, <2>6
    <2>8. ctx' \in Context
      <3>1. ctx' = [[ctx EXCEPT !.pending = 0] EXCEPT !.task = t] BY <2>1 DEF ClearedContext
      <3>2. t \in 0..MaxTasks /\ 0 \in 0..MaxTokens BY <2>2, Sizes
      <3>3. [ctx EXCEPT !.pending = 0] \in Context BY <1>0, <3>2 DEF Context
      <3> QED BY <3>1, <3>2, <3>3 DEF Context
    <2>9. CreatedTasks' = CreatedTasks \cup {t} /\ t \notin CreatedTasks
          /\ CreatedTasks \in SUBSET Tasks /\ CreatedTasks' \in SUBSET Tasks
      BY <1>0, <2>2, <2>3, <2>6 DEF CreatedTasks, Created
    <2>10. Cardinality(CreatedTasks') = Cardinality(CreatedTasks) + 1
           /\ Cardinality(CreatedTasks) \in Nat /\ Cardinality(CreatedTasks') <= MaxTasks
      BY <2>2, <2>9, Counts
    <2>11. CountInv' /\ started' \in [Tokens -> 0..MaxTasks]
      <3>1. started' = [started EXCEPT ![ctx.pending] = started[ctx.pending] + 1] BY <2>1
      <3>2. \A k \in Tokens : started[k] \in Nat /\ started[k] <= Cardinality(CreatedTasks)
        BY <1>0, Sizes DEF TypeInv, CountInv
      <3>3. \A k \in Tokens : started'[k] \in Nat /\ started'[k] <= Cardinality(CreatedTasks')
        BY <1>0, <2>4, <2>10, <3>1, <3>2
      <3>4. \A k \in Tokens : started'[k] \in 0..MaxTasks BY <2>10, <3>3, Sizes
      <3> QED BY <1>0, <3>1, <3>3, <3>4 DEF CountInv
    <2>12. status' \in Statuses /\ strayed' \subseteq Departures
      BY <1>2, <1>3, <2>1 DEF Departures
    <2>13. runs' \in [Runs -> Run] /\ live' \in [Tasks -> 0..MaxRuns] /\ RunsInv'
      <3>1. CASE UNCHANGED <<runs, live>> BY <1>0, <3>1 DEF TypeInv, RunsInv, Alive
      <3>2. CASE \E r \in FreeRuns : /\ runs' = [runs EXCEPT ![r] = NewRun(t, s, FALSE)]
                                     /\ live' = Registered(t, r)
        <4>1. PICK r \in FreeRuns : /\ runs' = [runs EXCEPT ![r] = NewRun(t, s, FALSE)]
                                    /\ live' = Registered(t, r)
          BY <3>2
        <4>2. r \in Runs /\ ~Alive(r) BY DEF FreeRuns
        <4> QED BY <1>0, <2>2, <2>3, <4>1, <4>2, RunStarts
      <3> QED BY <2>1, <3>1, <3>2 DEF s
    <2> QED BY <1>0, <2>5, <2>7, <2>8, <2>11, <2>12, <2>13 DEF TypeInv, TypeOK
  <1>7. CASE Pause \/ Cancel
    <2>0. Bound /\ ctx.task \in Tasks
      BY <1>0, <1>7, Sizes DEF Pause, Cancel, Bound, Context, Tasks
    <2>1. UNCHANGED <<ctx, live, leased, msgs, tokens, started, strayed, crashes>>
          /\ status' \in Statuses
      BY <1>2, <1>7 DEF Pause, Cancel
    <2>2. live[ctx.task] # 0 => live[ctx.task] \in Runs /\ Alive(live[ctx.task])
      BY <1>0, <2>0, Sizes DEF TypeInv, RunsInv, Runs
    <2>3. store[ctx.task] \in TaskState
          /\ (live[ctx.task] # 0 => runs[live[ctx.task]].obj \in TaskState
                                    /\ runs[live[ctx.task]].obj.life # "none")
      BY <1>0, <2>0, <2>2 DEF Run, TypeInv, RunsInv
    <2>4. store' \in [Tasks -> TaskState] /\ runs' \in [Runs -> Run] /\ RunsInv' /\ CountInv'
      <3>1. CASE Pause
        <4>1. CASE live[ctx.task] = 0
          BY <2>0, <2>1, <2>3, <3>1, <4>1, Requesting, Requests DEF Pause, Request, Holder, Created
        <4>2. CASE live[ctx.task] # 0
          BY <2>0, <2>1, <2>3, <3>1, <4>2, Requesting, Requests DEF Pause, Request, Holder
        <4> QED BY <4>1, <4>2
      <3>2. CASE Cancel
        <4>1. CASE live[ctx.task] = 0
          BY <2>0, <2>1, <2>3, <3>2, <4>1, Requesting, Requests DEF Cancel, Request, Holder
        <4>2. CASE live[ctx.task] # 0
          BY <2>0, <2>1, <2>3, <3>2, <4>2, Requesting, Requests DEF Cancel, Request, Holder
        <4> QED BY <4>1, <4>2
      <3> QED BY <1>7, <3>1, <3>2
    <2> QED BY <1>0, <2>1, <2>4 DEF TypeInv, TypeOK
  <1>8. CASE Resume
    <2> DEFINE t == ctx.task
    <2> DEFINE s == Restored(store[t])
    <2>1. t \in Tasks BY <1>0, <1>8, Sizes DEF Resume, Bound, Context, Tasks
    <2>2. s \in TaskState /\ s.life = "running" BY <1>0, <2>1, Restoring
    <2>3. PICK r \in FreeRuns : runs' = [runs EXCEPT ![r] = NewRun(t, s, FALSE)]
                                /\ live' = Registered(t, r)
      BY <1>8 DEF Resume
    <2>4. /\ store' = [store EXCEPT ![t] = s] /\ status' \in Statuses /\ strayed' \subseteq Departures
          /\ UNCHANGED <<ctx, leased, msgs, tokens, started, crashes>>
      BY <1>2, <1>3, <1>8 DEF Resume, Departures
    <2> HIDE DEF t, s
    <2>5. r \in Runs /\ ~Alive(r) BY DEF FreeRuns
    <2>6. runs' \in [Runs -> Run] /\ live' \in [Tasks -> 0..MaxRuns] /\ RunsInv'
      BY <2>1, <2>2, <2>3, <2>5, RunStarts
    <2>7. store' \in [Tasks -> TaskState] /\ \A q \in Tasks : Created(q) => store'[q].life # "none"
      BY <1>0, <2>1, <2>2, <2>4 DEF Created
    <2>8. CountInv' BY <2>4, <2>7, CountStays
    <2> QED BY <1>0, <2>4, <2>6, <2>7, <2>8 DEF TypeInv, TypeOK
  <1>9. CASE \E r \in Runs : RunStep(r) BY <1>9, TypeRunStep
  <1>10. CASE RestartIdle \/ RestartRecovers
    <2>0. Lost \in [Runs -> Run] /\ \A r \in Runs : Lost[r].pc = "none"
      BY Sizes DEF Lost, NoRun, Run, RunPcs, NoTask, TaskState, Lives, Controls, Completed
    <2>1. UNCHANGED <<status, ctx, tokens, started, strayed>> /\ crashes' \in 0..MaxCrashes
          /\ msgs' \in [Messages -> Message]
      <3>1. Stop BY <1>10 DEF RestartIdle, RestartRecovers
      <3>2. crashes' \in 0..MaxCrashes BY <1>0, <3>1, Sizes DEF Stop
      <3>3. msgs' \in [Messages -> Message] BY <1>1, <3>1 DEF Stop
      <3> QED BY <3>1, <3>2, <3>3 DEF Stop
    <2>2. CASE RestartIdle
      <3>1. UNCHANGED <<store, leased>> /\ runs' = Lost /\ live' = [t \in Tasks |-> 0]
        BY <2>2 DEF RestartIdle
      <3>2. RunsInv' BY <2>0, <3>1 DEF RunsInv, Alive
      <3>3. CountInv' BY <2>1, <3>1, CountStays DEF Created
      <3> QED BY <1>0, <2>0, <2>1, <3>1, <3>2, <3>3, Sizes DEF TypeInv, TypeOK
    <2>3. CASE RestartRecovers
      <3> DEFINE t == ctx.task
      <3> DEFINE s == Restored(store[t])
      <3>1. t \in Tasks BY <1>0, <2>3, Sizes DEF RestartRecovers, Recoverable, Context, Tasks
      <3>2. s \in TaskState /\ s.life = "running" BY <1>0, <3>1, Restoring
      <3>3. /\ store' = [store EXCEPT ![t] = s]
            /\ runs' = [Lost EXCEPT ![1] = NewRun(t, s, TRUE)]
            /\ live' = [[q \in Tasks |-> 0] EXCEPT ![t] = 1]
            /\ leased' = [leased EXCEPT ![t] = TRUE]
        BY <2>3 DEF RestartRecovers
      <3> HIDE DEF t, s
      <3>4. /\ NewRun(t, s, TRUE) \in Run /\ NewRun(t, s, TRUE).pc = "ready"
            /\ NewRun(t, s, TRUE).task = t /\ NewRun(t, s, TRUE).obj = s
        BY <3>1, <3>2, NewRuns
      <3>5. runs' \in [Runs -> Run] /\ runs'[1] = NewRun(t, s, TRUE)
            /\ \A r \in Runs : r # 1 => runs'[r].pc = "none"
        BY <2>0, <3>3, <3>4, Sizes
      <3>6. live' \in [Tasks -> 0..MaxRuns] /\ live'[t] = 1
            /\ \A q \in Tasks : q # t => live'[q] = 0
        BY <3>1, <3>3, Sizes
      <3>7. RunsInv' BY <3>1, <3>2, <3>4, <3>5, <3>6, Sizes DEF RunsInv, Alive
      <3>8. store' \in [Tasks -> TaskState] /\ leased' \in [Tasks -> BOOLEAN]
            /\ \A q \in Tasks : Created(q) => store'[q].life # "none"
        BY <1>0, <3>1, <3>2, <3>3 DEF Created
      <3>9. CountInv' BY <2>1, <3>8, CountStays
      <3> QED BY <1>0, <2>1, <3>5, <3>6, <3>7, <3>8, <3>9 DEF TypeInv, TypeOK
    <2> QED BY <1>10, <2>2, <2>3
  <1> QED BY <1>4, <1>5, <1>6, <1>7, <1>8, <1>9, <1>10 DEF Next
-----------------------------------------------------------------------------
(* The session and its task.                                               *)

\* There is at most one run, and its object is in the file.
LEMMA OneRun ==
    ASSUME TypeInv, Sound, NEW r \in Runs, Alive(r)
    PROVE  /\ ctx.task \in Tasks /\ Bound /\ runs[r].task = ctx.task /\ live[ctx.task] = r
           /\ runs[r].obj = store[ctx.task] /\ \A q \in Runs : Alive(q) => q = r
  <1>1. runs[r].task \in Tasks /\ runs[r].task = ctx.task /\ live[ctx.task] = r
        /\ runs[r].obj = store[ctx.task] /\ \A q \in Runs : Alive(q) => live[ctx.task] = q
    BY DEF TypeInv, RunsInv, Sound, ReachInv, ObjectInv
  <1> QED BY <1>1, Sizes DEF Bound

\* A new run, alone, makes the session sound.
LEMMA FreshRun ==
    ASSUME NEW t \in Tasks, NEW s \in TaskState, s.life = "running", s.control = "none",
           NEW r \in Runs, NEW b \in BOOLEAN, runs'[r] = NewRun(t, s, b), live'[t] = r,
           \A q \in Runs : q # r => runs'[q].pc = "none", store'[t] = s, ctx'.task = t,
           status' = "running", \A m \in Messages : msgs'[m].seen.task \in {0, t}
    PROVE  Sound'
  <1>1. /\ NewRun(t, s, b).pc = "ready" /\ NewRun(t, s, b).task = t /\ NewRun(t, s, b).obj = s
    BY NewRuns
  <1> DEFINE new == NewRun(t, s, b)
  <1>2. runs'[r] = new /\ new.pc = "ready" /\ new.task = t /\ new.obj = s BY <1>1
  <1> HIDE DEF new
  <1>3. ReachInv' BY <1>2 DEF ReachInv, Alive
  <1>4. ObjectInv' BY <1>2 DEF ObjectInv, Alive
  <1>5. t # 0 BY Sizes
  <1>6. FileInv' BY <1>2, <1>5 DEF FileInv, Created, BoundStatuses
  <1>7. PausedInv' BY DEF PausedInv
  <1>8. ServedInv' BY <1>2, <1>5 DEF ServedInv, Bound, Alive
  <1> QED BY <1>3, <1>4, <1>6, <1>7, <1>8 DEF Sound

\* Neither the task nor its run changes; the status may.
LEMMA QuietStep ==
    ASSUME TypeInv, Sound, UNCHANGED <<store, runs, live, leased>>, ctx'.task = ctx.task,
           \A m \in Messages : msgs'[m].seen.task \in {0, ctx.task},
           \/ status' = status
           \/ \E s \in {"waiting_user_input", "waiting_confirmation"} : Become(s)
           \/ status \notin TerminalStatuses /\ Become("active")
           \/ status \notin TerminalStatuses /\ Bound /\ Become(store[ctx.task].life)
    PROVE  Sound'
  <1>0. status \in Statuses /\ ctx \in Context /\ store \in [Tasks -> TaskState]
    BY DEF TypeInv, TypeOK
  <1>1. ReachInv' BY DEF Sound, ReachInv, Alive
  <1>2. ObjectInv' BY DEF Sound, ObjectInv, Alive
  <1>3. CASE Bound
    <2>1. ctx.task \in Tasks BY <1>0, <1>3, Sizes DEF Bound, Context, Tasks
    <2>2. store[ctx.task].life \in BoundStatuses
      BY <1>0, <1>3, <2>1 DEF TaskState, Lives, BoundStatuses, Sound, FileInv, Created
    <2>3. status \in BoundStatuses BY <1>3 DEF Sound, FileInv
    <2>4. \/ status' = status
          \/ status \in {"running", "paused"} /\ status' = store[ctx.task].life
      <3>1. CASE \E s \in {"waiting_user_input", "waiting_confirmation"} : Become(s)
        BY <1>0, <2>3, <3>1, Becomes
      <3>2. CASE status \notin TerminalStatuses /\ Become("active")
        <4>1. status \in {"running", "paused"} BY <2>3, <3>2 DEF TerminalStatuses, BoundStatuses
        <4> QED BY <1>0, <3>2, <4>1, Becomes
      <3>3. CASE status \notin TerminalStatuses /\ Become(store[ctx.task].life)
        <4>1. status \in {"running", "paused"} BY <2>3, <3>3 DEF TerminalStatuses, BoundStatuses
        <4> QED BY <1>0, <2>2, <3>3, <4>1, Becomes
      <3> QED BY <3>1, <3>2, <3>3
    <2>5. FileInv' /\ PausedInv' /\ ServedInv'
      <3>1. CASE status' = status
        BY <3>1, <1>3 DEF Sound, FileInv, PausedInv, ServedInv, Bound, Created, Alive
      <3>2. CASE status \in {"running", "paused"} /\ status' = store[ctx.task].life
        <4>1. /\ store[ctx.task].control # "cancel" /\ store[ctx.task].life # "cancelled"
              /\ store[ctx.task].life = "paused" => store[ctx.task].control = "pause"
              /\ Created(ctx.task)
          BY <1>3, <3>2 DEF Sound, FileInv
        <4>2. FileInv' BY <2>2, <3>2, <4>1 DEF FileInv, Bound, Created
        <4>3. PausedInv' BY <1>3, <3>2, <4>1 DEF PausedInv, Bound
        <4>4. ServedInv' BY <1>3, <3>2 DEF Sound, PausedInv, ServedInv, Bound, Alive
        <4> QED BY <4>2, <4>3, <4>4
      <3> QED BY <2>4, <3>1, <3>2
    <2> QED BY <1>1, <1>2, <2>5 DEF Sound
  <1>4. CASE ~Bound
    <2>1. status \notin {"running", "paused"} BY <1>4 DEF Sound, PausedInv, ServedInv
    <2>2. status' \notin {"running", "paused"} BY <1>0, <1>4, <2>1, Becomes
    <2> QED BY <1>1, <1>2, <1>4, <2>2 DEF Sound, FileInv, PausedInv, ServedInv, Bound
  <1> QED BY <1>3, <1>4

\* The run goes on, and saves what it did.
LEMMA RunMovesSound ==
    ASSUME TypeInv, Sound, NEW r \in Runs, Alive(r), NEW n \in Run, n.pc # "none",
           n.task = runs[r].task, runs' = [runs EXCEPT ![r] = n],
           UNCHANGED <<status, ctx, live, leased, msgs>>, store'[ctx.task] = n.obj,
           n.obj.control = runs[r].obj.control, n.obj.life # "none",
           n.obj.life = "paused" => n.obj.control = "pause",
           n.obj.life = "cancelled" => n.obj.control = "cancel",
           runs[r].obj.life = "completed" => n.obj.life = "completed",
           n.pc \in {"ready", "flow"} => n.obj.life \in {"running", "cancelled"}
    PROVE  Sound'
  <1>1. /\ ctx.task \in Tasks /\ Bound /\ runs[r].task = ctx.task /\ live[ctx.task] = r
        /\ runs[r].obj = store[ctx.task] /\ \A q \in Runs : Alive(q) => q = r
    BY OneRun
  <1>2. runs'[r] = n /\ \A q \in Runs : q # r => runs'[q] = runs[q] BY DEF TypeInv, TypeOK
  <1>3. \A q \in Runs : runs'[q].pc # "none" => q = r BY <1>1, <1>2 DEF Alive
  <1>4. ReachInv' BY <1>1, <1>2, <1>3 DEF Sound, ReachInv, Alive
  <1>5. ObjectInv' BY <1>1, <1>2, <1>3 DEF ObjectInv, Alive
  <1>6. FileInv' BY <1>1 DEF Sound, FileInv, Created
  <1>7. PausedInv' BY <1>1 DEF Sound, PausedInv, Bound
  <1>8. ServedInv' BY <1>1, <1>2 DEF ServedInv, Bound, Alive
  <1> QED BY <1>4, <1>5, <1>6, <1>7, <1>8 DEF Sound
\* The run r goes from one await to the next.
LEMMA SoundRunStep ==
    ASSUME TypeInv, Sound, NEW r \in Runs, RunStep(r)
    PROVE  Sound'
  <1>0. /\ runs \in [Runs -> Run] /\ store \in [Tasks -> TaskState] /\ live \in [Tasks -> 0..MaxRuns]
        /\ runs[r] \in Run /\ runs[r].obj \in TaskState /\ status \in Statuses
    BY DEF TypeInv, TypeOK, Run
  <1>1. Alive(r)
    BY DEF RunStep, RunBegins, FlowEnds, HooksEnd, TaskDone, RecoveredTaskDone, Alive
  <1>2. /\ ctx.task \in Tasks /\ Bound /\ runs[r].task = ctx.task /\ live[ctx.task] = r
        /\ runs[r].obj = store[ctx.task] /\ \A q \in Runs : Alive(q) => q = r
    BY <1>1, OneRun
  <1>3. /\ runs[r].obj.life # "none"
        /\ runs[r].obj.life = "paused" => runs[r].obj.control = "pause"
        /\ runs[r].obj.life = "cancelled" => runs[r].obj.control = "cancel"
        /\ runs[r].pc \in {"ready", "flow"} => runs[r].obj.life \in {"running", "cancelled"}
    BY <1>1, <1>2 DEF Sound, FileInv, ObjectInv, Created
  <1>4. {"running", "failed", "completed"} \subseteq Lives /\ "done" \in RunPcs
    BY DEF Lives, RunPcs
  <1>5. CASE RunBegins(r)
    <2> DEFINE o == [runs[r].obj EXCEPT !.life = "running"]
    <2> DEFINE over == runs[r].obj.life \in {"cancelled", "completed", "failed"}
    <2>1. PICK n : /\ n = IF over THEN [runs[r] EXCEPT !.pc = "done"] ELSE FromLoopTop(runs[r], o)
                   /\ runs' = [runs EXCEPT ![r] = n]
                   /\ IF over \/ n.pc = "flow" THEN store' = store
                      ELSE store' = [store EXCEPT ![n.task] = n.obj]
      BY <1>5 DEF RunBegins, Saved
    <2>2. UNCHANGED <<status, ctx, live, leased, msgs>> BY <1>5 DEF RunBegins
    <2>3. CASE over
      <3>1. n \in Run /\ n.pc = "done" /\ n.task = runs[r].task /\ n.obj = runs[r].obj
        BY <1>0, <1>4, <2>1, <2>3 DEF Run
      <3>2. store'[ctx.task] = n.obj BY <1>2, <2>1, <2>3, <3>1
      <3> HIDE DEF over
      <3> QED BY <1>1, <1>3, <2>1, <2>2, <3>1, <3>2, RunMovesSound
    <2>4. CASE ~over
      <3>1. runs[r].obj.life = "running" BY <1>3, <1>5, <2>4 DEF RunBegins
      <3>2. o = runs[r].obj BY <1>0, <3>1 DEF TaskState
      <3>3. n = FromLoopTop(runs[r], runs[r].obj) BY <2>1, <2>4, <3>2
      <3>4. store' = IF n.pc = "flow" THEN store ELSE [store EXCEPT ![n.task] = n.obj]
        BY <2>1, <2>4
      <3> HIDE DEF over, o
      <3>5. /\ n \in Run /\ n.pc \in {"flow", "hooks", "done"} /\ n.task = runs[r].task
            /\ n.obj.control = runs[r].obj.control
            /\ \/ n.obj.life \in {"running", "completed", "failed"}
               \/ n.obj.life = "paused" /\ runs[r].obj.control = "pause"
               \/ n.obj.life = "cancelled" /\ runs[r].obj.control = "cancel"
            /\ n.pc = "flow" => n.obj = runs[r].obj
        BY <1>0, <3>1, <3>3, LoopTop
      <3>6. store'[ctx.task] = n.obj BY <1>0, <1>2, <3>4, <3>5
      <3> QED BY <1>1, <2>1, <2>2, <3>1, <3>5, <3>6, RunMovesSound
    <2> QED BY <2>3, <2>4
  <1>6. CASE FlowEnds(r)
    <2>1. PICK o \in {[runs[r].obj EXCEPT !.phase = NextPhase(@)], runs[r].obj,
                      [runs[r].obj EXCEPT !.phase = Failed, !.life = "failed"]} :
             LET next == FromLoopTop(runs[r], o)
             IN  /\ runs' = [runs EXCEPT ![r] = next]
                 /\ Saved(next)
      BY <1>6 DEF FlowEnds
    <2>2. /\ o \in TaskState /\ o.control = runs[r].obj.control
          /\ \/ o.life = runs[r].obj.life
             \/ o.phase = Failed /\ o.life = "failed"
      <3>1. runs[r].obj.phase \in Phases BY <1>6 DEF FlowEnds, TypeInv, RunsInv
      <3>2. NextPhase(runs[r].obj.phase) \in 0..Completed /\ Failed \in 0..Completed
        BY <3>1, Sizes DEF NextPhase, Phases, Completed, Failed
      <3>3. CASE o = [runs[r].obj EXCEPT !.phase = NextPhase(@)]
        BY <1>0, <3>2, <3>3 DEF TaskState
      <3>4. CASE o = runs[r].obj BY <1>0, <3>4
      <3>5. CASE o = [runs[r].obj EXCEPT !.phase = Failed, !.life = "failed"]
        <4>1. o = [[runs[r].obj EXCEPT !.phase = Failed] EXCEPT !.life = "failed"] BY <3>5
        <4> QED BY <1>0, <1>4, <3>2, <4>1 DEF TaskState
      <3> QED BY <2>1, <3>3, <3>4, <3>5
    <2> DEFINE n == FromLoopTop(runs[r], o)
    <2>3. runs' = [runs EXCEPT ![r] = n] /\ store' = [store EXCEPT ![n.task] = n.obj]
      BY <2>1 DEF Saved
    <2>4. n = FromLoopTop(runs[r], o) OBVIOUS
    <2> HIDE DEF n
    <2>5. /\ n \in Run /\ n.pc \in {"flow", "hooks", "done"} /\ n.task = runs[r].task
          /\ n.obj.control = runs[r].obj.control
          /\ n.pc = "flow" => n.obj = o /\ o.phase \in Phases
      BY <1>0, <2>2, <2>4, LoopTop
    <2>6. \/ n.obj.life \in {o.life, "completed", "failed"}
          \/ n.obj.life = "paused" /\ o.control = "pause"
          \/ n.obj.life = "cancelled" /\ o.control = "cancel"
      BY <1>0, <2>2, <2>4, LoopTop
    <2>7. runs[r].obj.life \in {"running", "cancelled"} BY <1>3, <1>6 DEF FlowEnds
    <2>8. o.life \in {"running", "cancelled", "failed"}
          /\ (o.life = "cancelled" => n.obj.control = "cancel")
      BY <1>3, <2>2, <2>5, <2>7
    <2>9. /\ n.obj.life # "none"
          /\ n.obj.life = "paused" => n.obj.control = "pause"
          /\ n.obj.life = "cancelled" => n.obj.control = "cancel"
      BY <2>2, <2>5, <2>6, <2>8
    <2>10. n.pc \in {"ready", "flow"} => n.obj.life \in {"running", "cancelled"}
      BY <2>2, <2>5, <2>7, Sizes
    <2>11. store'[ctx.task] = n.obj BY <1>0, <1>2, <2>3, <2>5
    <2>12. UNCHANGED <<status, ctx, live, leased, msgs>> BY <1>6 DEF FlowEnds
    <2> QED BY <1>1, <2>3, <2>5, <2>7, <2>9, <2>10, <2>11, <2>12, RunMovesSound
  <1>7. CASE HooksEnd(r)
    <2> DEFINE n == [runs[r] EXCEPT !.pc = "done"]
    <2>1. runs' = [runs EXCEPT ![r] = n] BY <1>7 DEF HooksEnd
    <2>2. n \in Run /\ n.pc = "done" /\ n.task = runs[r].task /\ n.obj = runs[r].obj
      BY <1>0, <1>4 DEF Run
    <2>3. UNCHANGED <<status, ctx, store, live, leased, msgs>> BY <1>7 DEF HooksEnd
    <2> HIDE DEF n
    <2>4. store'[ctx.task] = n.obj BY <1>2, <2>2, <2>3
    <2> QED BY <1>1, <1>3, <2>1, <2>2, <2>3, <2>4, RunMovesSound
  <1>8. CASE TaskDone(r) \/ RecoveredTaskDone(r)
    <2>1. /\ runs' = [runs EXCEPT ![r] = NoRun] /\ live' = [live EXCEPT ![runs[r].task] = 0]
          /\ UNCHANGED <<ctx, store, msgs>>
      BY <1>8 DEF TaskDone, RecoveredTaskDone, EntryDropped
    <2>2. PICK s : Become(s) /\ (s = StatusOf(runs[r].obj) \/ s = "failed")
      BY <1>8 DEF TaskDone, RecoveredTaskDone
    <2>3. \A q \in Runs : ~(runs'[q].pc # "none")
      <3>1. \A q \in Runs : runs'[q] = IF q = r THEN NoRun ELSE runs[q] BY <1>0, <2>1
      <3> QED BY <1>2, <3>1 DEF Alive, NoRun
    <2>4. /\ s \in BoundStatuses /\ s # "running"
          /\ s \in {"paused", "cancelled", "completed"} => s = store[ctx.task].life
      BY <1>2, <2>2 DEF StatusOf, BoundStatuses
    <2>5. status \in BoundStatuses BY <1>2 DEF Sound, FileInv
    <2>6. IF status \in {"running", "paused"} THEN status' = s ELSE status' = status
      BY <1>0, <2>2, <2>4, <2>5, Becomes DEF BoundStatuses
    <2>7. ReachInv' BY <2>1, <2>3 DEF Sound, ReachInv, Alive
    <2>8. ObjectInv' BY <2>3 DEF ObjectInv, Alive
    <2>9. FileInv'
      <3>1. CASE status \in {"running", "paused"}
        <4>1. status' = s /\ store[ctx.task].control # "cancel" /\ store[ctx.task].life # "cancelled"
          BY <1>2, <2>6, <3>1 DEF Sound, FileInv
        <4> QED BY <1>2, <2>1, <2>4, <4>1 DEF Sound, FileInv, Created
      <3>2. CASE status \notin {"running", "paused"}
        BY <1>2, <2>1, <2>6, <3>2 DEF Sound, FileInv, Created
      <3> QED BY <3>1, <3>2
    <2>10. PausedInv'
      <3>1. status' = "paused" => s = "paused" BY <2>6
      <3> QED BY <1>2, <2>1, <2>4, <3>1 DEF Sound, FileInv, PausedInv, Bound
    <2>11. ServedInv'
      <3>1. status' # "running" BY <2>4, <2>6
      <3> QED BY <3>1 DEF ServedInv
    <2> QED BY <2>7, <2>8, <2>9, <2>10, <2>11 DEF Sound
  <1> QED BY <1>5, <1>6, <1>7, <1>8 DEF RunStep
\* A session that has not departed keeps sound.
LEMMA SessionStep ==
    ASSUME TypeInv, SessionInv, Next, Orderly'
    PROVE  Sound'
  <1>0. /\ runs \in [Runs -> Run] /\ store \in [Tasks -> TaskState] /\ live \in [Tasks -> 0..MaxRuns]
        /\ msgs \in [Messages -> Message] /\ status \in Statuses /\ ctx \in Context
    BY DEF TypeInv, TypeOK
  <1>1. strayed \subseteq strayed'
    BY DEF Next, MessageStep, Send, RoutedUnmatched, RoutedPending, RoutedToAdapter, AnsweredOnly,
       SearchFinished, WriteContext, SelectCandidate, RefreshStatus, Confirm, Pause, Cancel, Resume,
       RunStep, RunBegins, FlowEnds, HooksEnd, TaskDone, RecoveredTaskDone, RestartIdle,
       RestartRecovers, Stop, Departs
  <1>2. Sound BY <1>1 DEF SessionInv, Orderly
  <1>3. \A m \in Messages : msgs[m].seen.task \in {0, ctx.task} BY <1>2 DEF Sound, ReachInv
  <1>4. ASSUME NEW d, NEW b \in BOOLEAN, Departs(d, b) PROVE ~b
    BY <1>4 DEF Orderly, Departs
  <1>5. CASE \E m \in Messages : MessageStep(m)
    <2>1. PICK m \in Messages : MessageStep(m) BY <1>5
    <2>2. UNCHANGED <<store, runs, live, leased>>
      BY <2>1 DEF MessageStep, Send, RoutedUnmatched, RoutedPending, RoutedToAdapter, AnsweredOnly,
         SearchFinished, RunVars
    <2>3. ctx'.task = ctx.task
      <3>1. ASSUME NEW c \in Context, WriteContext(c), c.task \in {0, ctx.task}
            PROVE  ctx'.task = ctx.task
        <4>1. ~(ctx.task # 0 /\ c.task = 0) BY <1>4, <3>1 DEF WriteContext
        <4> QED BY <3>1, <4>1 DEF WriteContext
      <3>2. CASE RoutedPending(m)
        <4>1. PICK base \in {msgs[m].seen, ctx} : WriteContext([base EXCEPT !.pending = tokens'])
          BY <3>2 DEF RoutedPending
        <4>2. tokens' = tokens + 1 /\ tokens < MaxTokens BY <3>2 DEF RoutedPending
        <4>3. tokens' \in 0..MaxTokens BY <4>2, Sizes DEF TypeInv, TypeOK
        <4>4. base \in Context /\ base.task \in {0, ctx.task} BY <1>0, <1>3, <2>1 DEF Message
        <4>5. [base EXCEPT !.pending = tokens'] \in Context
              /\ [base EXCEPT !.pending = tokens'].task = base.task
          BY <4>3, <4>4 DEF Context
        <4> QED BY <3>1, <4>1, <4>4, <4>5
      <3>3. CASE SearchFinished(m)
        <4>1. msgs[m].seen \in Context BY <1>0, <2>1 DEF Message
        <4> QED BY <1>3, <2>1, <3>1, <3>3, <4>1 DEF SearchFinished
      <3> QED BY <2>1, <3>2, <3>3
          DEF MessageStep, Send, RoutedUnmatched, RoutedToAdapter, AnsweredOnly
    <2>4. \A q \in Messages : msgs'[q].seen.task \in {0, ctx.task}
      <3>1. CASE Send(m)
        <4>1. \A q \in Messages : msgs'[q].seen = IF q = m THEN ctx ELSE msgs[q].seen
          BY <1>0, <3>1 DEF Send
        <4> QED BY <1>3, <4>1
      <3>2. CASE RoutedToAdapter(m)
        <4>1. \A q \in Messages : msgs'[q].seen = msgs[q].seen
          BY <1>0, <3>2 DEF RoutedToAdapter, Message
        <4> QED BY <1>3, <4>1
      <3>3. CASE Answered(m)
        <4>1. \A q \in Messages : msgs'[q] = IF q = m THEN NoMessage ELSE msgs[q]
          BY <1>0, <3>3 DEF Answered
        <4> QED BY <1>3, <4>1 DEF NoMessage, NoContext
      <3> QED BY <2>1, <3>1, <3>2, <3>3
          DEF MessageStep, RoutedUnmatched, RoutedPending, AnsweredOnly, SearchFinished
    <2>5. \/ status' = status
          \/ \E s \in {"waiting_user_input", "waiting_confirmation"} : Become(s)
      BY <2>1 DEF MessageStep, Send, RoutedUnmatched, RoutedPending, RoutedToAdapter, AnsweredOnly,
         SearchFinished
    <2> QED BY <1>2, <2>2, <2>3, <2>4, <2>5, QuietStep
  <1>6. CASE SelectCandidate \/ RefreshStatus
    <2>1. UNCHANGED <<ctx, store, runs, live, leased, msgs>>
      BY <1>6 DEF SelectCandidate, RefreshStatus, RunVars
    <2>2. \/ status \notin TerminalStatuses /\ Become("active")
          \/ status \notin TerminalStatuses /\ Bound /\ Become(store[ctx.task].life)
      BY <1>6 DEF SelectCandidate, RefreshStatus
    <2> QED BY <1>2, <1>3, <2>1, <2>2, QuietStep
  <1>7. CASE Confirm
    <2> DEFINE s == [phase |-> 1, life |-> "running", control |-> "none"]
    <2> DEFINE allowed == "running" \in Transitions[status]
    <2>1. PICK t \in FreeTasks :
             /\ store' = [store EXCEPT ![t] = s]
             /\ ctx' = ClearedContext(ctx, t)
             /\ Become("running")
             /\ Departs("orphan", ~allowed)
             /\ \/ /\ allowed
                   /\ \E r \in FreeRuns : /\ runs' = [runs EXCEPT ![r] = NewRun(t, s, FALSE)]
                                         /\ live' = Registered(t, r)
                \/ ~allowed /\ UNCHANGED <<runs, live>>
      BY <1>7 DEF Confirm
    <2>2. allowed BY <1>4, <2>1
    <2>3. s \in TaskState /\ s.life = "running" /\ s.control = "none"
      BY Sizes DEF TaskState, Lives, Controls, Completed
    <2>4. status' = "running" BY <2>1, <2>2 DEF Become
    <2> HIDE DEF s, allowed
    <2>5. PICK r \in FreeRuns : /\ runs' = [runs EXCEPT ![r] = NewRun(t, s, FALSE)]
                                /\ live' = Registered(t, r)
      BY <2>1, <2>2
    <2>6. t \in Tasks /\ r \in Runs BY DEF FreeTasks, FreeRuns
    <2>7. \A q \in Runs : ~Alive(q)
      <3>1. ctx.task = 0 BY <1>7 DEF Confirm, MayStart
      <3> QED BY <1>2, <3>1, OneRun DEF Bound
    <2>8. runs'[r] = NewRun(t, s, FALSE) /\ \A q \in Runs : q # r => runs'[q].pc = "none"
      <3>1. \A q \in Runs : q # r => runs'[q] = runs[q] BY <1>0, <2>5
      <3> QED BY <1>0, <2>5, <2>6, <2>7, <3>1 DEF Alive
    <2>9. live'[t] = r /\ store'[t] = s BY <1>0, <2>1, <2>5, <2>6 DEF Registered
    <2>10. ctx'.task = t BY <1>0, <2>1 DEF ClearedContext, Context
    <2>11. \A m \in Messages : msgs'[m].seen.task \in {0, t}
      BY <1>3, <1>7 DEF Confirm, MayStart
    <2> QED BY <2>3, <2>4, <2>6, <2>8, <2>9, <2>10, <2>11, FreshRun
  <1>8. CASE Pause \/ Cancel
    <2>1. Bound /\ ctx.task \in Tasks /\ status \in {"running", "paused"}
      BY <1>0, <1>8, Sizes DEF Pause, Cancel, Bound, Context, Tasks
    <2>2. PICK s \in {PauseRequested(store[ctx.task]), CancelRequested(store[ctx.task])} :
             /\ store' = [store EXCEPT ![ctx.task] = s]
             /\ runs' = IF live[ctx.task] = 0 THEN runs ELSE [runs EXCEPT ![live[ctx.task]].obj = s]
             /\ \/ s = PauseRequested(store[ctx.task]) /\ status = "running" /\ Become("paused")
                \/ s = CancelRequested(store[ctx.task]) /\ Become("cancelled")
      <3>1. live[ctx.task] # 0 => runs[live[ctx.task]].obj = store[ctx.task]
        <4>1. live[ctx.task] # 0 => live[ctx.task] \in Runs /\ Alive(live[ctx.task])
          BY <1>0, <2>1, Sizes DEF TypeInv, RunsInv, Runs
        <4> QED BY <1>2, <4>1, OneRun
      <3>2. CASE Pause BY <3>1, <3>2 DEF Pause, Request, Holder
      <3>3. CASE Cancel BY <3>1, <3>3 DEF Cancel, Request, Holder
      <3> QED BY <1>8, <3>2, <3>3
    <2>3. /\ UNCHANGED <<ctx, live, leased, msgs>>
          /\ s = PauseRequested(store[ctx.task]) => s.life = store[ctx.task].life /\ s.control = "pause"
          /\ s = CancelRequested(store[ctx.task]) => s.life = "cancelled" /\ s.control = "cancel"
      <3>1. UNCHANGED <<ctx, live, leased, msgs>> BY <1>8 DEF Pause, Cancel
      <3>2. store[ctx.task] \in TaskState BY <1>0, <2>1
      <3> QED BY <3>1, <3>2, Requesting
    <2>4. \/ status = "running" /\ status' = "paused" /\ s.life = store[ctx.task].life
             /\ s.control = "pause"
          \/ status' = "cancelled" /\ s.life = "cancelled" /\ s.control = "cancel"
      BY <1>0, <2>1, <2>2, <2>3, Becomes DEF BoundStatuses
    <2>5. store'[ctx.task] = s BY <1>0, <2>1, <2>2
    <2>6. ASSUME NEW q \in Runs, runs'[q].pc # "none"
          PROVE  /\ Alive(q) /\ live[ctx.task] = q /\ runs'[q].task = ctx.task
                 /\ runs'[q].pc = runs[q].pc /\ runs'[q].obj = s
      <3>1. runs'[q].pc = runs[q].pc /\ runs'[q].task = runs[q].task
        BY <1>0, <2>2 DEF Run
      <3>2. Alive(q) BY <2>6, <3>1 DEF Alive
      <3>3. live[ctx.task] = q /\ runs[q].task = ctx.task BY <1>2, <3>2, OneRun
      <3>4. q # 0 BY Sizes
      <3>5. runs'[q].obj = s BY <1>0, <2>2, <3>3, <3>4 DEF Run
      <3> QED BY <3>1, <3>2, <3>3, <3>5
    <2>7. ReachInv' BY <1>3, <2>3, <2>6 DEF ReachInv, Alive
    <2>8. ObjectInv'
      <3>1. ASSUME NEW q \in Runs, runs'[q].pc # "none", runs'[q].pc \in {"ready", "flow"}
            PROVE  s.life \in {"running", "cancelled"}
        <4>1. Alive(q) /\ runs[q].pc \in {"ready", "flow"} /\ runs[q].obj = store[ctx.task]
          BY <1>2, <2>6, <3>1, OneRun
        <4>2. store[ctx.task].life \in {"running", "cancelled"}
          BY <1>2, <4>1 DEF Sound, ObjectInv
        <4> QED BY <2>4, <4>2
      <3> QED BY <2>3, <2>5, <2>6, <3>1 DEF ObjectInv, Alive
    <2>9. FileInv'
      <3>1. Created(ctx.task) /\ (status = "running" => store[ctx.task].life # "cancelled")
        BY <1>2, <2>1 DEF Sound, FileInv
      <3> QED BY <2>1, <2>3, <2>4, <2>5, <3>1 DEF FileInv, Bound, Created, BoundStatuses
    <2>10. PausedInv' /\ ServedInv' BY <2>1, <2>3, <2>4, <2>5 DEF PausedInv, ServedInv, Bound
    <2> QED BY <2>7, <2>8, <2>9, <2>10 DEF Sound
  <1>9. CASE Resume
    <2> DEFINE t == ctx.task
    <2> DEFINE s == Restored(store[t])
    <2>1. t \in Tasks BY <1>0, <1>9, Sizes DEF Resume, Bound, Context, Tasks
    <2>2. s \in TaskState /\ s.life = "running" /\ s.control = "none" BY <1>0, <2>1, Restoring
    <2>3. PICK r \in FreeRuns : runs' = [runs EXCEPT ![r] = NewRun(t, s, FALSE)]
                                /\ live' = Registered(t, r)
      BY <1>9 DEF Resume
    <2>4. /\ store' = [store EXCEPT ![t] = s] /\ UNCHANGED <<ctx, msgs>>
          /\ status = "paused" /\ Become("running")
          /\ Departs("overlap", \E q \in Runs : Alive(q) /\ runs[q].task = t)
      BY <1>9 DEF Resume
    <2> HIDE DEF s
    <2>5. r \in Runs BY DEF FreeRuns
    <2>6. \A q \in Runs : ~Alive(q)
      <3>1. ~(\E q \in Runs : Alive(q) /\ runs[q].task = t) BY <1>4, <2>4
      <3> QED BY <1>2, <3>1, OneRun
    <2>7. runs'[r] = NewRun(t, s, FALSE) /\ \A q \in Runs : q # r => runs'[q].pc = "none"
      <3>1. \A q \in Runs : q # r => runs'[q] = runs[q] BY <1>0, <2>3
      <3> QED BY <1>0, <2>3, <2>5, <2>6, <3>1 DEF Alive
    <2>8. live'[t] = r /\ store'[t] = s BY <1>0, <2>1, <2>3, <2>4 DEF Registered
    <2>9. status' = "running" BY <1>0, <2>4, Becomes DEF BoundStatuses
    <2>10. ctx'.task = t /\ \A m \in Messages : msgs'[m].seen.task \in {0, t} BY <1>3, <2>4
    <2> HIDE DEF t
    <2> QED BY <2>1, <2>2, <2>5, <2>7, <2>8, <2>9, <2>10, FreshRun
  <1>10. CASE \E r \in Runs : RunStep(r) BY <1>2, <1>10, SoundRunStep
  <1>11. CASE RestartIdle \/ RestartRecovers
    <2>1. status' = status /\ ctx' = ctx /\ \A m \in Messages : msgs'[m].seen.task = 0
      <3>1. status' = status /\ ctx' = ctx /\ msgs' = [m \in Messages |-> NoMessage]
        BY <1>11 DEF RestartIdle, RestartRecovers, Stop
      <3>2. NoMessage.seen.task = 0 BY DEF NoMessage, NoContext
      <3> QED BY <3>1, <3>2
    <2>2. \A r \in Runs : Lost[r].pc = "none" BY DEF Lost, NoRun
    <2>3. CASE RestartIdle
      <3>1. UNCHANGED <<store, leased>> /\ runs' = Lost /\ (Recoverable => leased[ctx.task])
        BY <2>3 DEF RestartIdle
      <3>2. ReachInv' BY <2>1, <2>2, <3>1 DEF ReachInv, Alive
      <3>3. ObjectInv' BY <2>2, <3>1 DEF ObjectInv, Alive
      <3>4. FileInv' /\ PausedInv'
        BY <1>2, <2>1, <3>1 DEF Sound, FileInv, PausedInv, Bound, Created
      <3>5. ServedInv'
        <4>1. CASE status = "running"
          <5>1. Bound /\ ctx.task \in Tasks
            BY <1>0, <1>2, <4>1, Sizes DEF Sound, ServedInv, Bound, Context, Tasks
          <5>2. store[ctx.task].life \in BoundStatuses
            BY <1>0, <1>2, <5>1 DEF TaskState, Lives, BoundStatuses, Sound, FileInv, Created
          <5>3. store[ctx.task].life = "running" => leased[ctx.task]
            BY <3>1, <4>1, <5>1 DEF Recoverable, IsCandidate, Bound
          <5> QED BY <2>1, <3>1, <5>1, <5>2, <5>3 DEF ServedInv, Bound, BoundStatuses
        <4>2. CASE status # "running" BY <2>1, <4>2 DEF ServedInv
        <4> QED BY <4>1, <4>2
      <3> QED BY <3>2, <3>3, <3>4, <3>5 DEF Sound
    <2>4. CASE RestartRecovers
      <3> DEFINE t == ctx.task
      <3> DEFINE s == Restored(store[t])
      <3>1. t \in Tasks /\ status = "running"
        BY <1>0, <2>4, Sizes DEF RestartRecovers, Recoverable, Context, Tasks
      <3>2. s \in TaskState /\ s.life = "running" /\ s.control = "none" BY <1>0, <3>1, Restoring
      <3>3. /\ store' = [store EXCEPT ![t] = s]
            /\ runs' = [Lost EXCEPT ![1] = NewRun(t, s, TRUE)]
            /\ live' = [[q \in Tasks |-> 0] EXCEPT ![t] = 1]
        BY <2>4 DEF RestartRecovers
      <3> HIDE DEF s
      <3>4. runs'[1] = NewRun(t, s, TRUE) /\ \A q \in Runs : q # 1 => runs'[q].pc = "none"
        BY <2>2, <3>3, Sizes DEF Lost
      <3>5. live'[t] = 1 /\ store'[t] = s BY <1>0, <3>1, <3>3
      <3>6. ctx'.task = t /\ status' = "running" /\ \A m \in Messages : msgs'[m].seen.task \in {0, t}
        BY <2>1, <3>1
      <3> HIDE DEF t
      <3> QED BY <3>1, <3>2, <3>4, <3>5, <3>6, Sizes, FreshRun
    <2> QED BY <1>11, <2>3, <2>4
  <1> QED BY <1>5, <1>6, <1>7, <1>8, <1>9, <1>10, <1>11 DEF Next

-----------------------------------------------------------------------------
(* The theorems.                                                           *)

\* The invariant holds initially.
LEMMA InitInv ==
    ASSUME Init
    PROVE  TypeInv /\ SessionInv
  <1>1. NoRun \in Run /\ NoTask \in TaskState /\ NoMessage \in Message /\ NoContext \in Context
    BY Sizes DEF NoRun, Run, RunPcs, NoTask, TaskState, Lives, Controls, Completed, NoMessage,
       Message, NoContext, Context
  <1>2. NoRun.pc = "none" /\ NoContext.task = 0 /\ NoMessage.seen.task = 0
    BY DEF NoRun, NoContext, NoMessage
  <1>3. TypeOK
    BY <1>1, Sizes DEF Init, TypeOK, Statuses
  <1>4. RunsInv BY <1>2 DEF Init, RunsInv, Alive
  <1>5. CountInv
    <2>1. CreatedTasks \in SUBSET Tasks BY DEF CreatedTasks
    <2>2. Cardinality(CreatedTasks) \in Nat BY <2>1, Counts
    <2>3. \A k \in Tokens : started[k] = 0 BY DEF Init
    <2> QED BY <2>2, <2>3 DEF CountInv
  <1>6. Sound
    BY <1>2 DEF Init, Sound, ReachInv, ObjectInv, FileInv, PausedInv, ServedInv, Bound, Alive
  <1> QED BY <1>3, <1>4, <1>5, <1>6 DEF TypeInv, SessionInv

LEMMA Invariance == Spec => [](TypeInv /\ SessionInv)
  <1>1. Init => TypeInv /\ SessionInv BY InitInv
  <1>2. TypeInv /\ SessionInv /\ [Next]_vars => (TypeInv /\ SessionInv)'
    <2>1. ASSUME TypeInv, SessionInv, Next PROVE TypeInv' /\ SessionInv'
      BY <2>1, TypeStep, SessionStep DEF SessionInv
    <2>2. ASSUME TypeInv, SessionInv, UNCHANGED vars PROVE TypeInv' /\ SessionInv'
      <3>1. TypeInv'
        BY <2>2 DEF vars, TypeInv, TypeOK, RunsInv, Alive, CountInv, CreatedTasks, Created
      <3>2. SessionInv'
        BY <2>2 DEF vars, SessionInv, Orderly, Sound, ReachInv, ObjectInv, FileInv, PausedInv,
           ServedInv, Bound, Alive, Created
      <3> QED BY <3>1, <3>2
    <2> QED BY <2>1, <2>2
  <1> QED BY <1>1, <1>2, PTL DEF Spec

\* Every variable keeps its type: among them the number of tasks one token starts.
THEOREM TypeCorrect == Spec => []TypeOK
  <1>1. TypeInv => TypeOK BY DEF TypeInv
  <1> QED BY <1>1, Invariance, PTL

\* pause and cancel change the object of the run that works on the task.
THEOREM RequestsReach == Spec => []RequestsReachTheRun
  <1>1. SessionInv => RequestsReachTheRun
    BY DEF SessionInv, Sound, ReachInv, RequestsReachTheRun
  <1> QED BY <1>1, Invariance, PTL

\* What the session says of its task is true: while it pauses, while it runs and when it
\* has ended.
THEOREM SessionTruth == Spec => []SessionAgrees
  <1>1. TypeInv /\ SessionInv => SessionAgrees
    <2> SUFFICES ASSUME TypeInv, SessionInv PROVE SessionAgrees OBVIOUS
    <2>1. PausedSessionIsQuiet
      <3> SUFFICES ASSUME Sound, status = "paused", NEW r \in Runs, Alive(r)
                   PROVE  runs[r].obj.control = "pause"
        BY DEF PausedSessionIsQuiet, SessionInv
      <3>1. runs[r].obj = store[ctx.task] BY OneRun
      <3> QED BY <3>1 DEF Sound, PausedInv
    <2>2. RunningSessionIsServed
      <3> SUFFICES ASSUME Sound, status = "running"
                   PROVE  \/ \E r \in Runs : Alive(r)
                          \/ store[ctx.task].life \in {"paused", "cancelled", "completed", "failed"}
                          \/ Recoverable /\ (leased[ctx.task] \/ store[ctx.task].control = "pause")
        BY DEF RunningSessionIsServed, SessionInv
      <3>1. Bound /\ Created(ctx.task) BY DEF Sound, ServedInv, FileInv
      <3>2. store[ctx.task].life \in Lives
        BY <3>1, Sizes DEF TypeInv, TypeOK, Context, Bound, Tasks, TaskState
      <3>3. CASE store[ctx.task].life = "running"
        BY <3>1, <3>3 DEF Sound, ServedInv, Recoverable, IsCandidate, Bound
      <3>4. CASE store[ctx.task].life # "running" BY <3>1, <3>2, <3>4 DEF Created, Lives
      <3> QED BY <3>3, <3>4
    <2>3. EndAgreesWithTask BY DEF SessionInv, Sound, FileInv, EndAgreesWithTask
    <2> QED BY <2>1, <2>2, <2>3 DEF SessionAgrees
  <1> QED BY <1>1, Invariance, PTL

-----------------------------------------------------------------------------
(* TaskLease: the invariant and its preservation.                          *)

\* The process created a file in its claim, or was lost.
Won == Holding \cup {"released", "crashed"}
SomeWon == \E q \in Owners : pc[q] \in Won

\* Files that exist or have their payload were created by a process that won.
FilesAreWon == \A o \in Owners : (path = o \/ o \in written) => pc[o] \in Won

\* A file under the name of its owner is not released yet.
NotReleased == \A o \in Owners : path = o => pc[o] # "released"

\* An owner past the write finds its own payload.
PayloadWritten ==
    \A o \in Owners : pc[o] \in {"holds", "check", "remove"} => o \in written

\* A second attempt fails only because somebody created a file in between; the
\* lease that was found at the start is gone by then.
SecondAttempt ==
    \A o \in Owners :
        /\ pc[o] = "idle" => tries[o] = 0
        /\ tries[o] >= 1 => path # Old
        /\ tries[o] >= 1 /\ pc[o] \in {"read", "unlink"} => SomeWon
        /\ pc[o] \in {"create", "read", "unlink"} => tries[o] < 2

\* Each refusal has its reason.
RefusedForCause ==
    \A o \in Owners : pc[o] = "refused" =>
        SomeWon \/ (Old \in written /\ expires[Old] > began[o])

LeaseInv ==
    /\ LeaseTypeOK
    /\ HolderOwnsFile
    /\ FilesAreWon
    /\ NotReleased
    /\ PayloadWritten
    /\ SecondAttempt
    /\ RefusedForCause

-----------------------------------------------------------------------------
\* The two special names are not those of processes.
LEMMA Names == None \notin Owners /\ Old \notin Owners /\ None # Old /\ None \notin Files
BY OwnersAssumption DEF None, Old, Files

\* The initial states, with or without the lease of a lost process.
LEMMA LeaseInitInv == LeaseInit => LeaseInv
<1>1. SUFFICES ASSUME LeaseInit PROVE LeaseInv
    OBVIOUS
<1>2. LeaseTypeOK
  <2>1. PICK e \in 0..TTL : expires = [f \in Files |-> e]
      BY <1>1 DEF LeaseInit
  <2>2. e \in 0..(MaxClock + TTL)
      BY LeaseAssumption
  <2> QED
      BY <1>1, <2>1, <2>2, LeaseAssumption DEF LeaseInit, LeaseTypeOK, Pcs, Files, Attempts
<1>3. HolderOwnsFile /\ FilesAreWon /\ NotReleased /\ PayloadWritten
    BY <1>1, Names DEF LeaseInit, HolderOwnsFile, FilesAreWon, NotReleased, PayloadWritten, Holding
<1>4. SecondAttempt /\ RefusedForCause
    BY <1>1 DEF LeaseInit, SecondAttempt, RefusedForCause
<1> QED
    BY <1>2, <1>3, <1>4 DEF LeaseInv

\* The type is preserved by every step from a state of the invariant.
LEMMA LeaseTypeStep == LeaseInv /\ [LeaseNext]_leaseVars => LeaseTypeOK'
<1>1. SUFFICES ASSUME LeaseInv, [LeaseNext]_leaseVars PROVE LeaseTypeOK'
    OBVIOUS
<1>2. LeaseTypeOK /\ SecondAttempt
    BY <1>1 DEF LeaseInv
<1>3. CASE UNCHANGED leaseVars
    BY <1>2, <1>3 DEF LeaseTypeOK, leaseVars
<1>4. CASE Tick
    BY <1>2, <1>4, LeaseAssumption DEF LeaseTypeOK, Tick, Lease
<1>5. ASSUME NEW o \in Owners, Step(o) \/ Crash(o) PROVE LeaseTypeOK'
  <2>1. CASE Claim(o)
      BY <1>2, <2>1 DEF LeaseTypeOK, Claim, Goto, Lease, Pcs, Files
  <2>2. CASE Create(o)
      BY <1>2, <2>2 DEF LeaseTypeOK, Create, MayCreate, Goto, Pcs, Files
  <2>3. CASE Write(o)
    <3>1. ExpiresAt(o) \in 0..(MaxClock + TTL)
        BY <1>2, LeaseAssumption DEF LeaseTypeOK, ExpiresAt
    <3> QED
        BY <1>2, <2>3, <3>1 DEF LeaseTypeOK, Write, Goto, Pcs, Files
  <2>4. CASE Read(o)
      BY <1>2, <2>4 DEF LeaseTypeOK, Read, Unexpired, OwnsLease, Goto, Lease, Pcs, Files
  <2>5. CASE Unlink(o)
    <3>1. tries[o] \in 0..1 /\ tries[o] + 1 \in 0..Attempts
        BY <1>2, <2>5 DEF LeaseTypeOK, SecondAttempt, Unlink, Attempts
    <3> QED
        BY <1>2, <2>5, <3>1 DEF LeaseTypeOK, Unlink, Unlinked, Goto, Pcs, Files
  <2>6. CASE Release(o)
      BY <1>2, <2>6 DEF LeaseTypeOK, Release, Goto, Lease, Pcs, Files
  <2>7. CASE CheckOwner(o)
      BY <1>2, <2>7 DEF LeaseTypeOK, CheckOwner, OwnsLease, Goto, Lease, Pcs, Files
  <2>8. CASE Remove(o)
      BY <1>2, <2>8 DEF LeaseTypeOK, Remove, Unlinked, Goto, Pcs, Files
  <2>9. CASE Crash(o)
      BY <1>2, <2>9 DEF LeaseTypeOK, Crash, Goto, Lease, Pcs, Files
  <2> QED
      BY <1>5, <2>1, <2>2, <2>3, <2>4, <2>5, <2>6, <2>7, <2>8, <2>9 DEF Step
<1> QED
    BY <1>1, <1>3, <1>4, <1>5 DEF LeaseNext

\* A process that won stays so, and a claim is never taken back.
LEMMA WonStep ==
    ASSUME LeaseInv, [LeaseNext]_leaseVars, NEW q \in Owners, pc[q] \in Won
    PROVE  pc'[q] \in Won
<1>1. CASE UNCHANGED leaseVars
    BY <1>1 DEF leaseVars
<1>2. CASE Tick
    BY <1>2 DEF Tick
<1>3. ASSUME NEW o \in Owners, Step(o) \/ Crash(o) PROVE pc'[q] \in Won
    BY <1>3 DEF LeaseInv, LeaseTypeOK, Step, Claim, Create, Write, Read, Unlink, Release, CheckOwner,
       Remove, Crash, Goto, Won, Holding
<1> QED
    BY <1>1, <1>2, <1>3 DEF LeaseNext

\* The rest of the invariant, action by action.
LEMMA LeaseInvStep ==
    LeaseInv /\ [LeaseNext]_leaseVars =>
        HolderOwnsFile' /\ FilesAreWon' /\ NotReleased' /\ PayloadWritten'
        /\ SecondAttempt' /\ RefusedForCause'
<1> DEFINE Goal == /\ HolderOwnsFile' /\ FilesAreWon' /\ NotReleased' /\ PayloadWritten'
                   /\ SecondAttempt' /\ RefusedForCause'
<1>1. SUFFICES ASSUME LeaseInv, [LeaseNext]_leaseVars PROVE Goal
    OBVIOUS
<1>2. SomeWon => SomeWon'
    BY <1>1, WonStep DEF SomeWon
<1>3. CASE UNCHANGED leaseVars
    BY <1>1, <1>3 DEF LeaseInv, leaseVars, HolderOwnsFile, FilesAreWon, NotReleased, PayloadWritten,
       SecondAttempt, RefusedForCause, SomeWon
<1>4. CASE Tick
    BY <1>1, <1>4 DEF LeaseInv, Tick, Lease, HolderOwnsFile, FilesAreWon, NotReleased,
       PayloadWritten, SecondAttempt, RefusedForCause, SomeWon
<1>5. ASSUME NEW o \in Owners, Step(o) \/ Crash(o) PROVE Goal
  <2>1. CASE Claim(o)
    <3>1. HolderOwnsFile'
        BY <1>1, <2>1, Names DEF LeaseInv, LeaseTypeOK, Claim, Goto, Lease, HolderOwnsFile, FilesAreWon, NotReleased, PayloadWritten, Won, Holding, Files
    <3>2. FilesAreWon' /\ NotReleased' /\ PayloadWritten'
        BY <1>1, <2>1, Names DEF LeaseInv, LeaseTypeOK, Claim, Goto, Lease, FilesAreWon, NotReleased, PayloadWritten, Won, Holding, Files
    <3>3. SecondAttempt'
        BY <1>1, <2>1, <1>2, Names DEF LeaseInv, LeaseTypeOK, Claim, Goto, Lease, SecondAttempt, FilesAreWon, SomeWon, Won, Holding, Files
    <3>4. RefusedForCause'
        BY <1>1, <2>1, <1>2, Names DEF LeaseInv, LeaseTypeOK, Claim, Goto, Lease, RefusedForCause, SecondAttempt, FilesAreWon, SomeWon, Won, Holding, Files
    <3> QED
        BY <3>1, <3>2, <3>3, <3>4
  <2>2. CASE Create(o)
    <3>1. HolderOwnsFile'
        BY <1>1, <2>2, Names DEF LeaseInv, LeaseTypeOK, Create, MayCreate, Goto, HolderOwnsFile, FilesAreWon, NotReleased, PayloadWritten, Won, Holding, Files
    <3>2. FilesAreWon' /\ NotReleased' /\ PayloadWritten'
        BY <1>1, <2>2, Names DEF LeaseInv, LeaseTypeOK, Create, MayCreate, Goto, FilesAreWon, NotReleased, PayloadWritten, Won, Holding, Files
    <3>3. SecondAttempt'
        BY <1>1, <2>2, <1>2, Names DEF LeaseInv, LeaseTypeOK, Create, MayCreate, Goto, SecondAttempt, FilesAreWon, SomeWon, Won, Holding, Files
    <3>4. RefusedForCause'
        BY <1>1, <2>2, <1>2, Names DEF LeaseInv, LeaseTypeOK, Create, MayCreate, Goto, RefusedForCause, SecondAttempt, FilesAreWon, SomeWon, Won, Holding, Files
    <3> QED
        BY <3>1, <3>2, <3>3, <3>4
  <2>3. CASE Write(o)
    <3>1. HolderOwnsFile'
        BY <1>1, <2>3, Names DEF LeaseInv, LeaseTypeOK, Write, Goto, HolderOwnsFile, FilesAreWon, NotReleased, PayloadWritten, Won, Holding, Files
    <3>2. FilesAreWon' /\ NotReleased' /\ PayloadWritten'
        BY <1>1, <2>3, Names DEF LeaseInv, LeaseTypeOK, Write, Goto, FilesAreWon, NotReleased, PayloadWritten, Won, Holding, Files
    <3>3. SecondAttempt'
        BY <1>1, <2>3, <1>2, Names DEF LeaseInv, LeaseTypeOK, Write, Goto, SecondAttempt, FilesAreWon, SomeWon, Won, Holding, Files
    <3>4. RefusedForCause'
        BY <1>1, <2>3, <1>2, Names DEF LeaseInv, LeaseTypeOK, Write, Goto, RefusedForCause, SecondAttempt, FilesAreWon, SomeWon, Won, Holding, Files
    <3> QED
        BY <3>1, <3>2, <3>3, <3>4
  <2>4. CASE Read(o)
    <3>1. HolderOwnsFile'
        BY <1>1, <2>4, Names DEF LeaseInv, LeaseTypeOK, Read, Unexpired, OwnsLease, Goto, Lease, HolderOwnsFile, FilesAreWon, NotReleased, PayloadWritten, Won, Holding, Files
    <3>2. FilesAreWon' /\ NotReleased' /\ PayloadWritten'
        BY <1>1, <2>4, Names DEF LeaseInv, LeaseTypeOK, Read, Unexpired, OwnsLease, Goto, Lease, FilesAreWon, NotReleased, PayloadWritten, Won, Holding, Files
    <3>3. SecondAttempt'
        BY <1>1, <2>4, <1>2, Names DEF LeaseInv, LeaseTypeOK, Read, Unexpired, OwnsLease, Goto, Lease, SecondAttempt, FilesAreWon, SomeWon, Won, Holding, Files
    <3>4. RefusedForCause'
        BY <1>1, <2>4, <1>2, Names DEF LeaseInv, LeaseTypeOK, Read, Unexpired, OwnsLease, Goto, Lease, RefusedForCause, SecondAttempt, FilesAreWon, SomeWon, Won, Holding, Files
    <3> QED
        BY <3>1, <3>2, <3>3, <3>4
  <2>5. CASE Unlink(o)
    <3>1. HolderOwnsFile'
        BY <1>1, <2>5, Names DEF LeaseInv, LeaseTypeOK, Unlink, Unlinked, Attempts, Goto, HolderOwnsFile, FilesAreWon, NotReleased, PayloadWritten, Won, Holding, Files
    <3>2. FilesAreWon' /\ NotReleased' /\ PayloadWritten'
        BY <1>1, <2>5, Names DEF LeaseInv, LeaseTypeOK, Unlink, Unlinked, Attempts, Goto, FilesAreWon, NotReleased, PayloadWritten, Won, Holding, Files
    <3>3. SecondAttempt'
        BY <1>1, <2>5, <1>2, Names DEF LeaseInv, LeaseTypeOK, Unlink, Unlinked, Attempts, Goto, SecondAttempt, FilesAreWon, SomeWon, Won, Holding, Files
    <3>4. RefusedForCause'
        BY <1>1, <2>5, <1>2, Names DEF LeaseInv, LeaseTypeOK, Unlink, Unlinked, Attempts, Goto, RefusedForCause, SecondAttempt, FilesAreWon, SomeWon, Won, Holding, Files
    <3> QED
        BY <3>1, <3>2, <3>3, <3>4
  <2>6. CASE Release(o)
    <3>1. HolderOwnsFile'
        BY <1>1, <2>6, Names DEF LeaseInv, LeaseTypeOK, Release, Goto, Lease, HolderOwnsFile, FilesAreWon, NotReleased, PayloadWritten, Won, Holding, Files
    <3>2. FilesAreWon' /\ NotReleased' /\ PayloadWritten'
        BY <1>1, <2>6, Names DEF LeaseInv, LeaseTypeOK, Release, Goto, Lease, FilesAreWon, NotReleased, PayloadWritten, Won, Holding, Files
    <3>3. SecondAttempt'
        BY <1>1, <2>6, <1>2, Names DEF LeaseInv, LeaseTypeOK, Release, Goto, Lease, SecondAttempt, FilesAreWon, SomeWon, Won, Holding, Files
    <3>4. RefusedForCause'
        BY <1>1, <2>6, <1>2, Names DEF LeaseInv, LeaseTypeOK, Release, Goto, Lease, RefusedForCause, SecondAttempt, FilesAreWon, SomeWon, Won, Holding, Files
    <3> QED
        BY <3>1, <3>2, <3>3, <3>4
  <2>7. CASE CheckOwner(o)
    <3>1. HolderOwnsFile'
        BY <1>1, <2>7, Names DEF LeaseInv, LeaseTypeOK, CheckOwner, OwnsLease, Goto, Lease, HolderOwnsFile, FilesAreWon, NotReleased, PayloadWritten, Won, Holding, Files
    <3>2. FilesAreWon' /\ NotReleased' /\ PayloadWritten'
        BY <1>1, <2>7, Names DEF LeaseInv, LeaseTypeOK, CheckOwner, OwnsLease, Goto, Lease, FilesAreWon, NotReleased, PayloadWritten, Won, Holding, Files
    <3>3. SecondAttempt'
        BY <1>1, <2>7, <1>2, Names DEF LeaseInv, LeaseTypeOK, CheckOwner, OwnsLease, Goto, Lease, SecondAttempt, FilesAreWon, SomeWon, Won, Holding, Files
    <3>4. RefusedForCause'
        BY <1>1, <2>7, <1>2, Names DEF LeaseInv, LeaseTypeOK, CheckOwner, OwnsLease, Goto, Lease, RefusedForCause, SecondAttempt, FilesAreWon, SomeWon, Won, Holding, Files
    <3> QED
        BY <3>1, <3>2, <3>3, <3>4
  <2>8. CASE Remove(o)
    <3>1. HolderOwnsFile'
        BY <1>1, <2>8, Names DEF LeaseInv, LeaseTypeOK, Remove, Unlinked, Goto, HolderOwnsFile, FilesAreWon, NotReleased, PayloadWritten, Won, Holding, Files
    <3>2. FilesAreWon' /\ NotReleased' /\ PayloadWritten'
        BY <1>1, <2>8, Names DEF LeaseInv, LeaseTypeOK, Remove, Unlinked, Goto, FilesAreWon, NotReleased, PayloadWritten, Won, Holding, Files
    <3>3. SecondAttempt'
        BY <1>1, <2>8, <1>2, Names DEF LeaseInv, LeaseTypeOK, Remove, Unlinked, Goto, SecondAttempt, FilesAreWon, SomeWon, Won, Holding, Files
    <3>4. RefusedForCause'
        BY <1>1, <2>8, <1>2, Names DEF LeaseInv, LeaseTypeOK, Remove, Unlinked, Goto, RefusedForCause, SecondAttempt, FilesAreWon, SomeWon, Won, Holding, Files
    <3> QED
        BY <3>1, <3>2, <3>3, <3>4
  <2>9. CASE Crash(o)
    <3>1. HolderOwnsFile'
        BY <1>1, <2>9, Names DEF LeaseInv, LeaseTypeOK, Crash, Goto, Lease, HolderOwnsFile, FilesAreWon, NotReleased, PayloadWritten, Won, Holding, Files
    <3>2. FilesAreWon' /\ NotReleased' /\ PayloadWritten'
        BY <1>1, <2>9, Names DEF LeaseInv, LeaseTypeOK, Crash, Goto, Lease, FilesAreWon, NotReleased, PayloadWritten, Won, Holding, Files
    <3>3. SecondAttempt'
        BY <1>1, <2>9, <1>2, Names DEF LeaseInv, LeaseTypeOK, Crash, Goto, Lease, SecondAttempt, FilesAreWon, SomeWon, Won, Holding, Files
    <3>4. RefusedForCause'
        BY <1>1, <2>9, <1>2, Names DEF LeaseInv, LeaseTypeOK, Crash, Goto, Lease, RefusedForCause, SecondAttempt, FilesAreWon, SomeWon, Won, Holding, Files
    <3> QED
        BY <3>1, <3>2, <3>3, <3>4
  <2> QED
      BY <1>5, <2>1, <2>2, <2>3, <2>4, <2>5, <2>6, <2>7, <2>8, <2>9 DEF Step
<1> QED
    BY <1>1, <1>3, <1>4, <1>5 DEF LeaseNext

\* The invariant holds in every reachable state.
THEOREM LeaseInvariance == LeaseSpec => []LeaseInv
<1>1. LeaseInv /\ [LeaseNext]_leaseVars => LeaseInv'
    BY LeaseTypeStep, LeaseInvStep DEF LeaseInv
<1> QED
    BY LeaseInitInv, <1>1, PTL DEF LeaseSpec

\* Type correctness.
THEOREM LeaseTypeCorrect == LeaseSpec => []LeaseTypeOK
<1>1. LeaseInv => LeaseTypeOK
    BY DEF LeaseInv
<1> QED
    BY LeaseInvariance, <1>1, PTL

\* A holder loses its file only to the unlink of another process.
THEOREM HolderKeepsFile == LeaseSpec => []HolderOwnsFile
<1>1. LeaseInv => HolderOwnsFile
    BY DEF LeaseInv
<1> QED
    BY LeaseInvariance, <1>1, PTL

\* While no file is taken from a process, at most one of them recovers the task.
THEOREM ExclusionUnlessRobbed == LeaseSpec => [](robbed = {} => OneRecovers)
<1>1. LeaseInv => (robbed = {} => OneRecovers)
    BY DEF LeaseInv, HolderOwnsFile, OneRecovers, Holding
<1> QED
    BY LeaseInvariance, <1>1, PTL

\* A lease that is left under the name has an owner that can still release it,
\* or that was lost.
THEOREM NoLeaseLeftBehind == LeaseSpec => []LeaseHasOwner
<1>1. LeaseInv => LeaseHasOwner
    BY DEF LeaseInv, FilesAreWon, NotReleased, LeaseHasOwner, Won
<1> QED
    BY LeaseInvariance, <1>1, PTL

\* If every claim was refused, the lease that was found had not expired.
THEOREM SomeClaimSucceeds == LeaseSpec => []NotAllRefused
<1>1. LeaseInv => NotAllRefused
    BY DEF LeaseInv, RefusedForCause, SomeWon, NotAllRefused, Won, Holding
<1> QED
    BY LeaseInvariance, <1>1, PTL
=============================================================================

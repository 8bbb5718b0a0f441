----------------------------- MODULE PhaseFlowProofs -----------------------------
(***************************************************************************)
(* Theorems about PhaseFlow for any tasks, phases, limits, plans, lost      *)
(* processes and writes that fail.                                          *)
(***************************************************************************)
EXTENDS PhaseFlow, SequenceTheorems, TLAPS

-----------------------------------------------------------------------------
(* The invariant, part by part.                                            *)

\* What a run has at each point of the flow.
Placed(r) ==
    /\ r.tries < MaxAttempts
    /\ r.pc \in InFlow \cup {"new", "top", "evaluating"} => r.obj.phase \in Phases
    /\ r.pc = "content" => r.obj.content < Contents
    /\ r.pc = "steps" => r.k < Len(r.plan)
    /\ r.pc = "synthesis" => r.k = Len(r.plan)
    /\ r.pc \notin {"steps", "synthesis"} => r.k = 0

TypeInv == TypeOK /\ \A t \in Tasks : Placed(runs[t])

\* The manifest tells of a step, or need not.
RoundOf(o) == [phase |-> o.phase, rev |-> o.revs[o.phase]]
Reported(r, s) ==
    \/ s.tool = "other" /\ s.success /\ s.result = "none"
    \/ s.tool = "save_artifact" /\ ~s.success
    \/ LET a == [round |-> RoundOf(r.obj), id |-> s.id, tool |-> s.tool,
                 kind |-> IF s.success THEN "result" ELSE "error"]
       IN  /\ r.files.man[s.id] = [success |-> s.success, artifact |-> a]
           /\ s.tool = "other" => a \in r.files.art

\* So it is of the executed steps, by the last one of each name.
Recorded(r) ==
    \A k \in 1..r.k :
        (\A j \in k + 1..r.k : r.plan[j].id # r.plan[k].id) => Reported(r, r.plan[k])
RecordInv == \A t \in Tasks : runs[t].pc \in {"steps", "synthesis"} => Recorded(runs[t])

\* last_round_results belongs to the round before the one in hand, if it was kept: no
\* phase ahead has been revised, and a first round has none.
RoundsKept(o, faults) ==
    LET p == o.phase
    IN  /\ \A q \in Phases : q > p => o.revs[q] = 0
        /\ (p \in Phases \ {Parsing} /\ o.revs[p] > 0) =>
               /\ o.last = NoRound \/ (o.last.phase = p /\ o.last.rev < o.revs[p])
               /\ faults = 0 => o.last = [phase |-> p, rev |-> o.revs[p] - 1]
LastKept(r, saved, faults) ==
    /\ RoundsKept(saved, faults) /\ RoundsKept(r.obj, faults)
    /\ (r.pc \in InFlow \cup {"evaluating"} /\ r.obj.phase # Parsing
        /\ ~(r.obj.revs[r.obj.phase] > 0)) => r.obj.last = NoRound
LastInv == \A t \in Tasks \ over : LastKept(runs[t], disk[t].obj, used.faults)

\* OwnConversation and PreviousRound, of a run r and a history h.
Owned(t, r, h) ==
    LET round == RoundOf(r.obj)
    IN  /\ \A m \in h : m.task = t /\ (m.kind # "round" => m.round = round)
        /\ \A kind \in {"system", "spec", "prompt"} : [task |-> t, round |-> round, kind |-> kind] \in h
        /\ [task |-> t, round |-> round, kind |-> "results"] \in h <=> r.pc = "synthesis"
Preceded(r, h, faults) ==
    LET shown == {m.round : m \in {n \in h : n.kind = "round"}}
        rev == r.obj.revs[r.obj.phase]
    IN  /\ shown \subseteq {[phase |-> r.obj.phase, rev |-> i] : i \in 0..rev - 1}
        /\ (rev > 0 /\ r.obj.phase # Parsing /\ faults = 0) =>
               [phase |-> r.obj.phase, rev |-> rev - 1] \in shown
Kept(t, r, h, isOver, faults) == Owned(t, r, h) /\ (isOver \/ Preceded(r, h, faults))

\* So it is during a flow that no other task has written into.
HistoryInv ==
    \A t \in Tasks : (runs[t].pc \in InFlow /\ t \notin mixed) =>
        Kept(t, runs[t], agent.history, t \in over, used.faults)

IInv == TypeInv /\ RecordInv /\ LastInv /\ HistoryInv
-----------------------------------------------------------------------------
(* Types of the operators.                                                 *)

Sizes == PhasesAssumption /\ LimitsAssumption /\ BoundsAssumption
LEMMA Constants == Sizes
  BY PhasesAssumption, LimitsAssumption, BoundsAssumption DEF Sizes

\* A task in a phase has a round, and its messages are messages.
LEMMA RoundType ==
    ASSUME TypeOK, NEW t \in Tasks, Phase(t) \in Phases
    PROVE  /\ Round(t) \in Rounds /\ Round(t) = RoundOf(runs[t].obj)
           /\ \A kind \in Kinds : Msg(t, kind) \in Messages
  <1>1. runs[t].obj \in TaskState BY DEF TypeOK, Run
  <1>2. runs[t].obj.revs[Phase(t)] \in 0..MaxRevisions BY <1>1 DEF TaskState
  <1>3. Round(t) \in Rounds BY <1>2 DEF Round, Rounds
  <1> QED BY <1>3 DEF Msg, Messages, Round, RoundOf, Phase

LEMMA SaidType ==
    ASSUME TypeOK, NEW t \in Tasks, Phase(t) \in Phases, NEW kinds \in SUBSET Kinds
    PROVE  Said(t, kinds) \subseteq Messages
  BY RoundType DEF Said, TypeOK

\* Plans are sequences, and the other way round.
LEMMA PlanType ==
    ASSUME NEW p
    PROVE  p \in Plans <=> p \in Seq(PlanStep) /\ Len(p) \in 0..MaxSteps
  <1>1. ASSUME p \in Plans PROVE p \in Seq(PlanStep) /\ Len(p) \in 0..MaxSteps
    <2>1. PICK n \in 0..MaxSteps : p \in [1..n -> PlanStep] BY <1>1 DEF Plans
    <2>2. n \in Nat BY Constants DEF Sizes, BoundsAssumption
    <2> QED BY <2>1, <2>2
  <1>2. ASSUME p \in Seq(PlanStep), Len(p) \in 0..MaxSteps PROVE p \in Plans
    <2>1. p \in [1..Len(p) -> PlanStep] BY <1>2, LenProperties
    <2> QED BY <1>2, <2>1 DEF Plans
  <1> QED BY <1>1, <1>2

LEMMA NewRunType ==
    /\ NewTask \in TaskState /\ NewTask.phase \in Phases /\ NoFiles \in StepFiles
    /\ NewRun \in Run /\ Placed(NewRun)
    /\ \A pc \in Live \cup Ended \cup {"new", "lost"} : [NewRun EXCEPT !.pc = pc] \in Run
    /\ \A pc \in Ended \cup {"lost"} : Placed([NewRun EXCEPT !.pc = pc])
  <1>1. NewTask \in TaskState /\ NewTask.phase \in Phases
    BY Constants DEF NewTask, TaskState, Sizes, PhasesAssumption, LimitsAssumption, Phases, Finished
  <1>2. NoFiles \in StepFiles BY DEF NoFiles, StepFiles, Entries
  <1>3. <<>> \in Plans
    <2>1. <<>> \in Seq(PlanStep) /\ Len(<<>>) = 0 BY EmptySeq
    <2>2. 0 \in 0..MaxSteps BY Constants DEF Sizes, BoundsAssumption
    <2> QED BY <2>1, <2>2, PlanType
  <1>4. NewRun \in Run
    BY <1>1, <1>2, <1>3, Constants DEF NewRun, Run, Sizes, BoundsAssumption, LimitsAssumption
  <1>5. NewRun.pc = "new" /\ NewRun.tries = 0 /\ NewRun.k = 0 /\ NewRun.obj = NewTask
    BY DEF NewRun
  <1>6. \A pc \in Live \cup Ended \cup {"new", "lost"} : [NewRun EXCEPT !.pc = pc] \in Run
    BY <1>4 DEF Run
  <1>7. \A pc : LET n == [NewRun EXCEPT !.pc = pc] IN n.pc = pc /\ n.tries = 0 /\ n.k = 0
    BY DEF NewRun
  <1>8. Placed(NewRun)
    BY <1>1, <1>5, Constants DEF Placed, InFlow, Asking, Sizes, LimitsAssumption
  <1>9. \A pc \in Ended \cup {"lost"} : Placed([NewRun EXCEPT !.pc = pc])
    BY <1>7, Constants DEF Placed, InFlow, Asking, Ended, Sizes, LimitsAssumption
  <1> QED BY <1>1, <1>2, <1>4, <1>6, <1>8, <1>9
-----------------------------------------------------------------------------
(* Types and places are kept.                                              *)

Agent == [phase: 0..NumPhases, history: SUBSET Messages]
DiskEntry == [life: {"running", "ended"}, obj: TaskState]
Counts == [faults: 0..MaxFaults, crashes: 0..MaxCrashes]

\* A step of one task that writes a run of its type and place keeps types and places.
LEMMA StepOfOne ==
    ASSUME TypeInv, NEW t \in Tasks, NEW n \in Run, Placed(n), runs' = [runs EXCEPT ![t] = n],
           agent' \in Agent,
           jury' \in BOOLEAN,
           disk' = disk \/ (\E d \in DiskEntry : disk' = [disk EXCEPT ![t] = d]),
           mixed' \subseteq Tasks, over' \subseteq Tasks, used' \in Counts
    PROVE  TypeInv'
  <1>1. runs' \in [Tasks -> Run] BY DEF TypeInv, TypeOK
  <1>2. disk' \in [Tasks -> DiskEntry] BY DEF TypeInv, TypeOK, DiskEntry
  <1>4. TypeOK' BY <1>1, <1>2 DEF TypeOK, DiskEntry, Counts, Agent
  <1>5. ASSUME NEW u \in Tasks PROVE Placed(runs'[u])
    BY DEF TypeInv, TypeOK
  <1> QED BY <1>4, <1>5 DEF TypeInv, Placed

\* What the assumption of the step says of its task.
LEMMA OfTask ==
    ASSUME TypeInv, NEW t \in Tasks
    PROVE  /\ runs[t] \in Run /\ runs[t].obj \in TaskState /\ Placed(runs[t])
           /\ runs[t].plan \in Plans /\ runs[t].k \in 0..MaxSteps
           /\ runs[t].tries \in 0..MaxAttempts /\ runs[t].files \in StepFiles
           /\ disk[t].obj \in TaskState /\ disk[t].life \in {"running", "ended"}
           /\ used \in Counts /\ jury \in BOOLEAN /\ mixed \subseteq Tasks /\ over \subseteq Tasks
           /\ Beside(t) \subseteq Tasks
           /\ agent \in Agent
           /\ Phase(t) \in 1..Finished
  BY DEF TypeInv, TypeOK, Run, TaskState, Counts, Beside, Phase, Agent

LEMMA StartType == ASSUME TypeInv, NEW t \in Tasks, Start(t) PROVE TypeInv'
  <1> DEFINE n == [runs[t] EXCEPT !.pc = "top"]
  <1>1. runs' = [runs EXCEPT ![t] = n] BY DEF Start
  <1>2. n \in Run BY OfTask DEF Run, Live
  <1>3. Placed(n) BY OfTask DEF Start, Placed, InFlow, Asking
  <1> QED BY <1>1, <1>2, <1>3, OfTask, StepOfOne DEF Start
LEMMA EndType ==
    ASSUME TypeInv, NEW t \in Tasks, NEW pc \in Ended, End(t, pc),
           agent' \in Agent,
           jury' = jury, mixed' \subseteq Tasks, used' \in Counts
    PROVE  TypeInv'
  <1> DEFINE n == [NewRun EXCEPT !.pc = pc]
  <1>1. runs' = [runs EXCEPT ![t] = n] /\ over' \subseteq Tasks BY OfTask DEF End
  <1>2. n \in Run /\ Placed(n) BY NewRunType
  <1>3. \E d \in DiskEntry : disk' = [disk EXCEPT ![t] = d]
    <2>1. [life |-> "ended", obj |-> NewTask] \in DiskEntry BY NewRunType DEF DiskEntry
    <2> QED BY <2>1 DEF End
  <1> QED BY <1>1, <1>2, <1>3, OfTask, StepOfOne

LEMMA EnterType == ASSUME TypeInv, NEW t \in Tasks, Enter(t) PROVE TypeInv'
  <1> DEFINE pc == IF Phase(t) = Parsing THEN "content" ELSE "planning"
             o == Entering(t)
             n == [runs[t] EXCEPT !.pc = pc, !.obj = o]
  <1>1. runs' = [runs EXCEPT ![t] = n] BY OfTask DEF Enter, TypeInv, TypeOK
  <1>2. o \in TaskState /\ o.phase = Phase(t) /\ o.content = runs[t].obj.content
    BY OfTask DEF Entering, TaskState, Phase
  <1>3. pc \in Live \cup Ended \cup {"new", "lost"} BY DEF Live, InFlow, Asking
  <1>4. n \in Run /\ n.pc = pc /\ n.obj = o /\ n.tries = runs[t].tries /\ n.k = runs[t].k
    <2> HIDE DEF pc, o
    <2>1. o \in TaskState /\ runs[t] \in Run BY <1>2, OfTask
    <2> QED BY <2>1, <1>3 DEF Run
  <1>5. Placed(n)
    <2> HIDE DEF n, o
    <2> QED BY <1>2, <1>4, OfTask DEF Enter, Placed, Phase
  <1>6. Phase(t) \in 0..NumPhases BY Constants DEF Enter, Phases, Sizes, PhasesAssumption
  <1>7. agent' \in Agent
    <2>1. \A kind \in Kinds : Msg(t, kind) \in Messages BY RoundType DEF Enter, TypeInv
    <2>2. Opening(t) \subseteq Messages BY <2>1 DEF Opening, Emptied, Kinds
    <2>3. Previous(t) \subseteq Messages
      BY OfTask DEF Previous, Messages, Kinds, TaskState
    <2> QED BY <1>6, <2>1, <2>2, <2>3 DEF Enter, Kinds, Agent
  <1>8. mixed' \subseteq Tasks BY OfTask DEF Enter
  <1> HIDE DEF n
  <1> QED BY <1>1, <1>4, <1>5, <1>7, <1>8, OfTask, StepOfOne DEF Enter

LEMMA RefuseType == ASSUME TypeInv, NEW t \in Tasks, Refuse(t) PROVE TypeInv'
  BY EndType, OfTask DEF Refuse, Fail, Ended

LEMMA EnterPassedType == ASSUME TypeInv, NEW t \in Tasks, EnterPassed(t) PROVE TypeInv'
  <1> DEFINE n == [runs[t] EXCEPT !.pc = "evaluating"]
  <1>1. runs' = [runs EXCEPT ![t] = n] BY DEF EnterPassed
  <1>2. n \in Run BY OfTask DEF Run, Live
  <1>3. n.pc = "evaluating" /\ n.obj = runs[t].obj /\ n.tries = runs[t].tries /\ n.k = runs[t].k
    BY OfTask DEF Run
  <1>4. Placed(n) BY <1>3, OfTask DEF EnterPassed, Placed, InFlow, Asking
  <1> HIDE DEF n
  <1> QED BY <1>1, <1>2, <1>4, OfTask, StepOfOne DEF EnterPassed, Evaluate

\* A task that asks, or carries out steps, is in a phase.
LEMMA WroteType ==
    ASSUME TypeInv, NEW t \in Tasks, runs[t].pc \in InFlow, NEW kinds \in SUBSET Kinds,
           agent' = [agent EXCEPT !.history = Said(t, kinds)]
    PROVE  agent' \in Agent
  <1>1. Phase(t) \in Phases BY OfTask DEF Placed, Phase
  <1>2. Said(t, kinds) \subseteq Messages BY <1>1, SaidType DEF TypeInv
  <1> QED BY <1>2, OfTask DEF Agent
LEMMA AskAgainType == ASSUME TypeInv, NEW t \in Tasks, AskAgain(t) PROVE TypeInv'
  <1> DEFINE n == [runs[t] EXCEPT !.tries = @ + 1]
  <1>1. runs' = [runs EXCEPT ![t] = n] BY DEF AskAgain
  <1>2. runs[t].tries + 1 < MaxAttempts /\ runs[t].tries \in Nat
    BY OfTask, Constants DEF AskAgain, LastAttempt, Placed, Sizes, LimitsAssumption
  <1>3. n \in Run /\ Placed(n)
    BY <1>2, OfTask, Constants DEF Run, Placed, Sizes, LimitsAssumption
  <1>4. agent' \in Agent BY WroteType DEF AskAgain, InFlow, Kinds
  <1> HIDE DEF n
  <1> QED BY <1>1, <1>3, <1>4, OfTask, StepOfOne DEF AskAgain

LEMMA FlowEndsType == ASSUME TypeInv, NEW t \in Tasks, FlowEnds(t) PROVE TypeInv'
  <1>1. agent' \in Agent
    <2>1. CASE UNCHANGED agent BY <2>1, OfTask
    <2>2. CASE runs[t].pc \in Asking /\ agent' = [agent EXCEPT !.history = Said(t, {"other"})]
      BY <2>2, WroteType DEF InFlow, Kinds
    <2> QED BY <2>1, <2>2 DEF FlowEnds
  <1> QED BY <1>1, EndType, OfTask DEF FlowEnds, Fail, Ended

LEMMA PlanMadeType == ASSUME TypeInv, NEW t \in Tasks, PlanMade(t) PROVE TypeInv'
  <1>0. PICK m \in 1..(IF t \in Long THEN MaxSteps ELSE 1) : \E names \in [1..m -> StepIds \X Tools] :
          runs' = [runs EXCEPT ![t] = [@ EXCEPT
                      !.pc = "steps", !.tries = 0,
                      !.plan = [k \in 1..m |-> [id |-> names[k][1], tool |-> names[k][2],
                                                success |-> FALSE, result |-> "none"]]]]
    BY DEF PlanMade
  <1>1. PICK names \in [1..m -> StepIds \X Tools] :
          runs' = [runs EXCEPT ![t] = [@ EXCEPT
                      !.pc = "steps", !.tries = 0,
                      !.plan = [k \in 1..m |-> [id |-> names[k][1], tool |-> names[k][2],
                                                success |-> FALSE, result |-> "none"]]]]
    BY <1>0
  <1> DEFINE plan == [k \in 1..m |-> [id |-> names[k][1], tool |-> names[k][2],
                                      success |-> FALSE, result |-> "none"]]
             n == [runs[t] EXCEPT !.pc = "steps", !.tries = 0, !.plan = plan]
  <1>2. m \in 1..MaxSteps BY Constants DEF Sizes, BoundsAssumption
  <1>3. plan \in Plans /\ Len(plan) = m
    <2>1. \A k \in 1..m : plan[k] \in PlanStep BY DEF PlanStep, Results
    <2>2. plan \in [1..m -> PlanStep] BY <2>1
    <2>3. m \in 0..MaxSteps /\ m \in Nat BY <1>2
    <2> HIDE DEF plan
    <2> QED BY <2>2, <2>3 DEF Plans
  <1>4. runs' = [runs EXCEPT ![t] = n] BY <1>1
  <1>5. n \in Run /\ n.pc = "steps" /\ n.tries = 0 /\ n.plan = plan /\ n.obj = runs[t].obj
        /\ n.k = runs[t].k
    <2>1. 0 \in 0..MaxAttempts BY Constants DEF Sizes, LimitsAssumption
    <2>2. runs[t] \in Run /\ plan \in Plans BY OfTask, <1>3
    <2> HIDE DEF plan
    <2> QED BY <2>1, <2>2 DEF Run, Live, InFlow
  <1>6. Placed(n)
    <2> HIDE DEF n, plan
    <2> QED BY <1>2, <1>3, <1>5, OfTask, Constants
            DEF PlanMade, Placed, InFlow, Asking, Sizes, LimitsAssumption
  <1>7. agent' \in Agent BY WroteType DEF PlanMade, InFlow, Asking, Kinds
  <1> HIDE DEF n, plan
  <1> QED BY <1>4, <1>5, <1>6, <1>7, OfTask, StepOfOne DEF PlanMade

LEMMA ContentMadeType == ASSUME TypeInv, NEW t \in Tasks, ContentMade(t) PROVE TypeInv'
  <1> DEFINE obj == [runs[t].obj EXCEPT !.content = @ + 1]
             n == [runs[t] EXCEPT !.obj = obj, !.tries = 0]
             e == [n EXCEPT !.pc = "evaluating"]
  <1>1. obj \in TaskState /\ obj.phase = runs[t].obj.phase
    <2>1. runs[t].obj.content \in 0..Contents /\ runs[t].obj.content < Contents
      BY OfTask DEF ContentMade, Placed, TaskState
    <2>2. runs[t].obj.content + 1 \in 0..Contents
      BY <2>1, Constants DEF Sizes, PhasesAssumption
    <2> QED BY <2>2, OfTask DEF TaskState
  <1>2. /\ n \in Run /\ n.pc = "content" /\ n.obj = obj /\ n.tries = 0 /\ n.k = runs[t].k
        /\ e \in Run /\ e.pc = "evaluating" /\ e.obj = obj /\ e.tries = 0 /\ e.k = runs[t].k
    <2>1. 0 \in 0..MaxAttempts BY Constants DEF Sizes, LimitsAssumption
    <2>2. runs[t] \in Run /\ runs[t].pc = "content" BY OfTask DEF ContentMade
    <2>3. obj \in TaskState BY <1>1
    <2> HIDE DEF obj
    <2>4. n \in Run /\ n.pc = "content" /\ n.obj = obj /\ n.tries = 0 /\ n.k = runs[t].k
      BY <2>1, <2>2, <2>3 DEF Run
    <2> HIDE DEF n
    <2> QED BY <2>4 DEF Run, Live
  <1>3. (obj.content < Contents => Placed(n)) /\ Placed(e)
    <2> HIDE DEF obj, n, e
    <2> QED BY <1>1, <1>2, OfTask, Constants
            DEF ContentMade, Placed, InFlow, Asking, Sizes, LimitsAssumption
  <1>4. \E d \in DiskEntry : disk' = [disk EXCEPT ![t] = d]
    <2> DEFINE d == [disk[t] EXCEPT !.obj.content = obj.content]
    <2>1. disk' = [disk EXCEPT ![t] = d] BY DEF ContentMade
    <2>2. obj.content \in 0..Contents BY <1>1 DEF TaskState
    <2>3. disk[t] \in DiskEntry BY DEF TypeInv, TypeOK, DiskEntry
    <2>4. d \in DiskEntry
      <3> HIDE DEF obj
      <3> QED BY <2>2, <2>3 DEF DiskEntry, TaskState
    <2> QED BY <2>1, <2>4
  <1>5. agent' \in Agent BY WroteType DEF ContentMade, InFlow, Asking, Kinds
  <1>6. mixed' \subseteq Tasks /\ jury' \in BOOLEAN BY OfTask DEF ContentMade, Evaluate
  <1>7. runs' = [runs EXCEPT ![t] = IF obj.content < Contents THEN n ELSE e] BY DEF ContentMade
  <1>8. over' = over /\ used' = used BY DEF ContentMade
  <1> HIDE DEF obj, n, e
  <1> QED BY <1>2, <1>3, <1>4, <1>5, <1>6, <1>7, <1>8, OfTask, StepOfOne

LEMMA OutputMadeType == ASSUME TypeInv, NEW t \in Tasks, OutputMade(t) PROVE TypeInv'
  <1> DEFINE n == [runs[t] EXCEPT !.pc = "evaluating", !.plan = <<>>, !.k = 0,
                                  !.tries = 0, !.files = NoFiles]
  <1>1. runs' = [runs EXCEPT ![t] = n] BY DEF OutputMade
  <1>2. /\ n \in Run /\ n.pc = "evaluating" /\ n.obj = runs[t].obj /\ n.tries = 0 /\ n.k = 0
    BY NewRunType, OfTask, Constants DEF Run, NewRun, Live, Sizes, LimitsAssumption, BoundsAssumption
  <1>3. Placed(n)
    <2> HIDE DEF n
    <2> QED BY <1>2, OfTask, Constants DEF OutputMade, Placed, InFlow, Asking, Sizes, LimitsAssumption
  <1>4. agent' \in Agent BY WroteType DEF OutputMade, InFlow, Asking, Kinds
  <1> HIDE DEF n
  <1> QED BY <1>1, <1>2, <1>3, <1>4, OfTask, StepOfOne DEF OutputMade, Evaluate
\* What executing the step in hand makes of the run.
Ran(t, f, success, result) ==
    LET k == runs[t].k + 1
        done == [runs[t].plan[k] EXCEPT !.success = success, !.result = result]
    IN  [runs[t] EXCEPT !.plan = [runs[t].plan EXCEPT ![k] = done], !.k = k, !.files = f,
                        !.pc = IF k < Len(runs[t].plan) THEN "steps" ELSE "synthesis"]

LEMMA RanIs ==
    ASSUME TypeInv, NEW t \in Tasks, runs[t].pc = "steps",
           NEW f \in StepFiles, NEW success \in BOOLEAN, NEW result \in Results,
           Executed(t, f, success, result)
    PROVE  LET n == Ran(t, f, success, result)
               k == runs[t].k + 1
           IN  /\ runs' = [runs EXCEPT ![t] = n] /\ n \in Run /\ Placed(n)
               /\ n.pc \in {"steps", "synthesis"} /\ n.obj = runs[t].obj
               /\ n.k = k /\ n.files = f /\ Len(n.plan) = Len(runs[t].plan)
               /\ k \in 1..Len(runs[t].plan)
               /\ \A j \in 1..Len(n.plan) : /\ n.plan[j].id = runs[t].plan[j].id
                                            /\ j # k => n.plan[j] = runs[t].plan[j]
               /\ n.plan[k].tool = Current(t).tool
               /\ n.plan[k].success = success /\ n.plan[k].result = result
               /\ \/ n.pc = "steps" /\ UNCHANGED <<agent, mixed>>
                  \/ /\ n.pc = "synthesis"
                     /\ agent' = [agent EXCEPT !.history = Said(t, {"results"})]
                     /\ mixed' = mixed \cup Beside(t)
  <1> DEFINE k == runs[t].k + 1
             done == [runs[t].plan[k] EXCEPT !.success = success, !.result = result]
             plan == [runs[t].plan EXCEPT ![k] = done]
             m == Len(runs[t].plan)
             pc == IF k < m THEN "steps" ELSE "synthesis"
             n == [runs[t] EXCEPT !.plan = plan, !.k = k, !.files = f, !.pc = pc]
  <1>1. runs[t].plan \in Seq(PlanStep) /\ m \in 0..MaxSteps BY OfTask, PlanType
  <1>2. k \in 1..m /\ k \in 0..MaxSteps
    BY <1>1, OfTask, Constants DEF Placed, Sizes, BoundsAssumption
  <1>3. runs[t].plan[k] \in PlanStep BY <1>1, <1>2, ElementOfSeq
  <1>4. [runs[t].plan[k] EXCEPT !.success = success, !.result = result] \in PlanStep
    BY <1>3 DEF PlanStep
  <1>5. /\ plan \in Seq(PlanStep) /\ Len(plan) = m
        /\ \A j \in 1..m : j # k => plan[j] = runs[t].plan[j]
        /\ plan[k] = [runs[t].plan[k] EXCEPT !.success = success, !.result = result]
    BY <1>1, <1>2, <1>4, ExceptSeq
  <1>6. /\ plan[k].id = runs[t].plan[k].id /\ plan[k].tool = runs[t].plan[k].tool
        /\ plan[k].success = success /\ plan[k].result = result
    BY <1>3, <1>5 DEF PlanStep
  <1>7. /\ Len(plan) = m
        /\ \A j \in 1..Len(plan) : plan[j].id = runs[t].plan[j].id
                                   /\ (j # k => plan[j] = runs[t].plan[j])
    BY <1>5, <1>6
  <1>8. plan \in Plans BY <1>1, <1>5, PlanType
  <1>9. pc \in {"steps", "synthesis"} /\ (pc = "steps" <=> k < m) OBVIOUS
  <1>10. n \in Run /\ n.plan = plan /\ n.k = k /\ n.files = f /\ n.pc = pc /\ n.obj = runs[t].obj
         /\ n.tries = runs[t].tries
    <2>1. runs[t] \in Run BY OfTask
    <2>2. pc \in Live \cup Ended \cup {"new", "lost"} BY DEF Live, InFlow, Asking
    <2> HIDE DEF plan, k, pc
    <2>3. n.plan = plan /\ n.k = k /\ n.files = f /\ n.pc = pc /\ n.obj = runs[t].obj
          /\ n.tries = runs[t].tries
      BY <2>1 DEF Run
    <2>4. n \in Run BY <1>2, <1>8, <2>1, <2>2 DEF Run
    <2> QED BY <2>3, <2>4
  <1>11. Placed(n)
    <2> HIDE DEF plan, k, pc, n
    <2>1. n.k < Len(n.plan) \/ n.k = Len(n.plan) BY <1>2, <1>5, <1>10
    <2> QED BY <2>1, <1>1, <1>2, <1>5, <1>9, <1>10, OfTask DEF Placed, InFlow, Asking
  <1>12. Ran(t, f, success, result) = n BY DEF Ran
  <1>13. /\ runs' = [runs EXCEPT ![t] = n]
         /\ \/ pc = "steps" /\ UNCHANGED <<agent, mixed>>
            \/ /\ pc = "synthesis"
               /\ agent' = [agent EXCEPT !.history = Said(t, {"results"})]
               /\ mixed' = mixed \cup Beside(t)
    <2> DEFINE run == [runs[t] EXCEPT !.plan[k] = done, !.k = k, !.files = f]
    <2>2. /\ IF k < Len(run.plan)
             THEN runs' = [runs EXCEPT ![t] = run] /\ UNCHANGED <<agent, mixed>>
             ELSE /\ agent' = [agent EXCEPT !.history = Said(t, {"results"})]
                  /\ runs' = [runs EXCEPT ![t] = [run EXCEPT !.pc = "synthesis"]]
                  /\ mixed' = mixed \cup Beside(t)
      BY DEF Executed
    <2>3. runs[t].pc = "steps" /\ runs[t] \in Run BY OfTask
    <2>4. run = [runs[t] EXCEPT !.plan = plan, !.k = k, !.files = f] OBVIOUS
    <2> HIDE DEF run, plan, k
    <2>5. run.plan = plan /\ Len(run.plan) = m BY <2>3, <2>4, <1>5 DEF Run
    <2>6. CASE k < m
      <3>1. run = n BY <2>3, <2>4, <2>6 DEF Run
      <3> QED BY <2>2, <2>5, <2>6, <3>1
    <2>7. CASE ~(k < m)
      <3>1. [run EXCEPT !.pc = "synthesis"] = n BY <2>3, <2>4, <2>7 DEF Run
      <3> QED BY <2>2, <2>5, <2>7, <3>1
    <2> QED BY <2>6, <2>7
  <1> HIDE DEF plan, k, m, pc, n
  <1> QED BY <1>2, <1>6, <1>7, <1>10, <1>11, <1>12, <1>13 DEF Current, k, m
-----------------------------------------------------------------------------
(* What a step of a plan writes.                                           *)

\* Files g come from f by writes about the step id.
Follows(f, g, id) ==
    /\ g \in StepFiles /\ f.art \subseteq g.art
    /\ \A i \in StepIds \ {id} : g.man[i] = f.man[i]

\* The files f tell of the step s of t with this outcome, or need not.
Told(t, f, s, success, result) ==
    \/ s.tool = "other" /\ success /\ result = "none"
    \/ s.tool = "save_artifact" /\ ~success
    \/ LET a == Artifact(t, s, IF success THEN "result" ELSE "error")
       IN  /\ f.man[s.id] = [success |-> success, artifact |-> a]
           /\ s.tool = "other" => a \in f.art

LEMMA WithKept ==
    ASSUME NEW f \in StepFiles, NEW a \in Artifacts
    PROVE  /\ Follows(f, f, a.id)
           /\ Follows(f, WithArtifact(f, a), a.id) /\ a \in WithArtifact(f, a).art
           /\ Follows(f, WithEntry(f, a), a.id) /\ WithEntry(f, a).art = f.art
           /\ WithEntry(f, a).man[a.id] = [success |-> a.kind = "result", artifact |-> a]
  <1>1. Follows(f, f, a.id) BY DEF Follows
  <1>2. Follows(f, WithArtifact(f, a), a.id) /\ a \in WithArtifact(f, a).art
    BY DEF Follows, WithArtifact, StepFiles
  <1>3. a.id \in StepIds BY DEF Artifacts
  <1> DEFINE e == [success |-> a.kind = "result", artifact |-> a]
             man == [f.man EXCEPT ![a.id] = e]
  <1>4. e \in Entries BY DEF Entries
  <1>5. man \in [StepIds -> Entries] /\ man[a.id] = e
        /\ \A i \in StepIds \ {a.id} : man[i] = f.man[i]
    <2> HIDE DEF e
    <2> QED BY <1>3, <1>4 DEF StepFiles
  <1>6. WithEntry(f, a) = [f EXCEPT !.man = man] BY DEF WithEntry
  <1>7. WithEntry(f, a) \in StepFiles /\ WithEntry(f, a).art = f.art /\ WithEntry(f, a).man = man
    <2> HIDE DEF man
    <2> QED BY <1>5, <1>6 DEF StepFiles
  <1> QED BY <1>1, <1>2, <1>5, <1>7 DEF Follows

LEMMA FollowsTwice ==
    ASSUME NEW f, NEW g, NEW h, NEW id, Follows(f, g, id), Follows(g, h, id)
    PROVE  Follows(f, h, id)
  BY DEF Follows

LEMMA ArtifactType ==
    ASSUME TypeInv, NEW t \in Tasks, Phase(t) \in Phases, NEW s \in PlanStep,
           NEW kind \in {"result", "error"}
    PROVE  /\ Artifact(t, s, kind) \in Artifacts
           /\ Artifact(t, s, kind).id = s.id /\ Artifact(t, s, kind).kind = kind
  BY RoundType DEF TypeInv, Artifact, Artifacts, PlanStep

LEMMA ErrorIsSaved ==
    ASSUME TypeInv, NEW t \in Tasks, Phase(t) \in Phases, NEW s \in PlanStep, NEW f \in StepFiles
    PROVE  /\ Follows(f, ErrorSaved(t, f, s), s.id)
           /\ \A result : Told(t, ErrorSaved(t, f, s), s, FALSE, result)
           /\ \A g \in ErrorLost(t, f, s) : Follows(f, g, s.id)
  <1> DEFINE a == Artifact(t, s, "error")
             w == WithArtifact(f, a)
  <1>1. a \in Artifacts /\ a.id = s.id /\ a.kind = "error" BY ArtifactType
  <1>2. Follows(f, f, s.id) /\ Follows(f, w, s.id) /\ a \in w.art
    <2> HIDE DEF a
    <2> QED BY <1>1, WithKept
  <1>3. w \in StepFiles BY <1>2 DEF Follows
  <1>4. /\ Follows(w, WithEntry(w, a), s.id) /\ a \in WithEntry(w, a).art
        /\ WithEntry(w, a).man[s.id] = [success |-> FALSE, artifact |-> a]
    <2> HIDE DEF a, w
    <2>1. (a.kind = "result") = FALSE BY <1>1
    <2> QED BY <1>1, <1>2, <1>3, <2>1, WithKept
  <1>5. Follows(f, WithEntry(w, a), s.id) BY <1>2, <1>4, FollowsTwice
  <1>6. s.tool \in {"save_artifact", "other"} BY DEF PlanStep, Tools
  <1> HIDE DEF w
  <1> QED BY <1>2, <1>4, <1>5, <1>6 DEF ErrorSaved, ErrorLost, Told, w

LEMMA ResultIsSaved ==
    ASSUME TypeInv, NEW t \in Tasks, Phase(t) \in Phases, NEW s \in PlanStep, NEW f \in StepFiles
    PROVE  /\ \A result \in Results :
                 (result = "none" => s.tool = "other") =>
                     /\ Follows(f, ResultSaved(t, f, s, result), s.id)
                     /\ Told(t, ResultSaved(t, f, s, result), s, TRUE, result)
           /\ \A g \in ResultLost(t, f, s) : Follows(f, g, s.id)
  <1> DEFINE a == Artifact(t, s, "result")
             w == WithArtifact(f, a)
  <1>1. a \in Artifacts /\ a.id = s.id /\ a.kind = "result" BY ArtifactType
  <1>2. /\ Follows(f, f, s.id) /\ Follows(f, w, s.id) /\ a \in w.art
        /\ Follows(f, WithEntry(f, a), s.id)
        /\ WithEntry(f, a).man[s.id] = [success |-> TRUE, artifact |-> a]
    <2> HIDE DEF a
    <2>1. (a.kind = "result") = TRUE BY <1>1
    <2> QED BY <1>1, <2>1, WithKept
  <1>3. w \in StepFiles BY <1>2 DEF Follows
  <1>4. /\ Follows(w, WithEntry(w, a), s.id) /\ a \in WithEntry(w, a).art
        /\ WithEntry(w, a).man[s.id] = [success |-> TRUE, artifact |-> a]
    <2> HIDE DEF a, w
    <2>1. (a.kind = "result") = TRUE BY <1>1
    <2> QED BY <1>1, <1>2, <1>3, <2>1, WithKept
  <1>5. Follows(f, WithEntry(w, a), s.id) BY <1>2, <1>4, FollowsTwice
  <1>6. s.tool \in {"save_artifact", "other"} BY DEF PlanStep, Tools
  <1> HIDE DEF w
  <1>7. \A g \in ResultLost(t, f, s) : Follows(f, g, s.id)
    BY <1>2, <1>5, <1>6 DEF ResultLost, w
  <1>8. ASSUME NEW result \in Results, result = "none" => s.tool = "other"
        PROVE  /\ Follows(f, ResultSaved(t, f, s, result), s.id)
               /\ Told(t, ResultSaved(t, f, s, result), s, TRUE, result)
    <2>1. CASE s.tool = "save_artifact"
      <3>1. ResultSaved(t, f, s, result) = WithEntry(f, a) BY <1>8, <2>1 DEF ResultSaved
      <3> QED BY <1>2, <2>1, <3>1 DEF Told
    <2>2. CASE s.tool = "other" /\ result = "none"
      <3>1. ResultSaved(t, f, s, result) = f BY <2>2 DEF ResultSaved
      <3> QED BY <1>2, <2>2, <3>1 DEF Told
    <2>3. CASE s.tool = "other" /\ result # "none"
      <3>1. ResultSaved(t, f, s, result) = WithEntry(w, a) BY <2>3 DEF ResultSaved, w
      <3> QED BY <1>4, <1>5, <2>3, <3>1 DEF Told
    <2> QED BY <1>6, <2>1, <2>2, <2>3
  <1> QED BY <1>7, <1>8
-----------------------------------------------------------------------------
(* A step of a plan.                                                       *)

CarriesOn(t) == StepSucceeds(t) \/ StepUnkept(t) \/ StepFails(t)

LEMMA FaultType ==
    ASSUME used \in Counts, UNCHANGED used \/ Fault(1)
    PROVE  used' \in Counts /\ used.faults <= used'.faults
  <1>1. CASE UNCHANGED used BY <1>1 DEF Counts
  <1>2. CASE Fault(1) BY <1>2, Constants DEF Fault, Counts, Sizes, BoundsAssumption
  <1> QED BY <1>1, <1>2

LEMMA StepOutcome ==
    ASSUME TypeInv, NEW t \in Tasks, CarriesOn(t)
    PROVE  /\ \E f \in StepFiles, success \in BOOLEAN, result \in Results :
                 /\ Executed(t, f, success, result)
                 /\ Follows(runs[t].files, f, Current(t).id)
                 /\ Told(t, f, Current(t), success, result)
           /\ runs[t].pc = "steps" /\ Current(t) \in PlanStep
           /\ jury' = jury /\ disk' = disk /\ over' = over
           /\ used' \in Counts /\ used.faults <= used'.faults
  <1> DEFINE s == Current(t)
             f0 == runs[t].files
  <1>1. runs[t].pc = "steps" BY DEF CarriesOn, StepSucceeds, StepUnkept, StepFails
  <1>2. Phase(t) \in Phases BY <1>1, OfTask DEF Placed, Phase, InFlow
  <1>3. s \in PlanStep
    <2>1. runs[t].plan \in Seq(PlanStep) /\ Len(runs[t].plan) \in Nat /\ runs[t].k \in Nat
      BY OfTask, PlanType, Constants DEF Sizes, BoundsAssumption
    <2>2. runs[t].k + 1 \in 1..Len(runs[t].plan) BY <1>1, <2>1, OfTask DEF Placed
    <2> QED BY <2>1, <2>2, ElementOfSeq DEF Current
  <1>4. f0 \in StepFiles BY OfTask
  <1>5. used \in Counts BY OfTask
  <1> DEFINE Out == \E f \in StepFiles, success \in BOOLEAN, result \in Results :
                       /\ Executed(t, f, success, result)
                       /\ Follows(f0, f, s.id) /\ Told(t, f, s, success, result)
  <1>6. ASSUME NEW f \in StepFiles, Follows(f0, f, s.id),
               Executed(t, ErrorSaved(t, f, s), FALSE, "none")
        PROVE  Out
    <2>1. Follows(f, ErrorSaved(t, f, s), s.id) /\ Told(t, ErrorSaved(t, f, s), s, FALSE, "none")
      <3> HIDE DEF s
      <3> QED BY <1>2, <1>3, ErrorIsSaved
    <2>2. Follows(f0, ErrorSaved(t, f, s), s.id) BY <1>6, <2>1, FollowsTwice
    <2>3. ErrorSaved(t, f, s) \in StepFiles BY <2>1 DEF Follows
    <2> HIDE DEF s, f0
    <2> QED BY <1>6, <2>1, <2>2, <2>3 DEF Results
  <1>7. Follows(f0, f0, s.id) BY <1>4 DEF Follows
  <1>8. CASE StepSucceeds(t)
    <2>1. PICK result \in Results :
              /\ result = "none" => s.tool = "other"
              /\ Executed(t, ResultSaved(t, f0, s, result), TRUE, result)
      BY <1>8 DEF StepSucceeds
    <2>2. /\ Follows(f0, ResultSaved(t, f0, s, result), s.id)
          /\ Told(t, ResultSaved(t, f0, s, result), s, TRUE, result)
      <3> HIDE DEF s, f0
      <3> QED BY <1>2, <1>3, <1>4, <2>1, ResultIsSaved
    <2>3. ResultSaved(t, f0, s, result) \in StepFiles BY <2>2 DEF Follows
    <2>4. Out
      <3> HIDE DEF s, f0
      <3> QED BY <2>1, <2>2, <2>3
    <2>5. UNCHANGED <<jury, disk, over, used>> BY <1>8 DEF StepSucceeds
    <2>6. used' \in Counts /\ used.faults <= used'.faults BY <1>5, <2>5, FaultType
    <2> QED BY <1>1, <1>3, <2>4, <2>5, <2>6
  <1>9. CASE StepUnkept(t)
    <2>1. Out
      <3>1. CASE Executed(t, ErrorSaved(t, f0, s), FALSE, "none") BY <1>4, <1>6, <1>7, <3>1
      <3>2. CASE \E f \in ResultLost(t, f0, s) : Executed(t, ErrorSaved(t, f, s), FALSE, "none")
        <4>1. PICK f \in ResultLost(t, f0, s) : Executed(t, ErrorSaved(t, f, s), FALSE, "none")
          BY <3>2
        <4>2. Follows(f0, f, s.id)
          <5> HIDE DEF s, f0
          <5> QED BY <1>2, <1>3, <1>4, ResultIsSaved
        <4>3. f \in StepFiles BY <4>2 DEF Follows
        <4> QED BY <1>6, <4>1, <4>2, <4>3
      <3> QED BY <1>9, <3>1, <3>2 DEF StepUnkept
    <2>2. UNCHANGED <<jury, disk, over>> /\ (UNCHANGED used \/ Fault(1)) BY <1>9 DEF StepUnkept
    <2>3. used' \in Counts /\ used.faults <= used'.faults BY <1>5, <2>2, FaultType
    <2> QED BY <1>1, <1>3, <2>1, <2>2, <2>3
  <1>10. CASE StepFails(t)
    <2>1. Out
      <3>1. CASE Executed(t, ErrorSaved(t, f0, s), FALSE, "none") BY <1>4, <1>6, <1>7, <3>1
      <3>2. CASE \E f \in ErrorLost(t, f0, s) : Executed(t, ErrorSaved(t, f, s), FALSE, "none")
        <4>1. PICK f \in ErrorLost(t, f0, s) : Executed(t, ErrorSaved(t, f, s), FALSE, "none")
          BY <3>2
        <4>2. Follows(f0, f, s.id)
          <5> HIDE DEF s, f0
          <5> QED BY <1>2, <1>3, <1>4, ErrorIsSaved
        <4>3. f \in StepFiles BY <4>2 DEF Follows
        <4> QED BY <1>6, <4>1, <4>2, <4>3
      <3> QED BY <1>10, <3>1, <3>2 DEF StepFails
    <2>2. UNCHANGED <<jury, disk, over>> /\ (UNCHANGED used \/ Fault(1)) BY <1>10 DEF StepFails
    <2>3. used' \in Counts /\ used.faults <= used'.faults BY <1>5, <2>2, FaultType
    <2> QED BY <1>1, <1>3, <2>1, <2>2, <2>3
  <1> QED BY <1>8, <1>9, <1>10 DEF CarriesOn

LEMMA CarriesOnType == ASSUME TypeInv, NEW t \in Tasks, CarriesOn(t) PROVE TypeInv'
  <1>1. PICK f \in StepFiles, success \in BOOLEAN, result \in Results :
          Executed(t, f, success, result)
    BY StepOutcome
  <1> DEFINE n == Ran(t, f, success, result)
  <1>2. /\ runs[t].pc = "steps" /\ jury' = jury /\ disk' = disk /\ over' = over
        /\ used' \in Counts
    BY StepOutcome
  <1>3. /\ runs' = [runs EXCEPT ![t] = n] /\ n \in Run /\ Placed(n)
        /\ \/ UNCHANGED <<agent, mixed>>
           \/ /\ agent' = [agent EXCEPT !.history = Said(t, {"results"})]
              /\ mixed' = mixed \cup Beside(t)
    BY <1>1, <1>2, RanIs
  <1>4. agent' \in Agent /\ mixed' \subseteq Tasks
    <2>1. CASE UNCHANGED <<agent, mixed>> BY <2>1, OfTask
    <2>2. CASE /\ agent' = [agent EXCEPT !.history = Said(t, {"results"})]
               /\ mixed' = mixed \cup Beside(t)
      BY <1>2, <2>2, WroteType, OfTask DEF InFlow, Kinds
    <2> QED BY <1>3, <2>1, <2>2
  <1> HIDE DEF n
  <1> QED BY <1>2, <1>3, <1>4, OfTask, StepOfOne

LEMMA StepRaisesType == ASSUME TypeInv, NEW t \in Tasks, StepRaises(t) PROVE TypeInv'
  <1>1. used' \in Counts BY FaultType, OfTask DEF StepRaises
  <1> QED BY <1>1, EndType, OfTask DEF StepRaises, Fail, Ended

\* So the manifest stays right about the executed steps.
LEMMA CarriesOnRecorded ==
    ASSUME TypeInv, NEW t \in Tasks, CarriesOn(t), Recorded(runs[t])
    PROVE  Recorded(runs'[t])
  <1>1. PICK f \in StepFiles, success \in BOOLEAN, result \in Results :
          /\ Executed(t, f, success, result)
          /\ Follows(runs[t].files, f, Current(t).id)
          /\ Told(t, f, Current(t), success, result)
    BY StepOutcome
  <1>2. runs[t].pc = "steps" /\ Current(t) \in PlanStep BY StepOutcome
  <1> DEFINE n == Ran(t, f, success, result)
             r == runs[t]
             k == r.k + 1
             m == Len(r.plan)
             s == Current(t)
  <1>3. /\ runs' = [runs EXCEPT ![t] = n] /\ n.obj = r.obj /\ n.k = k /\ n.files = f
        /\ Len(n.plan) = m /\ k \in 1..m
        /\ \A j \in 1..m : n.plan[j].id = r.plan[j].id /\ (j # k => n.plan[j] = r.plan[j])
        /\ n.plan[k].tool = s.tool /\ n.plan[k].success = success /\ n.plan[k].result = result
    BY <1>1, <1>2, RanIs
  <1>4. runs'[t] = n BY <1>3 DEF TypeInv, TypeOK
  <1>5. r.k \in Nat /\ k \in Nat /\ m \in Nat
    BY <1>3, OfTask, PlanType, Constants DEF Sizes, BoundsAssumption
  <1>6. r.plan[k] = s /\ r.plan[k].id = s.id BY DEF Current
  <1>7. Reported(n, n.plan[k])
    <2>1. n.plan[k].id = s.id
      <3> HIDE DEF n, s
      <3> QED BY <1>3, <1>6
    <2>2. Phase(t) \in Phases BY <1>2, OfTask DEF Placed, Phase, InFlow
    <2>3. Round(t) = RoundOf(r.obj) BY <2>2, RoundType DEF TypeInv
    <2> HIDE DEF n, k, s
    <2> QED BY <1>1, <1>2, <1>3, <2>1, <2>3 DEF Reported, Told, Artifact, s
  <1>8. ASSUME NEW j \in 1..r.k, \A i \in j + 1..k : n.plan[i].id # n.plan[j].id
        PROVE  Reported(n, n.plan[j])
    <2>1. j \in 1..m /\ j # k /\ k \in j + 1..k BY <1>3, <1>5
    <2>2. n.plan[j] = r.plan[j] /\ r.plan[j].id # s.id
      <3> HIDE DEF n, s
      <3> QED BY <1>3, <1>6, <1>8, <2>1
    <2>3. \A i \in j + 1..r.k : r.plan[i].id # r.plan[j].id
      <3>1. TAKE i \in j + 1..r.k
      <3>2. i \in 1..m /\ i \in j + 1..k BY <1>3, <1>5, <2>1
      <3> HIDE DEF n
      <3> QED BY <1>3, <1>8, <2>2, <3>2
    <2>4. Reported(r, r.plan[j]) BY <2>3 DEF Recorded
    <2>5. r.plan[j].id \in StepIds
      <3>1. r.plan \in Seq(PlanStep) BY OfTask, PlanType
      <3>2. r.plan[j] \in PlanStep BY <2>1, <3>1, ElementOfSeq
      <3> QED BY <3>2 DEF PlanStep
    <2>6. f.man[r.plan[j].id] = r.files.man[r.plan[j].id] /\ r.files.art \subseteq f.art
      BY <1>1, <2>2, <2>5 DEF Follows
    <2> HIDE DEF n, s
    <2> QED BY <1>3, <2>2, <2>4, <2>6 DEF Reported
  <1>9. ASSUME NEW j \in 1..k, \A i \in j + 1..k : n.plan[i].id # n.plan[j].id
        PROVE  Reported(n, n.plan[j])
    <2>1. j = k \/ j \in 1..r.k BY <1>5
    <2> HIDE DEF n
    <2> QED BY <1>7, <1>8, <1>9, <2>1
  <1> HIDE DEF n
  <1> QED BY <1>3, <1>4, <1>9 DEF Recorded
-----------------------------------------------------------------------------
(* The other steps.                                                        *)

LEMMA SavedType ==
    ASSUME TypeInv, NEW t \in Tasks, NEW obj \in TaskState, NEW pc \in {"top", "concluding"},
           runs[t].pc = "evaluating", Saved(t, obj, pc), pc = "top" => obj.phase \in Phases,
           UNCHANGED <<agent, jury, mixed, over>>, used' \in Counts
    PROVE  TypeInv'
  <1> DEFINE n == [runs[t] EXCEPT !.obj = obj, !.pc = pc]
             d == [disk[t] EXCEPT !.obj = obj]
  <1>1. runs' = [runs EXCEPT ![t] = n] /\ disk' = [disk EXCEPT ![t] = d] BY DEF Saved
  <1>2. runs[t] \in Run /\ pc \in Live BY OfTask DEF Live
  <1>3. n \in Run /\ n.pc = pc /\ n.obj = obj /\ n.tries = runs[t].tries /\ n.k = runs[t].k
    BY <1>2 DEF Run
  <1>4. Placed(n)
    <2> HIDE DEF n
    <2> QED BY <1>3, OfTask DEF Placed, InFlow, Asking
  <1>5. d \in DiskEntry
    <2>1. disk[t] \in DiskEntry BY DEF TypeInv, TypeOK, DiskEntry
    <2> QED BY <2>1 DEF DiskEntry
  <1> HIDE DEF n, d
  <1> QED BY <1>1, <1>3, <1>4, <1>5, OfTask, StepOfOne

\* What Pass and Revise make of the task.
Passed(t, last) == [runs[t].obj EXCEPT !.last = last, !.phase = @ + 1, !.cards = @ \cup {Phase(t)}]
Revised(t, last) == [runs[t].obj EXCEPT !.last = last, !.revs[Phase(t)] = @ + 1]

LEMMA PassedIs ==
    ASSUME TypeInv, NEW t \in Tasks, Phase(t) \in Phases, NEW last \in {Round(t), runs[t].obj.last}
    PROVE  /\ Passed(t, last) \in TaskState
           /\ Passed(t, last).phase = Phase(t) + 1 /\ Passed(t, last).last = last
           /\ Passed(t, last).revs = runs[t].obj.revs
  <1>1. runs[t].obj \in TaskState /\ runs[t].obj.phase = Phase(t) BY OfTask DEF Phase
  <1>2. last \in Rounds \cup {NoRound} BY <1>1, RoundType DEF TypeInv, TaskState
  <1>3. Phase(t) + 1 \in 1..Finished BY Constants DEF Phases, Finished, Sizes, PhasesAssumption
  <1> QED BY <1>1, <1>2, <1>3 DEF Passed, TaskState

LEMMA RevisedIs ==
    ASSUME TypeInv, NEW t \in Tasks, Phase(t) \in Phases, MayRevise(Round(t).rev),
           NEW last \in {Round(t), runs[t].obj.last}
    PROVE  /\ Revised(t, last) \in TaskState
           /\ Revised(t, last).phase = Phase(t) /\ Revised(t, last).last = last
           /\ Revised(t, last).revs[Phase(t)] = runs[t].obj.revs[Phase(t)] + 1
           /\ \A q \in Phases \ {Phase(t)} : Revised(t, last).revs[q] = runs[t].obj.revs[q]
  <1> DEFINE p == Phase(t)
             revs == [runs[t].obj.revs EXCEPT ![p] = @ + 1]
             o == [runs[t].obj EXCEPT !.last = last, !.revs = revs]
  <1>1. runs[t].obj \in TaskState /\ runs[t].obj.phase = p BY OfTask DEF Phase
  <1>2. last \in Rounds \cup {NoRound} BY <1>1, RoundType DEF TypeInv, TaskState
  <1>3. runs[t].obj.revs \in [Phases -> 0..MaxRevisions] BY <1>1 DEF TaskState
  <1>4. runs[t].obj.revs[p] + 1 \in 0..MaxRevisions
    BY <1>3, Constants DEF MayRevise, Round, Sizes, LimitsAssumption
  <1>5. /\ revs \in [Phases -> 0..MaxRevisions] /\ revs[p] = runs[t].obj.revs[p] + 1
        /\ \A q \in Phases \ {p} : revs[q] = runs[t].obj.revs[q]
    <2> HIDE DEF p
    <2> QED BY <1>3, <1>4 DEF p
  <1>6. Revised(t, last) = o BY DEF Revised
  <1>7. o \in TaskState /\ o.phase = p /\ o.last = last /\ o.revs = revs
    <2> HIDE DEF revs, p
    <2> QED BY <1>1, <1>2, <1>5 DEF TaskState
  <1> HIDE DEF o, revs
  <1> QED BY <1>5, <1>6, <1>7

LEMMA PassType == ASSUME TypeInv, NEW t \in Tasks, Pass(t) PROVE TypeInv'
  <1>1. PICK last \in {Round(t), runs[t].obj.last} :
          /\ IF last = Round(t) THEN UNCHANGED used ELSE Fault(1)
          /\ Saved(t, Passed(t, last), IF Passed(t, last).phase = Finished THEN "concluding" ELSE "top")
    BY DEF Pass, Passed
  <1>2. Phase(t) \in Phases BY OfTask DEF Pass, Placed, Phase
  <1>3. Passed(t, last) \in TaskState /\ Passed(t, last).phase = Phase(t) + 1 BY <1>2, PassedIs
  <1>4. used' \in Counts BY <1>1, FaultType, OfTask
  <1>5. Passed(t, last).phase # Finished => Passed(t, last).phase \in Phases
    BY <1>2, <1>3, Constants DEF Phases, Finished, Sizes, PhasesAssumption
  <1>6. runs[t].pc = "evaluating" /\ UNCHANGED <<agent, jury, mixed, over>> BY DEF Pass
  <1>7. CASE Passed(t, last).phase = Finished BY <1>1, <1>3, <1>4, <1>6, <1>7, SavedType
  <1>8. CASE Passed(t, last).phase # Finished BY <1>1, <1>3, <1>4, <1>5, <1>6, <1>8, SavedType
  <1> QED BY <1>7, <1>8

LEMMA ReviseType == ASSUME TypeInv, NEW t \in Tasks, Revise(t) PROVE TypeInv'
  <1>1. PICK last \in {Round(t), runs[t].obj.last} :
          /\ IF last = Round(t) THEN UNCHANGED used ELSE Fault(1)
          /\ Saved(t, Revised(t, last), "top")
    BY DEF Revise, Revised
  <1>2. Phase(t) \in Phases BY OfTask DEF Revise, Placed, Phase
  <1>3. Revised(t, last) \in TaskState /\ Revised(t, last).phase = Phase(t)
    BY <1>2, RevisedIs DEF Revise
  <1>4. used' \in Counts BY <1>1, FaultType, OfTask
  <1>5. runs[t].pc = "evaluating" /\ UNCHANGED <<agent, jury, mixed, over>> BY DEF Revise
  <1> QED BY <1>1, <1>2, <1>3, <1>4, <1>5, SavedType

LEMMA ConcludeType == ASSUME TypeInv, NEW t \in Tasks, Conclude(t) PROVE TypeInv'
  BY EndType, OfTask DEF Conclude, Ended

LEMMA CrashType == ASSUME TypeInv, Crash PROVE TypeInv'
  <1> DEFINE n == [NewRun EXCEPT !.pc = "lost"]
  <1>1. n \in Run /\ Placed(n) BY NewRunType
  <1>2. runs' = [t \in Tasks |-> IF runs[t].pc \in Live THEN n ELSE runs[t]] BY DEF Crash
  <1>3. runs' \in [Tasks -> Run] /\ \A t \in Tasks : Placed(runs'[t])
    <2> HIDE DEF n
    <2> QED BY <1>1, <1>2 DEF TypeInv, TypeOK
  <1>4. agent' \in Agent /\ used' \in Counts /\ jury' \in BOOLEAN /\ mixed' \subseteq Tasks
    <2>1. agent' \in Agent BY Constants DEF Crash, Agent, Sizes, PhasesAssumption
    <2>2. used' \in Counts
      BY Constants DEF Crash, Counts, TypeInv, TypeOK, Sizes, BoundsAssumption
    <2> QED BY <2>1, <2>2 DEF Crash
  <1>5. TypeOK' BY <1>3, <1>4 DEF Crash, TypeInv, TypeOK, Agent, Counts
  <1> QED BY <1>3, <1>5 DEF TypeInv, Placed

\* What a recovered run begins with.
Resumed(t) == IF disk[t].obj.phase = Finished THEN [disk[t].obj EXCEPT !.phase = 1] ELSE disk[t].obj

LEMMA ResumedIs ==
    ASSUME TypeInv, NEW t \in Tasks
    PROVE  /\ Resumed(t) \in TaskState /\ Resumed(t).phase \in Phases
           /\ Resumed(t).revs = disk[t].obj.revs /\ Resumed(t).last = disk[t].obj.last
  <1>1. disk[t].obj \in TaskState BY OfTask
  <1>2. 1 \in Phases BY Constants DEF Phases, Sizes, PhasesAssumption
  <1>3. disk[t].obj.phase # Finished => disk[t].obj.phase \in Phases
    BY <1>1, Constants DEF TaskState, Finished, Phases, Sizes, PhasesAssumption
  <1>4. CASE disk[t].obj.phase = Finished
    <2>1. Resumed(t) = [disk[t].obj EXCEPT !.phase = 1] BY <1>4 DEF Resumed
    <2>2. 1 \in 1..Finished BY Constants DEF Finished, Sizes, PhasesAssumption
    <2> QED BY <1>1, <1>2, <2>1, <2>2 DEF TaskState
  <1>5. CASE disk[t].obj.phase # Finished
    BY <1>1, <1>3, <1>5 DEF Resumed
  <1> QED BY <1>4, <1>5

LEMMA RecoverIs ==
    ASSUME TypeInv, NEW t \in Tasks, Recover(t)
    PROVE  LET n == [NewRun EXCEPT !.pc = "top", !.obj = Resumed(t)]
           IN  /\ runs' = [runs EXCEPT ![t] = n] /\ n \in Run /\ Placed(n)
               /\ n.pc = "top" /\ n.obj = Resumed(t) /\ n.k = 0
               /\ over' = (IF disk[t].obj.phase = Finished THEN over \cup {t} ELSE over)
  <1> DEFINE o == Resumed(t)
             n == [NewRun EXCEPT !.pc = "top", !.obj = o]
  <1>1. o \in TaskState /\ o.phase \in Phases BY ResumedIs
  <1>2. NewRun \in Run /\ NewRun.tries = 0 /\ NewRun.k = 0 BY NewRunType DEF NewRun
  <1>3. n \in Run /\ n.pc = "top" /\ n.obj = o /\ n.tries = 0 /\ n.k = 0
    <2>1. "top" \in Live BY DEF Live
    <2> HIDE DEF o
    <2> QED BY <1>1, <1>2, <2>1 DEF Run
  <1>4. Placed(n)
    <2> HIDE DEF n, o
    <2> QED BY <1>1, <1>3, Constants DEF Placed, InFlow, Asking, Sizes, LimitsAssumption
  <1>5. runs' = [runs EXCEPT ![t] = n] BY DEF Recover, Resumed
  <1>6. over' = (IF disk[t].obj.phase = Finished THEN over \cup {t} ELSE over) BY DEF Recover
  <1> QED BY <1>3, <1>4, <1>5, <1>6

LEMMA RecoverType == ASSUME TypeInv, NEW t \in Tasks, Recover(t) PROVE TypeInv'
  <1> DEFINE n == [NewRun EXCEPT !.pc = "top", !.obj = Resumed(t)]
  <1>1. runs' = [runs EXCEPT ![t] = n] /\ n \in Run /\ Placed(n) /\ over' \subseteq Tasks
    BY RecoverIs, OfTask
  <1> HIDE DEF n
  <1> QED BY <1>1, OfTask, StepOfOne DEF Recover

LEMMA TypeStep == ASSUME TypeInv, [Next]_vars PROVE TypeInv'
  <1>1. CASE Crash BY <1>1, CrashType
  <1>2. ASSUME NEW t \in Tasks, Start(t) \/ RunStep(t) \/ Recover(t) PROVE TypeInv'
    BY <1>2, StartType, EnterType, RefuseType, EnterPassedType, AskAgainType, FlowEndsType,
       PlanMadeType, ContentMadeType, OutputMadeType, CarriesOnType, StepRaisesType, PassType,
       ReviseType, ConcludeType, RecoverType
       DEF RunStep, Answer, StepOfPlan, CarriesOn
  <1>3. CASE UNCHANGED vars BY <1>3 DEF vars, TypeInv, TypeOK, Placed
  <1> QED BY <1>1, <1>2, <1>3 DEF Next
-----------------------------------------------------------------------------
(* The manifest tells of the steps.                                        *)

TaskStep(t) == Start(t) \/ RunStep(t) \/ Recover(t)

\* A task leaves the runs of the others alone.
LEMMA OthersKept ==
    ASSUME TypeInv, NEW t \in Tasks, TaskStep(t), NEW u \in Tasks \ {t}
    PROVE  runs'[u] = runs[u]
  <1>1. runs \in [Tasks -> Run] BY DEF TypeInv, TypeOK
  <1>2. CASE CarriesOn(t)
    <2>1. PICK f \in StepFiles, success \in BOOLEAN, result \in Results :
            Executed(t, f, success, result)
      BY <1>2, StepOutcome
    <2> DEFINE n == Ran(t, f, success, result)
    <2>2. runs' = [runs EXCEPT ![t] = n] BY <1>2, <2>1, StepOutcome, RanIs
    <2> HIDE DEF n
    <2> QED BY <1>1, <2>2
  <1>3. CASE Recover(t)
    <2> DEFINE n == [NewRun EXCEPT !.pc = "top", !.obj = Resumed(t)]
    <2>1. runs' = [runs EXCEPT ![t] = n] BY <1>3, RecoverIs
    <2> HIDE DEF n
    <2> QED BY <1>1, <2>1
  <1>4. CASE Start(t) BY <1>1, <1>4 DEF Start
  <1>5. CASE Enter(t) BY <1>1, <1>5 DEF Enter
  <1>6. CASE Refuse(t) BY <1>1, <1>6 DEF Refuse, Fail, End
  <1>7. CASE EnterPassed(t) BY <1>1, <1>7 DEF EnterPassed
  <1>8. CASE AskAgain(t) BY <1>1, <1>8 DEF AskAgain
  <1>9. CASE FlowEnds(t) BY <1>1, <1>9 DEF FlowEnds, Fail, End
  <1>10. CASE PlanMade(t) BY <1>1, <1>10 DEF PlanMade
  <1>11. CASE ContentMade(t) BY <1>1, <1>11 DEF ContentMade
  <1>12. CASE OutputMade(t) BY <1>1, <1>12 DEF OutputMade
  <1>13. CASE StepRaises(t) BY <1>1, <1>13 DEF StepRaises, Fail, End
  <1>14. CASE Pass(t) BY <1>1, <1>14 DEF Pass, Saved
  <1>15. CASE Revise(t) BY <1>1, <1>15 DEF Revise, Saved
  <1>16. CASE Conclude(t) BY <1>1, <1>16 DEF Conclude, End
  <1> QED BY <1>2, <1>3, <1>4, <1>5, <1>6, <1>7, <1>8, <1>9, <1>10, <1>11, <1>12, <1>13,
             <1>14, <1>15, <1>16
          DEF TaskStep, RunStep, Answer, StepOfPlan, CarriesOn

\* Only these steps leave a task in a flow.
LEMMA StepsOfFlow ==
    ASSUME TypeInv, NEW t \in Tasks, TaskStep(t), runs'[t].pc \in InFlow
    PROVE  Enter(t) \/ AskAgain(t) \/ PlanMade(t) \/ ContentMade(t) \/ CarriesOn(t)
  <1> USE DEF InFlow, Asking
  <1>1. runs \in [Tasks -> Run] /\ runs[t] \in Run BY DEF TypeInv, TypeOK
  <1>2. ~Recover(t)
    <2> DEFINE n == [NewRun EXCEPT !.pc = "top", !.obj = Resumed(t)]
    <2>1. ASSUME Recover(t) PROVE runs' = [runs EXCEPT ![t] = n] /\ n.pc = "top"
      BY <2>1, RecoverIs
    <2> HIDE DEF n
    <2> QED BY <1>1, <2>1
  <1>3. \A pc \in Ended : End(t, pc) => runs'[t].pc = pc
    <2>1. TAKE pc \in Ended
    <2> DEFINE n == [NewRun EXCEPT !.pc = pc]
    <2>2. n.pc = pc BY DEF NewRun
    <2>3. End(t, pc) => runs' = [runs EXCEPT ![t] = n] BY DEF End
    <2> HIDE DEF n
    <2> QED BY <1>1, <2>2, <2>3
  <1>4. ~Start(t) BY <1>1 DEF Start, Run
  <1>5. ~Refuse(t) /\ ~FlowEnds(t) /\ ~StepRaises(t) /\ ~Conclude(t)
    BY <1>3 DEF Refuse, FlowEnds, StepRaises, Conclude, Fail, Ended
  <1>6. ~EnterPassed(t) BY <1>1 DEF EnterPassed, Run
  <1>7. ~OutputMade(t)
    <2> SUFFICES ASSUME OutputMade(t) PROVE FALSE OBVIOUS
    <2> DEFINE n == [runs[t] EXCEPT !.pc = "evaluating", !.plan = <<>>, !.k = 0,
                                    !.tries = 0, !.files = NoFiles]
    <2>1. runs' = [runs EXCEPT ![t] = n] BY DEF OutputMade
    <2>2. n.pc = "evaluating" BY <1>1 DEF Run
    <2> HIDE DEF n
    <2> QED BY <1>1, <2>1, <2>2
  <1>8. \A obj : \A pc : Saved(t, obj, pc) => runs'[t].pc = pc BY <1>1 DEF Saved, Run
  <1>9. ~Pass(t) /\ ~Revise(t) BY <1>8 DEF Pass, Revise
  <1> QED BY <1>2, <1>4, <1>5, <1>6, <1>7, <1>9
          DEF TaskStep, RunStep, Answer, StepOfPlan, CarriesOn

\* And these where it carries out a plan or asks for its output.
LEMMA StepsOfPlans ==
    ASSUME TypeInv, NEW t \in Tasks, TaskStep(t), runs'[t].pc \in {"steps", "synthesis"}
    PROVE  CarriesOn(t) \/ PlanMade(t) \/ (AskAgain(t) /\ runs[t].pc = "synthesis")
  <1>1. runs \in [Tasks -> Run] /\ runs[t] \in Run BY DEF TypeInv, TypeOK
  <1>2. ~Enter(t)
    <2> SUFFICES ASSUME Enter(t) PROVE FALSE OBVIOUS
    <2> DEFINE pc == IF Phase(t) = Parsing THEN "content" ELSE "planning"
               o == Entering(t)
               n == [runs[t] EXCEPT !.pc = pc, !.obj = o]
    <2>1. runs' = [runs EXCEPT ![t] = n] BY OfTask DEF Enter, TypeInv, TypeOK
    <2>2. n.pc = pc
      <3> HIDE DEF pc, o
      <3> QED BY <1>1 DEF Run
    <2>3. pc \notin {"steps", "synthesis"} OBVIOUS
    <2> HIDE DEF n, pc
    <2> QED BY <1>1, <2>1, <2>2, <2>3
  <1>3. ~ContentMade(t)
    <2> SUFFICES ASSUME ContentMade(t) PROVE FALSE OBVIOUS
    <2> DEFINE obj == [runs[t].obj EXCEPT !.content = @ + 1]
               n == [runs[t] EXCEPT !.obj = obj, !.tries = 0]
               e == [n EXCEPT !.pc = "evaluating"]
    <2>1. runs' = [runs EXCEPT ![t] = IF obj.content < Contents THEN n ELSE e] BY DEF ContentMade
    <2>2. n.pc = "content" /\ e.pc = "evaluating"
      <3> HIDE DEF obj
      <3> QED BY <1>1 DEF Run, ContentMade
    <2> HIDE DEF n, e
    <2> QED BY <1>1, <2>1, <2>2
  <1>4. AskAgain(t) => runs[t].pc = "synthesis" BY <1>1 DEF AskAgain, Asking, Run
  <1> QED BY <1>2, <1>3, <1>4, StepsOfFlow DEF InFlow, Asking

LEMMA RecordStep == ASSUME TypeInv, RecordInv, [Next]_vars PROVE RecordInv'
  <1>1. runs \in [Tasks -> Run] BY DEF TypeInv, TypeOK
  <1>2. SUFFICES ASSUME NEW u \in Tasks, runs'[u].pc \in {"steps", "synthesis"}
                 PROVE  Recorded(runs'[u])
    BY DEF RecordInv, Recorded, Reported
  <1>3. ASSUME runs'[u] = runs[u] PROVE Recorded(runs'[u])
    BY <1>2, <1>3 DEF RecordInv
  <1>4. CASE Crash
    <2> DEFINE n == [NewRun EXCEPT !.pc = "lost"]
    <2>1. n.pc = "lost" BY DEF NewRun
    <2>2. runs'[u] = n \/ runs'[u] = runs[u] BY <1>4 DEF Crash
    <2> HIDE DEF n
    <2> QED BY <1>2, <1>3, <2>1, <2>2
  <1>5. CASE UNCHANGED vars BY <1>3, <1>5 DEF vars
  <1>6. ASSUME NEW t \in Tasks, TaskStep(t) PROVE Recorded(runs'[u])
    <2>1. CASE u # t BY <1>3, <1>6, <2>1, OthersKept
    <2>2. CASE u = t
      <3>1. CASE CarriesOn(t)
        <4>1. runs[t].pc = "steps" BY <3>1, StepOutcome
        <4>2. Recorded(runs[t]) BY <4>1 DEF RecordInv
        <4> QED BY <2>2, <3>1, <4>2, CarriesOnRecorded
      <3>2. CASE PlanMade(t)
        <4>1. runs'[t].k = runs[t].k BY <1>1, <3>2 DEF PlanMade, Run
        <4>2. runs[t].k = 0 BY <3>2, OfTask DEF PlanMade, Placed
        <4> QED BY <2>2, <4>1, <4>2 DEF Recorded
      <3>3. CASE AskAgain(t) /\ runs[t].pc = "synthesis"
        <4>1. /\ runs'[t].k = runs[t].k /\ runs'[t].plan = runs[t].plan
              /\ runs'[t].files = runs[t].files /\ runs'[t].obj = runs[t].obj
          BY <1>1, <3>3 DEF AskAgain, Run
        <4>2. Recorded(runs[t]) BY <3>3 DEF RecordInv
        <4> QED BY <2>2, <4>1, <4>2 DEF Recorded, Reported
      <3> QED BY <1>2, <1>6, <2>2, <3>1, <3>2, <3>3, StepsOfPlans
    <2> QED BY <2>1, <2>2
  <1> QED BY <1>4, <1>5, <1>6 DEF Next, TaskStep
-----------------------------------------------------------------------------
(* last_round_results is the round before.                                 *)

SameRounds(o, n) == n.phase = o.phase /\ n.revs = o.revs /\ n.last = o.last

LEMMA FaultsGrow ==
    ASSUME TypeInv, NEW t \in Tasks, TaskStep(t)
    PROVE  used.faults \in Nat /\ used'.faults \in Nat /\ used.faults <= used'.faults
  <1>1. used \in Counts BY OfTask
  <1>2. used.faults \in Nat BY <1>1 DEF Counts
  <1>3. CASE CarriesOn(t) BY <1>2, <1>3, StepOutcome DEF Counts
  <1>4. CASE UNCHANGED used BY <1>2, <1>4
  <1>5. CASE UNCHANGED used \/ Fault(1) BY <1>1, <1>2, <1>5, FaultType DEF Counts
  <1>6. Pass(t) \/ Revise(t) \/ StepRaises(t) => UNCHANGED used \/ Fault(1)
    BY DEF Pass, Revise, StepRaises
  <1> QED BY <1>3, <1>4, <1>5, <1>6
          DEF TaskStep, Start, Recover, RunStep, Enter, Refuse, EnterPassed, Answer, AskAgain,
              FlowEnds, PlanMade, ContentMade, OutputMade, StepOfPlan, CarriesOn, Conclude

LEMMA KeptSame ==
    ASSUME NEW r, NEW s, NEW r2, NEW s2, NEW f \in Nat, NEW g \in Nat, f <= g,
           LastKept(r, s, f), SameRounds(r.obj, r2.obj), SameRounds(s, s2),
           r2.pc \in InFlow \cup {"evaluating"} =>
               r.pc \in InFlow \cup {"evaluating"} \/ r.obj.phase = Parsing
    PROVE  LastKept(r2, s2, g)
  <1>1. g = 0 => f = 0 OBVIOUS
  <1> QED BY <1>1 DEF LastKept, RoundsKept, SameRounds

\* These steps leave the rounds as they are.
Plain(t) == \/ Start(t) \/ EnterPassed(t) \/ AskAgain(t) \/ PlanMade(t) \/ ContentMade(t)
            \/ OutputMade(t) \/ CarriesOn(t)

LEMMA PlainIs ==
    ASSUME TypeInv, NEW t \in Tasks, Plain(t)
    PROVE  /\ SameRounds(runs[t].obj, runs'[t].obj) /\ SameRounds(disk[t].obj, disk'[t].obj)
           /\ over' = over
           /\ \/ runs[t].pc \in InFlow \/ runs[t].obj.phase = Parsing
              \/ runs'[t].pc \notin InFlow \cup {"evaluating"}
  <1>1. runs \in [Tasks -> Run] /\ runs[t] \in Run BY DEF TypeInv, TypeOK
  <1>2. disk[t].obj = disk'[t].obj => SameRounds(disk[t].obj, disk'[t].obj) BY DEF SameRounds
  <1>3. CASE Start(t)
    BY <1>1, <1>2, <1>3 DEF Start, Run, SameRounds, InFlow, Asking
  <1>4. CASE EnterPassed(t)
    BY <1>1, <1>2, <1>4 DEF EnterPassed, Run, SameRounds, Phase
  <1>5. CASE AskAgain(t)
    BY <1>1, <1>2, <1>5 DEF AskAgain, Run, SameRounds, InFlow
  <1>6. CASE PlanMade(t)
    <2>1. runs'[t].obj = runs[t].obj BY <1>1, <1>6 DEF PlanMade, Run
    <2> QED BY <1>2, <1>6, <2>1 DEF PlanMade, SameRounds, InFlow, Asking
  <1>7. CASE OutputMade(t)
    <2> DEFINE n == [runs[t] EXCEPT !.pc = "evaluating", !.plan = <<>>, !.k = 0,
                                    !.tries = 0, !.files = NoFiles]
    <2>1. runs' = [runs EXCEPT ![t] = n] BY <1>7 DEF OutputMade
    <2>2. n.obj = runs[t].obj BY <1>1 DEF Run
    <2> HIDE DEF n
    <2>3. runs'[t].obj = runs[t].obj BY <1>1, <2>1, <2>2
    <2> QED BY <1>2, <1>7, <2>3 DEF OutputMade, SameRounds, InFlow, Asking
  <1>8. CASE CarriesOn(t)
    <2>1. PICK f \in StepFiles, success \in BOOLEAN, result \in Results :
            Executed(t, f, success, result)
      BY <1>8, StepOutcome
    <2> DEFINE n == Ran(t, f, success, result)
    <2>2. runs' = [runs EXCEPT ![t] = n] /\ n.obj = runs[t].obj
      BY <1>8, <2>1, StepOutcome, RanIs
    <2> HIDE DEF n
    <2>3. runs'[t].obj = runs[t].obj BY <1>1, <2>2
    <2>4. disk' = disk /\ over' = over /\ runs[t].pc = "steps" BY <1>8, StepOutcome
    <2> QED BY <2>3, <2>4 DEF SameRounds, InFlow
  <1>9. CASE ContentMade(t)
    <2> DEFINE obj == [runs[t].obj EXCEPT !.content = @ + 1]
               n == [runs[t] EXCEPT !.obj = obj, !.tries = 0]
               e == [n EXCEPT !.pc = "evaluating"]
               d == [disk[t] EXCEPT !.obj.content = obj.content]
    <2>1. runs' = [runs EXCEPT ![t] = IF obj.content < Contents THEN n ELSE e]
      BY <1>9 DEF ContentMade
    <2>2. disk' = [disk EXCEPT ![t] = d] BY <1>9 DEF ContentMade
    <2>3. SameRounds(runs[t].obj, obj) BY OfTask DEF TaskState, SameRounds
    <2>4. n.obj = obj /\ e.obj = obj
      <3> HIDE DEF obj
      <3> QED BY <1>1 DEF Run
    <2>5. SameRounds(disk[t].obj, d.obj)
      <3>1. disk[t] \in DiskEntry BY DEF TypeInv, TypeOK, DiskEntry
      <3> HIDE DEF obj
      <3> QED BY <3>1 DEF DiskEntry, TaskState, SameRounds
    <2> HIDE DEF n, e, d, obj
    <2>6. runs'[t].obj = obj BY <1>1, <2>1, <2>4
    <2>7. disk'[t] = d BY <2>2 DEF TypeInv, TypeOK
    <2> QED BY <1>9, <2>3, <2>5, <2>6, <2>7 DEF ContentMade, InFlow, Asking
  <1> QED BY <1>3, <1>4, <1>5, <1>6, <1>7, <1>8, <1>9 DEF Plain
LEMMA EnterIs ==
    ASSUME TypeInv, NEW t \in Tasks, Enter(t)
    PROVE  /\ runs'[t].pc = (IF Phase(t) = Parsing THEN "content" ELSE "planning")
           /\ runs'[t].obj = Entering(t)
           /\ Entering(t).phase = Phase(t) /\ Entering(t).revs = runs[t].obj.revs
           /\ Entering(t).last = (IF Phase(t) = Parsing \/ IsRevision(t)
                                  THEN runs[t].obj.last ELSE NoRound)
  <1>1. runs \in [Tasks -> Run] /\ runs[t] \in Run BY DEF TypeInv, TypeOK
  <1> DEFINE pc == IF Phase(t) = Parsing THEN "content" ELSE "planning"
             o == Entering(t)
             n == [runs[t] EXCEPT !.pc = pc, !.obj = o]
  <1>2. runs' = [runs EXCEPT ![t] = n] BY OfTask DEF Enter, TypeInv, TypeOK
  <1>3. n.pc = pc /\ n.obj = o
    <2> HIDE DEF pc, o
    <2> QED BY <1>1 DEF Run
  <1>4. /\ o.phase = Phase(t) /\ o.revs = runs[t].obj.revs
        /\ o.last = (IF Phase(t) = Parsing \/ IsRevision(t) THEN runs[t].obj.last ELSE NoRound)
    BY OfTask DEF Entering, TaskState, Phase
  <1> HIDE DEF n, pc, o
  <1>5. runs'[t] = n BY <1>1, <1>2
  <1> QED BY <1>3, <1>4, <1>5 DEF pc, o

LEMMA EndIs ==
    ASSUME TypeInv, NEW t \in Tasks, NEW pc \in Ended, End(t, pc)
    PROVE  /\ runs'[t].obj = NewTask /\ runs'[t].pc = pc
           /\ disk'[t].obj = NewTask /\ over' = over \ {t}
  <1> DEFINE n == [NewRun EXCEPT !.pc = pc]
             d == [life |-> "ended", obj |-> NewTask]
  <1>1. n.pc = pc /\ n.obj = NewTask BY DEF NewRun
  <1>2. runs' = [runs EXCEPT ![t] = n] /\ disk' = [disk EXCEPT ![t] = d] BY DEF End
  <1>3. d.obj = NewTask OBVIOUS
  <1> HIDE DEF n, d
  <1>4. runs'[t] = n /\ disk'[t] = d BY <1>2 DEF TypeInv, TypeOK
  <1> QED BY <1>1, <1>3, <1>4 DEF End

LEMMA SavedIs ==
    ASSUME TypeInv, NEW t \in Tasks, NEW obj, NEW pc, Saved(t, obj, pc)
    PROVE  runs'[t].obj = obj /\ runs'[t].pc = pc /\ disk'[t].obj = obj
  <1>1. runs[t] \in Run /\ disk[t] \in DiskEntry BY DEF TypeInv, TypeOK, DiskEntry
  <1>2. runs \in [Tasks -> Run] /\ disk \in [Tasks -> DiskEntry] BY DEF TypeInv, TypeOK, DiskEntry
  <1> QED BY <1>1, <1>2 DEF Saved, Run, DiskEntry

\* A task that begins again has no rounds.
LEMMA NewKept ==
    ASSUME NEW r, NEW f, r.obj = NewTask, r.pc \in Ended \cup {"lost", "new"}
    PROVE  LastKept(r, NewTask, f) /\ RoundsKept(NewTask, f)
  <1>1. NewTask.phase = 1 /\ \A q \in Phases : NewTask.revs[q] = 0 BY DEF NewTask
  <1> QED BY <1>1 DEF LastKept, RoundsKept, InFlow, Asking, Ended

LEMMA PassKept ==
    ASSUME TypeInv, NEW t \in Tasks, Pass(t), LastKept(runs[t], disk[t].obj, used.faults)
    PROVE  LastKept(runs'[t], disk'[t].obj, used'.faults)
  <1>1. PICK last \in {Round(t), runs[t].obj.last} :
          Saved(t, Passed(t, last), IF Passed(t, last).phase = Finished THEN "concluding" ELSE "top")
    BY DEF Pass, Passed
  <1>2. Phase(t) \in Phases BY OfTask DEF Pass, Placed, Phase
  <1> DEFINE obj == Passed(t, last)
             pc == IF obj.phase = Finished THEN "concluding" ELSE "top"
  <1>3. obj.phase = Phase(t) + 1 /\ obj.revs = runs[t].obj.revs BY <1>2, PassedIs
  <1>4. \A q \in Phases : q > Phase(t) => obj.revs[q] = 0
    BY <1>3 DEF LastKept, RoundsKept, Phase
  <1>5. runs'[t].obj = obj /\ runs'[t].pc = pc /\ disk'[t].obj = obj BY <1>1, SavedIs
  <1>6. \A q \in Phases : q >= obj.phase => q > Phase(t) BY <1>2, <1>3 DEF Phases
  <1>7. obj.phase \in Int BY <1>2, <1>3 DEF Phases
  <1> HIDE DEF obj
  <1>8. RoundsKept(obj, used'.faults) BY <1>4, <1>6, <1>7 DEF RoundsKept, Phases
  <1> QED BY <1>5, <1>8 DEF LastKept, InFlow, Asking

LEMMA ReviseKept ==
    ASSUME TypeInv, NEW t \in Tasks, Revise(t), LastKept(runs[t], disk[t].obj, used.faults)
    PROVE  LastKept(runs'[t], disk'[t].obj, used'.faults)
  <1>1. PICK last \in {Round(t), runs[t].obj.last} :
          /\ IF last = Round(t) THEN UNCHANGED used ELSE Fault(1)
          /\ Saved(t, Revised(t, last), "top")
    BY DEF Revise, Revised
  <1>2. Phase(t) \in Phases BY OfTask DEF Revise, Placed, Phase
  <1> DEFINE obj == Revised(t, last)
             p == Phase(t)
             old == runs[t].obj
  <1>3. /\ obj.phase = p /\ obj.last = last /\ obj.revs[p] = old.revs[p] + 1
        /\ \A q \in Phases \ {p} : obj.revs[q] = old.revs[q]
    BY <1>2, RevisedIs DEF Revise
  <1>4. runs'[t].obj = obj /\ runs'[t].pc = "top" /\ disk'[t].obj = obj BY <1>1, SavedIs
  <1>5. old.revs[p] \in Nat /\ old.phase = p /\ p \in Nat
    <2>1. old \in TaskState BY OfTask
    <2>2. old.revs[p] \in 0..MaxRevisions BY <1>2, <2>1 DEF TaskState
    <2> QED BY <1>2, <2>2, Constants DEF Phase, Phases, Sizes, LimitsAssumption
  <1>6. Round(t) = [phase |-> p, rev |-> old.revs[p]] BY DEF Round
  <1>7. /\ RoundsKept(old, used.faults)
        /\ old.phase # Parsing /\ ~(old.revs[old.phase] > 0) => old.last = NoRound
    BY DEF LastKept, Revise, InFlow
  <1> HIDE DEF obj, old, p
  <1>8. \A q \in Phases : q > obj.phase => obj.revs[q] = 0
    BY <1>3, <1>5, <1>7 DEF RoundsKept, Phases
  <1>9. ASSUME p # Parsing
        PROVE  /\ last = NoRound \/ (last.phase = p /\ last.rev < old.revs[p] + 1)
               /\ used'.faults = 0 => last = [phase |-> p, rev |-> old.revs[p]]
    <2>1. CASE last = Round(t) BY <1>5, <1>6, <2>1
    <2>2. CASE last # Round(t)
      <3>1. last = old.last BY <2>2 DEF old
      <3>2. used'.faults # 0
        <4>1. used \in Counts BY OfTask
        <4>2. Fault(1) BY <1>1, <2>2
        <4> QED BY <4>1, <4>2 DEF Fault, Counts
      <3>3. last = NoRound \/ (last.phase = p /\ last.rev < old.revs[p] + 1)
        <4>1. CASE old.revs[p] > 0
          <5>1. old.last = NoRound \/ (old.last.phase = p /\ old.last.rev < old.revs[p])
            BY <1>2, <1>5, <1>7, <1>9, <4>1 DEF RoundsKept, p
          <5>2. old.last = NoRound \/ old.last.rev \in Nat
            <6>1. old \in TaskState BY OfTask DEF old
            <6> QED BY <6>1, Constants DEF TaskState, Rounds, Sizes, LimitsAssumption
          <5> QED BY <1>5, <3>1, <5>1, <5>2
        <4>2. CASE ~(old.revs[p] > 0) BY <1>5, <1>7, <1>9, <3>1, <4>2
        <4> QED BY <4>1, <4>2
      <3> QED BY <3>2, <3>3
    <2> QED BY <2>1, <2>2
  <1>10. (old.revs[p] + 1) - 1 = old.revs[p] BY <1>5
  <1>11. RoundsKept(obj, used'.faults) BY <1>3, <1>8, <1>9, <1>10 DEF RoundsKept
  <1> QED BY <1>4, <1>11 DEF LastKept, InFlow, Asking
LEMMA EnterKept ==
    ASSUME TypeInv, NEW t \in Tasks, Enter(t), LastKept(runs[t], disk[t].obj, used.faults)
    PROVE  LastKept(runs'[t], disk'[t].obj, used'.faults)
  <1> DEFINE o == runs[t].obj
             n == runs'[t].obj
  <1>1. disk' = disk /\ used' = used BY DEF Enter
  <1>2. /\ n.phase = o.phase /\ n.revs = o.revs
        /\ n.last = (IF o.phase = Parsing \/ o.revs[o.phase] > 0 THEN o.last ELSE NoRound)
    BY EnterIs DEF Phase, IsRevision
  <1>3. RoundsKept(o, used.faults) /\ RoundsKept(disk[t].obj, used.faults) BY DEF LastKept
  <1> HIDE DEF o
  <1>4. RoundsKept(n, used.faults)
    <2> HIDE DEF n
    <2> QED BY <1>2, <1>3 DEF RoundsKept
  <1> QED BY <1>1, <1>2, <1>3, <1>4 DEF LastKept

LEMMA RecoverKept ==
    ASSUME TypeInv, NEW t \in Tasks, Recover(t), t \notin over',
           LastKept(runs[t], disk[t].obj, used.faults)
    PROVE  LastKept(runs'[t], disk'[t].obj, used'.faults)
  <1> DEFINE n == [NewRun EXCEPT !.pc = "top", !.obj = Resumed(t)]
  <1>1. /\ runs' = [runs EXCEPT ![t] = n] /\ n.pc = "top" /\ n.obj = Resumed(t)
        /\ over' = (IF disk[t].obj.phase = Finished THEN over \cup {t} ELSE over)
    BY RecoverIs
  <1> HIDE DEF n
  <1>2. runs'[t] = n BY <1>1 DEF TypeInv, TypeOK
  <1>3. disk[t].obj.phase # Finished BY <1>1
  <1>4. Resumed(t) = disk[t].obj BY <1>3 DEF Resumed
  <1>5. disk' = disk /\ used' = used BY DEF Recover
  <1> QED BY <1>1, <1>2, <1>4, <1>5 DEF LastKept, InFlow, Asking

LEMMA LastStep == ASSUME TypeInv, LastInv, [Next]_vars PROVE LastInv'
  <1>1. SUFFICES ASSUME NEW u \in Tasks, u \notin over'
                 PROVE  LastKept(runs'[u], disk'[u].obj, used'.faults)
    BY DEF LastInv, LastKept, RoundsKept
  <1>2. CASE Crash
    <2> DEFINE n == [NewRun EXCEPT !.pc = "lost"]
    <2>1. n.pc = "lost" /\ n.obj = NewTask BY DEF NewRun
    <2>2. runs'[u] = n \/ runs'[u] = runs[u] BY <1>2 DEF Crash
    <2>3. used'.faults = used.faults
      <3>1. used \in Counts BY OfTask
      <3> QED BY <3>1, <1>2 DEF Crash, Counts
    <2>4. disk' = disk /\ over' = over BY <1>2 DEF Crash
    <2>5. LastKept(runs[u], disk[u].obj, used.faults) BY <1>1, <2>4 DEF LastInv
    <2> HIDE DEF n
    <2>6. LastKept(n, NewTask, used.faults) BY <2>1, NewKept
    <2> QED BY <2>2, <2>3, <2>4, <2>5, <2>6 DEF LastKept
  <1>3. CASE UNCHANGED vars
    BY <1>1, <1>3 DEF vars, LastInv
  <1>4. ASSUME NEW t \in Tasks, TaskStep(t) PROVE LastKept(runs'[u], disk'[u].obj, used'.faults)
    <2>1. used.faults \in Nat /\ used'.faults \in Nat /\ used.faults <= used'.faults
      BY <1>4, FaultsGrow
    <2>2. CASE u # t
      <3>1. runs'[u] = runs[u] BY <1>4, <2>2, OthersKept
      <3>2. disk'[u] = disk[u] /\ (u \in over <=> u \in over')
        <4>1. ASSUME CarriesOn(t) PROVE disk' = disk /\ over' = over BY <4>1, StepOutcome
        <4>2. disk \in [Tasks -> DiskEntry] BY DEF TypeInv, TypeOK, DiskEntry
        <4> QED BY <1>4, <2>2, <4>1, <4>2
                DEF TaskStep, Start, Recover, RunStep, Enter, Refuse, EnterPassed, Answer,
                    AskAgain, FlowEnds, PlanMade, ContentMade, OutputMade, StepOfPlan, CarriesOn,
                    StepRaises, Pass, Revise, Conclude, Saved, Fail, End
      <3>3. LastKept(runs[u], disk[u].obj, used.faults) BY <1>1, <3>2 DEF LastInv
      <3> QED BY <2>1, <3>1, <3>2, <3>3, KeptSame DEF SameRounds
    <2>3. CASE u = t
      <3>1. CASE Plain(t)
        <4>1. LastKept(runs[t], disk[t].obj, used.faults) BY <1>1, <2>3, <3>1, PlainIs DEF LastInv
        <4>2. /\ SameRounds(runs[t].obj, runs'[t].obj) /\ SameRounds(disk[t].obj, disk'[t].obj)
              /\ runs'[t].pc \in InFlow \cup {"evaluating"} =>
                     runs[t].pc \in InFlow \cup {"evaluating"} \/ runs[t].obj.phase = Parsing
          BY <3>1, PlainIs
        <4> QED BY <2>1, <2>3, <4>1, <4>2, KeptSame
      <3>2. CASE \E pc \in Ended : End(t, pc)
        <4>1. PICK pc \in Ended : End(t, pc) BY <3>2
        <4>2. runs'[t].obj = NewTask /\ runs'[t].pc = pc /\ disk'[t].obj = NewTask
          BY <4>1, EndIs
        <4> QED BY <2>3, <4>2, NewKept
      <3>3. Enter(t) \/ Pass(t) \/ Revise(t) => over' = over BY DEF Enter, Pass, Revise
      <3>4. ASSUME Enter(t) \/ Pass(t) \/ Revise(t) \/ Recover(t)
            PROVE  LastKept(runs'[t], disk'[t].obj, used'.faults)
        <4>1. t \notin over BY <1>1, <2>3, <3>3, <3>4, RecoverIs
        <4>2. LastKept(runs[t], disk[t].obj, used.faults) BY <4>1 DEF LastInv
        <4> QED BY <1>1, <2>3, <3>4, <4>2, EnterKept, PassKept, ReviseKept, RecoverKept
      <3>5. Refuse(t) \/ FlowEnds(t) \/ StepRaises(t) \/ Conclude(t) => \E pc \in Ended : End(t, pc)
        BY DEF Refuse, FlowEnds, StepRaises, Conclude, Fail, Ended
      <3> QED BY <1>4, <2>3, <3>1, <3>2, <3>4, <3>5
              DEF TaskStep, RunStep, Answer, StepOfPlan, CarriesOn, Plain
    <2> QED BY <2>2, <2>3
  <1> QED BY <1>2, <1>3, <1>4 DEF Next, TaskStep
-----------------------------------------------------------------------------
(* The history of a flow that no other task has written into.              *)

\* These are the two parts of PromptsAreRight.
LEMMA KeptIs ==
    ASSUME NEW t, NEW h
    PROVE  /\ Kept(t, runs[t], h, t \in over, used.faults) <=>
                  OwnConversation(t, h) /\ (t \in over \/ PreviousRound(t, h))
  <1>1. Round(t) = RoundOf(runs[t].obj) /\ Round(t).rev = runs[t].obj.revs[Phase(t)]
        /\ Phase(t) = runs[t].obj.phase
    BY DEF Round, RoundOf, Phase
  <1>2. Owned(t, runs[t], h) <=> OwnConversation(t, h)
    BY <1>1 DEF Owned, OwnConversation, Msg
  <1>3. Preceded(runs[t], h, used.faults) <=> PreviousRound(t, h)
    BY <1>1 DEF Preceded, PreviousRound, IsRevision
  <1> QED BY <1>2, <1>3 DEF Kept

\* It stays so when messages of the task that are no results and no rounds are added,
\* ...
LEMMA KeptWith ==
    ASSUME NEW t, NEW r, NEW n, NEW h, NEW msgs, NEW isOver, NEW f \in Nat, NEW g \in Nat, f <= g,
           Kept(t, r, h, isOver, f), SameRounds(r.obj, n.obj),
           \A m \in msgs : m.task = t /\ m.round = RoundOf(r.obj) /\ m.kind \notin {"round", "results"},
           r.pc = "synthesis" <=> n.pc = "synthesis"
    PROVE  Kept(t, n, h \cup msgs, isOver, g)
  <1>1. RoundOf(n.obj) = RoundOf(r.obj) BY DEF SameRounds, RoundOf
  <1>2. Owned(t, n, h \cup msgs)
    <2> DEFINE res == [task |-> t, round |-> RoundOf(r.obj), kind |-> "results"]
    <2>1. res \notin msgs
      <3>1. res.kind = "results" OBVIOUS
      <3> QED BY <3>1
    <2> QED BY <1>1, <2>1 DEF Owned, Kept
  <1>3. {m.round : m \in {x \in h : x.kind = "round"}}
        = {m.round : m \in {x \in h \cup msgs : x.kind = "round"}}
    OBVIOUS
  <1>4. g = 0 => f = 0 OBVIOUS
  <1>5. Preceded(r, h, f) => Preceded(n, h \cup msgs, g)
    BY <1>3, <1>4 DEF Preceded, SameRounds
  <1> QED BY <1>2, <1>5 DEF Kept

\* ... or the results, when its last step has been executed.
LEMMA KeptWithResults ==
    ASSUME NEW t, NEW r, NEW n, NEW h, NEW isOver, NEW f \in Nat, NEW g \in Nat, f <= g,
           Kept(t, r, h, isOver, f), SameRounds(r.obj, n.obj), n.pc = "synthesis"
    PROVE  Kept(t, n, h \cup {[task |-> t, round |-> RoundOf(r.obj), kind |-> "results"]}, isOver, g)
  <1> DEFINE res == [task |-> t, round |-> RoundOf(r.obj), kind |-> "results"]
  <1>1. RoundOf(n.obj) = RoundOf(r.obj) BY DEF SameRounds, RoundOf
  <1>2. res.task = t /\ res.round = RoundOf(r.obj) /\ res.kind = "results" OBVIOUS
  <1>3. Owned(t, n, h \cup {res})
    <2> HIDE DEF res
    <2> QED BY <1>1, <1>2 DEF Owned, Kept, res
  <1>4. {m.round : m \in {x \in h : x.kind = "round"}}
        = {m.round : m \in {x \in h \cup {res} : x.kind = "round"}}
    <2> HIDE DEF res
    <2> QED BY <1>2
  <1>5. g = 0 => f = 0 OBVIOUS
  <1>6. Preceded(r, h, f) => Preceded(n, h \cup {res}, g)
    BY <1>4, <1>5 DEF Preceded, SameRounds
  <1> QED BY <1>3, <1>6 DEF Kept
\* A task that writes to the agent tells of all others in a flow that they are mixed.
LEMMA WritesAreTold ==
    ASSUME TypeInv, NEW t \in Tasks, TaskStep(t)
    PROVE  (agent' = agent /\ mixed \ {t} \subseteq mixed') \/ Beside(t) \subseteq mixed'
  <1>1. CASE CarriesOn(t)
    <2>1. PICK f \in StepFiles, success \in BOOLEAN, result \in Results :
            Executed(t, f, success, result)
      BY <1>1, StepOutcome
    <2>2. UNCHANGED <<agent, mixed>> \/ mixed' = mixed \cup Beside(t)
      BY <1>1, <2>1, StepOutcome, RanIs
    <2> QED BY <2>2
  <1> QED BY <1>1
          DEF TaskStep, Start, Recover, RunStep, Enter, Refuse, EnterPassed, Answer,
              AskAgain, FlowEnds, PlanMade, ContentMade, OutputMade, StepOfPlan, CarriesOn,
              StepRaises, Pass, Revise, Conclude

\* A flow begins with its own history, and a revision with the round before it.
LEMMA EnterOwned ==
    ASSUME TypeInv, LastInv, NEW t \in Tasks, Enter(t)
    PROVE  Kept(t, runs'[t], agent'.history, t \in over', used'.faults)
  <1> DEFINE r == runs[t]
             n == runs'[t]
             p == Phase(t)
             h == agent'.history
  <1>1. n.pc \in {"content", "planning"} /\ n.obj.phase = p /\ n.obj.revs = r.obj.revs
    BY EnterIs
  <1>2. Round(t) = RoundOf(n.obj) /\ Round(t).rev = r.obj.revs[p] BY <1>1 DEF Round, RoundOf
  <1>3. h = Opening(t) \cup Previous(t) \cup {Msg(t, "prompt")} /\ over' = over /\ used' = used
    BY DEF Enter
  <1>4. \A kind : /\ Msg(t, kind).task = t /\ Msg(t, kind).round = Round(t)
                  /\ Msg(t, kind).kind = kind
                  /\ Msg(t, kind) = [task |-> t, round |-> Round(t), kind |-> kind]
    BY DEF Msg
  <1>5. /\ \A m \in h : \/ m \in Previous(t)
                        \/ \E kind \in {"system", "spec", "other", "cards", "prompt"} : m = Msg(t, kind)
        /\ \A kind \in {"system", "spec", "prompt"} : Msg(t, kind) \in h
    BY <1>3 DEF Opening, Emptied
  <1>6. \A m \in Previous(t) : m.task = t /\ m.kind = "round" /\ m.round = r.obj.last
    BY DEF Previous
  <1> HIDE DEF h, n, r, p
  <1>7. Owned(t, n, h)
    <2>1. \A m \in h : m.task = t /\ (m.kind # "round" => m.round = Round(t)) /\ m.kind # "results"
      BY <1>4, <1>5, <1>6
    <2>2. Msg(t, "results") \notin h BY <1>4, <2>1
    <2>3. n.pc # "synthesis" BY <1>1
    <2> QED BY <1>2, <1>4, <1>5, <2>1, <2>2, <2>3 DEF Owned
  <1>8. {m.round : m \in {x \in h : x.kind = "round"}} = {m.round : m \in Previous(t)}
    <2>1. {x \in h : x.kind = "round"} = Previous(t)
      <3>1. Previous(t) \subseteq h BY <1>3
      <3> QED BY <1>4, <1>5, <1>6, <3>1
    <2> QED BY <2>1
  <1>9. ASSUME t \notin over PROVE Preceded(n, h, used.faults)
    <2>1. RoundsKept(r.obj, used.faults) BY <1>9 DEF LastInv, LastKept, r
    <2>2. p \in Phases /\ r.obj.phase = p BY DEF Enter, Phase, r, p
    <2>3. r.obj \in TaskState BY OfTask DEF r
    <2>4. r.obj.revs[p] \in Nat
      <3>1. r.obj.revs[p] \in 0..MaxRevisions BY <2>2, <2>3 DEF TaskState
      <3> QED BY <3>1, Constants DEF Sizes, LimitsAssumption
    <2> DEFINE before == {[phase |-> p, rev |-> i] : i \in 0..r.obj.revs[p] - 1}
    <2>5. CASE p # Parsing /\ r.obj.revs[p] > 0 /\ r.obj.last # NoRound
      <3>1. Previous(t) = {[task |-> t, round |-> r.obj.last, kind |-> "round"]}
        BY <2>5 DEF Previous, IsRevision, p, r
      <3>2. {m.round : m \in Previous(t)} = {r.obj.last} BY <3>1
      <3>3. r.obj.last.phase = p /\ r.obj.last.rev < r.obj.revs[p]
            /\ (used.faults = 0 => r.obj.last = [phase |-> p, rev |-> r.obj.revs[p] - 1])
        BY <2>1, <2>2, <2>5 DEF RoundsKept
      <3>4. r.obj.last \in Rounds BY <2>3, <2>5 DEF TaskState
      <3>5. r.obj.last \in before
        <4>1. r.obj.last.rev \in 0..r.obj.revs[p] - 1
          BY <2>4, <3>3, <3>4, Constants DEF Rounds, Sizes, LimitsAssumption
        <4>2. r.obj.last = [phase |-> p, rev |-> r.obj.last.rev] BY <3>3, <3>4 DEF Rounds
        <4> QED BY <4>1, <4>2
      <3> QED BY <1>1, <1>8, <3>2, <3>3, <3>5 DEF Preceded
    <2>6. CASE ~(p # Parsing /\ r.obj.revs[p] > 0 /\ r.obj.last # NoRound)
      <3>1. Previous(t) = {} BY <2>6 DEF Previous, IsRevision, p, r
      <3>2. (r.obj.revs[p] > 0 /\ p # Parsing) => used.faults # 0
        <4> SUFFICES ASSUME r.obj.revs[p] > 0, p # Parsing, used.faults = 0 PROVE FALSE
          OBVIOUS
        <4>1. r.obj.last = [phase |-> p, rev |-> r.obj.revs[p] - 1]
          BY <2>1, <2>2 DEF RoundsKept
        <4>2. r.obj.last = NoRound BY <2>6
        <4>3. r.obj.last.phase = p /\ r.obj.last.phase = 0 BY <4>1, <4>2 DEF NoRound
        <4> QED BY <2>2, <4>3 DEF Phases
      <3> QED BY <1>1, <1>8, <3>1, <3>2 DEF Preceded
    <2> QED BY <2>5, <2>6
  <1> QED BY <1>3, <1>7, <1>9 DEF Kept, n, h
\* A flow goes on with its own history.
LEMMA GoesOnOwned ==
    ASSUME TypeInv, HistoryInv, NEW t \in Tasks, runs'[t].pc \in InFlow, t \notin mixed',
           AskAgain(t) \/ PlanMade(t) \/ ContentMade(t) \/ CarriesOn(t)
    PROVE  Kept(t, runs'[t], agent'.history, t \in over', used'.faults)
  <1> DEFINE r == runs[t]
             n == runs'[t]
             h == agent.history
  <1>1. runs \in [Tasks -> Run] /\ r \in Run /\ agent \in Agent BY DEF TypeInv, TypeOK, Agent
  <1>2. Plain(t) /\ TaskStep(t)
    BY DEF Plain, TaskStep, RunStep, Answer, StepOfPlan, CarriesOn
  <1>3. SameRounds(r.obj, n.obj) /\ over' = over BY <1>2, PlainIs
  <1>4. used.faults \in Nat /\ used'.faults \in Nat /\ used.faults <= used'.faults
    BY <1>2, FaultsGrow
  <1>5. Round(t) = RoundOf(r.obj) BY DEF Round, RoundOf, Phase
  <1>6. ASSUME r.pc \in InFlow, t \notin mixed PROVE Kept(t, r, h, t \in over, used.faults)
    BY <1>6 DEF HistoryInv
  <1>7. ASSUME NEW kinds \in SUBSET {"other", "prompt"}, r.pc \in InFlow, t \notin mixed,
               agent' = [agent EXCEPT !.history = Said(t, kinds)],
               r.pc = "synthesis" <=> n.pc = "synthesis"
        PROVE  Kept(t, n, agent'.history, t \in over', used'.faults)
    <2> DEFINE msgs == {Msg(t, kind) : kind \in kinds}
    <2>1. agent'.history = h \cup msgs BY <1>1, <1>7 DEF Said, Agent
    <2>2. \A m \in msgs : m.task = t /\ m.round = RoundOf(r.obj) /\ m.kind \notin {"round", "results"}
      BY <1>5 DEF Msg
    <2>3. Kept(t, r, h, t \in over, used.faults) BY <1>6, <1>7
    <2> HIDE DEF msgs, r, n, h
    <2>4. Kept(t, n, h \cup msgs, t \in over, used'.faults)
      BY <1>3, <1>4, <1>7, <2>2, <2>3, KeptWith
    <2> QED BY <1>3, <2>1, <2>4
  <1>8. CASE AskAgain(t)
    <2>1. n.pc = r.pc BY <1>1, <1>8 DEF AskAgain, Run
    <2>2. t \notin mixed BY <1>8 DEF AskAgain
    <2>3. r.pc \in InFlow BY <1>8 DEF AskAgain, InFlow
    <2>4. agent' = [agent EXCEPT !.history = Said(t, {"other"})] BY <1>8 DEF AskAgain
    <2> QED BY <1>7, <2>1, <2>2, <2>3, <2>4
  <1>9. CASE PlanMade(t)
    <2>1. n.pc = "steps" BY <1>1, <1>9 DEF PlanMade, Run
    <2>2. t \notin mixed /\ r.pc = "planning" BY <1>9 DEF PlanMade
    <2>3. agent' = [agent EXCEPT !.history = Said(t, {"other"})] BY <1>9 DEF PlanMade
    <2> QED BY <1>7, <2>1, <2>2, <2>3 DEF InFlow, Asking
  <1>10. CASE ContentMade(t)
    <2> DEFINE obj == [runs[t].obj EXCEPT !.content = @ + 1]
               x == [runs[t] EXCEPT !.obj = obj, !.tries = 0]
               e == [x EXCEPT !.pc = "evaluating"]
    <2>1. runs' = [runs EXCEPT ![t] = IF obj.content < Contents THEN x ELSE e]
      BY <1>10 DEF ContentMade
    <2>2. x.pc = r.pc /\ e.pc = "evaluating"
      <3> HIDE DEF obj
      <3> QED BY <1>1 DEF Run
    <2>3. obj.content < Contents =>
              mixed' = mixed \cup Beside(t) /\ agent' = [agent EXCEPT !.history = Said(t, {"other", "prompt"})]
      BY <1>10 DEF ContentMade
    <2>4. r.pc = "content" BY <1>10 DEF ContentMade
    <2> HIDE DEF x, e, obj
    <2>5. obj.content < Contents /\ n.pc = r.pc
      <3>1. n = IF obj.content < Contents THEN x ELSE e BY <1>1, <2>1
      <3> QED BY <2>2, <3>1 DEF InFlow, Asking
    <2> QED BY <1>7, <2>3, <2>4, <2>5 DEF InFlow, Asking
  <1>11. CASE CarriesOn(t)
    <2>1. PICK f \in StepFiles, success \in BOOLEAN, result \in Results :
            Executed(t, f, success, result)
      BY <1>11, StepOutcome
    <2>2. r.pc = "steps" BY <1>11, StepOutcome
    <2> DEFINE x == Ran(t, f, success, result)
    <2>3. /\ runs' = [runs EXCEPT ![t] = x] /\ x.pc \in {"steps", "synthesis"}
          /\ \/ x.pc = "steps" /\ UNCHANGED <<agent, mixed>>
             \/ /\ x.pc = "synthesis"
                /\ agent' = [agent EXCEPT !.history = Said(t, {"results"})]
                /\ mixed' = mixed \cup Beside(t)
      BY <2>1, <2>2, RanIs
    <2> HIDE DEF x
    <2>4. n = x BY <1>1, <2>3
    <2>5. t \notin mixed BY <2>3
    <2>6. Kept(t, r, h, t \in over, used.faults) BY <1>6, <2>2, <2>5 DEF InFlow
    <2>7. CASE x.pc = "steps" /\ UNCHANGED <<agent, mixed>>
      <3>1. h \cup {} = h /\ agent'.history = h BY <2>7
      <3>2. Kept(t, n, h \cup {}, t \in over, used'.faults)
        <4> HIDE DEF r, n, h
        <4>1. r.pc = "synthesis" <=> n.pc = "synthesis" BY <2>2, <2>4, <2>7
        <4> QED BY <1>3, <1>4, <2>6, <4>1, KeptWith
      <3> QED BY <1>3, <3>1, <3>2
    <2>8. CASE x.pc = "synthesis" /\ agent' = [agent EXCEPT !.history = Said(t, {"results"})]
      <3> DEFINE res == [task |-> t, round |-> RoundOf(r.obj), kind |-> "results"]
      <3>1. agent'.history = h \cup {res} BY <1>1, <1>5, <2>8 DEF Said, Msg, Agent
      <3>2. Kept(t, n, h \cup {res}, t \in over, used'.faults)
        <4> HIDE DEF r, n, h
        <4>1. n.pc = "synthesis" BY <2>4, <2>8
        <4> QED BY <1>3, <1>4, <2>6, <4>1, KeptWithResults
      <3> QED BY <1>3, <3>1, <3>2
    <2> QED BY <2>3, <2>7, <2>8
  <1> QED BY <1>8, <1>9, <1>10, <1>11

LEMMA HistoryStep == ASSUME TypeInv, LastInv, HistoryInv, [Next]_vars PROVE HistoryInv'
  <1>1. SUFFICES ASSUME NEW u \in Tasks, runs'[u].pc \in InFlow, u \notin mixed'
                 PROVE  Kept(u, runs'[u], agent'.history, u \in over', used'.faults)
    BY DEF HistoryInv, Kept, Owned, Preceded, RoundOf
  <1>2. CASE Crash
    <2> DEFINE n == [NewRun EXCEPT !.pc = "lost"]
    <2>1. n.pc = "lost" BY DEF NewRun
    <2>2. runs'[u] = (IF runs[u].pc \in Live THEN n ELSE runs[u]) BY <1>2 DEF Crash
    <2> HIDE DEF n
    <2> QED BY <1>1, <2>1, <2>2 DEF Live, InFlow, Asking
  <1>3. CASE UNCHANGED vars BY <1>1, <1>3 DEF vars, HistoryInv
  <1>4. ASSUME NEW t \in Tasks, TaskStep(t)
        PROVE  Kept(u, runs'[u], agent'.history, u \in over', used'.faults)
    <2>1. CASE u = t
      <3>1. Enter(t) \/ AskAgain(t) \/ PlanMade(t) \/ ContentMade(t) \/ CarriesOn(t)
        BY <1>1, <1>4, <2>1, StepsOfFlow
      <3> QED BY <1>1, <2>1, <3>1, EnterOwned, GoesOnOwned
    <2>2. CASE u # t
      <3>1. runs'[u] = runs[u] BY <1>4, <2>2, OthersKept
      <3>2. u \in Beside(t) BY <1>1, <2>2, <3>1 DEF Beside
      <3>3. agent' = agent /\ u \notin mixed BY <1>1, <1>4, <2>2, <3>2, WritesAreTold
      <3>4. u \in over' <=> u \in over
        <4>1. ASSUME CarriesOn(t) PROVE over' = over BY <4>1, StepOutcome
        <4> QED BY <1>4, <2>2, <4>1
                DEF TaskStep, Start, Recover, RunStep, Enter, Refuse, EnterPassed, Answer,
                    AskAgain, FlowEnds, PlanMade, ContentMade, OutputMade, StepOfPlan, CarriesOn,
                    StepRaises, Pass, Revise, Conclude, Fail, End
      <3>5. used.faults \in Nat /\ used'.faults \in Nat /\ used.faults <= used'.faults
        BY <1>4, FaultsGrow
      <3>6. Kept(u, runs[u], agent.history, u \in over, used.faults)
        BY <1>1, <3>1, <3>3 DEF HistoryInv
      <3>7. used'.faults = 0 => used.faults = 0 BY <3>5
      <3> QED BY <3>1, <3>3, <3>4, <3>6, <3>7 DEF Kept, Preceded
    <2> QED BY <2>1, <2>2
  <1> QED BY <1>2, <1>3, <1>4 DEF Next, TaskStep

-----------------------------------------------------------------------------
(* The theorems.                                                           *)

LEMMA InitInv == Init => IInv
  <1> SUFFICES ASSUME Init PROVE IInv OBVIOUS
  <1>1. runs = [t \in Tasks |-> NewRun] /\ \A t \in Tasks : runs[t] = NewRun BY DEF Init
  <1>2. TypeOK
    <2>1. runs \in [Tasks -> Run] BY <1>1, NewRunType
    <2>2. disk \in [Tasks -> DiskEntry]
      <3>1. [life |-> "running", obj |-> NewTask] \in DiskEntry BY NewRunType DEF DiskEntry
      <3> QED BY <3>1 DEF Init
    <2>3. agent \in Agent /\ used \in Counts
      BY Constants DEF Init, Agent, Counts, Sizes, PhasesAssumption, BoundsAssumption
    <2> QED BY <2>1, <2>2, <2>3 DEF Init, TypeOK, DiskEntry, Agent, Counts
  <1>3. TypeInv BY <1>1, <1>2, NewRunType DEF TypeInv
  <1>4. NewRun.pc = "new" /\ NewRun.obj = NewTask BY DEF NewRun
  <1>5. RecordInv BY <1>1, <1>4 DEF RecordInv
  <1>6. LastInv
    <2>1. SUFFICES ASSUME NEW t \in Tasks \ over PROVE LastKept(runs[t], disk[t].obj, used.faults)
      BY DEF LastInv
    <2>2. disk[t].obj = NewTask BY DEF Init
    <2>3. LastKept(NewRun, NewTask, used.faults) BY <1>4, NewKept
    <2> QED BY <1>1, <2>2, <2>3
  <1>7. HistoryInv BY <1>1, <1>4 DEF HistoryInv, InFlow, Asking
  <1> QED BY <1>3, <1>5, <1>6, <1>7 DEF IInv

LEMMA InvStep == IInv /\ [Next]_vars => IInv'
  BY TypeStep, RecordStep, LastStep, HistoryStep DEF IInv

LEMMA Invariance == Spec => []IInv
  BY InitInv, InvStep, PTL DEF Spec

\* Every variable keeps its type: a task's phase is one of the phases or the end of them,
\* its revisions stay within the limit, and the tries within the attempts.
THEOREM TypeCorrect == Spec => []TypeOK
  <1>1. IInv => TypeOK BY DEF IInv, TypeInv
  <1> QED BY <1>1, Invariance, PTL

\* When the results of a plan are put to the model, the manifest tells of every step: for
\* any plans, results and writes that fail (_auto_persist_step_result and its errors).
THEOREM Recording == Spec => []StepsAreRecorded
  <1>1. ASSUME IInv PROVE StepsAreRecorded
    <2> SUFFICES ASSUME NEW t \in Tasks, runs[t].pc = "synthesis", NEW k \in DOMAIN runs[t].plan,
                        \A j \in DOMAIN runs[t].plan : j > k => runs[t].plan[j].id # runs[t].plan[k].id
                 PROVE  LET s == runs[t].plan[k]
                            kind == IF s.success THEN "result" ELSE "error"
                            e == runs[t].files.man[s.id]
                        IN  \/ s.tool = "other" /\ s.success /\ s.result = "none"
                            \/ s.tool = "save_artifact" /\ ~s.success
                            \/ /\ e = [success |-> s.success, artifact |-> Artifact(t, s, kind)]
                               /\ s.tool = "other" => e.artifact \in runs[t].files.art
      BY DEF StepsAreRecorded
    <2>0. TypeInv BY <1>1 DEF IInv
    <2> DEFINE r == runs[t]
               s == r.plan[k]
               a == [round |-> RoundOf(r.obj), id |-> s.id, tool |-> s.tool,
                     kind |-> IF s.success THEN "result" ELSE "error"]
    <2>1. r.plan \in Seq(PlanStep) /\ Len(r.plan) \in Nat BY <2>0, OfTask, PlanType
    <2>2. r.k = Len(r.plan) BY <2>0, OfTask DEF Placed
    <2>3. DOMAIN r.plan = 1..r.k BY <2>1, <2>2, LenProperties
    <2>4. Recorded(r) BY <1>1 DEF IInv, RecordInv
    <2>5. \A j \in k + 1..r.k : r.plan[j].id # s.id BY <2>1, <2>2, <2>3
    <2>6. Reported(r, s) BY <2>3, <2>4, <2>5 DEF Recorded
    <2>7. Round(t) = RoundOf(r.obj) BY DEF Round, RoundOf, Phase
    <2>8. Artifact(t, s, IF s.success THEN "result" ELSE "error") = a BY <2>7 DEF Artifact
    <2>9. [success |-> s.success, artifact |-> a].artifact = a OBVIOUS
    <2> HIDE DEF r, s, a
    <2> QED BY <2>6, <2>8, <2>9 DEF Reported, r, s, a
  <1> QED BY <1>1, Invariance, PTL

\* The model is asked with what belongs to the task and the round, whatever
\* compress_messages leaves out, and a revision is shown the round before it: for any
\* tasks that share the agents, lost processes and rounds that could not be recorded.
THEOREM Prompts == Spec => []PromptsAreRight
  <1>1. ASSUME IInv PROVE PromptsAreRight
    <2> SUFFICES ASSUME NEW t \in Tasks, runs[t].pc \in Asking, t \notin mixed,
                        NEW asked \in Sent(agent.history)
                 PROVE  OwnConversation(t, asked) /\ (t \in over \/ PreviousRound(t, asked))
      BY DEF PromptsAreRight
    <2> DEFINE h == agent.history
    <2>1. Kept(t, runs[t], h, t \in over, used.faults)
      BY <1>1 DEF IInv, HistoryInv, InFlow
    <2>2. asked \subseteq h /\ \A m \in h : m.kind # "other" => m \in asked BY DEF Sent
    <2>3. {m.round : m \in {n \in h : n.kind = "round"}}
          = {m.round : m \in {n \in asked : n.kind = "round"}}
      BY <2>2
    <2>4. Owned(t, runs[t], asked)
      <3>1. \A kind \in {"system", "spec", "prompt", "results"} :
              [task |-> t, round |-> RoundOf(runs[t].obj), kind |-> kind].kind # "other"
        OBVIOUS
      <3> QED BY <2>1, <2>2, <3>1 DEF Kept, Owned
    <2>5. Preceded(runs[t], h, used.faults) => Preceded(runs[t], asked, used.faults)
      BY <2>3 DEF Preceded
    <2>6. Kept(t, runs[t], asked, t \in over, used.faults) BY <2>1, <2>4, <2>5 DEF Kept
    <2> QED BY <2>6, KeptIs
  <1> QED BY <1>1, Invariance, PTL
=============================================================================

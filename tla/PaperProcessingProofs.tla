------------------------ MODULE PaperProcessingProofs ------------------------
(***************************************************************************)
(* Theorems about PaperProcessing for every set of papers and every bound  *)
(* on entries, lost processes and failed reads and writes.                 *)
(***************************************************************************)
EXTENDS PaperProcessing, TLAPS

-----------------------------------------------------------------------------
(* The invariant, part by part.                                            *)

Idx == 1..5
Passed(st, k) == st[Order[k]].status = "PASS"

\* Where the two copies of the sub-steps can differ: at the sub-step whose update
\* is in progress, or failed.
SyncInv ==
    /\ pc \notin UpdatePcs \cup {"ended", "lost"} => mem.steps = state.steps
    /\ pc = "ended" /\ result # "raised" => mem.steps = state.steps
    /\ \A s \in Steps : s # upd.step => mem.steps[s] = state.steps[s]

\* The sub-step in hand.
PlaceInv ==
    /\ pc \in UpdatePcs => i \in Idx /\ upd.step = Order[i]
    /\ pc \in ToolPcs => i \in Idx /\ mem.steps[Order[i]].status = "RUNNING"
    /\ pc \in {"select", "no_candidate", "plan"} => i = 1
    /\ pc \in {"select", "no_candidate", "plan", "loop"} /\ i = 1 => path = NoPaper
    /\ pc = "save_json" => i = 1
    /\ pc \in {"register", "content_saved"} /\ i > 1 => path # NoPaper
    /\ pc = "save_eval" => result \in {"PASS", "REVISE", "BLOCKED"}
    /\ pc = "save_output" => i = 6
    /\ pc \in UpdatePcs => upd.next \in {"loop", "generate", "execute", "plan_blocked",
                                         "eval_blocked"}
    /\ pc \in UpdatePcs /\ upd.next \in {"generate", "execute"} =>
          mem.steps[upd.step].status = "RUNNING"
    /\ pc \in UpdatePcs /\ upd.next = "loop" => mem.steps[upd.step].status = "PASS"

\* The previous values that an update can go back to.
UndoInv ==
    /\ pc = "write_state" => state.steps[upd.step] = upd.state /\ man[upd.step] = upd.man
    /\ pc = "write_manifest" =>
          state.steps[upd.step] = mem.steps[upd.step] /\ man[upd.step] = upd.man
    /\ pc = "write_index" =>
          state.steps[upd.step] = mem.steps[upd.step] /\ man[upd.step] = mem.steps[upd.step]

\* The two files, as long as no update was cut off.
AgreeInv ==
    ~torn =>
        /\ pc \in UpdatePcs => /\ upd.state = upd.man
                               /\ \A s \in Steps : s # upd.step => state.steps[s] = man[s]
        /\ pc = "undo_manifest" => state.steps[upd.step] = upd.state
        /\ pc \notin UpdatePcs /\ ~(pc = "done" /\ result = "raised") => state.steps = man

\* The candidate is the one retrieval offered, and known while it is worked on.
CandInv ==
    /\ offered \in Papers => {mem.cand, state.cand} \subseteq {NoPaper, offered}
    /\ pc \in {"plan", "loop", "save_output"} \cup ToolPcs => mem.cand \in Papers
    /\ pc \in UpdatePcs /\ upd.next \in {"loop", "generate", "execute"} => mem.cand \in Papers

\* Sub-steps that can be believed: they passed in order, all on one paper (the
\* offered one), and their content is in its artifact.
Good(o, a, st) ==
    \A k \in Idx : Passed(st, k) =>
        /\ st[Order[k]].out \in Papers
        /\ Order[k] \in a[st[Order[k]].out]
        /\ st[Order[k]].out = st[Order[1]].out
        /\ o \in Papers => st[Order[k]].out = o
        /\ \A j \in 1..k : Passed(st, j)

Undone == [state.steps EXCEPT ![upd.step] = upd.state]

Trusted ==
    /\ Good(offered, art, mem.steps) /\ Good(offered, art, state.steps)
    /\ pc \in UpdatePcs => Good(offered, art, Undone)

\* Where the workflow is, the sub-steps before have passed and the others not.
Working == {"loop", "save_output"} \cup UpdatePcs \cup ToolPcs
Around ==
    /\ pc \in Working => /\ \A k \in Idx : k < i => Passed(mem.steps, k)
                         /\ i > 1 => path = mem.steps[Order[1]].out
    /\ pc \in UpdatePcs \cup ToolPcs => \A k \in Idx : k > i => ~Passed(mem.steps, k)
    /\ pc \in UpdatePcs /\ upd.next = "loop" => path = mem.steps[Order[1]].out

\* The local artifact, and the one on disk around the sub-step in hand.
Loads == (pc \in {"loop", "save_output"} /\ i > 1) \/ (pc \in UpdatePcs /\ upd.next = "loop")
Target == IF i = 1 THEN mem.cand ELSE path
Loaded ==
    /\ Loads => loc = art[path]
    /\ pc = "register" /\ i > 1 => \A k \in Idx : k < i => Order[k] \in loc
    /\ pc \in {"register", "content_saved"} => Order[i] \in art[Target]

ContentInv == ~demoted => Trusted /\ Around /\ Loaded

IInv ==
    TypeOK /\ SyncInv /\ PlaceInv /\ UndoInv /\ AgreeInv /\ CandInv /\ ContentInv
    /\ OutputIsComplete

-----------------------------------------------------------------------------
(* The order of the sub-steps.                                             *)

LEMMA OrderFacts ==
    /\ Order[1] = "download" /\ Order[2] = "parse" /\ Order[3] = "glossary"
    /\ Order[4] = "translate" /\ Order[5] = "summary" /\ Len(Order) = 5
  BY DEF Order

\* The sub-steps are the elements of the order, each at one place.
LEMMA OrderSteps ==
    /\ Steps = {"download", "parse", "glossary", "translate", "summary"}
    /\ \A k \in Idx : Order[k] \in Steps
    /\ \A j, k \in Idx : Order[j] = Order[k] => j = k
    /\ \A s \in Steps : \E k \in Idx : Order[k] = s
    /\ Idx = {1, 2, 3, 4, 5} /\ Len(Order) = 5
  <1>1. DOMAIN Order = 1..5 BY DEF Order
  <1>2. Idx = {1, 2, 3, 4, 5} BY DEF Idx
  <1>3. Steps = {"download", "parse", "glossary", "translate", "summary"}
    BY <1>1, <1>2, OrderFacts DEF Steps, Idx
  <1> QED BY <1>2, <1>3, OrderFacts
-----------------------------------------------------------------------------
(* Types.                                                                  *)

Updates == [step: Steps, next: LivePcs, state: StepRecords, man: StepRecords]
Statuses == {"not_started", "RUNNING", "PASS", "BLOCKED"}

\* What persist_step sets in memory.
LEMMA Persisted ==
    ASSUME TypeOK, NEW s \in Steps, NEW st \in Statuses, NEW out \in Paths,
           NEW next \in LivePcs, Persist(s, st, out, next)
    PROVE  /\ mem' \in Progress /\ upd' \in Updates /\ pc' = "write_state" /\ pc' \in LivePcs
           /\ mem'.cand = mem.cand
           /\ mem'.steps[s].status = st /\ mem'.steps[s].out = out
           /\ \A t \in Steps : t # s => mem'.steps[t] = mem.steps[t]
           /\ upd'.step = s /\ upd'.next = next
           /\ upd'.state = state.steps[s] /\ upd'.man = man[s]
  <1>1. Rec(st, out) \in StepRecords BY DEF Rec, StepRecords, Statuses
  <1>2. mem \in Progress /\ state \in Progress /\ man \in [Steps -> StepRecords] BY DEF TypeOK
  <1>3. /\ mem' = [mem EXCEPT !.steps[s] = Rec(st, out)]
        /\ upd' = [step |-> s, next |-> next, state |-> state.steps[s], man |-> man[s]]
        /\ pc' = "write_state"
    BY DEF Persist
  <1>4. upd' \in Updates BY <1>2, <1>3 DEF Updates, Progress
  <1>5. mem' \in Progress /\ mem'.cand = mem.cand /\ mem'.steps = [mem.steps EXCEPT ![s] = Rec(st, out)]
    BY <1>1, <1>2, <1>3 DEF Progress
  <1>6. mem.steps \in [Steps -> StepRecords] BY <1>2 DEF Progress
  <1>7. "write_state" \in LivePcs BY DEF LivePcs, UpdatePcs
  <1> QED BY <1>3, <1>4, <1>5, <1>6, <1>7 DEF Rec

\* What an update writes into the two files.
LEMMA Written ==
    ASSUME TypeOK
    PROVE  /\ [state EXCEPT !.steps[upd.step] = mem.steps[upd.step]] \in Progress
           /\ [state EXCEPT !.steps[upd.step] = upd.state] \in Progress
           /\ [man EXCEPT ![upd.step] = mem.steps[upd.step]] \in [Steps -> StepRecords]
           /\ ManifestRestored \in [Steps -> StepRecords]
           /\ upd \in Updates
           /\ Rec("BLOCKED", NoPaper) \in StepRecords
           /\ [mem EXCEPT !.steps[upd.step] = Rec("BLOCKED", NoPaper)] \in Progress
  <1>1. Rec("BLOCKED", NoPaper) \in StepRecords BY DEF Rec, StepRecords, Paths
  <1> QED BY <1>1 DEF TypeOK, Progress, Updates, ManifestRestored

\* A new content of an artifact is a set of sub-steps.
LEMMA Contents ==
    ASSUME NEW parts \in SUBSET Steps, NEW s \in Steps
    PROVE  /\ WithContent(parts, s) \in SUBSET Steps /\ s \in WithContent(parts, s)
           /\ s # "download" => parts \ {"translate"} \subseteq WithContent(parts, s)
           /\ s \notin {"download", "parse"} => parts \subseteq WithContent(parts, s)
  BY DEF WithContent

\* The steps around a failure.
LEMMA FaultTypes ==
    ASSUME TypeOK, Fault \/ NoFault PROVE faults' \in 0..MaxFaults
  BY BoundsAssumption DEF TypeOK, Fault, NoFault

\* The sub-step in hand is one of the five.
LEMMA StepInHand ==
    ASSUME TypeOK, PlaceInv, pc \in ToolPcs \/ (pc = "loop" /\ i <= Len(Order))
    PROVE  i \in Idx /\ Step \in Steps
  <1>1. i \in Idx
    <2>1. CASE pc \in ToolPcs BY <2>1 DEF PlaceInv
    <2>2. CASE i <= Len(Order) BY <2>2, OrderSteps DEF TypeOK, Idx
    <2> QED BY <2>1, <2>2
  <1> QED BY <1>1, OrderSteps DEF Step
\* Every step keeps the types.
LEMMA TypeStep ==
    ASSUME TypeOK, PlaceInv, CandInv, Next
    PROVE  TypeOK'
  <1> USE BoundsAssumption, PapersAssumption DEF history, bounds, files
  <1>0. /\ mem \in Progress /\ state \in Progress /\ man \in [Steps -> StepRecords]
        /\ art \in [Papers -> SUBSET Steps] /\ loc \in SUBSET Steps /\ path \in Paths
        /\ upd \in Updates /\ upd.step \in Steps /\ upd.next \in LivePcs
        /\ NoPaper \in Paths /\ Papers \subseteq Paths
    BY DEF TypeOK, Updates, Paths
  <1>00. /\ mem.cand \in Paths /\ \A s \in Steps : mem.steps[s].out \in Paths
         /\ mem.steps \in [Steps -> StepRecords] /\ state.steps \in [Steps -> StepRecords]
    BY <1>0 DEF Progress, StepRecords
  <1>a. "download" \in Steps /\ {"RUNNING", "PASS", "BLOCKED"} \subseteq Statuses
        /\ {"loop", "generate", "execute", "plan_blocked", "eval_blocked"} \subseteq LivePcs
    BY OrderSteps DEF Statuses, LivePcs, ToolPcs, ExitPcs
  <1>b. \A s \in Steps, st \in {"RUNNING", "PASS", "BLOCKED"}, out \in Paths,
           next \in {"loop", "generate", "execute", "plan_blocked", "eval_blocked"} :
           Persist(s, st, out, next) => mem' \in Progress /\ upd' \in Updates /\ pc' \in LivePcs
    BY <1>a, Persisted
  <1>c. \A s \in Steps, out \in Paths :
           Block(s, out) => mem' \in Progress /\ upd' \in Updates /\ pc' \in LivePcs
    BY <1>b DEF Block
  <1>d. UpdatePcs \cup ToolPcs \cup ExitPcs
          \cup {"load", "select", "no_candidate", "plan", "loop", "ended"} \subseteq LivePcs
    BY DEF LivePcs
  <1>e. ASSUME Fault \/ NoFault PROVE faults' \in 0..MaxFaults BY <1>e, FaultTypes
  <1>1. CASE UpdateStep
    <2>1. CASE WriteState
      <3>1. state' \in Progress BY <1>0, <2>1, Written DEF WriteState
      <3>2. pc' \in LivePcs BY <1>d, <2>1 DEF WriteState, UpdatePcs
      <3> QED BY <1>e, <2>1, <3>1, <3>2 DEF WriteState, TypeOK
    <2>2. CASE WriteManifest
      <3>1. man' \in [Steps -> StepRecords] BY <1>0, <2>2, Written DEF WriteManifest
      <3>2. pc' \in LivePcs BY <1>d, <2>2 DEF WriteManifest, UpdatePcs
      <3> QED BY <1>e, <2>2, <3>1, <3>2 DEF WriteManifest, TypeOK
    <2>3. CASE WriteIndex
      <3>1. pc' \in LivePcs BY <1>0, <1>d, <2>3 DEF WriteIndex, UpdatePcs
      <3>2. i' \in 1..Len(Order) + 1
        <4>1. i \in Idx BY <2>3 DEF PlaceInv, WriteIndex, UpdatePcs
        <4> QED BY <2>3, <4>1, OrderSteps DEF WriteIndex, Following, Idx
      <3> QED BY <1>e, <2>3, <3>1, <3>2 DEF WriteIndex, TypeOK
    <2>4. CASE UndoState
      <3>1. state' \in Progress BY <1>0, <2>4, Written DEF UndoState
      <3>2. pc' \in LivePcs /\ torn' \in BOOLEAN BY <1>d, <2>4 DEF UndoState, UpdatePcs, TypeOK
      <3> QED BY <1>e, <2>4, <3>1, <3>2 DEF UndoState, TypeOK
    <2>5. CASE UndoManifest
      <3>1. man' \in [Steps -> StepRecords] BY <1>0, <2>5, Written DEF UndoManifest
      <3>2. torn' \in BOOLEAN BY <2>5 DEF UndoManifest, TypeOK
      <3>3. mem' \in Progress BY <1>0, <2>5, Written DEF UndoManifest
      <3>4. upd' \in Updates
        <4>1. upd' = upd \/ upd' = [step |-> upd.step, next |-> "plan_blocked",
                                   state |-> state.steps[upd.step], man |-> man'[upd.step]]
          BY <2>5 DEF UndoManifest
        <4> QED BY <1>0, <1>00, <1>a, <3>1, <4>1 DEF Updates
      <3>5. pc' \in LivePcs BY <1>d, <2>5 DEF UndoManifest, UpdatePcs, End
      <3>6. result' \in {"none", "raised", "PASS", "REVISE", "BLOCKED"}
        BY <2>5 DEF UndoManifest, End, TypeOK
      <3> QED BY <1>e, <2>5, <3>1, <3>2, <3>3, <3>4, <3>5, <3>6
           DEF UndoManifest, TypeOK, Updates
    <2> QED BY <1>1, <2>1, <2>2, <2>3, <2>4, <2>5 DEF UpdateStep
  <1>2. CASE Entry
    <2>1. CASE LoadSteps
      <3>1. mem' \in Progress BY <1>0, <1>00, <2>1 DEF LoadSteps, StepsOnDisk, Progress
      <3>2. pc' \in LivePcs BY <1>d, <2>1 DEF LoadSteps, End
      <3>3. i' \in 1..Len(Order) + 1 BY <2>1, OrderSteps DEF LoadSteps
      <3> QED BY <1>0, <1>e, <2>1, <3>1, <3>2, <3>3 DEF LoadSteps, TypeOK, End
    <2>2. CASE SelectCandidate
      <3>1. Selected \subseteq Paths BY <1>0, <1>00 DEF Selected
      <3>2. mem' \in Progress
        BY <1>0, <2>2, <3>1 DEF SelectCandidate, Candidate, Progress
      <3>3. pc' \in LivePcs BY <1>d, <2>2 DEF SelectCandidate, Candidate, End
      <3> QED BY <2>2, <3>2, <3>3 DEF SelectCandidate, TypeOK, End
    <2>3. CASE NoCandidate
      <3>1. mem' \in Progress /\ upd' \in Updates /\ pc' \in LivePcs
        BY <1>0, <1>a, <1>b, <1>d, <2>3 DEF NoCandidate, End
      <3>2. demoted' \in BOOLEAN BY <2>3 DEF NoCandidate, TypeOK
      <3> QED BY <1>e, <2>3, <3>1, <3>2 DEF NoCandidate, TypeOK, End, Updates
    <2>4. CASE SavePlan
      <3>1. pc' \in LivePcs BY <1>d, <2>4 DEF SavePlan, End
      <3> QED BY <1>e, <2>4, <3>1 DEF SavePlan, TypeOK, End
    <2> QED BY <1>2, <2>1, <2>2, <2>3, <2>4 DEF Entry
  <1>3. CASE SubStep
    <2>1. CASE SkipPassed
      <3>1. i \in Idx /\ Step \in Steps BY <2>1, StepInHand DEF SkipPassed
      <3>2. path' \in Paths BY <1>0, <1>00, <2>1, <3>1 DEF SkipPassed
      <3>3. /\ mem' \in Progress /\ upd' \in Updates /\ pc' \in LivePcs
        BY <1>0, <1>00, <1>c, <1>d, <2>1, <3>1 DEF SkipPassed
      <3>4. loc' \in SUBSET Steps
        <4>1. loc' = loc \/ (path' # NoPaper /\ loc' = art[path']) BY <2>1 DEF SkipPassed
        <4>2. path' # NoPaper => path' \in Papers BY <3>2 DEF Paths
        <4> QED BY <1>0, <4>1, <4>2
      <3>5. i' \in 1..Len(Order) + 1
        BY <2>1, <3>1, OrderSteps DEF SkipPassed, Following, TypeOK
      <3>6. demoted' \in BOOLEAN BY <2>1 DEF SkipPassed, TypeOK
      <3> QED BY <1>e, <2>1, <3>2, <3>3, <3>4, <3>5, <3>6 DEF SkipPassed, TypeOK, Updates
    <2>2. CASE StartStep
      <3>1. Step \in Steps BY <2>2, StepInHand DEF StartStep
      <3>2. mem' \in Progress /\ upd' \in Updates /\ pc' \in LivePcs
        <4>1. PICK next \in {"generate", "execute"} : Persist(Step, "RUNNING", NoPaper, next)
          BY <2>2 DEF StartStep
        <4> QED BY <1>0, <1>b, <3>1, <4>1
      <3> QED BY <2>2, <3>2 DEF StartStep, TypeOK, Updates
    <2>3. CASE Generate
      <3>1. Step \in Steps BY <2>3, StepInHand DEF Generate, ToolPcs
      <3>2. mem' \in Progress /\ upd' \in Updates /\ pc' \in LivePcs
        BY <1>0, <1>c, <1>a, <2>3, <3>1 DEF Generate
      <3> QED BY <2>3, <3>2 DEF Generate, TypeOK, Updates
    <2>4. CASE ToolFails
      <3>1. Step \in Steps BY <2>4, StepInHand DEF ToolFails, ToolPcs
      <3>2. mem' \in Progress /\ upd' \in Updates /\ pc' \in LivePcs
        BY <1>0, <1>c, <2>4, <3>1 DEF ToolFails
      <3> QED BY <2>4, <3>2 DEF ToolFails, TypeOK, Updates
    <2>5. CASE Download
      <3>1. mem.cand \in Papers BY <2>5 DEF CandInv, Download, ToolPcs
      <3>2. pdf' \in SUBSET Papers BY <2>5, <3>1 DEF Download, TypeOK
      <3>3. pc' \in LivePcs BY <1>d, <2>5 DEF Download, ToolPcs
      <3> QED BY <2>5, <3>2, <3>3 DEF Download, TypeOK
    <2>6. CASE SaveJson
      <3>1. mem.cand \in Papers /\ Step \in Steps
        BY <2>6, StepInHand DEF CandInv, SaveJson, ToolPcs
      <3>2. art' \in [Papers -> SUBSET Steps] BY <1>0, <1>a, <2>6, <3>1, Contents DEF SaveJson
      <3>3. mem' \in Progress /\ upd' \in Updates /\ pc' \in LivePcs
        BY <1>0, <1>c, <1>d, <2>6, <3>1 DEF SaveJson, ToolPcs
      <3>4. pdf' \in SUBSET Papers BY <2>6 DEF SaveJson, TypeOK
      <3> QED BY <1>e, <2>6, <3>2, <3>3, <3>4 DEF SaveJson, TypeOK, Updates
    <2>7. ASSUME NEW s \in Steps, UpdateArtifact(s) PROVE TypeOK'
      <3>1. path \in Papers BY <1>0, <2>7 DEF UpdateArtifact, Paths
      <3>2. art' \in [Papers -> SUBSET Steps] /\ loc' \in SUBSET Steps
        BY <1>0, <2>7, <3>1, Contents DEF UpdateArtifact
      <3>3. pc' \in LivePcs BY <1>d, <2>7 DEF UpdateArtifact, ToolPcs
      <3> QED BY <2>7, <3>2, <3>3 DEF UpdateArtifact, TypeOK
    <2>8. CASE Parse \/ Glossary \/ Translate \/ Summarize
      BY <2>7, <2>8, OrderSteps DEF Parse, Glossary, Translate, Summarize
    <2>9. CASE RegisterArtifact
      <3>1. mem.cand \in Papers /\ Step \in Steps
        BY <2>9, StepInHand DEF CandInv, RegisterArtifact, ToolPcs
      <3>2. art' \in [Papers -> SUBSET Steps]
        <4>1. \/ art' = art \/ art' = [art EXCEPT ![mem.cand] = {}]
              \/ art' = [art EXCEPT ![path] = loc]
          BY <2>9 DEF RegisterArtifact
        <4> QED BY <1>0, <3>1, <4>1
      <3>3. mem' \in Progress /\ upd' \in Updates /\ pc' \in LivePcs
        BY <1>0, <1>c, <1>d, <2>9, <3>1 DEF RegisterArtifact, ToolPcs
      <3>4. pdf' \in SUBSET Papers BY <2>9 DEF RegisterArtifact, TypeOK
      <3> QED BY <1>e, <2>9, <3>2, <3>3, <3>4 DEF RegisterArtifact, TypeOK, Updates
    <2>10. CASE PassStep
      <3>1. mem.cand \in Papers /\ Step \in Steps
        BY <2>10, StepInHand DEF CandInv, PassStep, ToolPcs
      <3>2. path' \in Paths BY <1>0, <2>10, <3>1 DEF PassStep
      <3>3. mem' \in Progress /\ upd' \in Updates /\ pc' \in LivePcs
        BY <1>0, <1>b, <1>c, <2>10, <3>1, <3>2 DEF PassStep
      <3>4. loc' \in SUBSET Steps
        <4>1. loc' = loc \/ loc' = art[path'] BY <2>10 DEF PassStep
        <4>2. path' \in Papers
          <5>1. i \in Idx BY <2>10, StepInHand DEF PassStep, ToolPcs
          <5>2. CASE i = 1 BY <2>10, <3>1, <5>2, OrderFacts DEF PassStep, Step
          <5>3. CASE i > 1
            <6>1. path # NoPaper BY <2>10, <5>3 DEF PassStep, PlaceInv
            <6>2. Step # "download" BY <5>1, <5>3, OrderFacts DEF Step, Idx
            <6> QED BY <1>0, <2>10, <6>1, <6>2 DEF PassStep, Paths
          <5> QED BY <5>1, <5>2, <5>3 DEF Idx
        <4> QED BY <1>0, <4>1, <4>2
      <3> QED BY <1>e, <2>10, <3>2, <3>3, <3>4 DEF PassStep, TypeOK, Updates
    <2> QED BY <1>3, <2>1, <2>2, <2>3, <2>4, <2>5, <2>6, <2>8, <2>9, <2>10 DEF SubStep
  <1>4. CASE Exit
    <2>1. pc' \in LivePcs \cup {"done", "lost"}
      BY <1>4, <1>d DEF Exit, PlanBlocked, EvalBlocked, AllStepsDone, SaveOutput, SaveFinalPlan,
         Evaluate, SaveEval, Checkpoint, End, ExitPcs, TypeOK
    <2>2. CASE PlanBlocked BY <1>e, <2>1, <2>2 DEF PlanBlocked, TypeOK, End
    <2>3. CASE EvalBlocked BY <1>e, <2>1, <2>3 DEF EvalBlocked, TypeOK, End
    <2>4. CASE AllStepsDone BY <2>1, <2>4 DEF AllStepsDone, TypeOK
    <2>5. CASE SaveOutput
      <3>1. output' \in [paper: Paths, from: Paths, parts: SUBSET Steps]
        BY <1>0, <1>00, <2>5 DEF SaveOutput, TypeOK
      <3> QED BY <1>e, <2>1, <2>5, <3>1 DEF SaveOutput, TypeOK, End
    <2>6. CASE SaveFinalPlan BY <1>e, <2>1, <2>6 DEF SaveFinalPlan, TypeOK, End
    <2>7. CASE Evaluate BY <2>1, <2>7 DEF Evaluate, TypeOK, End
    <2>8. CASE SaveEval
      <3>1. verdict' \in {"none", "PASS", "REVISE", "BLOCKED"} BY <2>8 DEF SaveEval, TypeOK, PlaceInv
      <3> QED BY <1>e, <2>1, <2>8, <3>1 DEF SaveEval, TypeOK, End
    <2>9. CASE Checkpoint
      <3>1. state' \in Progress /\ runs' \in 0..MaxRuns + 1
        BY <1>0, <2>9 DEF Checkpoint, TypeOK
      <3> QED BY <1>e, <2>1, <2>9, <3>1 DEF Checkpoint, TypeOK
    <2> QED BY <1>4, <2>2, <2>3, <2>4, <2>5, <2>6, <2>7, <2>8, <2>9 DEF Exit
  <1>5. CASE ControlRequest BY <1>0, <1>5 DEF ControlRequest, TypeOK
  <1>6. CASE Crash
    <2>1. torn' \in BOOLEAN BY <1>6 DEF Crash, TypeOK
    <2>2. i' \in 1..Len(Order) + 1 BY <1>6, OrderSteps DEF Crash
    <2> QED BY <1>0, <1>6, <2>1, <2>2 DEF Crash, TypeOK
  <1>7. CASE Recover BY <1>0, <1>7, <1>d DEF Recover, TypeOK
  <1> QED BY <1>1, <1>2, <1>3, <1>4, <1>5, <1>6, <1>7 DEF Next, Workflow
-----------------------------------------------------------------------------
(* The kinds of steps, as far as the two files are concerned.              *)

\* An update of the sub-step in hand begins.
Begins(st, out, next) ==
    /\ pc \in {"no_candidate", "loop"} \cup ToolPcs
    /\ i \in Idx
    /\ Persist(Order[i], st, out, next)
    /\ next \in {"generate", "execute"} => st = "RUNNING"
    /\ next = "loop" => st = "PASS"
    /\ pc = "no_candidate" => next = "eval_blocked"
    /\ UNCHANGED <<offered, i, result, state, man, torn>>

\* Nothing happens to the sub-steps.
Rests ==
    /\ pc \notin UpdatePcs \cup {"ended", "lost", "done"}
    /\ pc' \notin UpdatePcs \cup {"lost", "done"}
    /\ mem'.steps = mem.steps
    /\ UNCHANGED <<offered, state, man, upd, torn>>

Nexts == {"loop", "generate", "execute", "plan_blocked", "eval_blocked"}

Updating == \E st \in Statuses, out \in Paths, next \in Nexts : Begins(st, out, next)

LEMMA Kinds ==
    ASSUME TypeOK, PlaceInv, Next
    PROVE  UpdateStep \/ Updating \/ Rests \/ LoadSteps \/ Checkpoint \/ ControlRequest
           \/ Crash \/ Recover
  <1> USE DEF history, bounds, files
  <1>1. /\ {"RUNNING", "PASS", "BLOCKED"} \subseteq Statuses /\ NoPaper \in Paths
        /\ path \in Paths /\ mem.cand \in Paths /\ \A s \in Steps : mem.steps[s].out \in Paths
    BY DEF Statuses, Paths, TypeOK, Progress, StepRecords
  <1>2. ASSUME NEW st \in {"RUNNING", "PASS", "BLOCKED"}, NEW out \in Paths, NEW next \in Nexts,
               Begins(st, out, next)
        PROVE  Updating
    BY <1>1, <1>2 DEF Updating
  <1>3. ASSUME pc \in {"loop"} \cup ToolPcs, Step \in Steps, i \in Idx,
               NEW out \in Paths, Block(Step, out),
               UNCHANGED <<offered, i, result, state, man, torn>>
        PROVE  Updating
    BY <1>2, <1>3 DEF Block, Begins, Nexts, Step, ToolPcs
  <1>4. CASE SubStep
    <2>0. ASSUME pc \in ToolPcs PROVE i \in Idx /\ Step \in Steps BY <2>0, StepInHand
    <2>1. CASE SkipPassed
      <3>1. i \in Idx /\ Step \in Steps BY <2>1, StepInHand DEF SkipPassed
      <3>2. CASE pc' = "loop" /\ mem' = mem /\ upd' = upd
        BY <2>1, <3>2 DEF SkipPassed, Rests, UpdatePcs
      <3>3. CASE Block(Step, mem.steps[Step].out)
        <4>1. i' = i BY <2>1, <3>3 DEF SkipPassed, Block, Persist
        <4> QED BY <1>1, <1>3, <2>1, <3>1, <3>3, <4>1 DEF SkipPassed
      <3> QED BY <2>1, <3>2, <3>3 DEF SkipPassed
    <2>2. CASE StartStep
      <3>1. i \in Idx /\ Step \in Steps BY <2>2, StepInHand DEF StartStep
      <3>2. PICK next \in {"generate", "execute"} : Persist(Step, "RUNNING", NoPaper, next)
        BY <2>2 DEF StartStep
      <3>3. Begins("RUNNING", NoPaper, next) BY <2>2, <3>1, <3>2 DEF StartStep, Begins, Step
      <3> QED BY <1>1, <1>2, <3>3 DEF Nexts
    <2>3. CASE Generate
      <3>1. CASE pc' = "execute" /\ mem' = mem /\ upd' = upd
        BY <2>3, <3>1 DEF Generate, Rests, UpdatePcs
      <3>2. CASE Block(Step, NoPaper)
        BY <1>1, <1>3, <2>0, <2>3, <3>2 DEF Generate, ToolPcs
      <3> QED BY <2>3, <3>1, <3>2 DEF Generate
    <2>4. CASE ToolFails BY <1>1, <1>3, <2>0, <2>4 DEF ToolFails, ToolPcs
    <2>5. CASE Download BY <2>5 DEF Download, Rests, UpdatePcs
    <2>6. CASE SaveJson
      <3>1. CASE pc' = "register" /\ mem' = mem /\ upd' = upd
        BY <2>6, <3>1 DEF SaveJson, Rests, UpdatePcs
      <3>2. CASE Block(Step, NoPaper)
        BY <1>1, <1>3, <2>0, <2>6, <3>2 DEF SaveJson, ToolPcs
      <3> QED BY <2>6, <3>1, <3>2 DEF SaveJson
    <2>7. CASE Parse \/ Glossary \/ Translate \/ Summarize
      BY <2>7 DEF Parse, Glossary, Translate, Summarize, UpdateArtifact, Rests, UpdatePcs
    <2>8. CASE RegisterArtifact
      <3>1. CASE pc' = "content_saved" /\ mem' = mem /\ upd' = upd
        BY <2>8, <3>1 DEF RegisterArtifact, Rests, UpdatePcs
      <3>2. CASE Block(Step, NoPaper)
        BY <1>1, <1>3, <2>0, <2>8, <3>2 DEF RegisterArtifact, ToolPcs
      <3> QED BY <2>8, <3>1, <3>2 DEF RegisterArtifact
    <2>9. CASE PassStep
      <3>1. i \in Idx /\ Step \in Steps BY <2>0, <2>9 DEF PassStep, ToolPcs
      <3>2. path' \in Paths BY <1>1, <2>9 DEF PassStep
      <3>3. CASE Persist(Step, "PASS", path', "loop")
        <4>1. Begins("PASS", path', "loop") BY <2>9, <3>1, <3>3 DEF PassStep, Begins, Step, ToolPcs
        <4> QED BY <1>2, <3>2, <4>1 DEF Nexts
      <3>4. CASE Block(Step, NoPaper)
        BY <1>1, <1>3, <2>9, <3>1, <3>4 DEF PassStep, ToolPcs
      <3> QED BY <2>9, <3>3, <3>4 DEF PassStep
    <2> QED BY <1>4, <2>1, <2>2, <2>3, <2>4, <2>5, <2>6, <2>7, <2>8, <2>9 DEF SubStep
  <1>5. CASE SelectCandidate
    <2>1. mem'.steps = mem.steps BY <1>5 DEF SelectCandidate, Candidate, TypeOK, Progress
    <2> QED BY <1>5, <2>1 DEF SelectCandidate, Candidate, End, Rests, UpdatePcs
  <1>6. CASE NoCandidate
    <2>1. i = 1 /\ i \in Idx /\ Order[i] = "download" /\ "eval_blocked" \in Nexts
      BY <1>6, OrderFacts, OrderSteps DEF NoCandidate, PlaceInv, Nexts
    <2>2. CASE Persist("download", "BLOCKED", NoPaper, "eval_blocked")
      <3>1. result' = result BY <1>6, <2>2 DEF NoCandidate, Persist, End
      <3>2. Begins("BLOCKED", NoPaper, "eval_blocked") BY <1>6, <2>1, <2>2, <3>1 DEF NoCandidate, Begins
      <3> QED BY <1>1, <1>2, <2>1, <3>2
    <2>3. CASE pc' = "ended" /\ mem' = mem /\ upd' = upd
      BY <1>6, <2>3 DEF NoCandidate, Rests, UpdatePcs
    <2> QED BY <1>6, <2>2, <2>3 DEF NoCandidate, End
  <1>7. CASE SavePlan BY <1>7 DEF SavePlan, End, Rests, UpdatePcs
  <1>8. CASE PlanBlocked \/ EvalBlocked \/ AllStepsDone \/ SaveOutput \/ SaveFinalPlan \/ Evaluate
             \/ SaveEval
    BY <1>8 DEF PlanBlocked, EvalBlocked, AllStepsDone, SaveOutput, SaveFinalPlan, Evaluate,
       SaveEval, End, Rests, UpdatePcs
  <1> QED BY <1>4, <1>5, <1>6, <1>7, <1>8 DEF Next, Workflow, Entry, Exit
-----------------------------------------------------------------------------
(* The two files.                                                          *)

LEMMA SameSteps ==
    ASSUME NEW f \in [Steps -> StepRecords], NEW g \in [Steps -> StepRecords], NEW s \in Steps,
           f[s] = g[s], \A t \in Steps : t # s => f[t] = g[t]
    PROVE  f = g
  OBVIOUS

\* What the five steps of an update do to the copies of the sub-steps.
LEMMA Effects ==
    ASSUME TypeOK, UpdateStep
    PROVE  LET s == upd.step IN
           /\ s \in Steps
           /\ mem.steps \in [Steps -> StepRecords] /\ state.steps \in [Steps -> StepRecords]
           /\ man \in [Steps -> StepRecords] /\ man' \in [Steps -> StepRecords]
           /\ \A t \in Steps : t # s =>
                 mem'.steps[t] = mem.steps[t] /\ state'.steps[t] = state.steps[t] /\ man'[t] = man[t]
           /\ WriteState /\ pc' = "write_manifest" => state'.steps[s] = mem.steps[s]
           /\ WriteManifest /\ pc' = "write_index" => man'[s] = mem.steps[s]
           /\ UndoState => state'.steps[s] = upd.state \/ torn'
           /\ UndoManifest => man'[s] = upd.man \/ torn'
           /\ upd'.step = s
  <1> USE DEF history, bounds, files
  <1>1. /\ upd \in Updates /\ upd.step \in Steps /\ mem \in Progress /\ state \in Progress
        /\ man \in [Steps -> StepRecords] /\ Rec("BLOCKED", NoPaper) \in StepRecords
    BY Written DEF TypeOK, Updates
  <1>2. mem.steps \in [Steps -> StepRecords] /\ state.steps \in [Steps -> StepRecords]
    BY <1>1 DEF Progress
  <1>3. CASE WriteState
    <2>1. state' = state \/ state' = [state EXCEPT !.steps[upd.step] = mem.steps[upd.step]]
      BY <1>3 DEF WriteState
    <2> QED BY <1>1, <1>2, <1>3, <2>1 DEF WriteState, WriteManifest, UndoState, UndoManifest, Progress
  <1>4. CASE WriteManifest
    BY <1>1, <1>2, <1>4 DEF WriteState, WriteManifest, UndoState, UndoManifest
  <1>5. CASE WriteIndex
    BY <1>1, <1>2, <1>5 DEF WriteState, WriteManifest, WriteIndex, UndoState, UndoManifest
  <1>6. CASE UndoState
    BY <1>1, <1>2, <1>6 DEF WriteState, WriteManifest, UndoState, UndoManifest, Progress
  <1>7. CASE UndoManifest
    <2>1. mem' = mem \/ mem' = [mem EXCEPT !.steps[upd.step] = Rec("BLOCKED", NoPaper)]
      BY <1>7 DEF UndoManifest
    <2>2. man' = man \/ man' = [man EXCEPT ![upd.step] = upd.man]
      BY <1>7 DEF UndoManifest, ManifestRestored
    <2>3. upd'.step = upd.step BY <1>7 DEF UndoManifest
    <2>4. man' \in [Steps -> StepRecords] BY <1>1, <1>2, <2>2 DEF Updates
    <2>5. man'[upd.step] = upd.man \/ torn'
      BY <1>1, <1>7 DEF UndoManifest, ManifestRestored
    <2>6. \A t \in Steps : t # upd.step => mem'.steps[t] = mem.steps[t] /\ man'[t] = man[t]
      BY <1>1, <1>2, <2>1, <2>2 DEF Progress
    <2> QED BY <1>1, <1>2, <1>7, <2>3, <2>4, <2>5, <2>6
         DEF WriteState, WriteManifest, UndoState, UndoManifest
  <1> QED BY <1>3, <1>4, <1>5, <1>6, <1>7 DEF UpdateStep
\* The sub-steps in memory, in task_state.json and in the manifest move together.
LEMMA FilesStep ==
    ASSUME TypeOK, TypeOK', SyncInv, PlaceInv, UndoInv, AgreeInv, Next
    PROVE  SyncInv' /\ UndoInv' /\ AgreeInv'
  <1> USE DEF history, bounds, files
  <1>0. /\ mem.steps \in [Steps -> StepRecords] /\ state.steps \in [Steps -> StepRecords]
        /\ man \in [Steps -> StepRecords] /\ man' \in [Steps -> StepRecords]
        /\ mem'.steps \in [Steps -> StepRecords] /\ state'.steps \in [Steps -> StepRecords]
        /\ upd.step \in Steps /\ upd'.step \in Steps
    BY DEF TypeOK, Progress
  <1>1. CASE UpdateStep
    <2> DEFINE s == upd.step
    <2>0. /\ \A t \in Steps : t # s =>
                mem'.steps[t] = mem.steps[t] /\ state'.steps[t] = state.steps[t] /\ man'[t] = man[t]
          /\ WriteState /\ pc' = "write_manifest" => state'.steps[s] = mem.steps[s]
          /\ WriteManifest /\ pc' = "write_index" => man'[s] = mem.steps[s]
          /\ UndoState => state'.steps[s] = upd.state \/ torn'
          /\ UndoManifest => man'[s] = upd.man \/ torn'
          /\ upd'.step = s /\ s \in Steps
      BY <1>1, Effects
    <2>1. \A t \in Steps : t # upd'.step => mem'.steps[t] = state'.steps[t]
      BY <2>0 DEF SyncInv
    <2>2. pc \in UpdatePcs
      BY <1>1 DEF UpdateStep, WriteState, WriteManifest, WriteIndex, UndoState, UndoManifest, UpdatePcs
    <2>3. CASE WriteState
      <3>1. pc' \in {"write_manifest", "undo_state"} /\ mem' = mem /\ upd' = upd /\ man' = man
            /\ torn' = torn /\ pc = "write_state"
        BY <2>3 DEF WriteState
      <3>2. SyncInv' BY <2>1, <3>1 DEF SyncInv, UpdatePcs
      <3>3. UndoInv' BY <2>0, <2>3, <3>1 DEF UndoInv
      <3>4. AgreeInv' BY <2>0, <2>2, <3>1 DEF AgreeInv, UpdatePcs
      <3> QED BY <3>2, <3>3, <3>4
    <2>4. CASE WriteManifest
      <3>1. pc' \in {"write_index", "undo_state"} /\ mem' = mem /\ upd' = upd /\ state' = state
            /\ torn' = torn /\ pc = "write_manifest"
        BY <2>4 DEF WriteManifest
      <3>2. SyncInv' BY <2>1, <3>1 DEF SyncInv, UpdatePcs
      <3>3. UndoInv' BY <2>0, <2>4, <3>1 DEF UndoInv
      <3>4. AgreeInv' BY <2>0, <2>2, <3>1 DEF AgreeInv, UpdatePcs
      <3> QED BY <3>2, <3>3, <3>4
    <2>5. CASE WriteIndex
      <3>1. /\ mem' = mem /\ upd' = upd /\ state' = state /\ man' = man
            /\ torn' = torn /\ pc = "write_index" /\ (pc' = upd.next \/ pc' = "undo_state")
        BY <2>5 DEF WriteIndex
      <3>2. mem.steps = state.steps
        BY <1>0, <3>1, SameSteps DEF SyncInv, UndoInv
      <3>3. pc' = "undo_state" \/ pc' \in Nexts BY <2>2, <3>1 DEF PlaceInv, Nexts
      <3>4. SyncInv' BY <2>1, <3>1, <3>2 DEF SyncInv
      <3>5. UndoInv' BY <3>1, <3>3 DEF UndoInv, Nexts
      <3>6. ~torn => state.steps = man
        <4>1. ~torn => state.steps[s] = man[s] /\ \A t \in Steps : t # s => state.steps[t] = man[t]
          BY <2>2, <3>1 DEF UndoInv, AgreeInv
        <4> QED BY <1>0, <4>1, SameSteps
      <3>7. AgreeInv' BY <2>2, <3>1, <3>3, <3>6 DEF AgreeInv, Nexts
      <3> QED BY <3>4, <3>5, <3>7
    <2>6. CASE UndoState
      <3>1. /\ mem' = mem /\ upd' = upd /\ man' = man /\ pc = "undo_state"
            /\ pc' = "undo_manifest" /\ (torn' = torn \/ torn')
        BY <2>6 DEF UndoState
      <3>2. SyncInv' BY <2>1, <3>1 DEF SyncInv, UpdatePcs
      <3>3. UndoInv' BY <3>1 DEF UndoInv
      <3>4. AgreeInv' BY <2>0, <2>2, <2>6, <3>1 DEF AgreeInv, UpdatePcs
      <3> QED BY <3>2, <3>3, <3>4
    <2>7. CASE UndoManifest
      <3>1. /\ state' = state /\ pc = "undo_manifest" /\ (torn' = torn \/ torn')
            /\ \/ pc' = "write_state" /\ upd'.state = state.steps[s] /\ upd'.man = man'[s]
               \/ pc' = "ended" /\ result' = "raised" /\ mem' = mem /\ upd' = upd
        BY <2>7 DEF UndoManifest, End
      <3>2. SyncInv' BY <2>1, <3>1 DEF SyncInv, UpdatePcs
      <3>3. UndoInv' BY <2>0, <3>1 DEF UndoInv
      <3>4. ~torn' => state.steps = man'
        <4>1. ~torn' => upd.state = upd.man /\ state.steps[s] = upd.state
                        /\ \A t \in Steps : t # s => state.steps[t] = man[t]
          BY <2>2, <3>1 DEF AgreeInv
        <4>2. ~torn' => state.steps[s] = man'[s] /\ \A t \in Steps : t # s => state.steps[t] = man'[t]
          BY <2>0, <2>7, <4>1
        <4> QED BY <1>0, <4>2, SameSteps
      <3>5. AgreeInv' BY <2>0, <3>1, <3>4 DEF AgreeInv, UpdatePcs
      <3> QED BY <3>2, <3>3, <3>5
    <2> QED BY <1>1, <2>3, <2>4, <2>5, <2>6, <2>7 DEF UpdateStep
  <1>2. CASE Updating
    <2>1. PICK st \in Statuses, out \in Paths, next \in Nexts : Begins(st, out, next)
      BY <1>2 DEF Updating
    <2>2. Order[i] \in Steps /\ next \in LivePcs
      BY <2>1, OrderSteps DEF Begins, Nexts, LivePcs, ToolPcs, ExitPcs
    <2>3. /\ pc' = "write_state" /\ upd'.step = Order[i]
          /\ \A t \in Steps : t # Order[i] => mem'.steps[t] = mem.steps[t]
          /\ upd'.state = state.steps[Order[i]] /\ upd'.man = man[Order[i]]
      BY <2>1, <2>2, Persisted DEF Begins
    <2>4. pc \notin UpdatePcs \cup {"ended", "lost", "done"} /\ state' = state /\ man' = man
          /\ torn' = torn
      BY <2>1 DEF Begins, ToolPcs, UpdatePcs
    <2>5. SyncInv' BY <2>3, <2>4 DEF SyncInv, UpdatePcs
    <2>6. UndoInv' BY <2>3, <2>4 DEF UndoInv
    <2>7. AgreeInv' BY <2>2, <2>3, <2>4 DEF AgreeInv, UpdatePcs
    <2> QED BY <2>5, <2>6, <2>7
  <1>3. CASE Rests
    <2>1. SyncInv' BY <1>3 DEF SyncInv, Rests
    <2>2. UndoInv' BY <1>3 DEF UndoInv, Rests, UpdatePcs
    <2>3. AgreeInv' BY <1>3 DEF AgreeInv, Rests, UpdatePcs
    <2> QED BY <2>1, <2>2, <2>3
  <1>4. CASE LoadSteps
    <2>1. /\ pc = "load" /\ upd' = upd /\ state' = state /\ man' = man /\ torn' = torn
          /\ \/ pc' = "select" /\ mem'.steps = state.steps
             \/ pc' = "ended" /\ mem' = mem
      BY <1>4 DEF LoadSteps, End, StepsOnDisk, TypeOK, Progress
    <2>2. mem.steps = state.steps BY <2>1 DEF SyncInv, UpdatePcs
    <2> QED BY <2>1, <2>2 DEF SyncInv, UndoInv, AgreeInv, UpdatePcs
  <1>5. CASE Checkpoint
    <2>1. pc = "ended" /\ mem' = mem /\ upd' = upd /\ man' = man /\ torn' = torn
      BY <1>5 DEF Checkpoint
    <2>2. \/ state' = mem /\ result' = result /\ (pc' = "done" \/ (pc' = "load" /\ result = "REVISE"))
          \/ state' = state /\ result' = "raised" /\ pc' \in {"lost", "ended"}
      BY <1>5 DEF Checkpoint
    <2>3. result # "raised" => mem.steps = state.steps BY <2>1 DEF SyncInv
    <2>4. SyncInv' BY <2>1, <2>2 DEF SyncInv, UpdatePcs
    <2>5. UndoInv' BY <2>2 DEF UndoInv
    <2>6. AgreeInv' BY <2>1, <2>2, <2>3 DEF AgreeInv, UpdatePcs
    <2> QED BY <2>4, <2>5, <2>6
  <1>6. CASE ControlRequest
    <2>1. /\ pc \in {"generate", "execute", "evaluate"} /\ pc' = pc /\ state' = mem /\ mem' = mem
          /\ upd' = upd /\ man' = man /\ torn' = torn
      BY <1>6 DEF ControlRequest
    <2>2. mem.steps = state.steps BY <2>1 DEF SyncInv, UpdatePcs
    <2> QED BY <2>1, <2>2 DEF SyncInv, UndoInv, AgreeInv, UpdatePcs
  <1>7. CASE Crash
    <2>1. /\ pc' = "lost" /\ mem' = state /\ state' = state /\ man' = man
          /\ torn' = (torn \/ state.steps # man)
      BY <1>7 DEF Crash
    <2> QED BY <2>1 DEF SyncInv, UndoInv, AgreeInv, UpdatePcs
  <1>8. CASE Recover
    <2>1. /\ pc = "lost" /\ pc' = "load" /\ mem' = state /\ state' = state /\ man' = man
          /\ upd' = upd /\ torn' = torn
      BY <1>8 DEF Recover
    <2> QED BY <2>1 DEF SyncInv, UndoInv, AgreeInv, UpdatePcs
  <1> QED BY <1>1, <1>2, <1>3, <1>4, <1>5, <1>6, <1>7, <1>8, Kinds
-----------------------------------------------------------------------------
(* The place of the workflow.                                              *)

\* Which sub-step is in hand, through the updates and the tools.
LEMMA PlaceStep ==
    ASSUME TypeOK, PlaceInv, SyncInv, Next
    PROVE  PlaceInv'
  <1> USE DEF history, bounds, files
  <1>0. /\ upd.step \in Steps /\ i \in 1..6 /\ "download" = Order[1] /\ 1 \in Idx
        /\ mem \in Progress /\ Len(Order) = 5
        /\ \A k \in Idx : Order[k] = "download" => k = 1
    BY OrderFacts, OrderSteps DEF TypeOK, Idx
  <1>1. CASE UpdateStep
    <2>1. CASE pc' \in UpdatePcs \ {"write_state"} /\ mem' = mem /\ upd' = upd /\ i' = i
               /\ pc \in UpdatePcs
      <3>1. pc' \in {"write_manifest", "write_index", "undo_state", "undo_manifest"}
        BY <2>1 DEF UpdatePcs
      <3> QED BY <2>1, <3>1 DEF PlaceInv, ToolPcs
    <2>2. CASE WriteIndex /\ pc' = upd.next
      <3>1. /\ mem' = mem /\ upd' = upd /\ pc = "write_index" /\ path' = path
            /\ i' = IF upd.next = "loop" THEN i + 1 ELSE i
        BY <2>2 DEF WriteIndex, Following
      <3>2. /\ i \in Idx /\ upd.step = Order[i]
            /\ upd.next \in {"loop", "generate", "execute", "plan_blocked", "eval_blocked"}
            /\ upd.next \in {"generate", "execute"} => mem.steps[Order[i]].status = "RUNNING"
        BY <3>1 DEF PlaceInv, UpdatePcs
      <3> QED BY <2>2, <3>1, <3>2 DEF PlaceInv, ToolPcs, UpdatePcs, Idx
    <2>3. CASE UndoManifest
      <3>1. /\ pc = "undo_manifest" /\ i' = i /\ path' = path
            /\ \/ pc' = "write_state" /\ upd'.step = upd.step /\ upd'.next = "plan_blocked"
               \/ pc' = "ended"
        BY <2>3 DEF UndoManifest, End
      <3>2. i \in Idx /\ upd.step = Order[i] BY <3>1 DEF PlaceInv, UpdatePcs
      <3> QED BY <3>1, <3>2 DEF PlaceInv, ToolPcs, UpdatePcs
    <2>4. CASE WriteState BY <2>1, <2>4 DEF WriteState, UpdatePcs
    <2>5. CASE WriteManifest BY <2>1, <2>5 DEF WriteManifest, UpdatePcs
    <2>6. CASE WriteIndex
      <3>1. pc' = upd.next \/ (pc' = "undo_state" /\ i' = i /\ mem' = mem /\ upd' = upd)
        BY <2>6 DEF WriteIndex
      <3>2. pc \in UpdatePcs /\ "undo_state" \in UpdatePcs BY <2>6 DEF WriteIndex, UpdatePcs
      <3> QED BY <2>1, <2>2, <2>6, <3>1, <3>2
    <2>7. CASE UndoState BY <2>1, <2>7 DEF UndoState, UpdatePcs
    <2> QED BY <1>1, <2>3, <2>4, <2>5, <2>6, <2>7 DEF UpdateStep
  <1>2. CASE Updating
    <2>1. PICK st \in Statuses, out \in Paths, next \in Nexts : Begins(st, out, next)
      BY <1>2 DEF Updating
    <2>2. Order[i] \in Steps /\ next \in LivePcs
      BY <2>1, OrderSteps DEF Begins, Nexts, LivePcs, ToolPcs, ExitPcs
    <2>3. /\ pc' = "write_state" /\ upd'.step = Order[i] /\ upd'.next = next
          /\ mem'.steps[Order[i]].status = st /\ i' = i /\ i \in Idx
          /\ next \in {"generate", "execute"} => st = "RUNNING"
          /\ next = "loop" => st = "PASS"
      BY <2>1, <2>2, Persisted DEF Begins
    <2> QED BY <2>3 DEF PlaceInv, ToolPcs, UpdatePcs, Nexts
  <1>3. CASE Rests
    <2>0. /\ mem'.steps = mem.steps /\ upd' = upd
          /\ pc' \notin UpdatePcs /\ pc \notin UpdatePcs \cup {"ended", "lost", "done"}
      BY <1>3 DEF Rests
    <2>1. CASE pc' \in {"ended", "eval_blocked", "save_plan", "evaluate", "no_candidate", "plan"}
               /\ (pc = "select" \/ pc' \notin {"no_candidate", "plan"}) /\ i' = i /\ path' = path
      BY <2>0, <2>1 DEF PlaceInv, ToolPcs
    <2>2. CASE Entry
      <3>1. CASE SelectCandidate
        BY <2>1, <3>1 DEF SelectCandidate, Candidate, End
      <3>2. CASE NoCandidate BY <2>0, <2>1, <3>2 DEF NoCandidate, End, Persist, UpdatePcs
      <3>3. CASE SavePlan BY <2>0, <3>3 DEF SavePlan, End, PlaceInv, ToolPcs
      <3>4. CASE LoadSteps BY <2>0, <3>4 DEF LoadSteps, End, PlaceInv, ToolPcs
      <3> QED BY <2>2, <3>1, <3>2, <3>3, <3>4 DEF Entry
    <2>3. CASE Exit
      <3>1. CASE PlanBlocked BY <2>0, <2>1, <3>1 DEF PlanBlocked, End
      <3>2. CASE EvalBlocked BY <2>0, <2>1, <3>2 DEF EvalBlocked, End
      <3>3. CASE AllStepsDone BY <1>0, <2>0, <3>3 DEF AllStepsDone, PlaceInv, ToolPcs
      <3>4. CASE SaveOutput BY <2>0, <2>1, <3>4 DEF SaveOutput, End
      <3>5. CASE SaveFinalPlan BY <2>0, <2>1, <3>5 DEF SaveFinalPlan, End
      <3>6. CASE Evaluate BY <2>0, <3>6 DEF Evaluate, End, PlaceInv, ToolPcs
      <3>7. CASE SaveEval BY <2>0, <2>1, <3>7 DEF SaveEval, End
      <3>8. CASE Checkpoint BY <2>0, <3>8 DEF Checkpoint
      <3> QED BY <2>3, <3>1, <3>2, <3>3, <3>4, <3>5, <3>6, <3>7, <3>8 DEF Exit
    <2>4. CASE SubStep
      <3>0. ASSUME Persist(Step, "BLOCKED", NoPaper, "plan_blocked") PROVE FALSE
        BY <2>0, <3>0 DEF Persist, UpdatePcs
      <3>1. CASE SkipPassed
        <4>1. pc = "loop" /\ pc' # "write_state" BY <2>0, <3>1 DEF SkipPassed, UpdatePcs
        <4>2. pc' = "loop" /\ i' = i + 1
          BY <3>1, <4>1 DEF SkipPassed, Following, Block, Persist
        <4> QED BY <1>0, <2>0, <4>2 DEF PlaceInv, ToolPcs
      <3>2. CASE StartStep BY <2>0, <3>2 DEF StartStep, Persist, UpdatePcs
      <3>3. CASE Generate
        <4>1. pc = "generate" /\ pc' = "execute" /\ i' = i
          BY <3>0, <3>3 DEF Generate, Block
        <4> QED BY <2>0, <4>1 DEF PlaceInv, ToolPcs
      <3>4. CASE ToolFails BY <3>0, <3>4 DEF ToolFails, Block
      <3>5. CASE Download
        <4>1. pc = "execute" /\ pc' = "save_json" /\ i' = i /\ Order[i] = "download"
          BY <3>5 DEF Download, Step
        <4> QED BY <1>0, <2>0, <4>1 DEF PlaceInv, ToolPcs
      <3>6. CASE SaveJson
        <4>1. pc = "save_json" /\ pc' = "register" /\ i' = i
          BY <3>0, <3>6 DEF SaveJson, Block
        <4> QED BY <1>0, <2>0, <4>1 DEF PlaceInv, ToolPcs
      <3>7. CASE Parse \/ Glossary \/ Translate \/ Summarize
        <4>1. pc = "execute" /\ pc' = "register" /\ i' = i /\ path' = path /\ path # NoPaper
          BY <3>7 DEF Parse, Glossary, Translate, Summarize, UpdateArtifact
        <4> QED BY <1>0, <2>0, <4>1 DEF PlaceInv, ToolPcs
      <3>8. CASE RegisterArtifact
        <4>1. pc = "register" /\ pc' = "content_saved" /\ i' = i /\ path' = path
          BY <3>0, <3>8 DEF RegisterArtifact, Block
        <4> QED BY <1>0, <2>0, <4>1 DEF PlaceInv, ToolPcs
      <3>9. CASE PassStep BY <2>0, <3>9 DEF PassStep, Block, Persist, UpdatePcs
      <3> QED BY <2>4, <3>1, <3>2, <3>3, <3>4, <3>5, <3>6, <3>7, <3>8, <3>9 DEF SubStep
    <2>5. CASE UpdateStep
      BY <2>0, <2>5 DEF UpdateStep, WriteState, WriteManifest, WriteIndex, UndoState, UndoManifest,
         UpdatePcs
    <2>6. CASE ControlRequest BY <2>0, <2>6 DEF ControlRequest, PlaceInv, ToolPcs
    <2>7. CASE Crash BY <2>7 DEF Crash, PlaceInv, ToolPcs, UpdatePcs
    <2>8. CASE Recover BY <2>0, <2>8 DEF Recover
    <2> QED BY <2>2, <2>3, <2>4, <2>5, <2>6, <2>7, <2>8 DEF Next, Workflow
  <1>4. CASE LoadSteps
    <2>1. i' = 1 /\ path' = NoPaper /\ pc' \in {"select", "ended"} BY <1>4 DEF LoadSteps, End
    <2> QED BY <2>1 DEF PlaceInv, ToolPcs, UpdatePcs
  <1>5. CASE Checkpoint
    <2>1. pc' \in {"load", "done", "lost", "ended"} BY <1>5 DEF Checkpoint
    <2> QED BY <2>1 DEF PlaceInv, ToolPcs, UpdatePcs
  <1>6. CASE ControlRequest
    <2>1. /\ pc' = pc /\ i' = i /\ path' = path /\ upd' = upd /\ mem' = mem /\ result' = result
      BY <1>6 DEF ControlRequest
    <2> QED BY <2>1 DEF PlaceInv
  <1>7. CASE Crash
    <2>1. pc' = "lost" BY <1>7 DEF Crash
    <2> QED BY <2>1 DEF PlaceInv, ToolPcs, UpdatePcs
  <1>8. CASE Recover
    <2>1. pc' = "load" BY <1>8 DEF Recover
    <2> QED BY <2>1 DEF PlaceInv, ToolPcs, UpdatePcs
  <1> QED BY <1>1, <1>2, <1>3, <1>4, <1>5, <1>6, <1>7, <1>8, Kinds

\* The candidate stays the one that retrieval offered.
LEMMA CandStep ==
    ASSUME TypeOK, PlaceInv, CandInv, Next
    PROVE  CandInv'
  <1> USE DEF history, bounds, files
  <1>0. /\ offered' = offered /\ mem.cand \in Paths /\ (offered \in Papers => offered # "legacy")
        /\ \A c \in Paths : c # NoPaper => c \in Papers
    <2>1. offered' = offered
      BY DEF Next, Workflow, UpdateStep, SubStep, Entry, Exit, WriteState, WriteManifest, WriteIndex,
         UndoState, UndoManifest, LoadSteps, SelectCandidate, NoCandidate, SavePlan, SkipPassed,
         StartStep, Generate, ToolFails, Download, SaveJson, Parse, Glossary, Translate, Summarize,
         UpdateArtifact, RegisterArtifact, PassStep, PlanBlocked, EvalBlocked, AllStepsDone,
         SaveOutput, SaveFinalPlan, Evaluate, SaveEval, Checkpoint, ControlRequest, Crash, Recover
    <2> QED BY <2>1, PapersAssumption DEF TypeOK, Progress, Paths
  <1>1. CASE UpdateStep
    <2>1. mem'.cand = mem.cand /\ state'.cand = state.cand
      BY <1>1 DEF UpdateStep, WriteState, WriteManifest, WriteIndex, UndoState, UndoManifest, TypeOK,
         Progress
    <2>2. pc \in UpdatePcs
      BY <1>1 DEF UpdateStep, WriteState, WriteManifest, WriteIndex, UndoState, UndoManifest,
         UpdatePcs
    <2>3. \/ pc' \in UpdatePcs /\ (upd' = upd \/ upd'.next = "plan_blocked")
          \/ pc' \in Nexts /\ pc' = upd.next
          \/ pc' = "ended"
      BY <1>1, <2>2 DEF UpdateStep, WriteState, WriteManifest, WriteIndex, UndoState, UndoManifest,
         UpdatePcs, End, PlaceInv, Nexts
    <2> QED BY <1>0, <2>1, <2>2, <2>3 DEF CandInv, UpdatePcs, ToolPcs, Nexts
  <1>2. CASE Updating
    <2>1. PICK st \in Statuses, out \in Paths, next \in Nexts : Begins(st, out, next)
      BY <1>2 DEF Updating
    <2>2. Order[i] \in Steps /\ next \in LivePcs
      BY <2>1, OrderSteps DEF Begins, Nexts, LivePcs, ToolPcs, ExitPcs
    <2>3. /\ pc' = "write_state" /\ upd'.next = next /\ mem'.cand = mem.cand /\ state' = state
          /\ pc \in {"no_candidate", "loop"} \cup ToolPcs
          /\ pc = "no_candidate" => next = "eval_blocked"
      BY <2>1, <2>2, Persisted DEF Begins
    <2> QED BY <1>0, <2>3 DEF CandInv, UpdatePcs, ToolPcs
  <1>3. CASE SelectCandidate
    <2>1. state' = state BY <1>3 DEF SelectCandidate
    <2>2. CASE pc' = "ended" /\ mem' = mem
      BY <1>0, <2>1, <2>2 DEF CandInv, ToolPcs, UpdatePcs
    <2>3. CASE \E c \in Paths : Candidate(c) /\ (offered \in Papers => c \in {NoPaper, offered})
      <3>1. PICK c \in Paths : Candidate(c) /\ (offered \in Papers => c \in {NoPaper, offered})
        BY <2>3
      <3>2. mem'.cand = c /\ pc' \in {"no_candidate", "plan"} /\ (pc' = "plan" => c # NoPaper)
        BY <3>1 DEF Candidate, TypeOK, Progress
      <3> QED BY <1>0, <2>1, <3>1, <3>2 DEF CandInv, ToolPcs, UpdatePcs
    <2>4. Selected \subseteq Paths /\ (offered \in Papers => Selected = {offered})
      <3>1. Selected \subseteq Paths BY <1>0 DEF Selected, Paths
      <3>2. offered \in Papers => mem.cand \in {NoPaper, offered} BY DEF CandInv
      <3> QED BY <3>1, <3>2 DEF Selected
    <2> QED BY <1>0, <1>3, <2>2, <2>3, <2>4 DEF SelectCandidate, End
  <1>4. CASE Rests /\ ~SelectCandidate
    <2>1. mem'.cand = mem.cand /\ state' = state
      <3>0. pc' # "write_state" /\ pc \notin {"lost", "ended"} /\ pc \notin UpdatePcs /\ pc' # "lost"
            /\ state' = state
        BY <1>4 DEF Rests, UpdatePcs
      <3>1. CASE SubStep
        BY <3>0, <3>1 DEF SubStep, SkipPassed, StartStep, Generate, ToolFails, Download, SaveJson,
           Parse, Glossary, Translate, Summarize, UpdateArtifact, RegisterArtifact, PassStep, Block,
           Persist
      <3>2. CASE Entry
        BY <1>4, <3>0, <3>2 DEF Entry, LoadSteps, NoCandidate, SavePlan, Persist, TypeOK, Progress
      <3>3. CASE Exit
        BY <3>0, <3>3 DEF Exit, PlanBlocked, EvalBlocked, AllStepsDone, SaveOutput, SaveFinalPlan,
           Evaluate, SaveEval, Checkpoint
      <3>4. CASE UpdateStep
        BY <3>0, <3>4 DEF UpdateStep, WriteState, WriteManifest, WriteIndex, UndoState, UndoManifest,
           UpdatePcs
      <3>5. CASE ControlRequest \/ Crash \/ Recover
        BY <3>0, <3>5 DEF ControlRequest, Crash, Recover
      <3> QED BY <3>1, <3>2, <3>3, <3>4, <3>5 DEF Next, Workflow
    <2>2. pc' \notin UpdatePcs /\ pc \notin UpdatePcs \cup {"ended", "lost", "done"}
      BY <1>4 DEF Rests
    <2>3. pc' \in {"plan", "loop", "save_output"} \cup ToolPcs
            => pc \in {"plan", "loop", "save_output"} \cup ToolPcs
      <3>1. CASE SubStep
        BY <3>1 DEF SubStep, SkipPassed, StartStep, Generate, ToolFails, Download, SaveJson, Parse,
           Glossary, Translate, Summarize, UpdateArtifact, RegisterArtifact, PassStep, ToolPcs
      <3>2. CASE Entry
        BY <1>4, <2>2, <3>2 DEF Entry, LoadSteps, NoCandidate, SavePlan, End, Persist, ToolPcs, UpdatePcs
      <3>3. CASE Exit
        BY <2>2, <3>3 DEF Exit, PlanBlocked, EvalBlocked, AllStepsDone, SaveOutput, SaveFinalPlan,
           Evaluate, SaveEval, Checkpoint, End, ToolPcs
      <3>4. CASE UpdateStep
        BY <2>2, <3>4 DEF UpdateStep, WriteState, WriteManifest, WriteIndex, UndoState, UndoManifest,
           UpdatePcs
      <3>5. CASE ControlRequest \/ Crash \/ Recover
        BY <2>2, <3>5 DEF ControlRequest, Crash, Recover, ToolPcs
      <3> QED BY <3>1, <3>2, <3>3, <3>4, <3>5 DEF Next, Workflow
    <2> QED BY <1>0, <2>1, <2>2, <2>3 DEF CandInv
  <1>5. CASE LoadSteps
    <2>1. mem'.cand = mem.cand /\ state' = state /\ pc' \in {"select", "ended"}
      BY <1>5 DEF LoadSteps, End, TypeOK, Progress
    <2> QED BY <1>0, <2>1 DEF CandInv, ToolPcs, UpdatePcs
  <1>6. CASE Checkpoint
    <2>1. mem' = mem /\ state' \in {mem, state} /\ pc' \in {"load", "done", "lost", "ended"}
      BY <1>6 DEF Checkpoint
    <2> QED BY <1>0, <2>1 DEF CandInv, ToolPcs, UpdatePcs
  <1>7. CASE ControlRequest
    <2>1. mem' = mem /\ state' = mem /\ pc' = pc /\ upd' = upd BY <1>7 DEF ControlRequest
    <2> QED BY <1>0, <2>1 DEF CandInv
  <1>8. CASE Crash \/ Recover
    <2>1. mem' = state /\ state' = state /\ pc' \in {"lost", "load"} BY <1>8 DEF Crash, Recover
    <2> QED BY <1>0, <2>1 DEF CandInv, ToolPcs, UpdatePcs
  <1> QED BY <1>1, <1>2, <1>3, <1>4, <1>5, <1>6, <1>7, <1>8, Kinds
-----------------------------------------------------------------------------
(* Sub-steps that can be believed.                                         *)

\* A sub-step that has not passed has no passed one behind it.
LEMMA GoodRest ==
    ASSUME NEW o, NEW a, NEW st, NEW n \in Idx, Good(o, a, st), ~Passed(st, n)
    PROVE  \A k \in Idx : k > n => ~Passed(st, k)
  BY DEF Good, Idx

\* The last passed sub-step may be taken back.
LEMMA GoodDrop ==
    ASSUME NEW o, NEW a, NEW st, NEW st2, NEW n \in Idx, Good(o, a, st),
           \A k \in Idx : k > n => ~Passed(st, k),
           ~Passed(st2, n), \A t \in Steps : t # Order[n] => st2[t] = st[t]
    PROVE  Good(o, a, st2)
  <1>1. \A k \in Idx : k # n => st2[Order[k]] = st[Order[k]] BY OrderSteps
  <1>2. \A k \in Idx : Passed(st2, k) => k < n BY <1>1 DEF Passed, Idx
  <1>3. SUFFICES ASSUME NEW k \in Idx, Passed(st2, k)
                 PROVE  /\ st2[Order[k]].out \in Papers
                        /\ Order[k] \in a[st2[Order[k]].out]
                        /\ st2[Order[k]].out = st2[Order[1]].out
                        /\ o \in Papers => st2[Order[k]].out = o
                        /\ \A j \in 1..k : Passed(st2, j)
    BY DEF Good
  <1>4. k < n /\ 1 \in Idx /\ 1 # n /\ \A j \in 1..k : j \in Idx /\ j # n BY <1>2, <1>3 DEF Idx
  <1>5. st2[Order[k]] = st[Order[k]] /\ st2[Order[1]] = st[Order[1]] BY <1>1, <1>3, <1>4 DEF Idx
  <1>6. Passed(st, k) BY <1>3, <1>5 DEF Passed
  <1>7. \A j \in 1..k : Passed(st2, j)
    <2>1. \A j \in 1..k : Passed(st, j) BY <1>6 DEF Good
    <2> QED BY <1>1, <1>4, <2>1 DEF Passed
  <1> QED BY <1>5, <1>6, <1>7 DEF Good

\* The next sub-step passes on the paper in hand.
LEMMA GoodAdd ==
    ASSUME NEW o, NEW a, NEW st, NEW st2, NEW n \in Idx, Good(o, a, st), NEW p \in Papers,
           \A k \in Idx : k > n => ~Passed(st, k),
           \A k \in Idx : k < n => Passed(st, k),
           n > 1 => p = st[Order[1]].out, o \in Papers => p = o, Order[n] \in a[p],
           st2[Order[n]].status = "PASS", st2[Order[n]].out = p,
           \A t \in Steps : t # Order[n] => st2[t] = st[t]
    PROVE  Good(o, a, st2)
  <1>1. \A k \in Idx : k # n => st2[Order[k]] = st[Order[k]] BY OrderSteps
  <1>2. \A k \in Idx : k > n => ~Passed(st2, k) BY <1>1 DEF Passed, Idx
  <1>3. \A k \in Idx : k <= n => Passed(st2, k) BY <1>1 DEF Passed, Idx
  <1>4. \A k \in Idx : k <= n => st2[Order[k]].out = p
    <2>1. \A k \in Idx : k < n => st[Order[k]].out = st[Order[1]].out BY DEF Good
    <2> QED BY <1>1, <2>1 DEF Idx
  <1>5. \A k \in Idx : k <= n => Order[k] \in a[p]
    <2>1. \A k \in Idx : k < n => Order[k] \in a[st[Order[k]].out] BY DEF Good
    <2>2. \A k \in Idx : k < n => st[Order[k]].out = p BY <1>1, <1>4 DEF Idx
    <2> QED BY <2>1, <2>2 DEF Idx
  <1>6. \A k \in Idx : \A j \in 1..k : j \in Idx /\ j <= k BY DEF Idx
  <1>7. 1 \in Idx /\ 1 <= n /\ \A k \in Idx : Passed(st2, k) => k <= n BY <1>2 DEF Idx
  <1>8. \A k \in Idx : k <= n => \A j \in 1..k : Passed(st2, j) BY <1>3, <1>6 DEF Idx
  <1> QED BY <1>4, <1>5, <1>7, <1>8 DEF Good

\* Artifacts may change as long as the content of passed sub-steps stays.
LEMMA GoodArt ==
    ASSUME NEW o, NEW a, NEW a2, NEW st, Good(o, a, st),
           \A k \in Idx : Passed(st, k) => Order[k] \in a2[st[Order[k]].out]
    PROVE  Good(o, a2, st)
  BY DEF Good
-----------------------------------------------------------------------------
(* The content of the artifact.                                            *)

\* Outside the loop over the sub-steps only what the two copies say matters.
LEMMA Outside ==
    ASSUME ContentInv, offered' = offered, art' = art, demoted => demoted', pc' \notin Working,
           mem'.steps \in {mem.steps, state.steps}, state'.steps \in {mem.steps, state.steps}
    PROVE  ContentInv'
  <1> SUFFICES ASSUME ~demoted' PROVE (Trusted /\ Around /\ Loaded)' BY DEF ContentInv
  <1>1. Good(offered, art, mem.steps) /\ Good(offered, art, state.steps)
    BY DEF ContentInv, Trusted
  <1>2. Good(offered', art', mem'.steps) /\ Good(offered', art', state'.steps) BY <1>1
  <1>3. pc' \notin UpdatePcs \cup ToolPcs \cup {"loop", "save_output"} BY DEF Working
  <1>4. Trusted' BY <1>2, <1>3 DEF Trusted
  <1>5. Around' BY <1>3 DEF Around, Working
  <1>6. Loaded' BY <1>3 DEF Loaded, Loads, ToolPcs
  <1> QED BY <1>4, <1>5, <1>6

\* A sub-step starts, or is blocked.
LEMMA Drops ==
    ASSUME TypeOK, NEW st \in {"RUNNING", "BLOCKED"}, NEW out \in Paths,
           NEW next \in Nexts \ {"loop"}, i \in Idx, Persist(Order[i], st, out, next),
           i' = i, offered' = offered, state' = state,
           mem.steps = state.steps, Good(offered, art', mem.steps),
           \A k \in Idx : k > i => ~Passed(mem.steps, k),
           \A k \in Idx : k < i => Passed(mem.steps, k),
           i > 1 => path' = mem.steps[Order[1]].out
    PROVE  ContentInv'
  <1>1. st \in Statuses /\ next \in LivePcs /\ Order[i] \in Steps /\ next # "loop"
    BY OrderSteps DEF Statuses, Nexts, LivePcs, ToolPcs, ExitPcs
  <1>2. /\ pc' = "write_state" /\ mem'.steps[Order[i]].status = st
        /\ \A t \in Steps : t # Order[i] => mem'.steps[t] = mem.steps[t]
        /\ upd'.step = Order[i] /\ upd'.next = next /\ upd'.state = state.steps[Order[i]]
    BY <1>1, Persisted
  <1>3. \A k \in Idx : k # i => mem'.steps[Order[k]] = mem.steps[Order[k]]
    BY <1>2, OrderSteps
  <1>4. Trusted'
    <2>1. ~Passed(mem'.steps, i) BY <1>2 DEF Passed
    <2>2. Good(offered', art', mem'.steps) BY <1>2, <2>1, GoodDrop
    <2>3. Good(offered', art', state'.steps) OBVIOUS
    <2>4. Undone' = state.steps BY <1>1, <1>2 DEF Undone, TypeOK, Progress
    <2> QED BY <2>2, <2>3, <2>4 DEF Trusted
  <1>5. Around'
    <2>1. \A k \in Idx : k < i => Passed(mem'.steps, k) BY <1>3 DEF Passed, Idx
    <2>2. \A k \in Idx : k > i => ~Passed(mem'.steps, k) BY <1>3 DEF Passed, Idx
    <2>3. i > 1 => path' = mem'.steps[Order[1]].out BY <1>3 DEF Idx
    <2> QED BY <1>1, <1>2, <2>1, <2>2, <2>3 DEF Around
  <1>6. Loaded' BY <1>1, <1>2 DEF Loaded, Loads
  <1> QED BY <1>4, <1>5, <1>6 DEF ContentInv

\* What the invariant says of a sub-step in hand.
LEMMA InHand ==
    ASSUME TypeOK, SyncInv, PlaceInv, CandInv, ContentInv, ~demoted,
           pc \in ToolPcs \/ (pc = "loop" /\ i <= Len(Order))
    PROVE  /\ i \in Idx /\ Order[i] = Step /\ Step \in Steps
           /\ mem.steps = state.steps /\ Good(offered, art, mem.steps) /\ mem.cand \in Papers
           /\ \A k \in Idx : k < i => Passed(mem.steps, k)
           /\ i > 1 => path = mem.steps[Order[1]].out /\ path \in Papers
           /\ pc \in ToolPcs \/ ~Passed(mem.steps, i) => \A k \in Idx : k > i => ~Passed(mem.steps, k)
           /\ pc \in ToolPcs => ~Passed(mem.steps, i)
  <1>1. i \in Idx /\ Step \in Steps BY StepInHand
  <1>2. pc \notin UpdatePcs \cup {"ended", "lost"} /\ pc \in Working
    BY DEF UpdatePcs, ToolPcs, Working
  <1>3. mem.steps = state.steps BY <1>2 DEF SyncInv
  <1>4. Good(offered, art, mem.steps) /\ Around BY DEF ContentInv, Trusted
  <1>5. /\ \A k \in Idx : k < i => Passed(mem.steps, k)
        /\ i > 1 => path = mem.steps[Order[1]].out
    BY <1>2, <1>4 DEF Around
  <1>6. i > 1 => path \in Papers
    <2>1. i > 1 => 1 \in Idx /\ Passed(mem.steps, 1) BY <1>5 DEF Idx
    <2> QED BY <1>4, <1>5, <2>1 DEF Good
  <1>7. pc \in ToolPcs => ~Passed(mem.steps, i) BY DEF PlaceInv, Passed
  <1>8. pc \in ToolPcs \/ ~Passed(mem.steps, i) => \A k \in Idx : k > i => ~Passed(mem.steps, k)
    BY <1>1, <1>4, <1>7, GoodRest
  <1>9. mem.cand \in Papers BY DEF CandInv
  <1> QED BY <1>1, <1>3, <1>4, <1>5, <1>6, <1>7, <1>8, <1>9 DEF Step
\* A tool goes on to its next step.
LEMMA Stays ==
    ASSUME TypeOK, SyncInv, PlaceInv, CandInv, ContentInv, ~demoted, pc \in ToolPcs,
           pc' \in ToolPcs, UNCHANGED <<offered, i, mem, state, path>>,
           Good(offered, art', mem.steps), Loaded'
    PROVE  ContentInv'
  <1>1. /\ mem.steps = state.steps /\ \A k \in Idx : k < i => Passed(mem.steps, k)
        /\ i > 1 => path = mem.steps[Order[1]].out
        /\ \A k \in Idx : k > i => ~Passed(mem.steps, k)
    BY InHand
  <1>2. pc' \notin UpdatePcs BY DEF ToolPcs, UpdatePcs
  <1>3. Good(offered', art', mem'.steps) /\ Good(offered', art', state'.steps) BY <1>1
  <1>4. Trusted' BY <1>2, <1>3 DEF Trusted
  <1>5. Around' BY <1>1, <1>2 DEF Around
  <1> QED BY <1>4, <1>5 DEF ContentInv

\* The sub-steps keep the content of the artifacts and the belief in it.
LEMMA ContentSubStep ==
    ASSUME TypeOK, SyncInv, PlaceInv, CandInv, ContentInv, SubStep
    PROVE  ContentInv'
  <1> USE DEF history, bounds, files
  <1> SUFFICES ASSUME ~demoted' PROVE ContentInv' BY DEF ContentInv
  <1>0. ~demoted /\ offered' = offered /\ state' = state
    BY DEF SubStep, SkipPassed, StartStep, Generate, ToolFails, Download, SaveJson, Parse, Glossary,
       Translate, Summarize, UpdateArtifact, RegisterArtifact, PassStep
  <1>1. /\ NoPaper \in Paths /\ path \in Paths /\ mem.cand \in Paths
        /\ \A s \in Steps : mem.steps[s].out \in Paths
        /\ "download" \in Steps /\ art \in [Papers -> SUBSET Steps] /\ loc \in SUBSET Steps
    BY OrderSteps DEF TypeOK, Progress, StepRecords, Paths
  <1>2. ASSUME pc \in ToolPcs \/ (pc = "loop" /\ i <= Len(Order))
        PROVE  /\ i \in Idx /\ Order[i] = Step /\ Step \in Steps
               /\ mem.steps = state.steps /\ Good(offered, art, mem.steps) /\ mem.cand \in Papers
               /\ \A k \in Idx : k < i => Passed(mem.steps, k)
               /\ i > 1 => path = mem.steps[Order[1]].out /\ path \in Papers
               /\ pc \in ToolPcs \/ ~Passed(mem.steps, i)
                    => \A k \in Idx : k > i => ~Passed(mem.steps, k)
               /\ pc \in ToolPcs => ~Passed(mem.steps, i)
    BY <1>0, <1>2, InHand
  \* No sub-step has passed while the first one is in hand.
  <1>3. ASSUME pc \in ToolPcs, i = 1, NEW k \in Idx PROVE ~Passed(mem.steps, k)
    BY <1>2, <1>3 DEF Idx
  \* A passed sub-step is one before, and its paper the one in hand.
  <1>4. ASSUME pc \in ToolPcs, NEW k \in Idx, Passed(mem.steps, k)
        PROVE  k < i /\ i > 1 /\ mem.steps[Order[k]].out = path /\ Order[k] \in art[path]
    <2>1. k < i BY <1>2, <1>4 DEF Idx
    <2>2. i > 1 BY <1>2, <1>4, <2>1 DEF Idx
    <2>3. mem.steps[Order[k]].out = mem.steps[Order[1]].out
          /\ Order[k] \in art[mem.steps[Order[k]].out]
      BY <1>2, <1>4 DEF Good
    <2> QED BY <1>2, <1>4, <2>1, <2>2, <2>3
  <1>5. ASSUME pc \in ToolPcs, Block(Step, NoPaper), i' = i, path' = path \/ i = 1,
               Good(offered, art', mem.steps)
        PROVE  ContentInv'
    <2>1. Persist(Order[i], "BLOCKED", NoPaper, "plan_blocked") BY <1>2, <1>5 DEF Block
    <2>2. i > 1 => path' = mem.steps[Order[1]].out BY <1>2, <1>5
    <2>3. "plan_blocked" \in Nexts \ {"loop"} BY DEF Nexts
    <2> QED BY <1>0, <1>1, <1>2, <1>5, <2>1, <2>2, <2>3, Drops
  <1>6. CASE SkipPassed
    <2>1. /\ pc = "loop" /\ i <= Len(Order) /\ Passed(mem.steps, i) /\ art' = art
      BY <1>2, <1>6 DEF SkipPassed, Skipped, Passed
    <2>2. /\ pc' = pc /\ i' = i + 1 /\ mem' = mem
          /\ path' = IF path = NoPaper THEN mem.steps[Step].out ELSE path
          /\ loc' = IF path' = NoPaper THEN loc ELSE art[path']
      BY <1>6 DEF SkipPassed, Following
    <2>3. mem.steps[Order[1]].out \in Papers
      BY <1>2, <2>1 DEF Good, Idx
    <2>4. path' = mem.steps[Order[1]].out
      <3>1. CASE i = 1
        <4>1. path = NoPaper BY <2>1, <3>1 DEF PlaceInv
        <4> QED BY <1>2, <2>1, <2>2, <3>1, <4>1
      <3>2. CASE i > 1
        <4>1. path # NoPaper BY <1>2, <2>1, <3>2, PapersAssumption
        <4> QED BY <1>2, <2>1, <2>2, <3>2, <4>1
      <3> QED BY <1>2, <2>1, <3>1, <3>2 DEF Idx
    <2>5. loc' = art[path'] BY <2>2, <2>3, <2>4, PapersAssumption
    <2>6. \A k \in Idx : k < i' => Passed(mem'.steps, k) BY <1>2, <2>1, <2>2 DEF Idx
    <2>7. pc' \notin UpdatePcs \cup ToolPcs BY <2>1, <2>2 DEF UpdatePcs, ToolPcs
    <2>8. Trusted' BY <1>0, <1>2, <2>1, <2>2, <2>7 DEF Trusted
    <2>9. Around' BY <2>2, <2>4, <2>6, <2>7 DEF Around
    <2>10. Loaded' BY <2>1, <2>5, <2>7 DEF Loaded, ToolPcs, Loads
    <2> QED BY <2>8, <2>9, <2>10 DEF ContentInv
  <1>7. CASE StartStep
    <2>1. /\ pc = "loop" /\ i <= Len(Order) /\ ~Passed(mem.steps, i) /\ art' = art /\ path' = path
          /\ i' = i
      BY <1>2, <1>7 DEF StartStep, Skipped, Passed
    <2>2. PICK next \in {"generate", "execute"} : Persist(Order[i], "RUNNING", NoPaper, next)
      BY <1>7 DEF StartStep, Step
    <2>3. next \in Nexts \ {"loop"} BY DEF Nexts
    <2> QED BY <1>0, <1>1, <1>2, <2>1, <2>2, <2>3, Drops
  <1>8. CASE Generate
    <2>1. pc = "generate" /\ pc \in ToolPcs /\ art' = art /\ path' = path /\ i' = i
      BY <1>8 DEF Generate, ToolPcs
    <2>2. CASE Block(Step, NoPaper) BY <1>2, <1>5, <2>1, <2>2
    <2>3. CASE pc' = "execute" /\ mem' = mem
      <3>1. Loaded' BY <2>3 DEF Loaded, Loads, UpdatePcs
      <3>2. pc' \in ToolPcs BY <2>3 DEF ToolPcs
      <3> QED BY <1>0, <1>2, <2>1, <2>3, <3>1, <3>2, Stays
    <2> QED BY <1>8, <2>2, <2>3 DEF Generate
  <1>9. CASE ToolFails
    <2>1. pc \in ToolPcs /\ art' = art /\ path' = path /\ i' = i BY <1>9 DEF ToolFails, ToolPcs
    <2> QED BY <1>2, <1>5, <1>9, <2>1 DEF ToolFails
  <1>10. CASE Download
    <2>1. /\ pc \in ToolPcs /\ pc' = "save_json" /\ pc' \in ToolPcs /\ art' = art /\ path' = path
          /\ i' = i /\ mem' = mem
      BY <1>10 DEF Download, ToolPcs
    <2>2. Loaded' BY <2>1 DEF Loaded, Loads, UpdatePcs
    <2> QED BY <1>0, <1>2, <2>1, <2>2, Stays
  <1>11. CASE SaveJson
    <2>1. pc = "save_json" /\ pc \in ToolPcs /\ path' = path /\ i' = i /\ i = 1
      BY <1>11 DEF SaveJson, ToolPcs, PlaceInv
    <2>2. CASE Block(Step, NoPaper) /\ art' = art BY <1>2, <1>5, <2>1, <2>2
    <2>3. CASE /\ pc' = "register" /\ mem' = mem
               /\ art' = [art EXCEPT ![mem.cand] = WithContent(@, "download")]
      <3>1. Good(offered, art', mem.steps) BY <1>3, <2>1 DEF Good
      <3>2. "download" \in art'[mem.cand] BY <1>1, <1>2, <2>1, <2>3, Contents
      <3>3. Target' = mem.cand /\ Order[i'] = "download" BY <2>1, <2>3, OrderFacts DEF Target
      <3>4. Loaded' BY <2>1, <2>3, <3>2, <3>3 DEF Loaded, Loads, UpdatePcs
      <3>5. pc' \in ToolPcs BY <2>3 DEF ToolPcs
      <3> QED BY <1>0, <2>1, <2>3, <3>1, <3>4, <3>5, Stays
    <2> QED BY <1>11, <2>2, <2>3 DEF SaveJson
  <1>12. ASSUME NEW s \in Steps \ {"download"}, UpdateArtifact(s) PROVE ContentInv'
    <2>1. /\ pc \in ToolPcs /\ pc' = "register" /\ pc' \in ToolPcs /\ mem' = mem /\ i' = i
          /\ path' = path /\ path \in Papers /\ loc' = art[path] /\ Order[i] = s
          /\ art' = [art EXCEPT ![path] = WithContent(@, s)]
      BY <1>1, <1>12 DEF UpdateArtifact, ToolPcs, Step, Paths
    <2>2. i > 1 /\ i \in Idx BY <1>2, <2>1, OrderFacts DEF Idx
    <2>3. s \in art'[path] BY <1>1, <2>1, Contents
    <2>4. ASSUME NEW k \in Idx, Passed(mem.steps, k) PROVE Order[k] \in art'[path]
      <3>1. k < i /\ Order[k] \in art[path] BY <1>4, <2>1, <2>4
      <3>2. CASE s = "parse"
        <4>1. i = 2 BY <2>1, <2>2, <3>2, OrderFacts DEF Idx
        <4>2. Order[k] # "translate" BY <3>1, <4>1, OrderFacts DEF Idx
        <4> QED BY <1>1, <2>1, <3>1, <4>2, Contents
      <3>3. CASE s # "parse" BY <1>1, <2>1, <3>1, <3>3, Contents
      <3> QED BY <3>2, <3>3
    <2>5. \A k \in Idx : Passed(mem.steps, k) => Order[k] \in art'[mem.steps[Order[k]].out]
      BY <1>4, <2>1, <2>4
    <2>6. Good(offered, art', mem.steps) BY <1>2, <2>1, <2>5, GoodArt
    <2>7. \A k \in Idx : k < i => Order[k] \in loc' BY <1>2, <1>4, <2>1
    <2>8. Target' = path BY <2>1, <2>2 DEF Target
    <2>9. Loaded' BY <2>1, <2>3, <2>7, <2>8 DEF Loaded, Loads, UpdatePcs
    <2> QED BY <1>0, <2>1, <2>6, <2>9, Stays
  <1>13. CASE Parse \/ Glossary \/ Translate \/ Summarize
    BY <1>12, <1>13, OrderSteps DEF Parse, Glossary, Translate, Summarize
  <1>14. CASE RegisterArtifact
    <2>1. pc = "register" /\ pc \in ToolPcs /\ path' = path /\ loc' = loc /\ i' = i
      BY <1>14 DEF RegisterArtifact, ToolPcs
    <2>2. Loaded BY <1>0 DEF ContentInv
    <2>3. CASE pc' = "content_saved" /\ art' = art /\ mem' = mem
      <3>1. Target' = Target BY <2>1, <2>3 DEF Target
      <3>2. Loaded' BY <2>1, <2>2, <2>3, <3>1 DEF Loaded, Loads, UpdatePcs
      <3>3. pc' \in ToolPcs BY <2>3 DEF ToolPcs
      <3> QED BY <1>0, <1>2, <2>1, <2>3, <3>2, <3>3, Stays
    <2>4. CASE Block(Step, NoPaper)
      <3>1. CASE i = 1
        <4>1. Good(offered, art', mem.steps) BY <1>3, <2>1, <3>1 DEF Good
        <4> QED BY <1>5, <2>1, <2>4, <4>1
      <3>2. CASE i > 1
        <4>1. Step # "download" /\ path \in Papers BY <1>2, <2>1, <3>2, OrderFacts DEF Idx
        <4>2. art' = art \/ art' = [art EXCEPT ![path] = loc]
          BY <1>14, <2>4, <4>1 DEF RegisterArtifact, Block, Persist
        <4>3. \A k \in Idx : Passed(mem.steps, k) => Order[k] \in loc
          BY <1>4, <2>1, <2>2, <3>2 DEF Loaded
        <4>4. \A k \in Idx : Passed(mem.steps, k) => Order[k] \in art'[mem.steps[Order[k]].out]
          BY <1>1, <1>4, <2>1, <4>1, <4>2, <4>3
        <4>5. Good(offered, art', mem.steps) BY <1>2, <2>1, <4>4, GoodArt
        <4> QED BY <1>5, <2>1, <2>4, <4>5
      <3> QED BY <1>2, <2>1, <3>1, <3>2 DEF Idx
    <2> QED BY <1>14, <2>3, <2>4 DEF RegisterArtifact
  <1>15. CASE PassStep
    <2>1. /\ pc = "content_saved" /\ pc \in ToolPcs /\ art' = art /\ i' = i
          /\ path' = IF Step = "download" THEN mem.cand ELSE path
      BY <1>15 DEF PassStep, ToolPcs
    <2>2. path' = Target /\ path' \in Papers /\ (i > 1 => path' = path)
      <3>1. Step = "download" <=> i = 1 BY <1>2, <2>1, OrderFacts DEF Idx
      <3>2. i = 1 \/ i > 1 BY <1>2, <2>1 DEF Idx
      <3> QED BY <1>2, <2>1, <3>1, <3>2 DEF Target
    <2>3. CASE Block(Step, NoPaper)
      <3>1. path' = path \/ i = 1 BY <1>2, <2>1, <2>2 DEF Idx
      <3> QED BY <1>2, <1>5, <2>1, <2>3, <3>1
    <2>4. CASE loc' = art[path'] /\ Persist(Step, "PASS", path', "loop")
      <3>1. "PASS" \in Statuses /\ path' \in Paths /\ "loop" \in LivePcs
        BY <2>2 DEF Statuses, Paths, LivePcs
      <3>2. /\ pc' = "write_state" /\ mem'.steps[Order[i]].status = "PASS"
            /\ mem'.steps[Order[i]].out = path'
            /\ \A t \in Steps : t # Order[i] => mem'.steps[t] = mem.steps[t]
            /\ upd'.step = Order[i] /\ upd'.state = state.steps[Order[i]]
        BY <1>2, <2>1, <2>4, <3>1, Persisted
      <3>3. \A k \in Idx : k # i => mem'.steps[Order[k]] = mem.steps[Order[k]]
        BY <1>2, <2>1, <3>2, OrderSteps
      <3>4. Order[i] \in art[path'] /\ (offered \in Papers => path' = offered)
        <4>1. Order[i] \in art[path'] BY <1>0, <2>1, <2>2 DEF ContentInv, Loaded
        <4>2. CASE i = 1 BY <1>2, <2>1, <2>2, <4>1, <4>2, PapersAssumption DEF CandInv, Target
        <4>3. CASE i > 1
          <5>1. 1 \in Idx /\ Passed(mem.steps, 1) BY <1>2, <2>1, <4>3 DEF Idx
          <5> QED BY <1>2, <2>1, <2>2, <4>1, <4>3, <5>1 DEF Good
        <4> QED BY <1>2, <2>1, <4>2, <4>3 DEF Idx
      <3>5. Good(offered', art', mem'.steps)
        <4>1. i > 1 => path' = mem.steps[Order[1]].out BY <1>2, <2>1, <2>2
        <4> QED BY <1>0, <1>2, <2>1, <2>2, <3>2, <3>4, <4>1, GoodAdd
      <3>6. Undone' = state.steps BY <1>0, <1>2, <2>1, <3>2 DEF Undone, TypeOK, Progress
      <3>7. Trusted' BY <1>0, <1>2, <2>1, <3>5, <3>6 DEF Trusted
      <3>8. path' = mem'.steps[Order[1]].out
        BY <1>2, <2>1, <2>2, <3>2, <3>3 DEF Idx
      <3>9. Around'
        <4>1. \A k \in Idx : k < i' => Passed(mem'.steps, k) BY <1>2, <2>1, <3>3 DEF Passed, Idx
        <4>2. \A k \in Idx : k > i' => ~Passed(mem'.steps, k) BY <1>2, <2>1, <3>3 DEF Passed, Idx
        <4> QED BY <3>8, <4>1, <4>2 DEF Around
      <3>10. Loaded' BY <2>1, <2>4, <3>2 DEF Loaded, Loads
      <3> QED BY <3>7, <3>9, <3>10 DEF ContentInv
    <2> QED BY <1>15, <2>3, <2>4 DEF PassStep
  <1> QED BY <1>6, <1>7, <1>8, <1>9, <1>10, <1>11, <1>13, <1>14, <1>15 DEF SubStep
\* So do the updates of the two files, with their rollbacks.
LEMMA ContentUpdateStep ==
    ASSUME TypeOK, SyncInv, PlaceInv, UndoInv, CandInv, ContentInv, UpdateStep
    PROVE  ContentInv'
  <1> USE DEF history, bounds, files
  <1> SUFFICES ASSUME ~demoted' PROVE ContentInv' BY DEF ContentInv
  <1>0. /\ ~demoted /\ offered' = offered /\ art' = art /\ path' = path /\ loc' = loc
        /\ pc \in UpdatePcs
    BY DEF UpdateStep, WriteState, WriteManifest, WriteIndex, UndoState, UndoManifest, UpdatePcs
  <1>1. /\ Good(offered, art, mem.steps) /\ Good(offered, art, state.steps)
        /\ Good(offered, art, Undone) /\ Around /\ Loaded
    BY <1>0 DEF ContentInv, Trusted
  <1>2. /\ i \in Idx /\ upd.step = Order[i] /\ upd.step \in Steps /\ pc \in Working
        /\ mem.steps \in [Steps -> StepRecords] /\ state.steps \in [Steps -> StepRecords]
    BY <1>0 DEF PlaceInv, Working, TypeOK, Progress
  <1>3. /\ \A k \in Idx : k < i => Passed(mem.steps, k)
        /\ i > 1 => path = mem.steps[Order[1]].out
        /\ \A k \in Idx : k > i => ~Passed(mem.steps, k)
    BY <1>0, <1>1, <1>2 DEF Around
  \* Within an update.
  <1>4. ASSUME pc' \in UpdatePcs, mem' = mem, upd' = upd, i' = i,
               Good(offered, art, state'.steps), Good(offered, art, Undone')
        PROVE  ContentInv'
    <2>1. Trusted' BY <1>0, <1>1, <1>4 DEF Trusted
    <2>2. Around' BY <1>0, <1>1, <1>3, <1>4 DEF Around
    <2>3. Loaded' BY <1>0, <1>1, <1>4 DEF Loaded, Loads, UpdatePcs
    <2> QED BY <2>1, <2>2, <2>3 DEF ContentInv
  <1>5. CASE WriteState
    <2>1. pc' \in UpdatePcs /\ mem' = mem /\ upd' = upd /\ i' = i
      BY <1>5 DEF WriteState, UpdatePcs
    <2>2. CASE state' = state BY <1>1, <1>4, <2>1, <2>2 DEF Undone
    <2>3. CASE state' = [state EXCEPT !.steps[upd.step] = mem.steps[upd.step]]
      <3>1. state'.steps = [state.steps EXCEPT ![upd.step] = mem.steps[upd.step]]
        BY <2>3 DEF TypeOK, Progress
      <3>2. state'.steps[upd.step] = mem.steps[upd.step]
            /\ \A t \in Steps : t # upd.step => state'.steps[t] = mem.steps[t]
        BY <1>2, <3>1 DEF SyncInv
      <3>3. state'.steps \in [Steps -> StepRecords] BY <1>2, <3>1
      <3>4. state'.steps = mem.steps BY <1>2, <3>2, <3>3, SameSteps
      <3>5. Undone' = Undone BY <1>2, <2>1, <3>1 DEF Undone
      <3> QED BY <1>1, <1>4, <2>1, <3>4, <3>5
    <2> QED BY <1>5, <2>2, <2>3 DEF WriteState
  <1>6. CASE WriteManifest
    <2>1. pc' \in UpdatePcs /\ mem' = mem /\ upd' = upd /\ i' = i /\ state' = state
      BY <1>6 DEF WriteManifest, UpdatePcs
    <2> QED BY <1>1, <1>4, <2>1 DEF Undone
  <1>7. CASE WriteIndex
    <2>1. pc = "write_index" /\ mem' = mem /\ upd' = upd /\ state' = state BY <1>7 DEF WriteIndex
    <2>2. CASE pc' = "undo_state" /\ i' = i
      BY <1>1, <1>4, <2>1, <2>2 DEF Undone, UpdatePcs
    <2>3. CASE pc' = upd.next /\ i' = IF upd.next = "loop" THEN i + 1 ELSE i
      <3>1. upd.next \in Nexts BY <1>0 DEF PlaceInv, Nexts
      <3>2. Trusted' BY <1>0, <1>1, <2>1, <2>3, <3>1 DEF Trusted, Nexts, UpdatePcs
      <3>3. CASE upd.next = "loop"
        <4>1. Passed(mem.steps, i) BY <1>0, <1>2, <3>3 DEF PlaceInv, Passed
        <4>2. \A k \in Idx : k < i + 1 => Passed(mem.steps, k) BY <1>2, <1>3, <4>1 DEF Idx
        <4>3. path = mem.steps[Order[1]].out BY <1>0, <1>1, <3>3 DEF Around
        <4>4. Around' BY <1>0, <2>1, <2>3, <3>3, <4>2, <4>3 DEF Around, UpdatePcs, ToolPcs
        <4>5. Loaded' BY <1>0, <1>1, <2>3, <3>3 DEF Loaded, Loads
        <4> QED BY <3>2, <4>4, <4>5 DEF ContentInv
      <3>4. CASE upd.next # "loop"
        <4>1. pc' \notin UpdatePcs /\ pc' \notin {"loop", "save_output", "register", "content_saved"}
          BY <2>3, <3>1, <3>4 DEF Nexts, UpdatePcs
        <4>2. Around' BY <1>0, <1>3, <2>1, <2>3, <3>4, <4>1 DEF Around
        <4>3. Loaded' BY <4>1 DEF Loaded, Loads
        <4> QED BY <3>2, <4>2, <4>3 DEF ContentInv
      <3> QED BY <3>3, <3>4
    <2> QED BY <1>7, <2>2, <2>3 DEF WriteIndex, Following
  <1>8. CASE UndoState
    <2>1. pc' \in UpdatePcs /\ mem' = mem /\ upd' = upd /\ i' = i
      BY <1>8 DEF UndoState, UpdatePcs
    <2>2. CASE state' = state BY <1>1, <1>4, <2>1, <2>2 DEF Undone
    <2>3. CASE state' = [state EXCEPT !.steps[upd.step] = upd.state]
      <3>1. state'.steps = Undone BY <2>3 DEF TypeOK, Progress, Undone
      <3>2. Undone' = Undone BY <1>2, <2>1, <3>1 DEF Undone
      <3> QED BY <1>1, <1>4, <2>1, <3>1, <3>2
    <2> QED BY <1>8, <2>2, <2>3 DEF UndoState
  <1>9. CASE UndoManifest
    <2>1. i' = i /\ state' = state BY <1>9 DEF UndoManifest
    <2>2. CASE pc' = "ended" /\ mem' = mem
      <3>1. pc' \notin Working BY <2>2 DEF Working, UpdatePcs, ToolPcs
      <3> QED BY <1>0, <2>1, <2>2, <3>1, Outside
    <2>3. CASE /\ pc' = "write_state" /\ mem' = [mem EXCEPT !.steps[upd.step] = Rec("BLOCKED", NoPaper)]
               /\ upd'.step = upd.step /\ upd'.next = "plan_blocked"
               /\ upd'.state = state.steps[upd.step]
      <3>1. /\ mem'.steps = [mem.steps EXCEPT ![upd.step] = Rec("BLOCKED", NoPaper)]
        BY <2>3 DEF TypeOK, Progress
      <3>2. /\ \A t \in Steps : t # upd.step => mem'.steps[t] = mem.steps[t]
            /\ mem'.steps[upd.step].status = "BLOCKED"
        BY <1>2, <3>1 DEF Rec
      <3>3. \A k \in Idx : k # i => mem'.steps[Order[k]] = mem.steps[Order[k]]
        BY <1>2, <3>2, OrderSteps
      <3>4. ~Passed(mem'.steps, i) BY <1>2, <3>2 DEF Passed
      <3>5. Good(offered', art', mem'.steps) BY <1>0, <1>1, <1>2, <1>3, <3>2, <3>4, GoodDrop
      <3>6. Undone' = state.steps BY <1>2, <2>1, <2>3 DEF Undone
      <3>7. Trusted' BY <1>0, <1>1, <2>1, <3>5, <3>6 DEF Trusted
      <3>8. Around'
        <4>1. \A k \in Idx : k < i => Passed(mem'.steps, k) BY <1>2, <1>3, <3>3 DEF Passed, Idx
        <4>2. \A k \in Idx : k > i => ~Passed(mem'.steps, k) BY <1>2, <1>3, <3>3 DEF Passed, Idx
        <4>3. i > 1 => path' = mem'.steps[Order[1]].out BY <1>0, <1>2, <1>3, <3>3 DEF Idx
        <4> QED BY <2>1, <2>3, <4>1, <4>2, <4>3 DEF Around
      <3>9. Loaded' BY <2>3 DEF Loaded, Loads
      <3> QED BY <3>7, <3>8, <3>9 DEF ContentInv
    <2> QED BY <1>9, <2>2, <2>3 DEF UndoManifest, End
  <1> QED BY <1>5, <1>6, <1>7, <1>8, <1>9 DEF UpdateStep

\* And everything else.
LEMMA ContentStep ==
    ASSUME TypeOK, SyncInv, PlaceInv, UndoInv, CandInv, ContentInv, Next
    PROVE  ContentInv'
  <1> USE DEF history, bounds, files
  <1>0. Working = UpdatePcs \cup ToolPcs \cup {"loop", "save_output"} BY DEF Working
  <1>1. CASE SubStep BY <1>1, ContentSubStep
  <1>2. CASE UpdateStep BY <1>2, ContentUpdateStep
  <1>3. CASE LoadSteps
    <2>1. /\ offered' = offered /\ art' = art /\ demoted' = demoted /\ state' = state
          /\ mem'.steps \in {mem.steps, state.steps} /\ pc' \in {"select", "ended"}
      BY <1>3 DEF LoadSteps, End, StepsOnDisk, TypeOK, Progress
    <2>2. pc' \notin Working BY <2>1 DEF Working, UpdatePcs, ToolPcs
    <2> QED BY <2>1, <2>2, Outside
  <1>4. CASE SelectCandidate
    <2>1. /\ offered' = offered /\ art' = art /\ demoted' = demoted /\ state' = state
          /\ mem'.steps = mem.steps /\ pc' \in {"no_candidate", "plan", "ended"}
      BY <1>4 DEF SelectCandidate, Candidate, End, TypeOK, Progress
    <2>2. pc' \notin Working BY <2>1 DEF Working, UpdatePcs, ToolPcs
    <2> QED BY <2>1, <2>2, Outside
  <1>5. CASE NoCandidate
    <2> SUFFICES ASSUME ~demoted' PROVE ContentInv' BY DEF ContentInv
    <2>0. ~demoted
      <3>1. demoted' = demoted \/ demoted' = (demoted \/ mem.steps["download"].status = "PASS")
        BY <1>5 DEF NoCandidate
      <3> QED BY <3>1, Zenon
    <2>1. /\ offered' = offered /\ art' = art /\ state' = state /\ i' = i /\ ~demoted
          /\ pc = "no_candidate"
      BY <1>5, <2>0 DEF NoCandidate
    <2>2. CASE pc' = "ended" /\ mem' = mem
      <3>1. pc' \notin Working BY <2>2 DEF Working, UpdatePcs, ToolPcs
      <3> QED BY <2>1, <2>2, <3>1, Outside
    <2>3. CASE /\ Persist("download", "BLOCKED", NoPaper, "eval_blocked")
               /\ mem.steps["download"].status # "PASS"
      <3>1. i = 1 /\ i \in Idx /\ Order[i] = "download" /\ mem.steps = state.steps
        BY <2>1, OrderFacts, OrderSteps DEF PlaceInv, SyncInv, UpdatePcs
      <3>2. Good(offered, art, mem.steps) BY <2>1 DEF ContentInv, Trusted
      <3>3. \A k \in Idx : k > i => ~Passed(mem.steps, k)
        BY <2>3, <3>1, <3>2, GoodRest DEF Passed
      <3>4. \A k \in Idx : ~(k < i) BY <3>1 DEF Idx
      <3>5. NoPaper \in Paths /\ "eval_blocked" \in Nexts \ {"loop"} BY DEF Paths, Nexts
      <3> QED BY <2>1, <2>3, <3>1, <3>2, <3>3, <3>4, <3>5, Drops
    <2> QED BY <1>5, <2>2, <2>3 DEF NoCandidate, End
  <1>6. CASE SavePlan
    <2>1. /\ offered' = offered /\ art' = art /\ demoted' = demoted /\ state' = state /\ mem' = mem
          /\ pc' \in {"loop", "ended"} /\ i' = i /\ pc = "plan" /\ path' = path
      BY <1>6 DEF SavePlan, End
    <2>2. CASE pc' = "ended"
      <3>1. pc' \notin Working BY <2>2 DEF Working, UpdatePcs, ToolPcs
      <3> QED BY <2>1, <3>1, Outside
    <2>3. CASE pc' = "loop"
      <3> SUFFICES ASSUME ~demoted PROVE (Trusted /\ Around /\ Loaded)'
        BY <2>1 DEF ContentInv
      <3>1. i' = 1 /\ pc' \notin UpdatePcs \cup ToolPcs
        BY <2>1, <2>3 DEF PlaceInv, UpdatePcs, ToolPcs
      <3>2. Trusted' BY <2>1, <3>1 DEF ContentInv, Trusted
      <3>3. Around' BY <3>1 DEF Around, Idx
      <3>4. Loaded' BY <2>3, <3>1 DEF Loaded, Loads, ToolPcs
      <3> QED BY <3>2, <3>3, <3>4
    <2> QED BY <2>1, <2>2, <2>3
  <1>7. CASE AllStepsDone
    <2>1. /\ offered' = offered /\ art' = art /\ demoted' = demoted /\ state' = state /\ mem' = mem
          /\ pc' \in {"eval_blocked", "save_output"} /\ i' = i /\ i > 1 /\ pc = "loop"
          /\ path' = path /\ loc' = loc
      BY <1>7, OrderSteps DEF AllStepsDone, TypeOK
    <2>2. CASE pc' = "eval_blocked"
      <3>1. pc' \notin Working BY <2>2 DEF Working, UpdatePcs, ToolPcs
      <3> QED BY <2>1, <3>1, Outside
    <2>3. CASE pc' = "save_output"
      <3> SUFFICES ASSUME ~demoted PROVE (Trusted /\ Around /\ Loaded)'
        BY <2>1 DEF ContentInv
      <3>1. pc' \notin UpdatePcs \cup ToolPcs /\ pc \in Working
        BY <2>1, <2>3 DEF UpdatePcs, ToolPcs, Working
      <3>2. Trusted' BY <2>1, <3>1 DEF ContentInv, Trusted
      <3>3. Around' BY <2>1, <3>1 DEF ContentInv, Around
      <3>4. Loaded' BY <2>1, <2>3 DEF ContentInv, Loaded, Loads
      <3> QED BY <3>2, <3>3, <3>4
    <2> QED BY <2>1, <2>2, <2>3
  <1>8. CASE PlanBlocked \/ EvalBlocked \/ SaveOutput \/ SaveFinalPlan \/ Evaluate \/ SaveEval
    <2>1. /\ offered' = offered /\ art' = art /\ demoted' = demoted /\ state' = state /\ mem' = mem
          /\ pc' \in {"eval_blocked", "ended", "save_plan", "evaluate", "save_eval"}
      BY <1>8 DEF PlanBlocked, EvalBlocked, SaveOutput, SaveFinalPlan, Evaluate, SaveEval, End
    <2>2. pc' \notin Working BY <2>1 DEF Working, UpdatePcs, ToolPcs
    <2> QED BY <2>1, <2>2, Outside
  <1>9. CASE Checkpoint \/ Crash \/ Recover
    <2>1. /\ offered' = offered /\ art' = art /\ demoted' = demoted /\ state' \in {state, mem}
          /\ mem' \in {mem, state} /\ pc' \in {"load", "done", "lost", "ended"}
      BY <1>9 DEF Checkpoint, Crash, Recover
    <2>2. pc' \notin Working BY <2>1 DEF Working, UpdatePcs, ToolPcs
    <2> QED BY <2>1, <2>2, Outside
  <1>10. CASE ControlRequest
    <2>1. /\ pc \in {"generate", "execute", "evaluate"} /\ pc' = pc /\ state' = mem /\ mem' = mem
          /\ UNCHANGED <<offered, i, path, loc, art, upd, demoted>>
      BY <1>10 DEF ControlRequest
    <2>2. pc \notin UpdatePcs BY <2>1 DEF UpdatePcs
    <2>3. (~demoted /\ Trusted) => Trusted' BY <2>1, <2>2 DEF Trusted
    <2>4. Around => Around' BY <2>1, <2>2 DEF Around
    <2>5. Loaded' BY <2>1, <2>2 DEF Loaded, Loads
    <2> QED BY <2>1, <2>3, <2>4, <2>5 DEF ContentInv
  <1> QED BY <1>1, <1>2, <1>3, <1>4, <1>5, <1>6, <1>7, <1>8, <1>9, <1>10
       DEF Next, Workflow, Entry, Exit

\* The phase output is written when all five sub-steps have passed.
LEMMA OutputStep ==
    ASSUME TypeOK, PlaceInv, CandInv, ContentInv, OutputIsComplete, Next
    PROVE  OutputIsComplete'
  <1> USE DEF history, bounds, files
  <1> SUFFICES ASSUME ~demoted' PROVE OutputIsComplete' BY DEF OutputIsComplete
  <1>1. CASE SaveOutput /\ output' # output
    <2>1. /\ pc = "save_output" /\ output' = [paper |-> mem.cand, from |-> path, parts |-> loc]
          /\ offered' = offered /\ ~demoted
      BY <1>1 DEF SaveOutput
    <2>2. i = 6 /\ pc \in Working /\ mem.cand \in Papers
      BY <2>1 DEF PlaceInv, Working, CandInv
    <2>3. Good(offered, art, mem.steps) /\ Around /\ Loaded BY <2>1 DEF ContentInv, Trusted
    <2>4. \A k \in Idx : Passed(mem.steps, k) BY <2>2, <2>3 DEF Around, Idx
    <2>5. path = mem.steps[Order[1]].out /\ loc = art[path]
      BY <2>1, <2>2, <2>3 DEF Around, Loaded, Loads
    <2>6. \A k \in Idx : Order[k] \in loc BY <2>3, <2>4, <2>5 DEF Good
    <2>7. loc = Steps
      <3>1. \A s \in Steps : s \in loc BY <2>6, OrderSteps
      <3>2. loc \in SUBSET Steps BY DEF TypeOK
      <3> QED BY <3>1, <3>2
    <2>8. offered \in Papers => path = offered
      BY <2>3, <2>4, <2>5, OrderSteps DEF Good
    <2>9. offered \in Papers => mem.cand = offered BY <2>2, PapersAssumption DEF CandInv
    <2> QED BY <2>1, <2>7, <2>8, <2>9 DEF OutputIsComplete
  <1>2. CASE output' = output
    <2>1. offered' = offered
      BY DEF Next, Workflow, UpdateStep, SubStep, Entry, Exit, WriteState, WriteManifest, WriteIndex,
         UndoState, UndoManifest, LoadSteps, SelectCandidate, NoCandidate, SavePlan, SkipPassed,
         StartStep, Generate, ToolFails, Download, SaveJson, Parse, Glossary, Translate, Summarize,
         UpdateArtifact, RegisterArtifact, PassStep, PlanBlocked, EvalBlocked, AllStepsDone,
         SaveOutput, SaveFinalPlan, Evaluate, SaveEval, Checkpoint, ControlRequest, Crash, Recover
    <2>2. ~demoted
      BY DEF Next, Workflow, UpdateStep, SubStep, Entry, Exit, WriteState, WriteManifest, WriteIndex,
         UndoState, UndoManifest, LoadSteps, SelectCandidate, NoCandidate, SavePlan, SkipPassed,
         StartStep, Generate, ToolFails, Download, SaveJson, Parse, Glossary, Translate, Summarize,
         UpdateArtifact, RegisterArtifact, PassStep, PlanBlocked, EvalBlocked, AllStepsDone,
         SaveOutput, SaveFinalPlan, Evaluate, SaveEval, Checkpoint, ControlRequest, Crash, Recover
    <2> QED BY <1>2, <2>1, <2>2 DEF OutputIsComplete
  <1>3. output' = output \/ SaveOutput
    BY DEF Next, Workflow, UpdateStep, SubStep, Entry, Exit, WriteState, WriteManifest, WriteIndex,
       UndoState, UndoManifest, LoadSteps, SelectCandidate, NoCandidate, SavePlan, SkipPassed,
       StartStep, Generate, ToolFails, Download, SaveJson, Parse, Glossary, Translate, Summarize,
       UpdateArtifact, RegisterArtifact, PassStep, PlanBlocked, EvalBlocked, AllStepsDone,
       SaveOutput, SaveFinalPlan, Evaluate, SaveEval, Checkpoint, ControlRequest, Crash, Recover
  <1> QED BY <1>1, <1>2, <1>3
-----------------------------------------------------------------------------
(* The theorems.                                                           *)

LEMMA InvInit == Init => IInv
  <1> SUFFICES ASSUME Init PROVE IInv OBVIOUS
  <1> USE DEF Init
  <1>1. NotStarted \in StepRecords BY DEF NotStarted, StepRecords, Paths
  <1>2. /\ mem.steps = [s \in Steps |-> NotStarted] /\ state.steps = mem.steps
        /\ mem.cand = NoPaper /\ state.cand = NoPaper /\ man = mem.steps
    OBVIOUS
  <1>3. \A k \in Idx : ~Passed(mem.steps, k)
    <2>1. \A k \in Idx : mem.steps[Order[k]] = NotStarted BY <1>2, OrderSteps
    <2> QED BY <2>1 DEF Passed, NotStarted
  <1>4. TypeOK
    <2>1. mem \in Progress /\ state \in Progress /\ man \in [Steps -> StepRecords]
      BY <1>1 DEF Progress, Paths
    <2>2. upd \in [step: Steps, next: LivePcs, state: StepRecords, man: StepRecords]
      BY <1>1, OrderSteps DEF LivePcs
    <2>3. pc \in LivePcs /\ i \in 1..Len(Order) + 1 /\ path \in Paths
      BY OrderSteps DEF LivePcs, Paths
    <2>4. output \in [paper: Paths, from: Paths, parts: SUBSET Steps] BY DEF NoOutput, Paths
    <2>5. art \in [Papers -> SUBSET Steps] /\ loc \in SUBSET Steps OBVIOUS
    <2>6. runs \in 0..MaxRuns + 1 /\ crashes \in 0..MaxCrashes /\ faults \in 0..MaxFaults
      BY BoundsAssumption
    <2>7. offered \in Papers \cup {"empty", "legacy"} /\ pdf \in SUBSET Papers OBVIOUS
    <2>8. result = "none" /\ verdict = "none" /\ demoted \in BOOLEAN /\ torn \in BOOLEAN OBVIOUS
    <2> QED BY <2>1, <2>2, <2>3, <2>4, <2>5, <2>6, <2>7, <2>8 DEF TypeOK
  <1>5. SyncInv /\ PlaceInv /\ UndoInv /\ AgreeInv /\ CandInv
    BY <1>2 DEF SyncInv, PlaceInv, UndoInv, AgreeInv, CandInv, UpdatePcs, ToolPcs
  <1>6. ContentInv
    <2>1. Trusted BY <1>2, <1>3 DEF Trusted, Good, UpdatePcs
    <2>2. Around /\ Loaded BY DEF Around, Loaded, Loads, Working, UpdatePcs, ToolPcs
    <2> QED BY <2>1, <2>2 DEF ContentInv
  <1> QED BY <1>4, <1>5, <1>6 DEF IInv, OutputIsComplete

\* Every step keeps the invariant.
LEMMA InvStep == IInv /\ [Next]_vars => IInv'
  <1> SUFFICES ASSUME IInv, [Next]_vars PROVE IInv' OBVIOUS
  <1> USE DEF IInv
  <1>1. CASE Next
    <2>1. TypeOK' BY <1>1, TypeStep
    <2>2. SyncInv' /\ UndoInv' /\ AgreeInv' BY <1>1, <2>1, FilesStep
    <2>3. PlaceInv' BY <1>1, PlaceStep
    <2>4. CandInv' BY <1>1, CandStep
    <2>5. ContentInv' BY <1>1, ContentStep
    <2>6. OutputIsComplete' BY <1>1, OutputStep
    <2> QED BY <2>1, <2>2, <2>3, <2>4, <2>5, <2>6
  <1>2. CASE UNCHANGED vars
    <2> USE <1>2 DEF vars, files, history, bounds
    <2>1. TypeOK' BY DEF TypeOK
    <2>2. SyncInv' /\ PlaceInv' BY DEF SyncInv, PlaceInv
    <2>3. UndoInv' /\ AgreeInv' BY DEF UndoInv, AgreeInv
    <2>4. CandInv' /\ OutputIsComplete' BY DEF CandInv, OutputIsComplete
    <2>5. ContentInv'
      <3>1. Trusted => Trusted' BY DEF Trusted, Undone
      <3>2. Around => Around' BY DEF Around
      <3>3. Loaded => Loaded' BY DEF Loaded, Loads, Target
      <3> QED BY <3>1, <3>2, <3>3 DEF ContentInv
    <2> QED BY <2>1, <2>2, <2>3, <2>4, <2>5
  <1> QED BY <1>1, <1>2

LEMMA Invariant == Spec => []IInv
  BY InvInit, InvStep, PTL DEF Spec

\* Type correctness of the PAPER_PARSING phase.
THEOREM TypeCorrect == Spec => []TypeOK
  BY Invariant, PTL DEF IInv

\* Until a passed sub-step is set to BLOCKED, what task_state.json reports as
\* passed can be read in the artifact it names.
THEOREM PassedContent == Spec => []PassedStepsHaveContent
  <1>1. IInv => PassedStepsHaveContent
    <2> SUFFICES ASSUME IInv, ~demoted, NEW s \in Steps, state.steps[s].status = "PASS"
                 PROVE  state.steps[s].out \in Papers /\ s \in art[state.steps[s].out]
      BY DEF PassedStepsHaveContent
    <2>1. PICK k \in Idx : Order[k] = s BY OrderSteps
    <2>2. Good(offered, art, state.steps) BY DEF IInv, ContentInv, Trusted
    <2> QED BY <2>1, <2>2 DEF Good, Passed
  <1> QED BY <1>1, Invariant, PTL

\* Between updates task_state.json and the manifest agree on every sub-step,
\* whichever write of an update fails, as long as no update ended between them.
THEOREM FilesAgree == Spec => []StepsAgree
  <1>1. IInv => StepsAgree BY DEF IInv, AgreeInv, StepsAgree
  <1> QED BY <1>1, Invariant, PTL

\* The phase output holds the content of all five sub-steps and is about the
\* offered paper.
THEOREM OutputComplete == Spec => []OutputIsComplete
  BY Invariant, PTL DEF IInv
=============================================================================

------------------------------- MODULE PhaseFlow -------------------------------
(***************************************************************************)
(* The flow of a phase, and the two agents that all tasks of a service     *)
(* share: the research agent with its message history and its mark of the  *)
(* current phase, and the evaluation agent with its history.               *)
(*                                                                         *)
(* A flow resets the history, asks for a plan, executes its steps, asks    *)
(* for the output and has it evaluated.  A step of the model ends where    *)
(* the code waits for a model or a tool; other tasks run meanwhile.  What  *)
(* messages say is left out: a message has its task, its round and its     *)
(* kind.  The loop around the flow is in TaskRun; of it only what a        *)
(* recovered task brings back into a flow is kept here.  The flow of the   *)
(* paper workflow (Parsing) is in PaperProcessing; here it only uses the   *)
(* agents.                                                                 *)
(***************************************************************************)
EXTENDS Naturals, FiniteSets, Sequences

CONSTANTS Tasks,        \* tasks of one service
          NumPhases,    \* phases in the order of PHASE_TRANSITIONS
          Parsing,      \* the phase that is carried out by the paper workflow
          MaxRevisions, \* max_revisions_per_stage
          MaxAttempts,  \* max_parse_attempts
          Contents,     \* sub-steps of the paper workflow that ask the agent
          StepIds,      \* the names a plan may give its steps
          MaxSteps,     \* bound: steps of a plan
          Long,         \* bound: the tasks whose plans may have more than one
          MaxFaults,    \* bound: writes that fail
          MaxCrashes    \* bound: lost processes

ASSUME PhasesAssumption == NumPhases \in Nat \ {0} /\ Parsing \in Nat /\ Contents \in Nat
ASSUME LimitsAssumption == MaxRevisions \in Nat /\ MaxAttempts \in Nat \ {0}
ASSUME BoundsAssumption ==
    MaxSteps \in Nat \ {0} /\ Long \subseteq Tasks /\ MaxFaults \in Nat /\ MaxCrashes \in Nat

VARIABLES agent,   \* the research agent: _current_phase and message_history
          jury,    \* whether message_history of the evaluation agent has an output
          runs,    \* the run of each task
          disk,    \* what its checkpoint holds
          mixed,   \* history: tasks whose flow another task wrote into
          over,    \* history: tasks that started over after their last phase
          used     \* how many faults and crashes have happened

vars == <<agent, jury, runs, disk, mixed, over, used>>

-----------------------------------------------------------------------------
Phases == 1..NumPhases
Finished == NumPhases + 1

\* One execution of a phase; revision 0 is the first.
Rounds == [phase: Phases, rev: 0..MaxRevisions]
NoRound == [phase |-> 0, rev |-> 0]

\* TaskState: cards are the phase summaries, last is last_round_results, content
\* counts the generated sub-steps of the paper that have passed.
TaskState == [phase: 1..Finished, revs: [Phases -> 0..MaxRevisions], cards: SUBSET Phases,
              last: Rounds \cup {NoRound}, content: 0..Contents]
NewTask == [phase |-> 1, revs |-> [p \in Phases |-> 0], cards |-> {}, last |-> NoRound,
            content |-> 0]

\* "other" messages, the plans, answers, questions to repeat them and memories, are no
\* anchors.
Kinds == {"system", "spec", "cards", "round", "prompt", "results", "other"}
Messages == [task: Tasks, round: Rounds, kind: Kinds]

\* A step of a plan; a step that succeeds may have no result.
Tools == {"save_artifact", "other"}
Results == {"none", "data"}
PlanStep == [id: StepIds, tool: Tools, success: BOOLEAN, result: Results]
Plans == UNION {[1..n -> PlanStep] : n \in 0..MaxSteps}

\* artifact_filename: phase and revision, step, tool; result or error.
Artifacts == [round: Rounds, id: StepIds, tool: Tools, kind: {"result", "error"}]

\* StepSummary in the manifest, and what the steps of the plan in hand have written.
NoEntry == [success |-> FALSE, artifact |-> NoRound]
Entries == {NoEntry} \cup [success: BOOLEAN, artifact: Artifacts]
StepFiles == [art: SUBSET Artifacts, man: [StepIds -> Entries]]
NoFiles == [art |-> {}, man |-> [id \in StepIds |-> NoEntry]]

Asking == {"planning", "synthesis", "content"}
InFlow == Asking \cup {"steps"}
Live == InFlow \cup {"top", "evaluating", "concluding"}
Ended == {"done", "failed"}
Run == [pc: Live \cup Ended \cup {"new", "lost"}, obj: TaskState, plan: Plans, k: 0..MaxSteps,
        tries: 0..MaxAttempts, files: StepFiles]
NewRun == [pc |-> "new", obj |-> NewTask, plan |-> <<>>, k |-> 0, tries |-> 0,
           files |-> NoFiles]

-----------------------------------------------------------------------------
(* Plausible bugs.                                                         *)

\* The history is not emptied when a phase starts.
HistoryKept(t) == agent.history

\* The limit of revisions is one step too late.
OneMoreRevision(rev) == rev <= MaxRevisions

\* The entry of a step that failed is left as it is.
EntryLeft(t, f, s) == f

-----------------------------------------------------------------------------
Phase(t) == runs[t].obj.phase
Round(t) == [phase |-> Phase(t), rev |-> runs[t].obj.revs[Phase(t)]]
Msg(t, kind) == [task |-> t, round |-> Round(t), kind |-> kind]

\* What initialize() leaves of the history.
Emptied(t) == {}

\* initialize and _on_start_new_phase.
Opening(t) ==
    Emptied(t) \cup {Msg(t, kind) : kind \in {"system", "spec", "other"}}
    \cup (IF runs[t].obj.cards = {} THEN {} ELSE {Msg(t, "cards")})

\* What compress_messages may leave of the history: it removes messages that are no
\* anchors, one after the other.
Sent(history) == {history \ removed : removed \in SUBSET {m \in history : m.kind = "other"}}

\* Tasks that are in a flow while t writes to the agent.
Beside(t) == {u \in Tasks \ {t} : runs[u].pc \in InFlow}

\* evaluate_phase appends the output to what it has been given before.
Evaluate == jury' = TRUE

Said(t, kinds) == agent.history \cup {Msg(t, kind) : kind \in kinds}

\* The run of t has ended and is saved.  Nothing of it is looked at again, and is
\* left out.
End(t, pc) ==
    /\ runs' = [runs EXCEPT ![t] = [NewRun EXCEPT !.pc = pc]]
    /\ disk' = [disk EXCEPT ![t] = [life |-> "ended", obj |-> NewTask]]
    /\ over' = over \ {t}
Fail(t) == End(t, "failed")

Fault(n) == used.faults + n <= MaxFaults /\ used' = [used EXCEPT !.faults = @ + n]

-----------------------------------------------------------------------------
Init ==
    /\ agent = [phase |-> 0, history |-> {}]
    /\ jury = FALSE
    /\ runs = [t \in Tasks |-> NewRun]
    /\ disk = [t \in Tasks |-> [life |-> "running", obj |-> NewTask]]
    /\ mixed = {} /\ over = {}
    /\ used = [faults |-> 0, crashes |-> 0]

\* A confirmed task begins its run.
Start(t) ==
    /\ runs[t].pc = "new"
    /\ runs' = [runs EXCEPT ![t].pc = "top"]
    /\ UNCHANGED <<agent, jury, disk, mixed, over, used>>

-----------------------------------------------------------------------------
(* Entering a flow.                                                        *)

IsRevision(t) == runs[t].obj.revs[Phase(t)] > 0

\* The paper workflow asks for what has not passed; without force.
AsksUnforced(t) ==
    IF Phase(t) = Parsing THEN runs[t].obj.content < Contents ELSE ~IsRevision(t)

\* A first round forgets the results of the round before it.
Entering(t) ==
    IF Phase(t) = Parsing \/ IsRevision(t) THEN runs[t].obj
    ELSE [runs[t].obj EXCEPT !.last = NoRound]

\* _build_previous_results_message
Previous(t) ==
    IF Phase(t) # Parsing /\ IsRevision(t) /\ runs[t].obj.last # NoRound
    THEN {[task |-> t, round |-> runs[t].obj.last, kind |-> "round"]} ELSE {}

Enter(t) ==
    /\ runs[t].pc = "top" /\ Phase(t) \in Phases
    /\ Phase(t) = Parsing => runs[t].obj.content < Contents
    /\ AsksUnforced(t) => agent.phase # Phase(t)
    /\ agent' = [phase |-> Phase(t),
                 history |-> Opening(t) \cup Previous(t) \cup {Msg(t, "prompt")}]
    /\ runs' = [runs EXCEPT ![t].pc = IF Phase(t) = Parsing THEN "content" ELSE "planning",
                            ![t].obj = Entering(t)]
    /\ mixed' = (mixed \ {t}) \cup Beside(t)
    /\ UNCHANGED <<jury, disk, over, used>>

\* start_new_phase finds the mark of the phase it is called for.
Refuse(t) ==
    /\ runs[t].pc = "top" /\ Phase(t) \in Phases
    /\ AsksUnforced(t) /\ agent.phase = Phase(t)
    /\ Fail(t)
    /\ UNCHANGED <<agent, jury, mixed, used>>

\* All sub-steps have passed: the paper workflow has nothing to ask for.
EnterPassed(t) ==
    /\ runs[t].pc = "top" /\ Phase(t) = Parsing /\ runs[t].obj.content = Contents
    /\ runs' = [runs EXCEPT ![t].pc = "evaluating"]
    /\ Evaluate
    /\ UNCHANGED <<agent, disk, mixed, over, used>>

-----------------------------------------------------------------------------
(* Answers of the model.                                                   *)

LastAttempt(t) == runs[t].tries + 1 = MaxAttempts

\* An answer that cannot be parsed is asked for again, with a message.
AskAgain(t) ==
    /\ runs[t].pc \in Asking /\ ~LastAttempt(t)
    /\ agent' = [agent EXCEPT !.history = Said(t, {"other"})]
    /\ runs' = [runs EXCEPT ![t].tries = @ + 1]
    /\ mixed' = mixed \cup Beside(t)
    /\ UNCHANGED <<jury, disk, over, used>>

\* A call that raises, or no plan after the last attempt; or an answer, and then a plan
\* that is not valid or not confirmed, or a write outside the steps that fails.
FlowEnds(t) ==
    /\ runs[t].pc \in InFlow \cup {"evaluating"}
    /\ Fail(t)
    /\ \/ UNCHANGED agent /\ mixed' = mixed \ {t}
       \/ /\ runs[t].pc \in Asking
          /\ agent' = [agent EXCEPT !.history = Said(t, {"other"})]
          /\ mixed' = (mixed \ {t}) \cup Beside(t)
    /\ UNCHANGED <<jury, used>>

PlanMade(t) ==
    /\ runs[t].pc = "planning"
    /\ \E n \in 1..(IF t \in Long THEN MaxSteps ELSE 1) : \E names \in [1..n -> StepIds \X Tools] :
          runs' = [runs EXCEPT ![t] = [@ EXCEPT
                      !.pc = "steps", !.tries = 0,
                      !.plan = [k \in 1..n |-> [id |-> names[k][1], tool |-> names[k][2],
                                                success |-> FALSE, result |-> "none"]]]]
    /\ agent' = [agent EXCEPT !.history = Said(t, {"other"})]
    /\ mixed' = mixed \cup Beside(t)
    /\ UNCHANGED <<jury, disk, over, used>>

\* A generated sub-step of the paper has passed and is saved; the next one is asked for.
ContentMade(t) ==
    /\ runs[t].pc = "content"
    /\ LET obj == [runs[t].obj EXCEPT !.content = @ + 1]
           run == [runs[t] EXCEPT !.obj = obj, !.tries = 0]
       IN  /\ disk' = [disk EXCEPT ![t].obj.content = obj.content]
           /\ IF obj.content < Contents
              THEN /\ agent' = [agent EXCEPT !.history = Said(t, {"other", "prompt"})]
                   /\ runs' = [runs EXCEPT ![t] = run]
                   /\ mixed' = mixed \cup Beside(t)
                   /\ UNCHANGED jury
              ELSE /\ agent' = [agent EXCEPT !.history = Said(t, {"other"})]
                   /\ runs' = [runs EXCEPT ![t] = [run EXCEPT !.pc = "evaluating"]]
                   /\ mixed' = (mixed \ {t}) \cup Beside(t)
                   /\ Evaluate
    /\ UNCHANGED <<over, used>>

\* The output of the phase, after the last attempt a placeholder; its evaluation.
OutputMade(t) ==
    /\ runs[t].pc = "synthesis"
    /\ runs' = [runs EXCEPT ![t] = [@ EXCEPT !.pc = "evaluating", !.plan = <<>>, !.k = 0,
                                             !.tries = 0, !.files = NoFiles]]
    /\ agent' = [agent EXCEPT !.history = Said(t, {"other"})]
    /\ Evaluate
    /\ mixed' = (mixed \ {t}) \cup Beside(t)
    /\ UNCHANGED <<disk, over, used>>

-----------------------------------------------------------------------------
(* The steps of a plan.                                                    *)

Current(t) == runs[t].plan[runs[t].k + 1]
Artifact(t, s, kind) == [round |-> Round(t), id |-> s.id, tool |-> s.tool, kind |-> kind]
WithArtifact(f, a) == [f EXCEPT !.art = @ \cup {a}]
WithEntry(f, a) ==
    [f EXCEPT !.man[a.id] = [success |-> a.kind = "result", artifact |-> a]]

\* _auto_persist_step_error; for save_artifact there is nothing to do.
ErrorSaved(t, f, s) ==
    LET a == Artifact(t, s, "error")
    IN  IF s.tool = "save_artifact" THEN f ELSE WithEntry(WithArtifact(f, a), a)

\* What a write that fails leaves behind: the artifact, the manifest or only the
\* index is missing.
ErrorLost(t, f, s) ==
    LET a == Artifact(t, s, "error")
    IN  IF s.tool = "save_artifact" THEN {}
        ELSE {f, WithArtifact(f, a), WithEntry(WithArtifact(f, a), a)}

\* _auto_persist_step_result, as far as it came.
ResultSaved(t, f, s, result) ==
    LET a == Artifact(t, s, "result")
    IN  CASE s.tool = "save_artifact" -> WithEntry(f, a)
          [] result = "none" -> f
          [] OTHER -> WithEntry(WithArtifact(f, a), a)
ResultLost(t, f, s) ==
    LET a == Artifact(t, s, "result")
    IN  IF s.tool = "save_artifact" THEN {f, WithEntry(f, a)}
        ELSE {f, WithArtifact(f, a), WithEntry(WithArtifact(f, a), a)}

\* The step is executed; after the last one its results are put to the model.
Executed(t, f, success, result) ==
    LET k == runs[t].k + 1
        done == [runs[t].plan[k] EXCEPT !.success = success, !.result = result]
        run == [runs[t] EXCEPT !.plan[k] = done, !.k = k, !.files = f]
    IN  /\ IF k < Len(run.plan)
           THEN runs' = [runs EXCEPT ![t] = run] /\ UNCHANGED <<agent, mixed>>
           ELSE /\ agent' = [agent EXCEPT !.history = Said(t, {"results"})]
                /\ runs' = [runs EXCEPT ![t] = [run EXCEPT !.pc = "synthesis"]]
                /\ mixed' = mixed \cup Beside(t)

\* The tool succeeds and its result is kept; an empty one cannot be.
StepSucceeds(t) ==
    /\ runs[t].pc = "steps"
    /\ \E result \in Results :
          /\ result = "none" => Current(t).tool = "other"
          /\ Executed(t, ResultSaved(t, runs[t].files, Current(t), result), TRUE, result)
    /\ UNCHANGED <<jury, disk, over, used>>

\* The tool succeeds and its result cannot be kept: the step has failed.
StepUnkept(t) ==
    /\ runs[t].pc = "steps"
    /\ \/ /\ Current(t).tool = "other"
          /\ Executed(t, ErrorSaved(t, runs[t].files, Current(t)), FALSE, "none")
          /\ UNCHANGED used
       \/ /\ \E f \in ResultLost(t, runs[t].files, Current(t)) :
                Executed(t, ErrorSaved(t, f, Current(t)), FALSE, "none")
          /\ Fault(1)
    /\ UNCHANGED <<jury, disk, over>>

\* The tool fails; the error is saved, at the second attempt if need be.
StepFails(t) ==
    /\ runs[t].pc = "steps"
    /\ \/ Executed(t, ErrorSaved(t, runs[t].files, Current(t)), FALSE, "none") /\ UNCHANGED used
       \/ /\ \E f \in ErrorLost(t, runs[t].files, Current(t)) :
                Executed(t, ErrorSaved(t, f, Current(t)), FALSE, "none")
          /\ Fault(1)
    /\ UNCHANGED <<jury, disk, over>>

\* The error of a step cannot be saved either: the flow raises.
StepRaises(t) ==
    /\ runs[t].pc = "steps"
    /\ Current(t).tool = "other" /\ Fault(1)
    /\ Fail(t) /\ mixed' = mixed \ {t}
    /\ UNCHANGED <<agent, jury>>

-----------------------------------------------------------------------------
(* The verdict, and the run around the flow.                               *)

MayRevise(rev) == rev < MaxRevisions

Saved(t, obj, pc) ==
    /\ runs' = [runs EXCEPT ![t].obj = obj, ![t].pc = pc]
    /\ disk' = [disk EXCEPT ![t].obj = obj]

\* The round is recorded, unless that raises, which is caught.
Pass(t) ==
    /\ runs[t].pc = "evaluating"
    /\ \E last \in {Round(t), runs[t].obj.last} :
          LET obj == [runs[t].obj EXCEPT !.last = last, !.phase = @ + 1,
                                         !.cards = @ \cup {Phase(t)}]
          IN  /\ IF last = Round(t) THEN UNCHANGED used ELSE Fault(1)
              /\ Saved(t, obj, IF obj.phase = Finished THEN "concluding" ELSE "top")
    /\ UNCHANGED <<agent, jury, mixed, over>>

Revise(t) ==
    /\ runs[t].pc = "evaluating" /\ MayRevise(Round(t).rev)
    /\ \E last \in {Round(t), runs[t].obj.last} :
          /\ IF last = Round(t) THEN UNCHANGED used ELSE Fault(1)
          /\ Saved(t, [runs[t].obj EXCEPT !.last = last, !.revs[Phase(t)] = @ + 1], "top")
    /\ UNCHANGED <<agent, jury, mixed, over>>

Conclude(t) ==
    /\ runs[t].pc = "concluding"
    /\ End(t, "done")
    /\ UNCHANGED <<agent, jury, mixed, used>>

\* A new process has new agents.
Crash ==
    /\ used.crashes < MaxCrashes
    /\ used' = [used EXCEPT !.crashes = @ + 1]
    /\ runs' = [t \in Tasks |-> IF runs[t].pc \in Live THEN [NewRun EXCEPT !.pc = "lost"]
                                ELSE runs[t]]
    /\ agent' = [phase |-> 0, history |-> {}]
    /\ jury' = FALSE /\ mixed' = {}
    /\ UNCHANGED <<disk, over>>

\* A task lost after its last phase starts over, with the revisions it had.
Recover(t) ==
    /\ runs[t].pc = "lost"
    /\ LET obj == disk[t].obj
       IN  IF obj.phase = Finished
           THEN /\ runs' = [runs EXCEPT ![t] = [NewRun EXCEPT !.pc = "top",
                                                              !.obj = [obj EXCEPT !.phase = 1]]]
                /\ over' = over \cup {t}
           ELSE /\ runs' = [runs EXCEPT ![t] = [NewRun EXCEPT !.pc = "top", !.obj = obj]]
                /\ UNCHANGED over
    /\ UNCHANGED <<agent, jury, disk, mixed, used>>

-----------------------------------------------------------------------------
Answer(t) == AskAgain(t) \/ FlowEnds(t) \/ PlanMade(t) \/ ContentMade(t) \/ OutputMade(t)
StepOfPlan(t) == StepSucceeds(t) \/ StepUnkept(t) \/ StepFails(t) \/ StepRaises(t)
RunStep(t) == Enter(t) \/ Refuse(t) \/ EnterPassed(t) \/ Answer(t) \/ StepOfPlan(t)
              \/ Pass(t) \/ Revise(t) \/ Conclude(t)

Next == Crash \/ \E t \in Tasks : Start(t) \/ RunStep(t) \/ Recover(t)

Spec == Init /\ [][Next]_vars
FairSpec == Spec /\ \A t \in Tasks : WF_vars(RunStep(t))

-----------------------------------------------------------------------------
(* Properties.                                                             *)

\* Every variable keeps its type.
TypeOK ==
    /\ agent \in [phase: 0..NumPhases, history: SUBSET Messages]
    /\ jury \in BOOLEAN
    /\ runs \in [Tasks -> Run]
    /\ disk \in [Tasks -> [life: {"running", "ended"}, obj: TaskState]]
    /\ mixed \subseteq Tasks /\ over \subseteq Tasks
    /\ used \in [faults: 0..MaxFaults, crashes: 0..MaxCrashes]

\* The model is asked with the system prompt, the specification and the prompt of
\* this task and round, with the results of its steps when it is asked for the
\* output, and with nothing of an earlier phase, an earlier round or another task, as
\* long as no other task has written to the agent during the flow.
OwnConversation(t, asked) ==
    /\ \A m \in asked : m.task = t /\ (m.kind # "round" => m.round = Round(t))
    /\ {Msg(t, "system"), Msg(t, "spec"), Msg(t, "prompt")} \subseteq asked
    /\ Msg(t, "results") \in asked <=> runs[t].pc = "synthesis"

\* A revision is shown the round before it, of the same phase: also one that a
\* recovered process carries out, unless the round could not be recorded or the task
\* has started over after its last phase.
PreviousRound(t, asked) ==
    LET shown == {m.round : m \in {n \in asked : n.kind = "round"}}
        before == {[phase |-> Phase(t), rev |-> r] : r \in 0..Round(t).rev - 1}
    IN  /\ shown \subseteq before
        /\ (IsRevision(t) /\ Phase(t) # Parsing /\ used.faults = 0) =>
               [phase |-> Phase(t), rev |-> Round(t).rev - 1] \in shown

PromptsAreRight ==
    \A t \in Tasks : (runs[t].pc \in Asking /\ t \notin mixed) =>
        \A asked \in Sent(agent.history) :
            OwnConversation(t, asked) /\ (t \in over \/ PreviousRound(t, asked))

\* When the results of a plan are put to the model, the manifest tells of every step,
\* by the last one of its name, whether it succeeded, and the artifact it refers to is
\* there: also after writes that failed on the way.  Steps without a result, and
\* save_artifact when it fails, leave no entry.
StepsAreRecorded ==
    \A t \in Tasks : runs[t].pc = "synthesis" =>
        \A k \in DOMAIN runs[t].plan :
            LET s == runs[t].plan[k]
                kind == IF s.success THEN "result" ELSE "error"
                e == runs[t].files.man[s.id]
            IN  (\A j \in DOMAIN runs[t].plan : j > k => runs[t].plan[j].id # s.id) =>
                    \/ s.tool = "other" /\ s.success /\ s.result = "none"
                    \/ s.tool = "save_artifact" /\ ~s.success
                    \/ /\ e = [success |-> s.success, artifact |-> Artifact(t, s, kind)]
                       /\ s.tool = "other" => e.artifact \in runs[t].files.art

-----------------------------------------------------------------------------
(* What the documents say and the code does not do.                        *)

\* A03: "the logic of a new phase is not affected: at revision 0 start_new_phase works";
\* but the mark of the last phase belongs to the agent and is never taken back, and a task
\* is refused the phase that any task entered last.
NobodyIsRefused == [][\A t \in Tasks : ~Refuse(t)]_vars

\* A01: during a phase the history is never reset; a task that enters a phase resets
\* that of all others.
NobodyIsMixed == mixed = {}

\* A01: the evaluation agent keeps no history over phases; it is initialised once.
EvaluatedAlone ==
    [][\A t \in Tasks : (runs[t].pc # "evaluating" /\ runs'[t].pc = "evaluating") => ~jury]_vars
=============================================================================

--------------------------- MODULE PaperProcessing ---------------------------
(***************************************************************************)
(* The PAPER_PARSING phase: PaperProcessingWorkflow._run_core works through *)
(* five sub-steps on one paper, and StatePersistence keeps the status of   *)
(* each in two files, task_state.json and manifest.json.                   *)
(*                                                                         *)
(* A step of the model ends at every file that is replaced and at every    *)
(* await that yields, so the process can be lost between any two writes;   *)
(* any write may fail, and so may loading the artifact of a passed         *)
(* sub-step.  Abstracted: what a section, a term or a summary says (the    *)
(* artifact is the set of sub-steps whose content it holds), whether the   *)
(* tools accept generated content (either way), the plan file, the tasks   *)
(* index (its write may fail; it is rebuilt from the manifests), and the   *)
(* other fields of the two files.  The revision limit is in TaskRun; here  *)
(* MaxRuns bounds how often the phase is entered.                          *)
(***************************************************************************)
EXTENDS Naturals, Sequences, FiniteSets

CONSTANTS Papers,      \* papers that can be candidates
          NoPaper,     \* no paper, no path
          MaxRuns,     \* bound: entries into the workflow
          MaxCrashes,  \* bound: processes lost
          MaxFaults    \* bound: reads and writes that fail

ASSUME PapersAssumption == Papers # {} /\ {NoPaper, "empty", "legacy"} \cap Papers = {}
ASSUME BoundsAssumption == MaxRuns \in Nat /\ MaxCrashes \in Nat /\ MaxFaults \in Nat

VARIABLES offered,   \* what the retrieval phase left in the metadata
          mem,       \* the TaskState object: sub-steps and selected candidate
          state,     \* the same in task_state.json
          man,       \* the sub-steps in manifest.json
          art,       \* papers/<id>.json: the content each artifact holds
          pdf,       \* papers whose PDF is on disk
          pc, i,     \* where the workflow is, and the index of its sub-step
          path,      \* the local artifact_path
          loc,       \* the local artifact: content of the copy in memory
          upd,       \* the sub-step update or artifact update in progress
          result,    \* how the last run of the workflow ended
          output,    \* phase_output_paper_parsing.json
          verdict,   \* verdict of the evaluation registered in the manifest
          demoted,   \* history: a passed sub-step was set to BLOCKED
          torn,      \* history: an update ended between its two files
          runs, crashes, faults

files == <<state, man, art, pdf, output, verdict>>
history == <<demoted, torn>>
bounds == <<runs, crashes, faults>>
vars == <<offered, mem, pc, i, path, loc, upd, result, files, history, bounds>>

-----------------------------------------------------------------------------
\* PAPER_PROCESSING_SUBSTEPS
Order == <<"download", "parse", "glossary", "translate", "summary">>
Steps == {Order[k] : k \in DOMAIN Order}

Paths == Papers \cup {NoPaper}
StepRecords == [status: {"not_started", "RUNNING", "PASS", "BLOCKED"}, out: Paths]
NotStarted == [status |-> "not_started", out |-> NoPaper]
Progress == [steps: [Steps -> StepRecords], cand: Paths]
NoOutput == [paper |-> NoPaper, from |-> NoPaper, parts |-> {}]

UpdatePcs == {"write_state", "write_manifest", "write_index", "undo_state", "undo_manifest"}
ToolPcs == {"generate", "execute", "save_json", "register", "content_saved"}
ExitPcs == {"plan_blocked", "eval_blocked", "save_output", "save_plan", "evaluate", "save_eval"}
LivePcs == {"load", "select", "no_candidate", "plan", "loop"} \cup UpdatePcs \cup ToolPcs
           \cup ExitPcs \cup {"ended"}

-----------------------------------------------------------------------------
(* Plausible bugs, one per property: each replaces an operator below.      *)

OnlyOwnContent(parts, s) == {s}
SkipStarted(rec) == rec.status \in {"PASS", "RUNNING"}
ManifestNotRestored == man
EntryAsManifest == upd.man
SameStep(k) == k

-----------------------------------------------------------------------------
\* The content of an artifact after the tool of sub-step s: the download
\* starts the file anew, parsing replaces the sections and with them their
\* translations.
WithContent(parts, s) ==
    CASE s = "download" -> {s}
      [] s = "parse" -> (parts \ {"translate"}) \cup {s}
      [] OTHER -> parts \cup {s}

\* A sub-step that passed is not executed again.
Skipped(rec) == rec.status = "PASS"

\* select_paper_candidate and has_paper_retrieval_metadata: the candidate that
\* was selected before, otherwise the first one that retrieval found.
Selected == IF mem.cand # NoPaper THEN {mem.cand}
            ELSE IF offered \in Papers THEN {offered} ELSE {NoPaper}

\* load_paper_processing_steps: task_state.json first.
StepsOnDisk == state.steps

Following(k) == k + 1

\* _restore_file(manifest_path, previous_manifest)
ManifestRestored == [man EXCEPT ![upd.step] = upd.man]

-----------------------------------------------------------------------------
Init ==
    /\ offered \in Papers \cup {"empty", "legacy"}
    /\ mem = [steps |-> [s \in Steps |-> NotStarted], cand |-> NoPaper]
    /\ state = mem
    /\ man = mem.steps
    /\ art = [p \in Papers |-> {}]
    /\ pdf = {}
    /\ pc = "load"
    /\ i = 1
    /\ path = NoPaper
    /\ loc = {}
    /\ upd = [step |-> "download", next |-> "loop", state |-> NotStarted, man |-> NotStarted]
    /\ result = "none"
    /\ output = NoOutput
    /\ verdict = "none"
    /\ demoted = FALSE
    /\ torn = FALSE
    /\ runs = 1
    /\ crashes = 0
    /\ faults = 0

Fault == faults < MaxFaults /\ faults' = faults + 1
NoFault == UNCHANGED faults
Step == Order[i]
Rec(st, out) == [status |-> st, out |-> out]

\* The workflow raises or returns.
End(r) == pc' = "ended" /\ result' = r

\* persist_step: the TaskState object first, then the files.
Persist(s, st, out, next) ==
    /\ mem' = [mem EXCEPT !.steps[s] = Rec(st, out)]
    /\ upd' = [step |-> s, next |-> next, state |-> state.steps[s], man |-> man[s]]
    /\ pc' = "write_state"

Block(s, out) == Persist(s, "BLOCKED", out, "plan_blocked")

-----------------------------------------------------------------------------
(* update_paper_processing_step: state, manifest, index; on an exception   *)
(* both files get their previous bytes back and the caller gets the error. *)

WriteState ==
    /\ pc = "write_state"
    /\ \/ /\ NoFault
          /\ state' = [state EXCEPT !.steps[upd.step] = mem.steps[upd.step]]
          /\ pc' = "write_manifest"
       \/ Fault /\ pc' = "undo_state" /\ UNCHANGED state
    /\ UNCHANGED <<offered, mem, i, path, loc, upd, result, man, art, pdf, output, verdict,
                   history, runs, crashes>>

WriteManifest ==
    /\ pc = "write_manifest"
    /\ \/ /\ NoFault
          /\ man' = [man EXCEPT ![upd.step] = mem.steps[upd.step]]
          /\ pc' = "write_index"
       \/ Fault /\ pc' = "undo_state" /\ UNCHANGED man
    /\ UNCHANGED <<offered, mem, i, path, loc, upd, result, state, art, pdf, output, verdict,
                   history, runs, crashes>>

WriteIndex ==
    /\ pc = "write_index"
    /\ \/ /\ NoFault
          /\ pc' = upd.next
          /\ i' = IF upd.next = "loop" THEN Following(i) ELSE i
       \/ Fault /\ pc' = "undo_state" /\ UNCHANGED i
    /\ UNCHANGED <<offered, mem, path, loc, upd, result, files, history, runs, crashes>>

UndoState ==
    /\ pc = "undo_state"
    /\ \/ NoFault /\ state' = [state EXCEPT !.steps[upd.step] = upd.state] /\ UNCHANGED torn
       \/ Fault /\ torn' = TRUE /\ UNCHANGED state
    /\ pc' = "undo_manifest"
    /\ UNCHANGED <<offered, mem, i, path, loc, upd, result, man, art, pdf, output, verdict,
                   demoted, runs, crashes>>

\* A failed PASS is caught by the loop body, which reports BLOCKED; any other
\* failure leaves the workflow.
UndoManifest ==
    /\ pc = "undo_manifest"
    /\ \/ NoFault /\ man' = ManifestRestored /\ UNCHANGED torn
       \/ Fault /\ torn' = TRUE /\ UNCHANGED man
    /\ IF mem.steps[upd.step].status = "PASS"
       THEN /\ mem' = [mem EXCEPT !.steps[upd.step] = Rec("BLOCKED", NoPaper)]
            /\ upd' = [step |-> upd.step, next |-> "plan_blocked",
                       state |-> state.steps[upd.step], man |-> man'[upd.step]]
            /\ pc' = "write_state"
            /\ UNCHANGED result
       ELSE End("raised") /\ UNCHANGED <<mem, upd>>
    /\ UNCHANGED <<offered, i, path, loc, state, art, pdf, output, verdict, demoted,
                   runs, crashes>>

-----------------------------------------------------------------------------
(* Entering the workflow and choosing the paper.                           *)

\* load_steps: the sub-steps on disk replace those in memory.
LoadSteps ==
    /\ pc = "load"
    /\ \/ /\ NoFault
          /\ mem' = [mem EXCEPT !.steps = StepsOnDisk]
          /\ pc' = "select"
          /\ UNCHANGED result
       \/ Fault /\ End("raised") /\ UNCHANGED mem
    /\ i' = 1
    /\ path' = NoPaper
    /\ loc' = {}
    /\ UNCHANGED <<offered, upd, files, history, runs, crashes>>

Candidate(c) ==
    /\ mem' = [mem EXCEPT !.cand = c]
    /\ pc' = IF c = NoPaper THEN "no_candidate" ELSE "plan"

\* A task without retrieval metadata asks the model for a plan with a download
\* step, which may name any paper or none, or fail.
SelectCandidate ==
    /\ pc = "select"
    /\ \/ \E c \in Selected :
             /\ c # NoPaper \/ offered # "legacy"
             /\ Candidate(c)
             /\ UNCHANGED result
       \/ /\ offered = "legacy" /\ Selected = {NoPaper}
          /\ \/ \E c \in Paths : Candidate(c) /\ UNCHANGED result
             \/ End("raised") /\ UNCHANGED mem
    /\ UNCHANGED <<offered, i, path, loc, upd, files, history, bounds>>

NoCandidate ==
    /\ pc = "no_candidate"
    /\ \/ /\ NoFault
          /\ Persist("download", "BLOCKED", NoPaper, "eval_blocked")
          /\ demoted' = (demoted \/ mem.steps["download"].status = "PASS")
          /\ UNCHANGED result
       \/ Fault /\ End("raised") /\ UNCHANGED <<mem, upd, demoted>>
    /\ UNCHANGED <<offered, i, path, loc, files, torn, runs, crashes>>

SavePlan ==
    /\ pc = "plan"
    /\ \/ NoFault /\ pc' = "loop" /\ UNCHANGED result
       \/ Fault /\ End("raised")
    /\ UNCHANGED <<offered, mem, i, path, loc, upd, files, history, runs, crashes>>

-----------------------------------------------------------------------------
(* The loop over the sub-steps.                                            *)

\* A passed sub-step only contributes its artifact.
SkipPassed ==
    /\ pc = "loop" /\ i <= Len(Order) /\ Skipped(mem.steps[Step])
    /\ path' = IF path = NoPaper THEN mem.steps[Step].out ELSE path
    /\ \/ /\ NoFault
          /\ IF path' = NoPaper \/ art[path'] # {}
             THEN /\ loc' = IF path' = NoPaper THEN loc ELSE art[path']
                  /\ i' = Following(i)
                  /\ UNCHANGED <<mem, upd, pc, demoted>>
             ELSE Block(Step, mem.steps[Step].out) /\ demoted' = TRUE /\ UNCHANGED <<loc, i>>
       \/ /\ Fault
          /\ path' # NoPaper
          /\ Block(Step, mem.steps[Step].out)
          /\ demoted' = TRUE
          /\ UNCHANGED <<loc, i>>
    /\ UNCHANGED <<offered, result, files, torn, runs, crashes>>

StartStep ==
    /\ pc = "loop" /\ i <= Len(Order) /\ ~Skipped(mem.steps[Step])
    /\ Persist(Step, "RUNNING", NoPaper,
               IF Step \in {"download", "parse"} THEN "execute" ELSE "generate")
    /\ UNCHANGED <<offered, i, path, loc, result, files, history, bounds>>

\* generate_step_content: the model writes the terms, translations or summary of
\* a loaded artifact; a failing call or unusable content blocks the sub-step.
Generate ==
    /\ pc = "generate"
    /\ \/ path # NoPaper /\ loc # {} /\ pc' = "execute" /\ UNCHANGED <<mem, upd>>
       \/ Block(Step, NoPaper)
    /\ UNCHANGED <<offered, i, path, loc, result, files, history, bounds>>

\* A missing path, an exception of the tool, and every refusal of a tool.
ToolFails ==
    /\ pc = "execute"
    /\ Block(Step, NoPaper)
    /\ UNCHANGED <<offered, i, path, loc, result, files, history, bounds>>

\* paper_download: save_paper_artifact writes the PDF, then the JSON, then the
\* manifest, and removes what it wrote when one of them fails.
Download ==
    /\ pc = "execute" /\ Step = "download"
    /\ pdf' = pdf \cup {mem.cand}
    /\ pc' = "save_json"
    /\ UNCHANGED <<offered, mem, i, path, loc, upd, result, state, man, art, output, verdict,
                   history, bounds>>

SaveJson ==
    /\ pc = "save_json"
    /\ \/ /\ NoFault
          /\ art' = [art EXCEPT ![mem.cand] = WithContent(@, "download")]
          /\ pc' = "register"
          /\ UNCHANGED <<pdf, mem, upd>>
       \/ Fault /\ pdf' = pdf \ {mem.cand} /\ Block(Step, NoPaper) /\ UNCHANGED art
    /\ UNCHANGED <<offered, i, path, loc, result, state, man, output, verdict, history,
                   runs, crashes>>

\* The four tools on an artifact read it, check the content they are given
\* against it, and write it with update_paper_artifact.  loc keeps the previous
\* content meanwhile.
UpdateArtifact(s) ==
    /\ pc = "execute" /\ Step = s /\ path # NoPaper
    /\ art' = [art EXCEPT ![path] = WithContent(@, s)]
    /\ loc' = art[path]
    /\ pc' = "register"
    /\ UNCHANGED <<offered, mem, i, path, upd, result, state, man, pdf, output, verdict,
                   history, bounds>>

\* paper_parse reads the PDF the artifact names.
Parse == UpdateArtifact("parse") /\ art[path] # {} /\ path \in pdf

\* paper_glossary finds every term in the original text.
Glossary == UpdateArtifact("glossary") /\ "parse" \in art[path]

\* paper_translate has a translation of every section.
Translate == UpdateArtifact("translate") /\ "parse" \in art[path]

\* paper_summary finds its evidence among the sections.
Summarize == UpdateArtifact("summary") /\ "parse" \in art[path]

\* The artifact is registered in the manifest.  When that fails, a download
\* unlinks its files and an update writes the previous content back, which may
\* fail in its turn.
RegisterArtifact ==
    /\ pc = "register"
    /\ \/ NoFault /\ pc' = "content_saved" /\ UNCHANGED <<art, pdf, mem, upd>>
       \/ /\ Fault
          /\ Block(Step, NoPaper)
          /\ IF Step = "download"
             THEN /\ art' = [art EXCEPT ![mem.cand] = {}]
                  /\ pdf' = pdf \ {mem.cand}
             ELSE /\ art' \in {[art EXCEPT ![path] = loc], art}
                  /\ UNCHANGED pdf
    /\ UNCHANGED <<offered, i, path, loc, result, state, man, output, verdict, history,
                   runs, crashes>>

\* The artifact is loaded again and the sub-step passes.
PassStep ==
    /\ pc = "content_saved"
    /\ path' = IF Step = "download" THEN mem.cand ELSE path
    /\ \/ NoFault /\ loc' = art[path'] /\ Persist(Step, "PASS", path', "loop")
       \/ Fault /\ Block(Step, NoPaper) /\ UNCHANGED loc
    /\ UNCHANGED <<offered, i, result, files, history, runs, crashes>>

-----------------------------------------------------------------------------
(* Leaving the workflow.                                                   *)

PlanBlocked ==
    /\ pc = "plan_blocked"
    /\ \/ NoFault /\ pc' = "eval_blocked" /\ UNCHANGED result
       \/ Fault /\ End("raised")
    /\ UNCHANGED <<offered, mem, i, path, loc, upd, files, history, runs, crashes>>

EvalBlocked ==
    /\ pc = "eval_blocked"
    /\ \/ NoFault /\ verdict' = "BLOCKED" /\ End("BLOCKED")
       \/ Fault /\ End("raised") /\ UNCHANGED verdict
    /\ UNCHANGED <<offered, mem, i, path, loc, upd, state, man, art, pdf, output, history,
                   runs, crashes>>

AllStepsDone ==
    /\ pc = "loop" /\ i > Len(Order)
    /\ pc' = IF loc = {} \/ path = NoPaper THEN "eval_blocked" ELSE "save_output"
    /\ UNCHANGED <<offered, mem, i, path, loc, upd, result, files, history, bounds>>

SaveOutput ==
    /\ pc = "save_output"
    /\ \/ /\ NoFault
          /\ output' = [paper |-> mem.cand, from |-> path, parts |-> loc]
          /\ pc' = "save_plan"
          /\ UNCHANGED result
       \/ Fault /\ End("raised") /\ UNCHANGED output
    /\ UNCHANGED <<offered, mem, i, path, loc, upd, state, man, art, pdf, verdict, history,
                   runs, crashes>>

SaveFinalPlan ==
    /\ pc = "save_plan"
    /\ \/ NoFault /\ pc' = "evaluate" /\ UNCHANGED result
       \/ Fault /\ End("raised")
    /\ UNCHANGED <<offered, mem, i, path, loc, upd, files, history, runs, crashes>>

\* evaluate_phase only asks that the output has a key "sections", so the model
\* decides; gathering the evidence or the call may raise.
Evaluate ==
    /\ pc = "evaluate"
    /\ \/ \E v \in {"PASS", "REVISE", "BLOCKED"} : result' = v /\ pc' = "save_eval"
       \/ End("raised")
    /\ UNCHANGED <<offered, mem, i, path, loc, upd, files, history, bounds>>

SaveEval ==
    /\ pc = "save_eval"
    /\ \/ NoFault /\ verdict' = result /\ End(result)
       \/ Fault /\ End("raised") /\ UNCHANGED verdict
    /\ UNCHANGED <<offered, mem, i, path, loc, upd, state, man, art, pdf, output, history,
                   runs, crashes>>

-----------------------------------------------------------------------------
(* The orchestrator around it.                                             *)

\* The checkpoint at the end of the loop body; if it cannot be written the
\* handler of exceptions writes it once more, and if that fails the run is gone
\* while task_state.json still says running.
Checkpoint ==
    /\ pc = "ended"
    /\ \/ /\ NoFault
          /\ state' = mem
          /\ IF result = "REVISE" /\ runs < MaxRuns
             THEN pc' = "load" /\ runs' = runs + 1
             ELSE pc' = "done" /\ UNCHANGED runs
          /\ UNCHANGED result
       \/ /\ Fault
          /\ IF result = "raised" THEN pc' = "lost" ELSE pc' = "ended"
          /\ result' = "raised"
          /\ UNCHANGED <<state, runs>>
    /\ UNCHANGED <<offered, mem, i, path, loc, upd, man, art, pdf, output, verdict, history,
                   crashes>>

\* A pause or cancel request of the session saves the TaskState object while
\* the workflow waits for a tool or for the evaluation.
ControlRequest ==
    /\ pc \in {"generate", "execute", "evaluate"}
    /\ state # mem
    /\ state' = mem
    /\ UNCHANGED <<offered, mem, pc, i, path, loc, upd, result, man, art, pdf, output, verdict,
                   history, bounds>>

Crash ==
    /\ pc \in LivePcs
    /\ crashes < MaxCrashes
    /\ crashes' = crashes + 1
    /\ pc' = "lost"
    /\ torn' = (torn \/ state.steps # man)
    /\ mem' = state /\ i' = 1 /\ path' = NoPaper /\ loc' = {}
    /\ UNCHANGED <<offered, upd, result, files, demoted, runs, faults>>

\* Recovery at start-up, or a resume: the checkpoint is loaded.
Recover ==
    /\ pc = "lost"
    /\ runs < MaxRuns
    /\ runs' = runs + 1
    /\ mem' = state
    /\ pc' = "load"
    /\ result' = "none"
    /\ UNCHANGED <<offered, i, path, loc, upd, files, history, crashes, faults>>

UpdateStep == WriteState \/ WriteManifest \/ WriteIndex \/ UndoState \/ UndoManifest
SubStep == SkipPassed \/ StartStep \/ Generate \/ ToolFails \/ Download \/ SaveJson \/ Parse
           \/ Glossary \/ Translate \/ Summarize \/ RegisterArtifact \/ PassStep
Entry == LoadSteps \/ SelectCandidate \/ NoCandidate \/ SavePlan
Exit == PlanBlocked \/ EvalBlocked \/ AllStepsDone \/ SaveOutput \/ SaveFinalPlan \/ Evaluate
        \/ SaveEval \/ Checkpoint
Workflow == UpdateStep \/ SubStep \/ Entry \/ Exit

Next == Workflow \/ ControlRequest \/ Crash \/ Recover

Spec == Init /\ [][Next]_vars
FairSpec == Spec /\ WF_vars(Workflow)

-----------------------------------------------------------------------------
(* Properties.                                                             *)

TypeOK ==
    /\ offered \in Papers \cup {"empty", "legacy"}
    /\ mem \in Progress
    /\ state \in Progress
    /\ man \in [Steps -> StepRecords]
    /\ art \in [Papers -> SUBSET Steps]
    /\ pdf \in SUBSET Papers
    /\ pc \in LivePcs \cup {"done", "lost"}
    /\ i \in 1..Len(Order) + 1
    /\ path \in Paths
    /\ loc \in SUBSET Steps
    /\ upd \in [step: Steps, next: LivePcs, state: StepRecords, man: StepRecords]
    /\ result \in {"none", "raised", "PASS", "REVISE", "BLOCKED"}
    /\ output \in [paper: Paths, from: Paths, parts: SUBSET Steps]
    /\ verdict \in {"none", "PASS", "REVISE", "BLOCKED"}
    /\ demoted \in BOOLEAN
    /\ torn \in BOOLEAN
    /\ runs \in 0..MaxRuns + 1
    /\ crashes \in 0..MaxCrashes
    /\ faults \in 0..MaxFaults

\* What task_state.json reports as passed can be read in the artifact: after
\* lost processes, failed writes and their rollbacks, the content of every
\* passed sub-step is in the file it names, until a passed sub-step is set to
\* BLOCKED (it is then executed again, and the later ones are not).
PassedStepsHaveContent ==
    demoted \/ \A s \in Steps :
        state.steps[s].status = "PASS" =>
            state.steps[s].out \in Papers /\ s \in art[state.steps[s].out]

\* Between updates the two files agree on every sub-step, whichever writes of an
\* update failed, unless the process was lost between them, a rollback write
\* failed, or the task failed on an update that was rolled back.
StepsAgree ==
    \/ torn
    \/ pc \in UpdatePcs
    \/ pc = "done" /\ result = "raised"
    \/ state.steps = man

\* The phase output holds the content of all five sub-steps, and of the paper
\* that retrieval offered, also when the run that saves it skipped sub-steps of
\* runs before it.
OutputIsComplete ==
    output # NoOutput /\ ~demoted =>
        /\ output.parts = Steps
        /\ offered \in Papers => output.paper = offered /\ output.from = offered

\* An entered workflow ends: it returns, raises, or its process is lost.
RunsEnd == pc = "load" ~> pc \in {"done", "lost"}

-----------------------------------------------------------------------------
(* What the documents say and the code does not do.                        *)

\* "Sub-step status, artifact and Manifest status agree" is a check of the phase
\* gate; but a sub-step whose update was cut off by a lost process is skipped
\* afterwards, and its manifest entry is never repaired.
ManifestAgreesWhenPassed ==
    pc = "done" /\ result = "PASS" => state.steps = man
=============================================================================

---------------------------- MODULE PaperComparison ----------------------------
(***************************************************************************)
(* A comparison task: PaperComparisonWorkflow acquires each referenced     *)
(* paper from the artifacts of all tasks, has missing sections and         *)
(* summaries written into them, analyses, exports and saves; the service   *)
(* schedules it next to a live paper processing task and answers pause,    *)
(* resume, cancel and restarts as it does for any other task.              *)
(*                                                                         *)
(* The whole runs on one event loop: a step of the model ends where the    *)
(* code awaits the network or the model, or replaces a file.  An artifact  *)
(* is the set of parts that are filled in; what they say, conflicts of the *)
(* sources, the analysis and the rendering are abstracted, and the seven   *)
(* research phases of a resumed run are one step (TaskRun has them).       *)
(***************************************************************************)
EXTENDS Naturals, FiniteSets, SequencesExt

CONSTANTS NumRefs,     \* how many papers are compared, in the order of the request
          LivePaper,   \* the paper the live task is processing
          Finished,    \* how many sub-steps other artifacts have behind them
          MaxTakeovers \* bound: resumes and recoveries of the comparison task

ASSUME RefsAssumption == NumRefs \in 2..5 /\ LivePaper \in 1..NumRefs
ASSUME SizesAssumption == Finished \subseteq 0..5 /\ MaxTakeovers \in Nat

VARIABLES files,     \* the artifact of each paper in the directory of each task
          done,      \* sub-steps the live task has passed
          byId,      \* papers that are referenced by their arXiv id
          absolute,  \* artifact_dir is an absolute path
          pc,        \* where the comparison is
          results,   \* PaperAcquisitionResult of the papers so far
          cur,       \* the result that is being completed
          obj,       \* the TaskState object of the comparison
          disk,      \* task_state.json of the comparison
          output,    \* files of the comparison: exports and paper_comparison.json
          status,    \* status of the session
          live,      \* the run whose object _task_states holds
          other,     \* a run of the research phases on the comparison task
          stale,     \* history: an artifact was written back from an old copy
          takeovers

work == <<pc, results, cur>>
session == <<obj, disk, status, live, other, takeovers>>
vars == <<files, done, byId, absolute, work, output, session, stale>>

-----------------------------------------------------------------------------
\* ComparisonSpec: two to five different papers.
Papers == 1..NumRefs
Tasks == {"live", "old", "self"}

\* json: the file exists; the PDF is a file of its own; the others are fields.
Parts == {"json", "pdf", "sections", "translated", "glossary", "fullText", "summary",
          "evidence"}

\* What each sub-step of paper processing adds.
Added == <<{"json", "pdf"}, {"sections"}, {"glossary"}, {"translated", "fullText"},
           {"summary", "evidence"}>>
After(n) == UNION {Added[k] : k \in 1..n}

Levels == {"paper_artifact_complete", "paper_artifact_partial", "pdf", "downloaded"}
Result == [task: Tasks \cup {"none"}, level: Levels, parts: SUBSET Parts, enriched: BOOLEAN]
NoResult == [task |-> "none", level |-> "downloaded", parts |-> {}, enriched |-> FALSE]

TaskState == [life: {"running", "paused", "cancelled", "completed", "failed"},
              compared: BOOLEAN, control: {"none", "pause", "cancel"}]
Started == [life |-> "running", compared |-> FALSE, control |-> "none"]

OtherRun == [pc: {"none", "running", "done"}, recovered: BOOLEAN, obj: TaskState]
NoRun == [pc |-> "none", recovered |-> FALSE, obj |-> Started]

ComparisonPcs == {"acquire", "metadata", "download", "summarize", "analyze", "export", "save",
                  "complete", "returned", "raised"}

-----------------------------------------------------------------------------
(* Plausible bugs.                                                         *)

LevelUnset(complete) == IF complete THEN "paper_artifact_complete" ELSE "none"
FourStages(parts) == {"pdf", "sections", "glossary", "fullText"} \subseteq parts
ParsedAnew(parts) == {"json", "pdf", "sections"}
NotWrittenBack(old) == old
AnyEndCompletes(o) == "completed"

-----------------------------------------------------------------------------
(* Operators of the code.                                                  *)

Paper == Len(results) + 1

\* _artifact_quality: how many fields are filled.
Quality(parts) == Cardinality(parts \ {"json"})

\* _find_artifact_candidates: best first; of equals, the newer file.
Sources(p) == {t \in Tasks : "json" \in files[t][p]}
Orders(p) == {s \in SetToSeqs(Sources(p)) :
                 \A j, k \in DOMAIN s :
                     j < k => Quality(files[s[j]][p]) >= Quality(files[s[k]][p])}

\* _merge_artifacts: a field comes from the first source that has it, and the
\* translations with the sections.
Merged(order, p) ==
    {part \in Parts : \E k \in DOMAIN order :
        /\ part \in files[order[k]][p]
        /\ part \in {"sections", "translated"} =>
               \A j \in 1..k - 1 : "sections" \notin files[order[j]][p]}

\* _available_stages: all five of them.
AllStages(parts) ==
    {"pdf", "sections", "glossary", "summary"} \subseteq parts
    /\ {"fullText", "translated"} \cap parts # {}
LevelOf(complete) == IF complete THEN "paper_artifact_complete" ELSE "paper_artifact_partial"

Reused(order, p) ==
    [task |-> order[1], level |-> LevelOf(AllStages(Merged(order, p))),
     parts |-> Merged(order, p), enriched |-> FALSE]

\* What run() of the workflow misses in an artifact.
NeedsEnrichment(parts) == ~({"sections", "summary", "evidence"} \subseteq parts)

\* paper_parse: the new sections have no translation.
Parsed(parts) == (parts \ {"translated"}) \cup {"sections"}

\* The copy that was read before the model was asked, with the summary; its
\* evidence goes to a field the artifact does not have.
WrittenBack(old) == cur.parts \cup {"summary"}

\* The result after enrichment: the owner's file, without what was merged.
Enriched(parts) ==
    [cur EXCEPT !.parts = parts, !.enriched = TRUE,
                !.level = LevelOf({"summary", "evidence"} \subseteq parts)]

\* SESSION_STATUS_TRANSITIONS, as far as a session with a task gets.
Transitions == [running |-> {"running", "paused", "cancelled", "completed", "failed"},
                paused |-> {"paused", "running", "cancelled", "completed", "failed"},
                failed |-> {"failed"}, cancelled |-> {"cancelled"},
                completed |-> {"completed"}]
Become(s) == status' = IF s \in Transitions[status] THEN s ELSE status

\* The session status _on_task_done derives from the object of the run.
StatusOf(o) == IF o.life \in {"paused", "cancelled", "completed"} THEN o.life ELSE "failed"

\* The end of _run_comparison_task.
Completed(s) == [s EXCEPT !.life = "completed", !.compared = TRUE]

-----------------------------------------------------------------------------
\* The comparison was confirmed.  A live task is somewhere in its sub-steps; an
\* old one ended after some of them, or was lost after writing the PDF.
Init ==
    /\ done \in 0..5
    /\ \E old \in [Papers -> {After(n) : n \in Finished} \cup {{"pdf"}}] :
          files = [t \in Tasks |-> [p \in Papers |->
                     IF t = "live" /\ p = LivePaper THEN After(done)
                     ELSE IF t = "old" THEN old[p] ELSE {}]]
    /\ byId \in {Papers, {}}
    /\ absolute \in BOOLEAN
    /\ pc = "acquire"
    /\ results = <<>>
    /\ cur = NoResult
    /\ obj = Started
    /\ disk = Started
    /\ output = {}
    /\ status = "running"
    /\ live = "comparison"
    /\ other = NoRun
    /\ stale = FALSE
    /\ takeovers = 0

-----------------------------------------------------------------------------
(* Acquiring the papers.                                                   *)

\* The next paper, or the analysis of all.
Acquired(r) ==
    /\ results' = Append(results, r)
    /\ pc' = IF Paper = NumRefs THEN "analyze" ELSE "acquire"
    /\ cur' = NoResult

Raises == pc' = "raised" /\ UNCHANGED <<results, cur>>

\* An artifact with all the comparison needs, or one that cannot be completed:
\* with a relative artifact_dir the tool looks for the file in the wrong place,
\* and a PDF may be unreadable.
ReuseAsItIs ==
    /\ \E order \in Orders(Paper) : Acquired(Reused(order, Paper))
    /\ UNCHANGED files

\* paper_parse works on the file of the task that owns the artifact.
ParseInPlace ==
    \E order \in Orders(Paper) :
        LET owner == order[1]
            r == Reused(order, Paper)
            parts == Parsed(files[owner][Paper])
        IN  /\ NeedsEnrichment(r.parts) /\ absolute
            /\ files' = [files EXCEPT ![owner][Paper] = parts]
            /\ cur' = [r EXCEPT !.parts = parts]
            /\ pc' = "summarize"
            /\ UNCHANGED results

Acquire ==
    /\ pc = "acquire"
    /\ \/ Sources(Paper) # {} /\ (ReuseAsItIs \/ ParseInPlace)
       \/ /\ Sources(Paper) = {}
          /\ cur' = [NoResult EXCEPT !.level =
                        IF \E t \in Tasks : "pdf" \in files[t][Paper] THEN "pdf" ELSE "downloaded",
                     !.task = IF "pdf" \in files["old"][Paper] THEN "old" ELSE "none"]
          /\ pc' = "metadata"
          /\ UNCHANGED <<files, results>>
    /\ UNCHANGED <<done, byId, absolute, output, session, stale>>

\* fetch_metadata: asks arXiv for a paper referenced by its id.
Metadata ==
    /\ pc = "metadata"
    /\ \/ IF cur.level = "pdf" THEN Acquired(cur)
          ELSE pc' = "download" /\ UNCHANGED <<results, cur>>
       \/ Paper \in byId /\ Raises
    /\ UNCHANGED <<files, done, byId, absolute, output, session, stale>>

\* fetch_pdf into the directory of the comparison; without an id it fails.
Download ==
    /\ pc = "download"
    /\ \/ /\ Paper \in byId
          /\ files' = [files EXCEPT !["self"][Paper] = After(1)]
          /\ Acquired(cur)
       \/ Raises /\ UNCHANGED files
    /\ UNCHANGED <<done, byId, absolute, output, session, stale>>

\* The model answered: paper_summary stores the summary, or refuses it and the
\* copy that was read before the question is written with it.
Summarize ==
    /\ pc = "summarize"
    /\ LET now == files[cur.task][Paper]
       IN  \/ /\ files' = [files EXCEPT ![cur.task][Paper] = now \cup {"summary", "evidence"}]
              /\ Acquired(Enriched(files'[cur.task][Paper]))
              /\ UNCHANGED stale
           \/ /\ files' = [files EXCEPT ![cur.task][Paper] = WrittenBack(now)]
              /\ Acquired(Enriched(cur.parts \cup {"summary"}))
              /\ stale' = (stale \/ ~(now \subseteq cur.parts \cup {"summary"}))
           \/ Raises /\ UNCHANGED <<files, stale>>
    /\ UNCHANGED <<done, byId, absolute, output, session>>

-----------------------------------------------------------------------------
(* The rest of _run_comparison_task.                                       *)

Goes(from, to) ==
    /\ pc = from
    /\ pc' = to
    /\ UNCHANGED <<files, done, byId, absolute, results, cur, stale>>

\* The analyzer asks the model; an unusable answer becomes an empty analysis.
Analyze == Goes("analyze", "export") /\ UNCHANGED <<output, session>>

Export ==
    /\ Goes("export", "save")
    /\ output' = output \cup {"markdown", "html", "csv"}
    /\ UNCHANGED session

SaveArtifact ==
    /\ Goes("save", "complete")
    /\ output' = output \cup {"paper_comparison"}
    /\ UNCHANGED session

\* The object is marked first; a request of the session is not looked at.
Complete ==
    /\ Goes("complete", "returned")
    /\ obj' = Completed(obj)
    /\ disk' = obj'
    /\ UNCHANGED <<output, status, live, other, takeovers>>

\* The model or a write fails.
Fail ==
    /\ \E from \in {"analyze", "export", "save", "complete"} : Goes(from, "raised")
    /\ obj' = IF pc = "complete" THEN Completed(obj) ELSE obj
    /\ UNCHANGED <<output, disk, status, live, other, takeovers>>

\* _on_task_done: a failure is recorded in the object alone.
ComparisonDone ==
    /\ pc \in {"returned", "raised"}
    /\ pc' = "over"
    /\ obj' = IF pc = "raised" THEN [obj EXCEPT !.life = "failed"] ELSE obj
    /\ Become(StatusOf(obj'))
    /\ live' = "none"
    /\ UNCHANGED <<files, done, byId, absolute, results, cur, output, disk, other, stale,
                   takeovers>>

-----------------------------------------------------------------------------
\* The live task passes its next sub-step on the paper.
LiveStep ==
    /\ done < 5
    /\ LET have == files["live"][LivePaper]
           ready == CASE done = 0 -> TRUE [] done = 1 -> "pdf" \in have
                      [] OTHER -> "sections" \in have
       IN  /\ ready
           /\ files' = [files EXCEPT !["live"][LivePaper] =
                           CASE done = 0 -> After(1)
                             [] done = 1 -> Parsed(have)
                             [] OTHER -> have \cup Added[done + 1]]
    /\ done' = done + 1
    /\ UNCHANGED <<byId, absolute, work, output, session, stale>>

-----------------------------------------------------------------------------
(* The requests of the session and the restart of the service.             *)

Unchanged == UNCHANGED <<files, done, byId, absolute, results, cur, output, stale>>

\* The task a request is about: the object of the registered run, or a copy of the file.
Bound == CASE live = "comparison" -> obj [] live = "other" -> other.obj [] OTHER -> disk

Request(s) ==
    /\ disk' = s
    /\ obj' = IF live = "comparison" THEN disk' ELSE obj
    /\ other' = IF live = "other" THEN [other EXCEPT !.obj = disk'] ELSE other
    /\ UNCHANGED <<pc, live, takeovers>>
    /\ Unchanged

PauseRequested(s) == [s EXCEPT !.control = "pause"]
CancelRequested(s) == [s EXCEPT !.control = "cancel", !.life = "cancelled"]

Pause == status = "running" /\ Request(PauseRequested(Bound)) /\ Become("paused")
Cancel == status \in {"running", "paused"} /\ Request(CancelRequested(Bound)) /\ Become("cancelled")

Restored(s) == [s EXCEPT !.control = "none", !.life = "running"]

\* resume() and recover_once() hand the task to Orchestrator.run, whatever it is.
TakeOver(recovered) ==
    /\ other.pc = "none"
    /\ takeovers < MaxTakeovers
    /\ takeovers' = takeovers + 1
    /\ disk' = Restored(disk)
    /\ other' = [pc |-> "running", recovered |-> recovered, obj |-> disk']
    /\ live' = "other"

Resume ==
    /\ status = "paused"
    /\ TakeOver(FALSE)
    /\ Become("running")
    /\ UNCHANGED <<obj, pc>> /\ Unchanged

\* The run of the research phases ends, or stops for a request.
OtherEnds ==
    /\ other.pc = "running"
    /\ \E life \in {"completed", "failed"} \cup
                   (CASE other.obj.control = "pause" -> {"paused"}
                      [] other.obj.control = "cancel" -> {"cancelled"}
                      [] OTHER -> {}) :
          /\ other' = [other EXCEPT !.pc = "done", !.obj.life = life]
          /\ disk' = other'.obj
    /\ UNCHANGED <<pc, obj, status, live, takeovers>> /\ Unchanged

\* _on_task_done of it; called from inside a recovered run, result() raises.
OtherDone ==
    /\ other.pc = "done"
    /\ other' = NoRun
    /\ live' = "none"
    /\ Become(IF other.recovered THEN "failed" ELSE StatusOf(other.obj))
    /\ UNCHANGED <<pc, obj, disk, takeovers>> /\ Unchanged

\* The process is lost and the service starts again.
Recoverable == status = "running" /\ disk.life = "running"

RestartRecovers ==
    /\ pc # "over" /\ other.pc = "none"
    /\ Recoverable
    /\ TakeOver(TRUE)
    /\ pc' = "over"
    /\ UNCHANGED <<obj, status>> /\ Unchanged

RestartIdle ==
    /\ pc # "over" /\ other.pc = "none"
    /\ ~Recoverable
    /\ pc' = "over"
    /\ live' = "none"
    /\ UNCHANGED <<obj, disk, status, other, takeovers>> /\ Unchanged

-----------------------------------------------------------------------------
Workflow == Acquire \/ Metadata \/ Download \/ Summarize \/ Analyze \/ Export \/ SaveArtifact
            \/ Complete \/ Fail \/ ComparisonDone
OtherRuns == OtherEnds \/ OtherDone

Next == Workflow \/ OtherRuns \/ LiveStep \/ Pause \/ Cancel \/ Resume
        \/ RestartRecovers \/ RestartIdle

Spec == Init /\ [][Next]_vars

-----------------------------------------------------------------------------
(* Properties.                                                             *)

\* Every variable keeps its type.
TypeOK ==
    /\ files \in [Tasks -> [Papers -> SUBSET Parts]]
    /\ done \in 0..5
    /\ byId \subseteq Papers
    /\ absolute \in BOOLEAN
    /\ pc \in ComparisonPcs \cup {"over"}
    /\ results \in Seq(Result) /\ Len(results) <= NumRefs
    /\ cur \in Result
    /\ obj \in TaskState /\ disk \in TaskState
    /\ output \subseteq {"markdown", "html", "csv", "paper_comparison"}
    /\ status \in DOMAIN Transitions
    /\ live \in {"comparison", "other", "none"}
    /\ other \in OtherRun
    /\ stale \in BOOLEAN
    /\ takeovers \in 0..MaxTakeovers

\* A paper that is reported as completely processed has a summary and the text
\* it was made of, both when it was reused from several tasks and when the
\* comparison completed it.
LevelIsTrue ==
    \A k \in DOMAIN results :
        results[k].level = "paper_artifact_complete" =>
            {"pdf", "sections", "summary"} \subseteq results[k].parts

\* What the artifacts of all tasks have of a paper.
OnDisk(f, p) == UNION {f[t][p] : t \in Tasks}

\* What the comparison reports of a paper it reused can be read on disk, also
\* while the live task goes on with the same file; only a translation, which a
\* parse drops, may have gone.
FactsAreOnDisk ==
    \A k \in DOMAIN results : results[k].parts \subseteq OnDisk(files, k) \cup {"translated"}

\* The report of an acquisition is true of the content and of the files.
ReportsAreTrue == LevelIsTrue /\ FactsAreOnDisk

\* Completing an artifact in place never takes from the live task what its passed
\* sub-steps wrote, the translations of re-parsed sections and an overwritten
\* file apart.
PassedContentIsKept ==
    stale \/ After(done) \subseteq files["live"][LivePaper] \cup {"translated"}

\* A completed session has a saved comparison of all papers with its exports,
\* and a completed task, unless the research phases were run on the task.
CompletedIsSaved ==
    (takeovers = 0 /\ status = "completed") =>
        /\ disk.compared /\ disk.life = "completed"
        /\ output = {"markdown", "html", "csv", "paper_comparison"}
        /\ Len(results) = NumRefs

-----------------------------------------------------------------------------
(* What the documents say and the code does not do.                        *)

\* P31: "when a comparison task is completed it generates paper_comparison.json"
\* and the exports; a resumed or recovered one is completed without them.
CompletedIsCompared == status = "completed" => "paper_comparison" \in output

\* P30: the status of a sub-step and the artifact agree; a comparison that parses
\* the artifact of a task again drops the translations the task has passed.
TranslationIsKept == done >= 4 => "translated" \in files["live"][LivePaper]
=============================================================================

-------------------------- MODULE PaperComparisonProofs --------------------------
(***************************************************************************)
(* Theorems about PaperComparison for any references, any old artifacts    *)
(* and any number of resumes and recoveries.                               *)
(***************************************************************************)
EXTENDS PaperComparison, FiniteSetTheorems, TLAPS

-----------------------------------------------------------------------------
(* The artifact of the live task.                                          *)

LiveFile == files["live"][LivePaper]

ArtifactInv ==
    /\ DOMAIN files = Tasks /\ \A t \in Tasks : DOMAIN files[t] = Papers
    /\ done \in 0..5
    /\ PassedContentIsKept

LEMMA Live == "live" \in Tasks /\ LivePaper \in Papers
  BY RefsAssumption DEF Tasks, Papers

\* What the next sub-step adds to the content of the passed ones.
LEMMA NextContent ==
    ASSUME NEW n \in 0..4
    PROVE  After(n + 1) = After(n) \cup Added[n + 1]
  BY DEF After

\* The file of one task and paper is written.
LEMMA Written ==
    ASSUME ArtifactInv, NEW t, NEW p, NEW new, files' = [files EXCEPT ![t][p] = new]
    PROVE  /\ DOMAIN files' = Tasks /\ \A q \in Tasks : DOMAIN files'[q] = Papers
           /\ IF t = "live" /\ p = LivePaper THEN LiveFile' = new ELSE LiveFile' = LiveFile
  <1>1. DOMAIN files = Tasks /\ \A q \in Tasks : DOMAIN files[q] = Papers BY DEF ArtifactInv
  <1>2. files' = [files EXCEPT ![t] = [files[t] EXCEPT ![p] = new]] OBVIOUS
  <1>3. DOMAIN files' = Tasks BY <1>1, <1>2
  <1>4. \A q \in Tasks : files'[q] = IF q = t THEN [files[t] EXCEPT ![p] = new] ELSE files[q]
    BY <1>1, <1>2
  <1>5. \A q \in Tasks : DOMAIN files'[q] = Papers BY <1>1, <1>4
  <1> QED BY <1>1, <1>3, <1>4, <1>5, Live DEF LiveFile

\* Content is only added, translations apart, or written from an old copy.
LEMMA Keeps ==
    ASSUME ArtifactInv, done' = done, stale => stale',
           DOMAIN files' = Tasks, \A q \in Tasks : DOMAIN files'[q] = Papers,
           stale' \/ LiveFile \subseteq LiveFile' \cup {"translated"}
    PROVE  ArtifactInv'
  BY DEF ArtifactInv, PassedContentIsKept, LiveFile
LEMMA ArtifactStep ==
    ASSUME ArtifactInv, Next
    PROVE  ArtifactInv'
  <1>0. DOMAIN files = Tasks /\ \A q \in Tasks : DOMAIN files[q] = Papers BY DEF ArtifactInv
  <1>1. CASE UNCHANGED <<files, done>> /\ (stale => stale')
    <2>1. LiveFile' = LiveFile BY <1>1 DEF LiveFile
    <2> QED BY <1>0, <1>1, <2>1, Keeps
  <1>2. CASE Acquire
    <2>1. UNCHANGED <<done, stale>> BY <1>2 DEF Acquire
    <2>2. CASE ParseInPlace
      <3>1. PICK order \in Orders(Paper) :
               files' = [files EXCEPT ![order[1]][Paper] = Parsed(files[order[1]][Paper])]
        BY <2>2 DEF ParseInPlace
      <3> DEFINE new == Parsed(files[order[1]][Paper])
      <3>2. files[order[1]][Paper] \subseteq new \cup {"translated"} BY DEF Parsed
      <3>3. order[1] = "live" /\ Paper = LivePaper => LiveFile \subseteq new \cup {"translated"}
        BY <3>2 DEF LiveFile
      <3> HIDE DEF new
      <3>4. files' = [files EXCEPT ![order[1]][Paper] = new] BY <3>1 DEF new
      <3>5. /\ DOMAIN files' = Tasks /\ \A q \in Tasks : DOMAIN files'[q] = Papers
            /\ LiveFile \subseteq LiveFile' \cup {"translated"}
        <4>1. /\ DOMAIN files' = Tasks /\ \A q \in Tasks : DOMAIN files'[q] = Papers
              /\ IF order[1] = "live" /\ Paper = LivePaper THEN LiveFile' = new
                 ELSE LiveFile' = LiveFile
          BY <3>4, Written
        <4> QED BY <3>3, <4>1
      <3> QED BY <2>1, <3>5, Keeps
    <2>3. CASE ~ParseInPlace
      <3>1. files' = files BY <1>2, <2>3 DEF Acquire, ReuseAsItIs
      <3> QED BY <1>1, <2>1, <3>1
    <2> QED BY <2>2, <2>3
  <1>3. CASE Download
    <2>1. UNCHANGED <<done, stale>> BY <1>3 DEF Download
    <2>2. CASE files' = [files EXCEPT !["self"][Paper] = After(1)]
      <3>1. /\ DOMAIN files' = Tasks /\ \A q \in Tasks : DOMAIN files'[q] = Papers
            /\ LiveFile' = LiveFile
        BY <2>2, Written
      <3> QED BY <2>1, <3>1, Keeps
    <2> QED BY <1>1, <1>3, <2>1, <2>2 DEF Download
  <1>4. CASE Summarize
    <2> DEFINE now == files[cur.task][Paper]
    <2>1. done' = done BY <1>4 DEF Summarize
    <2>2. CASE files' = files /\ stale' = stale BY <1>1, <2>1, <2>2
    <2>3. ASSUME NEW new, files' = [files EXCEPT ![cur.task][Paper] = new], stale => stale',
                 stale' \/ now \subseteq new
          PROVE  ArtifactInv'
      <3>1. cur.task = "live" /\ Paper = LivePaper => LiveFile = now BY DEF LiveFile
      <3> HIDE DEF now
      <3>2. /\ DOMAIN files' = Tasks /\ \A q \in Tasks : DOMAIN files'[q] = Papers
            /\ IF cur.task = "live" /\ Paper = LivePaper THEN LiveFile' = new
               ELSE LiveFile' = LiveFile
        BY <2>3, Written
      <3> QED BY <2>1, <2>3, <3>1, <3>2, Keeps
    <2>4. \/ files' = files /\ stale' = stale
          \/ files' = [files EXCEPT ![cur.task][Paper] = now \cup {"summary", "evidence"}]
             /\ stale' = stale
          \/ files' = [files EXCEPT ![cur.task][Paper] = cur.parts \cup {"summary"}]
             /\ stale' = (stale \/ ~(now \subseteq cur.parts \cup {"summary"}))
      BY <1>4 DEF Summarize, WrittenBack
    <2> HIDE DEF now
    <2>5. CASE files' = [files EXCEPT ![cur.task][Paper] = now \cup {"summary", "evidence"}]
               /\ stale' = stale
      <3> DEFINE new == now \cup {"summary", "evidence"}
      <3>1. now \subseteq new OBVIOUS
      <3>2. files' = [files EXCEPT ![cur.task][Paper] = new] BY <2>5
      <3> HIDE DEF new
      <3> QED BY <2>3, <2>5, <3>1, <3>2
    <2>6. CASE files' = [files EXCEPT ![cur.task][Paper] = cur.parts \cup {"summary"}]
               /\ stale' = (stale \/ ~(now \subseteq cur.parts \cup {"summary"}))
      <3> DEFINE new == cur.parts \cup {"summary"}
      <3>1. (stale => stale') /\ (stale' \/ now \subseteq new) BY <2>6
      <3>2. files' = [files EXCEPT ![cur.task][Paper] = new] BY <2>6
      <3> HIDE DEF new
      <3> QED BY <2>3, <3>1, <3>2
    <2> QED BY <2>2, <2>4, <2>5, <2>6
  <1>5. CASE LiveStep
    <2>1. done \in 0..4 /\ done' = done + 1 /\ stale' = stale
      BY <1>5 DEF LiveStep, ArtifactInv
    <2>2. PICK new :
             /\ files' = [files EXCEPT !["live"][LivePaper] = new]
             /\ IF done = 0 THEN new = After(1)
                ELSE IF done = 1 THEN new = Parsed(LiveFile)
                ELSE new = LiveFile \cup Added[done + 1]
      <3> DEFINE new == CASE done = 0 -> After(1)
                          [] done = 1 -> Parsed(LiveFile)
                          [] OTHER -> LiveFile \cup Added[done + 1]
      <3>1. files' = [files EXCEPT !["live"][LivePaper] = new] BY <1>5 DEF LiveStep, LiveFile
      <3>2. IF done = 0 THEN new = After(1)
            ELSE IF done = 1 THEN new = Parsed(LiveFile) ELSE new = LiveFile \cup Added[done + 1]
        BY <2>1
      <3> HIDE DEF new
      <3> QED BY <3>1, <3>2
    <2>3. DOMAIN files' = Tasks /\ (\A q \in Tasks : DOMAIN files'[q] = Papers) /\ LiveFile' = new
      BY <2>2, Written
    <2>4. After(done + 1) = After(done) \cup Added[done + 1] BY <2>1, NextContent
    <2>5. stale \/ After(done) \subseteq LiveFile \cup {"translated"}
      BY DEF ArtifactInv, PassedContentIsKept, LiveFile
    <2>6. stale \/ After(done + 1) \subseteq new \cup {"translated"}
      <3>1. CASE done = 0 BY <2>2, <3>1
      <3>2. CASE done = 1
        <4>1. Added[2] = {"sections"} BY DEF Added
        <4> QED BY <2>2, <2>4, <2>5, <3>2, <4>1 DEF Parsed
      <3>3. CASE done \notin {0, 1} BY <2>2, <2>4, <2>5, <3>3
      <3> QED BY <3>1, <3>2, <3>3
    <2> QED BY <2>1, <2>3, <2>6 DEF ArtifactInv, PassedContentIsKept, LiveFile
  <1>6. CASE Metadata \/ Analyze \/ Export \/ SaveArtifact \/ Complete \/ Fail \/ ComparisonDone
    BY <1>1, <1>6 DEF Metadata, Analyze, Export, SaveArtifact, Complete, Fail, ComparisonDone, Goes
  <1>7. CASE OtherRuns \/ Pause \/ Cancel \/ Resume \/ RestartRecovers \/ RestartIdle
    BY <1>1, <1>7 DEF OtherRuns, OtherEnds, OtherDone, Pause, Cancel, Request, Resume,
       RestartRecovers, RestartIdle, Unchanged
  <1> QED BY <1>2, <1>3, <1>4, <1>5, <1>6, <1>7 DEF Next, Workflow

-----------------------------------------------------------------------------
(* The end of the comparison.                                              *)

AllFiles == {"markdown", "html", "csv", "paper_comparison"}

\* What has been done when the workflow has come to a point.
ProgressInv ==
    /\ \E S : results \in Seq(S)
    /\ pc \in {"analyze", "export", "save", "complete", "returned"} => Len(results) = NumRefs
    /\ pc \in {"save", "complete", "returned"} => {"markdown", "html", "csv"} \subseteq output
    /\ pc \in {"complete", "returned"} => "paper_comparison" \in output
    /\ output \subseteq AllFiles

\* The types that the end depends on.
StateInv ==
    /\ status \in {"running", "paused", "cancelled", "completed", "failed"}
    /\ obj \in TaskState /\ disk \in TaskState /\ other \in OtherRun
    /\ takeovers \in Nat

\* Nobody but the comparison completes the session, and it has saved its end before.
EndInv ==
    takeovers = 0 =>
        /\ other.pc = "none" /\ live # "other"
        /\ pc # "over" => live = "comparison" /\ status # "completed"
        /\ pc = "returned" => obj.compared /\ disk = obj
        /\ status = "completed" => /\ disk.compared /\ disk.life = "completed"
                                   /\ output = AllFiles /\ Len(results) = NumRefs

CompletionInv == ProgressInv /\ StateInv /\ EndInv

\* The result of a paper is added.
LEMMA Adding ==
    ASSUME ProgressInv, NEW r, Acquired(r), UNCHANGED output
    PROVE  ProgressInv' /\ pc' \in {"acquire", "analyze"}
  <1>1. PICK S : results \in Seq(S) BY DEF ProgressInv
  <1>2. results' = Append(results, r) BY DEF Acquired
  <1>3. results' \in Seq(S \cup {r}) /\ Len(results') = Len(results) + 1
    <2>1. results \in Seq(S \cup {r}) BY <1>1
    <2> QED BY <1>2, <2>1
  <1>4. pc' = IF Len(results) + 1 = NumRefs THEN "analyze" ELSE "acquire" BY DEF Acquired, Paper
  <1>5. \E T : results' \in Seq(T) BY <1>3
  <1>6. output' \subseteq AllFiles BY DEF ProgressInv
  <1> QED BY <1>3, <1>4, <1>5, <1>6 DEF ProgressInv

\* What requests and ends make of an object.
LEMMA Objects ==
    ASSUME StateInv
    PROVE  /\ Bound \in TaskState
           /\ \A s \in TaskState : /\ PauseRequested(s) \in TaskState
                                   /\ CancelRequested(s) \in TaskState
                                   /\ PauseRequested(s).compared = s.compared
                                   /\ CancelRequested(s).compared = s.compared
                                   /\ Restored(s) \in TaskState /\ Completed(s) \in TaskState
                                   /\ Completed(s).compared
  <1>1. Bound \in TaskState BY DEF Bound, StateInv, OtherRun
  <1>2. ASSUME NEW s \in TaskState
        PROVE  /\ PauseRequested(s) \in TaskState /\ PauseRequested(s).compared = s.compared
    BY DEF PauseRequested, TaskState
  <1>3. ASSUME NEW s \in TaskState
        PROVE  /\ CancelRequested(s) \in TaskState /\ CancelRequested(s).compared = s.compared
    <2>1. CancelRequested(s) = [[s EXCEPT !.control = "cancel"] EXCEPT !.life = "cancelled"]
      BY DEF CancelRequested
    <2> QED BY <2>1 DEF TaskState
  <1>4. ASSUME NEW s \in TaskState
        PROVE  Restored(s) \in TaskState
    <2>1. Restored(s) = [[s EXCEPT !.control = "none"] EXCEPT !.life = "running"]
      BY DEF Restored
    <2> QED BY <2>1 DEF TaskState
  <1>5. ASSUME NEW s \in TaskState
        PROVE  Completed(s) \in TaskState /\ Completed(s).compared
    <2>1. Completed(s) = [[s EXCEPT !.life = "completed"] EXCEPT !.compared = TRUE]
      BY DEF Completed
    <2> QED BY <2>1 DEF TaskState
  <1> QED BY <1>1, <1>2, <1>3, <1>4, <1>5

\* The session moves to a status of its table, or stays.
LEMMA Becomes ==
    ASSUME StateInv, NEW s, Become(s)
    PROVE  /\ status' \in {"running", "paused", "cancelled", "completed", "failed"}
           /\ status' \in {s, status}
  <1>1. Transitions[status] \subseteq {"running", "paused", "cancelled", "completed", "failed"}
    BY DEF StateInv, Transitions
  <1> QED BY <1>1 DEF Become, StateInv

LEMMA CompletionStep ==
    ASSUME CompletionInv, Next
    PROVE  CompletionInv'
  <1>0. ProgressInv /\ StateInv /\ EndInv /\ takeovers \in Nat
    BY DEF CompletionInv, StateInv
  <1>1. ASSUME UNCHANGED session, ProgressInv', pc # "over", pc' \notin {"over", "returned"}
        PROVE  CompletionInv'
    BY <1>0, <1>1 DEF CompletionInv, session, StateInv, EndInv
  <1>2. ASSUME UNCHANGED <<results, output>>, pc' \notin {"analyze", "export", "save", "complete",
                                                        "returned"}
        PROVE  ProgressInv'
    BY <1>0, <1>2 DEF ProgressInv
  <1>3. CASE Acquire
    <2>1. UNCHANGED <<session, output>> /\ pc = "acquire" BY <1>3 DEF Acquire
    <2>2. CASE \E r : Acquired(r) BY <1>0, <1>1, <2>1, <2>2, Adding
    <2>3. CASE results' = results /\ pc' \in {"summarize", "metadata"}
      BY <1>1, <1>2, <2>1, <2>3
    <2> QED BY <1>3, <2>2, <2>3 DEF Acquire, ReuseAsItIs, ParseInPlace
  <1>4. CASE Metadata \/ Download \/ Summarize
    <2>1. UNCHANGED <<session, output>> /\ pc \in {"metadata", "download", "summarize"}
      BY <1>4 DEF Metadata, Download, Summarize
    <2>2. CASE \E r : Acquired(r) BY <1>0, <1>1, <2>1, <2>2, Adding
    <2>3. CASE results' = results /\ pc' \in {"download", "raised"}
      BY <1>1, <1>2, <2>1, <2>3
    <2> QED BY <1>4, <2>2, <2>3 DEF Metadata, Download, Summarize, Raises
  <1>5. CASE Analyze
    <2>1. UNCHANGED <<session, output, results>> /\ pc = "analyze" /\ pc' = "export"
      BY <1>5 DEF Analyze, Goes
    <2>2. ProgressInv' BY <1>0, <2>1 DEF ProgressInv
    <2> QED BY <1>1, <2>1, <2>2
  <1>6. CASE Export
    <2>1. UNCHANGED <<session, results>> /\ pc = "export" /\ pc' = "save"
          /\ output' = output \cup {"markdown", "html", "csv"}
      BY <1>6 DEF Export, Goes
    <2>2. ProgressInv' BY <1>0, <2>1 DEF ProgressInv, AllFiles
    <2> QED BY <1>1, <2>1, <2>2
  <1>7. CASE SaveArtifact
    <2>1. UNCHANGED <<session, results>> /\ pc = "save" /\ pc' = "complete"
          /\ output' = output \cup {"paper_comparison"}
      BY <1>7 DEF SaveArtifact, Goes
    <2>2. ProgressInv' BY <1>0, <2>1 DEF ProgressInv, AllFiles
    <2> QED BY <1>1, <2>1, <2>2
  <1>8. CASE Complete
    <2>1. /\ UNCHANGED <<output, status, live, other, takeovers, results>>
          /\ pc = "complete" /\ pc' = "returned" /\ obj' = Completed(obj) /\ disk' = obj'
      BY <1>8 DEF Complete, Goes
    <2>2. obj' \in TaskState /\ obj'.compared BY <1>0, <2>1, Objects DEF StateInv
    <2>3. ProgressInv' BY <1>0, <2>1 DEF ProgressInv
    <2>4. StateInv' BY <1>0, <2>1, <2>2 DEF StateInv
    <2>5. EndInv' BY <1>0, <2>1, <2>2 DEF EndInv
    <2> QED BY <2>3, <2>4, <2>5 DEF CompletionInv
  <1>9. CASE Fail
    <2>1. /\ UNCHANGED <<output, disk, status, live, other, takeovers, results>>
          /\ pc \in {"analyze", "export", "save", "complete"} /\ pc' = "raised"
          /\ obj' \in {obj, Completed(obj)}
      BY <1>9 DEF Fail, Goes
    <2>2. obj' \in TaskState BY <1>0, <2>1, Objects DEF StateInv
    <2>3. ProgressInv' BY <1>2, <2>1
    <2>4. StateInv' BY <1>0, <2>1, <2>2 DEF StateInv
    <2>5. EndInv' BY <1>0, <2>1 DEF EndInv
    <2> QED BY <2>3, <2>4, <2>5 DEF CompletionInv
  <1>10. CASE ComparisonDone
    <2>1. /\ UNCHANGED <<results, output, disk, other, takeovers>> /\ live' = "none"
          /\ pc \in {"returned", "raised"} /\ pc' = "over" /\ Become(StatusOf(obj'))
          /\ obj' = IF pc = "raised" THEN [obj EXCEPT !.life = "failed"] ELSE obj
      BY <1>10 DEF ComparisonDone
    <2>2. obj' \in TaskState BY <1>0, <2>1 DEF StateInv, TaskState
    <2>3. ProgressInv' BY <1>2, <2>1
    <2>4. StateInv' BY <1>0, <2>1, <2>2, Becomes DEF StateInv
    <2>5. EndInv'
      <3>1. CASE takeovers # 0 BY <2>1, <3>1 DEF EndInv
      <3>2. CASE takeovers = 0
        <4>1. status # "completed" /\ other.pc = "none" BY <1>0, <2>1, <3>2 DEF EndInv
        <4>2. ASSUME status' = "completed"
              PROVE  /\ disk.compared /\ disk.life = "completed" /\ output = AllFiles
                     /\ Len(results) = NumRefs
          <5>1. StatusOf(obj') = "completed" BY <1>0, <2>1, <4>1, <4>2, Becomes
          <5>2. obj'.life = "completed" BY <5>1 DEF StatusOf
          <5>3. pc = "returned"
            <6>1. pc = "raised" => obj'.life = "failed" BY <1>0, <2>1 DEF StateInv, TaskState
            <6> QED BY <2>1, <5>2, <6>1
          <5>4. disk = obj' /\ disk.compared BY <1>0, <2>1, <3>2, <5>3 DEF EndInv
          <5>5. output = AllFiles /\ Len(results) = NumRefs
            BY <1>0, <5>3 DEF ProgressInv, AllFiles
          <5> QED BY <5>2, <5>4, <5>5
        <4> QED BY <2>1, <4>1, <4>2 DEF EndInv
      <3> QED BY <3>1, <3>2
    <2> QED BY <2>3, <2>4, <2>5 DEF CompletionInv
  <1>11. CASE LiveStep
    <2>1. UNCHANGED <<pc, results, output, session>> BY <1>11 DEF LiveStep, work
    <2> QED BY <1>0, <2>1 DEF CompletionInv, ProgressInv, StateInv, EndInv, session
  <1>12. CASE Pause \/ Cancel
    <2>1. PICK s \in {PauseRequested(Bound), CancelRequested(Bound)} : Request(s)
      BY <1>12 DEF Pause, Cancel
    <2>2. UNCHANGED <<pc, live, takeovers, results, output>> /\ disk' = s
          /\ obj' = (IF live = "comparison" THEN s ELSE obj)
          /\ other' = (IF live = "other" THEN [other EXCEPT !.obj = s] ELSE other)
      BY <2>1 DEF Request, Unchanged
    <2>3. s \in TaskState /\ s.compared = Bound.compared BY <1>0, <2>1, Objects
    <2>4. status \in {"running", "paused"} /\ status' # "completed"
          /\ status' \in {"running", "paused", "cancelled", "completed", "failed"}
      BY <1>0, <1>12, Becomes DEF Pause, Cancel
    <2>5. ProgressInv' BY <1>0, <2>2 DEF ProgressInv
    <2>6. StateInv' BY <1>0, <2>2, <2>3, <2>4 DEF StateInv, OtherRun
    <2>7. EndInv' BY <1>0, <2>2, <2>3, <2>4 DEF EndInv, Bound
    <2> QED BY <2>5, <2>6, <2>7 DEF CompletionInv
  <1>13. CASE Resume \/ RestartRecovers
    <2>1. /\ takeovers' = takeovers + 1 /\ disk' = Restored(disk) /\ obj' = obj
          /\ \E b \in BOOLEAN : other' = [pc |-> "running", recovered |-> b, obj |-> disk']
          /\ UNCHANGED <<results, output>> /\ (pc' = pc \/ pc' = "over")
          /\ (status' = status \/ Become("running"))
      BY <1>13 DEF Resume, RestartRecovers, TakeOver, Unchanged
    <2>2. disk' \in TaskState BY <1>0, <2>1, Objects DEF StateInv
    <2>3. ProgressInv' BY <1>0, <2>1 DEF ProgressInv
    <2>4. takeovers' \in Nat /\ takeovers' # 0 BY <1>0, <2>1
    <2>5. other' \in OtherRun BY <2>1, <2>2 DEF OtherRun
    <2>6. StateInv' BY <1>0, <2>1, <2>2, <2>4, <2>5, Becomes DEF StateInv
    <2>7. EndInv' BY <2>4 DEF EndInv
    <2> QED BY <2>3, <2>6, <2>7 DEF CompletionInv
  <1>14. CASE OtherRuns
    <2>1. takeovers # 0 /\ takeovers' = takeovers
      BY <1>0, <1>14 DEF OtherRuns, OtherEnds, OtherDone, EndInv
    <2>2. UNCHANGED <<pc, results, output, obj>>
      BY <1>14 DEF OtherRuns, OtherEnds, OtherDone, Unchanged
    <2>3. ProgressInv' BY <1>0, <2>2 DEF ProgressInv
    <2>4. EndInv' BY <2>1 DEF EndInv
    <2>5. StateInv'
      <3>1. CASE OtherEnds
        <4>1. status' = status BY <3>1 DEF OtherEnds
        <4>2. PICK life : /\ other' = [other EXCEPT !.pc = "done", !.obj.life = life]
                          /\ disk' = other'.obj
                          /\ life \in {"completed", "failed", "paused", "cancelled"}
          BY <3>1 DEF OtherEnds
        <4>3. other' \in OtherRun
          <5> DEFINE o == [other.obj EXCEPT !.life = life]
          <5>1. o \in TaskState BY <1>0, <4>2 DEF StateInv, OtherRun, TaskState
          <5>2. other' = [[other EXCEPT !.pc = "done"] EXCEPT !.obj = o]
            BY <1>0, <4>2 DEF StateInv, OtherRun
          <5> HIDE DEF o
          <5> QED BY <1>0, <5>1, <5>2 DEF StateInv, OtherRun
        <4>4. disk' \in TaskState BY <4>2, <4>3 DEF OtherRun
        <4> QED BY <1>0, <2>1, <2>2, <4>1, <4>3, <4>4 DEF StateInv
      <3>2. CASE OtherDone
        <4>1. other' = NoRun /\ disk' = disk /\ \E s : Become(s) BY <3>2 DEF OtherDone
        <4>2. NoRun \in OtherRun BY DEF NoRun, OtherRun, Started, TaskState
        <4> QED BY <1>0, <2>1, <2>2, <4>1, <4>2, Becomes DEF StateInv
      <3> QED BY <1>14, <3>1, <3>2 DEF OtherRuns
    <2> QED BY <2>3, <2>4, <2>5 DEF CompletionInv
  <1>15. CASE RestartIdle
    <2>1. /\ UNCHANGED <<obj, disk, status, other, takeovers, results, output>>
          /\ pc # "over" /\ pc' = "over" /\ live' = "none"
      BY <1>15 DEF RestartIdle, Unchanged
    <2>2. ProgressInv' BY <1>2, <2>1
    <2>3. StateInv' BY <1>0, <2>1 DEF StateInv
    <2>4. EndInv' BY <1>0, <2>1 DEF EndInv
    <2> QED BY <2>2, <2>3, <2>4 DEF CompletionInv
  <1> QED BY <1>3, <1>4, <1>5, <1>6, <1>7, <1>8, <1>9, <1>10, <1>11, <1>12, <1>13, <1>14, <1>15
      DEF Next, Workflow

-----------------------------------------------------------------------------
(* The acquired papers.                                                    *)

Acquiring == {"acquire", "metadata", "download", "summarize"}

\* The types of what an acquisition uses.
AcquiredTypes ==
    /\ files \in [Tasks -> [Papers -> SUBSET Parts]]
    /\ done \in 0..5 /\ byId \subseteq Papers /\ absolute \in BOOLEAN /\ stale \in BOOLEAN
    /\ pc \in ComparisonPcs \cup {"over"}
    /\ results \in Seq(Result) /\ Len(results) <= NumRefs
    /\ cur \in Result

\* An artifact has a PDF, and the live task has none before its first sub-step.
FilesInv ==
    /\ \A t \in Tasks, p \in Papers : "json" \in files[t][p] => "pdf" \in files[t][p]
    /\ done = 0 => LiveFile = {}

\* The result in hand: without an artifact it has no content; while the model is asked
\* for a summary, the copy that was read and the file both have the parsed text.
CurrentInv ==
    /\ pc \in Acquiring => Len(results) < NumRefs
    /\ pc \in {"metadata", "download"} => cur.parts = {} /\ cur.level \in {"pdf", "downloaded"}
    /\ pc = "summarize" => /\ cur.task \in Tasks /\ {"pdf", "sections"} \subseteq cur.parts
                           /\ {"json", "pdf", "sections"} \subseteq files[cur.task][Paper]

AcquisitionInv == AcquiredTypes /\ FilesInv /\ CurrentInv /\ ReportsAreTrue

-----------------------------------------------------------------------------
(* Acquiring keeps the reports true.                                       *)

FilesType == [Tasks -> [Papers -> SUBSET Parts]]

LEMMA PaperType ==
    /\ NumRefs \in Nat
    /\ AcquisitionInv => Len(results) \in Nat /\ DOMAIN results = 1..Len(results)
                         /\ DOMAIN results \subseteq Papers
    /\ AcquisitionInv /\ pc \in Acquiring => Paper \in Papers /\ Paper \notin DOMAIN results
  BY RefsAssumption DEF AcquisitionInv, AcquiredTypes, CurrentInv, Paper, Papers

\* Writing the file of one task and paper.
Writes(t, p, new) == files' = [files EXCEPT ![t][p] = new]

LEMMA WrittenTo ==
    ASSUME files \in FilesType, NEW t \in Tasks, NEW p \in Papers, NEW new \in SUBSET Parts,
           Writes(t, p, new)
    PROVE  /\ files' \in FilesType /\ files'[t][p] = new
           /\ \A u \in Tasks, q \in Papers : u # t \/ q # p => files'[u][q] = files[u][q]
  <1>1. files' = [files EXCEPT ![t] = [files[t] EXCEPT ![p] = new]] BY DEF Writes
  <1>2. files[t] \in [Papers -> SUBSET Parts] BY DEF FilesType
  <1>3. [files[t] EXCEPT ![p] = new] \in [Papers -> SUBSET Parts] BY <1>2
  <1> QED BY <1>1, <1>2, <1>3 DEF FilesType

\* When every file keeps what it had, translations apart, so does the disk.
LEMMA DiskKeeps ==
    ASSUME NEW p \in Papers,
           \A t \in Tasks : files[t][p] \subseteq files'[t][p] \cup {"translated"}
    PROVE  OnDisk(files, p) \subseteq OnDisk(files', p) \cup {"translated"}
  BY DEF OnDisk

\* The candidates are files of tasks, and there is a best one.
LEMMA OrderIs ==
    ASSUME NEW p \in Papers, NEW order \in Orders(p)
    PROVE  /\ \A k \in DOMAIN order : order[k] \in Sources(p)
           /\ Sources(p) # {} => order[1] \in Sources(p)
  <1>1. order \in [1..Cardinality(Sources(p)) -> Sources(p)] BY DEF Orders, SetToSeqs
  <1>2. IsFiniteSet(Sources(p)) /\ Cardinality(Sources(p)) \in Nat
    <2>1. IsFiniteSet({}) BY FS_EmptySet
    <2>2. IsFiniteSet({} \cup {"live"} \cup {"old"} \cup {"self"}) BY <2>1, FS_AddElement
    <2>3. IsFiniteSet(Tasks)
      <3>1. Tasks = {} \cup {"live"} \cup {"old"} \cup {"self"} BY DEF Tasks
      <3> QED BY <2>2, <3>1
    <2>4. Sources(p) \subseteq Tasks BY DEF Sources
    <2> QED BY <2>3, <2>4, FS_Subset, FS_CardinalityType
  <1>3. Sources(p) # {} => 1 \in 1..Cardinality(Sources(p)) BY <1>2, FS_EmptySet
  <1> QED BY <1>1, <1>3

\* Reusing a paper reports what its sources have.
LEMMA ReusedIs ==
    ASSUME files \in FilesType, NEW p \in Papers, Sources(p) # {}, NEW order \in Orders(p)
    PROVE  LET r == Reused(order, p)
           IN  /\ r \in Result /\ r.task = order[1] /\ order[1] \in Tasks
               /\ "json" \in files[order[1]][p]
               /\ r.parts \subseteq OnDisk(files, p)
               /\ r.level = "paper_artifact_complete" =>
                      {"pdf", "sections", "summary"} \subseteq r.parts
  <1>1. order[1] \in Sources(p) /\ \A k \in DOMAIN order : order[k] \in Sources(p) BY OrderIs
  <1>2. Merged(order, p) \subseteq OnDisk(files, p) BY <1>1 DEF Merged, OnDisk, Sources
  <1>3. Merged(order, p) \in SUBSET Parts BY DEF Merged
  <1> DEFINE level == LevelOf(AllStages(Merged(order, p)))
  <1>4. level \in Levels /\ (level = "paper_artifact_complete" =>
                                 {"pdf", "sections", "summary"} \subseteq Merged(order, p))
    BY DEF LevelOf, Levels, AllStages
  <1>5. Reused(order, p) = [task |-> order[1], level |-> level, parts |-> Merged(order, p),
                            enriched |-> FALSE]
    BY DEF Reused
  <1> HIDE DEF level
  <1> QED BY <1>1, <1>2, <1>3, <1>4, <1>5 DEF Result, Sources

\* The reports so far stay true when the files keep what they tell of.
LEMMA ReportsStay ==
    ASSUME AcquisitionInv, results' = results,
           \A p \in DOMAIN results : OnDisk(files, p) \subseteq OnDisk(files', p) \cup {"translated"}
    PROVE  ReportsAreTrue'
  <1>1. LevelIsTrue' BY DEF AcquisitionInv, ReportsAreTrue, LevelIsTrue
  <1>2. \A k \in DOMAIN results : results[k].parts \subseteq OnDisk(files, k) \cup {"translated"}
    BY DEF AcquisitionInv, ReportsAreTrue, FactsAreOnDisk
  <1>3. FactsAreOnDisk' BY <1>2 DEF FactsAreOnDisk
  <1> QED BY <1>1, <1>3 DEF ReportsAreTrue

\* And a report that is true is added.
LEMMA ReportAdded ==
    ASSUME AcquisitionInv, pc \in Acquiring, NEW r \in Result, results' = Append(results, r),
           \A p \in DOMAIN results : OnDisk(files, p) \subseteq OnDisk(files', p) \cup {"translated"},
           r.level = "paper_artifact_complete" => {"pdf", "sections", "summary"} \subseteq r.parts,
           r.parts \subseteq OnDisk(files', Paper) \cup {"translated"}
    PROVE  /\ ReportsAreTrue' /\ results' \in Seq(Result)
           /\ Len(results') = Len(results) + 1 /\ Len(results') <= NumRefs
  <1>1. results \in Seq(Result) /\ Len(results) \in Nat /\ Len(results) < NumRefs
    BY PaperType DEF AcquisitionInv, AcquiredTypes, CurrentInv
  <1>2. results' \in Seq(Result) /\ Len(results') = Len(results) + 1 BY <1>1
  <1>3. \A k \in DOMAIN results' : \/ k \in DOMAIN results /\ results'[k] = results[k]
                                   \/ k = Paper /\ results'[k] = r
    BY <1>1, <1>2 DEF Paper
  <1>4. LevelIsTrue' BY <1>3 DEF AcquisitionInv, ReportsAreTrue, LevelIsTrue
  <1>5. \A k \in DOMAIN results : results[k].parts \subseteq OnDisk(files, k) \cup {"translated"}
    BY DEF AcquisitionInv, ReportsAreTrue, FactsAreOnDisk
  <1>6. \A k \in DOMAIN results' : results'[k].parts \subseteq OnDisk(files', k) \cup {"translated"}
    BY <1>3, <1>5
  <1>7. FactsAreOnDisk' BY <1>6 DEF FactsAreOnDisk
  <1> QED BY <1>1, <1>2, <1>4, <1>7, PaperType DEF ReportsAreTrue

\* Files of the right kind are written.
LEMMA FilesStay ==
    ASSUME AcquisitionInv, NEW t \in Tasks, NEW p \in Papers, NEW new \in SUBSET Parts,
           Writes(t, p, new), "json" \in new => "pdf" \in new,
           done' = 0 => done = 0 /\ ~(t = "live" /\ p = LivePaper)
    PROVE  /\ FilesInv' /\ files' \in FilesType /\ files'[t][p] = new
           /\ \A u \in Tasks, q \in Papers : u # t \/ q # p => files'[u][q] = files[u][q]
  <1>1. /\ files' \in FilesType /\ files'[t][p] = new
        /\ \A u \in Tasks, q \in Papers : u # t \/ q # p => files'[u][q] = files[u][q]
    BY WrittenTo DEF AcquisitionInv, AcquiredTypes, FilesType
  <1>2. \A u \in Tasks, q \in Papers : "json" \in files'[u][q] => "pdf" \in files'[u][q]
    BY <1>1 DEF AcquisitionInv, FilesInv
  <1>3. done' = 0 => files'["live"][LivePaper] = {}
    BY <1>1, Live DEF AcquisitionInv, FilesInv, LiveFile
  <1> QED BY <1>1, <1>2, <1>3 DEF FilesInv, LiveFile

\* A step that acquires nothing.
LEMMA NothingAcquired ==
    ASSUME AcquisitionInv, UNCHANGED <<files, done, byId, absolute, results, cur, stale>>,
           pc' \in ComparisonPcs \cup {"over"},
           pc' = pc \/ pc' \notin Acquiring \/ (pc = "metadata" /\ pc' = "download")
    PROVE  AcquisitionInv'
  <1>1. ReportsAreTrue' BY ReportsStay
  <1>2. AcquiredTypes' BY DEF AcquisitionInv, AcquiredTypes
  <1>3. FilesInv' BY DEF AcquisitionInv, FilesInv, LiveFile
  <1>4. CurrentInv' BY DEF AcquisitionInv, CurrentInv, Paper, Acquiring
  <1> QED BY <1>1, <1>2, <1>3, <1>4 DEF AcquisitionInv

\* A step that acquires a paper.
LEMMA OneAcquired ==
    ASSUME AcquisitionInv, pc \in Acquiring, NEW r \in Result, Acquired(r),
           UNCHANGED <<done, byId, absolute>>, stale' \in BOOLEAN,
           files' \in FilesType, FilesInv',
           \A p \in DOMAIN results : OnDisk(files, p) \subseteq OnDisk(files', p) \cup {"translated"},
           r.level = "paper_artifact_complete" => {"pdf", "sections", "summary"} \subseteq r.parts,
           r.parts \subseteq OnDisk(files', Paper) \cup {"translated"}
    PROVE  AcquisitionInv'
  <1>1. /\ ReportsAreTrue' /\ results' \in Seq(Result)
        /\ Len(results') = Len(results) + 1 /\ Len(results') <= NumRefs
    BY ReportAdded DEF Acquired
  <1>2. cur' \in Result BY DEF Acquired, NoResult, Result, Levels
  <1>3. pc' = (IF Paper = NumRefs THEN "analyze" ELSE "acquire") BY DEF Acquired
  <1>4. AcquiredTypes'
    BY <1>1, <1>2, <1>3 DEF AcquisitionInv, AcquiredTypes, FilesType, ComparisonPcs
  <1>5. pc' = "acquire" => Len(results') < NumRefs
    BY <1>1, <1>3, PaperType DEF Paper
  <1>6. CurrentInv' BY <1>3, <1>5 DEF CurrentInv, Acquiring
  <1> QED BY <1>1, <1>4, <1>6 DEF AcquisitionInv

LEMMA AcquireStep == ASSUME AcquisitionInv, Acquire PROVE AcquisitionInv'
  <1>1. /\ pc = "acquire" /\ pc \in Acquiring /\ Paper \in Papers /\ files \in FilesType
        /\ UNCHANGED <<done, byId, absolute, stale>> /\ stale \in BOOLEAN
    BY PaperType DEF Acquire, Acquiring, AcquisitionInv, AcquiredTypes, FilesType
  <1>2. CASE Sources(Paper) # {} /\ ReuseAsItIs
    <2>1. PICK order \in Orders(Paper) : Acquired(Reused(order, Paper)) BY <1>2 DEF ReuseAsItIs
    <2> DEFINE r == Reused(order, Paper)
    <2>2. /\ r \in Result /\ r.parts \subseteq OnDisk(files, Paper)
          /\ r.level = "paper_artifact_complete" => {"pdf", "sections", "summary"} \subseteq r.parts
      BY <1>1, <1>2, ReusedIs
    <2>3. files' = files BY <1>2 DEF ReuseAsItIs
    <2>4. FilesInv' BY <1>1, <2>3 DEF AcquisitionInv, FilesInv, LiveFile
    <2>5. Acquired(r) BY <2>1
    <2> HIDE DEF r
    <2>6. r.parts \subseteq OnDisk(files', Paper) \cup {"translated"} BY <2>2, <2>3
    <2> QED BY <1>1, <2>2, <2>3, <2>4, <2>5, <2>6, OneAcquired
  <1>3. CASE Sources(Paper) # {} /\ ParseInPlace
    <2>1. PICK order \in Orders(Paper) :
            /\ files' = [files EXCEPT ![order[1]][Paper] = Parsed(files[order[1]][Paper])]
            /\ cur' = [Reused(order, Paper) EXCEPT !.parts = Parsed(files[order[1]][Paper])]
            /\ pc' = "summarize" /\ results' = results
      BY <1>3 DEF ParseInPlace
    <2> DEFINE owner == order[1]
               r == Reused(order, Paper)
               have == files[owner][Paper]
               new == Parsed(have)
    <2>2. r \in Result /\ r.task = owner /\ owner \in Tasks /\ "json" \in have
      BY <1>1, <1>3, ReusedIs
    <2>3. have \in SUBSET Parts /\ "pdf" \in have
      BY <1>1, <2>2 DEF FilesType, AcquisitionInv, FilesInv
    <2>4. new \in SUBSET Parts /\ {"json", "pdf", "sections"} \subseteq new
      BY <2>2, <2>3 DEF Parsed, Parts
    <2>5. cur' = [r EXCEPT !.parts = new] BY <2>1
    <2>6. done' = 0 => done = 0 /\ ~(owner = "live" /\ Paper = LivePaper)
      BY <1>1, <2>2 DEF AcquisitionInv, FilesInv, LiveFile
    <2>7. files' = [files EXCEPT ![owner][Paper] = new] BY <2>1
    <2> HIDE DEF r, new, have, owner
    <2>8. cur' \in Result /\ cur'.task = owner /\ cur'.parts = new
      BY <2>2, <2>4, <2>5 DEF Result
    <2>9. /\ FilesInv' /\ files' \in FilesType /\ files'[owner][Paper] = new
          /\ \A u \in Tasks, q \in Papers : u # owner \/ q # Paper => files'[u][q] = files[u][q]
      <3>1. ASSUME NEW t \in Tasks, NEW p \in Papers, NEW x \in SUBSET Parts,
                   t = owner, p = Paper, x = new
            PROVE  /\ FilesInv' /\ files' \in FilesType /\ files'[t][p] = x
                   /\ \A u \in Tasks, q \in Papers : u # t \/ q # p => files'[u][q] = files[u][q]
        <4>1. Writes(t, p, x) BY <2>7, <3>1 DEF Writes
        <4>2. "json" \in x => "pdf" \in x BY <2>4, <3>1
        <4>3. done' = 0 => done = 0 /\ ~(t = "live" /\ p = LivePaper) BY <2>6, <3>1
        <4> QED BY <4>1, <4>2, <4>3, FilesStay
      <3> QED BY <1>1, <2>2, <2>4, <3>1
    <2>11. \A p \in DOMAIN results : OnDisk(files, p) \subseteq OnDisk(files', p) \cup {"translated"}
      <3>1. \A p \in DOMAIN results : p \in Papers /\ p # Paper BY <1>1, PaperType
      <3> QED BY <2>9, <3>1 DEF OnDisk
    <2>12. ReportsAreTrue' BY <2>1, <2>11, ReportsStay
    <2>13. Paper' = Paper BY <2>1 DEF Paper
    <2>14. CurrentInv'
      BY <1>1, <2>1, <2>2, <2>4, <2>8, <2>9, <2>13 DEF CurrentInv, AcquisitionInv, Acquiring
    <2>15. AcquiredTypes'
      BY <1>1, <2>1, <2>8, <2>9 DEF AcquisitionInv, AcquiredTypes, FilesType, ComparisonPcs
    <2> QED BY <2>9, <2>12, <2>14, <2>15 DEF AcquisitionInv
  <1>4. CASE Sources(Paper) = {}
    <2>1. files' = files /\ results' = results /\ pc' = "metadata"
      BY <1>4 DEF Acquire
    <2>2. PICK level \in {"pdf", "downloaded"}, task \in {"old", "none"} :
            cur' = [NoResult EXCEPT !.level = level, !.task = task]
      BY <1>4 DEF Acquire
    <2>3. cur' \in Result /\ cur'.parts = {} /\ cur'.level = level
      BY <2>2 DEF NoResult, Result, Levels, Tasks
    <2>4. ReportsAreTrue' BY <2>1, ReportsStay
    <2>5. FilesInv' BY <1>1, <2>1 DEF AcquisitionInv, FilesInv, LiveFile
    <2>6. CurrentInv' BY <1>1, <2>1, <2>3 DEF AcquisitionInv, CurrentInv, Acquiring
    <2>7. AcquiredTypes' BY <1>1, <2>1, <2>3 DEF AcquisitionInv, AcquiredTypes, ComparisonPcs
    <2> QED BY <2>4, <2>5, <2>6, <2>7 DEF AcquisitionInv
  <1> QED BY <1>2, <1>3, <1>4 DEF Acquire

\* Without an artifact a paper is reported without content.
LEMMA CurrentAcquired ==
    ASSUME AcquisitionInv, pc \in {"metadata", "download"}, Acquired(cur),
           UNCHANGED <<done, byId, absolute, stale>>, files' \in FilesType, FilesInv',
           \A p \in DOMAIN results : OnDisk(files, p) \subseteq OnDisk(files', p) \cup {"translated"}
    PROVE  AcquisitionInv'
  <1>1. pc \in Acquiring /\ cur \in Result /\ stale \in BOOLEAN
    BY DEF Acquiring, AcquisitionInv, AcquiredTypes
  <1>2. cur.parts = {} /\ cur.level # "paper_artifact_complete"
    BY DEF AcquisitionInv, CurrentInv
  <1> QED BY <1>1, <1>2, OneAcquired

LEMMA MetadataStep == ASSUME AcquisitionInv, Metadata PROVE AcquisitionInv'
  <1>1. pc = "metadata" /\ UNCHANGED <<files, done, byId, absolute, stale>> BY DEF Metadata
  <1>2. CASE Acquired(cur)
    <2>1. FilesInv' /\ files' \in FilesType
      BY <1>1 DEF AcquisitionInv, AcquiredTypes, FilesType, FilesInv, LiveFile
    <2>2. \A p \in DOMAIN results : OnDisk(files, p) \subseteq OnDisk(files', p) \cup {"translated"}
      BY <1>1
    <2> QED BY <1>1, <1>2, <2>1, <2>2, CurrentAcquired
  <1>3. CASE pc' \in {"download", "raised"} /\ UNCHANGED <<results, cur>>
    BY <1>1, <1>3, NothingAcquired DEF Acquiring, ComparisonPcs
  <1> QED BY <1>2, <1>3 DEF Metadata, Raises

\* The file of the paper in hand is written: those of the others stay.
LEMMA OthersStay ==
    ASSUME AcquisitionInv, pc \in Acquiring,
           \A u \in Tasks, q \in Papers : q # Paper => files'[u][q] = files[u][q]
    PROVE  \A p \in DOMAIN results : OnDisk(files, p) \subseteq OnDisk(files', p) \cup {"translated"}
  <1>1. \A p \in DOMAIN results : p \in Papers /\ p # Paper BY PaperType
  <1> QED BY <1>1 DEF OnDisk

LEMMA DownloadStep == ASSUME AcquisitionInv, Download PROVE AcquisitionInv'
  <1>1. pc = "download" /\ UNCHANGED <<done, byId, absolute, stale>> BY DEF Download
  <1>2. pc \in Acquiring BY <1>1 DEF Acquiring
  <1>3. CASE Acquired(cur) /\ files' = [files EXCEPT !["self"][Paper] = After(1)]
    <2>1. After(1) = {"json", "pdf"} BY DEF After, Added
    <2>2. PICK p \in Papers : p = Paper BY <1>2, PaperType
    <2>3. PICK x \in SUBSET Parts : x = After(1) BY <2>1 DEF Parts
    <2>4. Writes("self", p, x) /\ "self" \in Tasks BY <1>3, <2>2, <2>3 DEF Writes, Tasks
    <2>5. /\ FilesInv' /\ files' \in FilesType
          /\ \A u \in Tasks, q \in Papers : u # "self" \/ q # p => files'[u][q] = files[u][q]
      BY <1>1, <2>1, <2>3, <2>4, FilesStay
    <2> QED BY <1>1, <1>2, <1>3, <2>2, <2>5, OthersStay, CurrentAcquired
  <1>4. CASE Raises /\ UNCHANGED files
    BY <1>1, <1>4, NothingAcquired DEF Raises, Acquiring, ComparisonPcs
  <1> QED BY <1>3, <1>4 DEF Download

LEMMA SummarizeStep == ASSUME AcquisitionInv, Summarize PROVE AcquisitionInv'
  <1> DEFINE now == files[cur.task][Paper]
  <1>1. /\ pc = "summarize" /\ pc \in Acquiring /\ UNCHANGED <<done, byId, absolute>>
        /\ stale \in BOOLEAN /\ stale' \in BOOLEAN /\ cur \in Result /\ files \in FilesType
    BY DEF Summarize, Acquiring, AcquisitionInv, AcquiredTypes, FilesType
  <1>2. PICK p \in Papers : p = Paper BY <1>1, PaperType
  <1>3. PICK t \in Tasks : t = cur.task BY <1>1 DEF AcquisitionInv, CurrentInv
  <1>4. {"pdf", "sections"} \subseteq cur.parts /\ {"json", "pdf", "sections"} \subseteq now
        /\ cur.parts \in SUBSET Parts /\ now \in SUBSET Parts
    BY <1>1, <1>2, <1>3 DEF AcquisitionInv, CurrentInv, Result, FilesType
  \* Whatever is written is reported, and has the parsed text.
  <1>5. ASSUME NEW x \in SUBSET Parts, {"pdf", "sections"} \subseteq x,
               files' = [files EXCEPT ![cur.task][Paper] = x], Acquired(Enriched(x))
        PROVE  AcquisitionInv'
    <2> DEFINE level == LevelOf({"summary", "evidence"} \subseteq x)
               r == [cur EXCEPT !.parts = x, !.enriched = TRUE, !.level = level]
    <2>1. level \in Levels /\ (level = "paper_artifact_complete" => "summary" \in x)
      BY DEF LevelOf, Levels
    <2>2. r = Enriched(x) BY DEF Enriched
    <2>3. r \in Result /\ r.parts = x /\ r.level = level
      <3> HIDE DEF level
      <3> QED BY <1>1, <2>1 DEF Result
    <2>4. Writes(t, p, x) BY <1>2, <1>3, <1>5 DEF Writes
    <2>5. done' = 0 => done = 0 /\ ~(t = "live" /\ p = LivePaper)
      BY <1>1, <1>2, <1>3, <1>4 DEF AcquisitionInv, FilesInv, LiveFile
    <2>6. /\ FilesInv' /\ files' \in FilesType /\ files'[t][p] = x
          /\ \A u \in Tasks, q \in Papers : u # t \/ q # p => files'[u][q] = files[u][q]
      BY <1>5, <2>4, <2>5, FilesStay
    <2>7. \A q \in DOMAIN results : OnDisk(files, q) \subseteq OnDisk(files', q) \cup {"translated"}
      BY <1>1, <1>2, <2>6, OthersStay
    <2>8. x \subseteq OnDisk(files', Paper) \cup {"translated"} BY <1>2, <2>6 DEF OnDisk
    <2>9. Acquired(r) BY <1>5, <2>2
    <2> HIDE DEF r, level
    <2>10. r.level = "paper_artifact_complete" => {"pdf", "sections", "summary"} \subseteq r.parts
      BY <1>5, <2>1, <2>3
    <2>11. r.parts \subseteq OnDisk(files', Paper) \cup {"translated"} BY <2>3, <2>8
    <2> QED BY <1>1, <2>3, <2>6, <2>7, <2>9, <2>10, <2>11, OneAcquired
  <1>6. CASE /\ files' = [files EXCEPT ![cur.task][Paper] = now \cup {"summary", "evidence"}]
             /\ Acquired(Enriched(files'[cur.task][Paper]))
    <2> DEFINE x == now \cup {"summary", "evidence"}
    <2>1. x \in SUBSET Parts /\ {"pdf", "sections"} \subseteq x BY <1>4 DEF Parts
    <2>2. files' = [files EXCEPT ![cur.task][Paper] = x] BY <1>6
    <2> HIDE DEF x
    <2>3. files'[cur.task][Paper] = x
      <3>1. Writes(t, p, x) BY <1>2, <1>3, <2>2 DEF Writes
      <3>2. files'[t][p] = x BY <1>1, <2>1, <3>1, WrittenTo
      <3> QED BY <1>2, <1>3, <3>2
    <2> QED BY <1>5, <1>6, <2>1, <2>2, <2>3
  <1>7. CASE /\ files' = [files EXCEPT ![cur.task][Paper] = cur.parts \cup {"summary"}]
             /\ Acquired(Enriched(cur.parts \cup {"summary"}))
    <2> DEFINE x == cur.parts \cup {"summary"}
    <2>1. x \in SUBSET Parts /\ {"pdf", "sections"} \subseteq x BY <1>4 DEF Parts
    <2> HIDE DEF x
    <2> QED BY <1>5, <1>7, <2>1 DEF x
  <1>8. CASE Raises /\ UNCHANGED <<files, stale>>
    BY <1>1, <1>8, NothingAcquired DEF Raises, Acquiring, ComparisonPcs
  <1> QED BY <1>6, <1>7, <1>8 DEF Summarize, WrittenBack

\* The live task goes on.
LEMMA LiveStepStep == ASSUME AcquisitionInv, LiveStep PROVE AcquisitionInv'
  <1>1. /\ done \in 0..4 /\ done' = done + 1 /\ files \in FilesType
        /\ UNCHANGED <<byId, absolute, pc, results, cur, stale>>
    BY DEF LiveStep, work, AcquisitionInv, AcquiredTypes, FilesType
  <1> DEFINE have == files["live"][LivePaper]
  <1>2. PICK x : files' = [files EXCEPT !["live"][LivePaper] = x] /\
                 x = (CASE done = 0 -> After(1) [] done = 1 -> Parsed(have)
                        [] OTHER -> have \cup Added[done + 1])
    BY DEF LiveStep
  <1>3. have \in SUBSET Parts /\ ("json" \in have => "pdf" \in have) /\ (done = 0 => have = {})
    BY <1>1, Live DEF FilesType, AcquisitionInv, FilesInv, LiveFile
  <1>4. /\ x \in SUBSET Parts /\ ("json" \in x => "pdf" \in x)
        /\ have \subseteq x \cup {"translated"}
        /\ \A part \in {"json", "pdf", "sections"} : part \in have => part \in x
    <2>1. CASE done = 0
      <3>1. x = After(1) BY <1>2, <2>1
      <3>2. After(1) = {"json", "pdf"} BY DEF After, Added
      <3> QED BY <1>3, <2>1, <3>1, <3>2 DEF Parts
    <2>2. CASE done = 1
      <3>1. x = Parsed(have) BY <1>2, <2>2
      <3> QED BY <1>3, <3>1 DEF Parsed, Parts
    <2>3. CASE done \in 2..4
      <3>1. x = have \cup Added[done + 1] BY <1>2, <2>3
      <3>2. Added[done + 1] \in SUBSET Parts /\ "json" \notin Added[done + 1]
        <4>1. done = 2 \/ done = 3 \/ done = 4 BY <2>3
        <4>2. Added[3] = {"glossary"} /\ Added[4] = {"translated", "fullText"}
              /\ Added[5] = {"summary", "evidence"}
          BY DEF Added
        <4> QED BY <4>1, <4>2 DEF Parts
      <3> QED BY <1>3, <3>1, <3>2
    <2> QED BY <1>1, <2>1, <2>2, <2>3
  <1>5. /\ FilesInv' /\ files' \in FilesType /\ files'["live"][LivePaper] = x
        /\ \A u \in Tasks, q \in Papers : u # "live" \/ q # LivePaper => files'[u][q] = files[u][q]
    <2>1. Writes("live", LivePaper, x) BY <1>2 DEF Writes
    <2>2. ~(done' = 0) BY <1>1
    <2> QED BY <1>4, <2>1, <2>2, Live, FilesStay
  <1>6. \A u \in Tasks, q \in Papers :
          /\ files[u][q] \subseteq files'[u][q] \cup {"translated"}
          /\ \A part \in {"json", "pdf", "sections"} : part \in files[u][q] => part \in files'[u][q]
    BY <1>4, <1>5
  <1>7. \A p \in DOMAIN results : OnDisk(files, p) \subseteq OnDisk(files', p) \cup {"translated"}
    BY <1>6, PaperType, DiskKeeps
  <1>8. ReportsAreTrue' BY <1>1, <1>7, ReportsStay
  <1>9. AcquiredTypes' BY <1>1, <1>5 DEF AcquisitionInv, AcquiredTypes, FilesType
  <1>10. CurrentInv'
    <2>1. Paper' = Paper BY <1>1 DEF Paper
    <2>2. pc = "summarize" => {"json", "pdf", "sections"} \subseteq files'[cur.task][Paper]
      <3>1. pc = "summarize" => Paper \in Papers BY PaperType DEF Acquiring
      <3> QED BY <1>6, <3>1 DEF AcquisitionInv, CurrentInv
    <2> QED BY <1>1, <2>1, <2>2 DEF AcquisitionInv, CurrentInv
  <1> QED BY <1>5, <1>8, <1>9, <1>10 DEF AcquisitionInv

LEMMA AcquisitionStep == ASSUME AcquisitionInv, [Next]_vars PROVE AcquisitionInv'
  <1>1. CASE UNCHANGED vars BY <1>1, NothingAcquired DEF vars, work, AcquisitionInv, AcquiredTypes
  <1>2. CASE Analyze \/ Export \/ SaveArtifact \/ Complete \/ Fail
    <2>1. /\ UNCHANGED <<files, done, byId, absolute, results, cur, stale>>
          /\ pc' \in {"export", "save", "complete", "returned", "raised"}
      BY <1>2 DEF Analyze, Export, SaveArtifact, Complete, Fail, Goes
    <2> QED BY <2>1, NothingAcquired DEF Acquiring, ComparisonPcs
  <1>3. CASE ComparisonDone \/ OtherRuns \/ Pause \/ Cancel \/ Resume \/ RestartRecovers
             \/ RestartIdle
    <2>1. /\ UNCHANGED <<files, done, byId, absolute, results, cur, stale>>
          /\ pc' = pc \/ pc' = "over"
      BY <1>3 DEF ComparisonDone, OtherRuns, OtherEnds, OtherDone, Pause, Cancel, Request, Resume,
                  RestartRecovers, RestartIdle, Unchanged
    <2>2. pc \in ComparisonPcs \cup {"over"} BY DEF AcquisitionInv, AcquiredTypes
    <2> QED BY <2>1, <2>2, NothingAcquired DEF Acquiring
  <1> QED BY <1>1, <1>2, <1>3, AcquireStep, MetadataStep, DownloadStep, SummarizeStep,
             LiveStepStep
          DEF Next, Workflow

-----------------------------------------------------------------------------
(* The theorems.                                                           *)

LEMMA InitInv ==
    ASSUME Init
    PROVE  ArtifactInv /\ CompletionInv
  <1>1. DOMAIN files = Tasks /\ \A t \in Tasks : DOMAIN files[t] = Papers BY DEF Init
  <1>2. LiveFile = After(done)
    BY Live DEF Init, LiveFile
  <1>3. ArtifactInv BY <1>1, <1>2 DEF Init, ArtifactInv, PassedContentIsKept, LiveFile
  <1>4. results \in Seq({}) BY DEF Init
  <1>5. ProgressInv BY <1>4 DEF Init, ProgressInv
  <1>6. StateInv BY DEF Init, StateInv, Started, TaskState, NoRun, OtherRun
  <1>7. EndInv BY DEF Init, EndInv, NoRun
  <1> QED BY <1>3, <1>5, <1>6, <1>7 DEF CompletionInv

\* The remaining types.
RunInv == live \in {"comparison", "other", "none"} /\ takeovers \in 0..MaxTakeovers

LEMMA RunStep == ASSUME RunInv, [Next]_vars PROVE RunInv'
  <1>1. live' \in {live, "none", "other"}
    BY DEF vars, session, Next, Workflow, Acquire, Metadata, Download, Summarize, Analyze, Export,
           SaveArtifact, Complete, Fail, ComparisonDone, LiveStep, OtherRuns, OtherEnds, OtherDone,
           Pause, Cancel, Request, Resume, RestartRecovers, RestartIdle, TakeOver
  <1>2. takeovers' = takeovers \/ (takeovers < MaxTakeovers /\ takeovers' = takeovers + 1)
    BY DEF vars, session, Next, Workflow, Acquire, Metadata, Download, Summarize, Analyze, Export,
           SaveArtifact, Complete, Fail, ComparisonDone, LiveStep, OtherRuns, OtherEnds, OtherDone,
           Pause, Cancel, Request, Resume, RestartRecovers, RestartIdle, TakeOver
  <1> QED BY <1>1, <1>2, SizesAssumption DEF RunInv

\* What the passed sub-steps wrote are parts, and a file of them has its PDF.
LEMMA AfterParts ==
    ASSUME NEW n \in 0..5
    PROVE  After(n) \in SUBSET Parts /\ ("json" \in After(n) => "pdf" \in After(n))
  <1>1. \A k \in 1..5 : Added[k] \in SUBSET Parts
    BY DEF Added, Parts
  <1>2. After(n) \in SUBSET Parts BY <1>1 DEF After
  <1>3. n # 0 => "pdf" \in After(n)
    <2>1. "pdf" \in Added[1] BY DEF Added
    <2> QED BY <2>1 DEF After
  <1>4. n = 0 => After(n) = {} BY DEF After
  <1> QED BY <1>2, <1>3, <1>4

LEMMA InitAcquisition == ASSUME Init PROVE AcquisitionInv
  <1> DEFINE Fits(x) == x \in SUBSET Parts /\ ("json" \in x => "pdf" \in x)
  <1>1. Fits({}) /\ Fits({"pdf"}) /\ \A n \in 0..5 : Fits(After(n))
    BY AfterParts DEF Parts
  <1>2. done \in 0..5 BY DEF Init
  <1>3. PICK old \in [Papers -> {After(n) : n \in Finished} \cup {{"pdf"}}] :
          files = [t \in Tasks |-> [p \in Papers |->
                     IF t = "live" /\ p = LivePaper THEN After(done)
                     ELSE IF t = "old" THEN old[p] ELSE {}]]
    BY DEF Init
  <1>4. \A p \in Papers : Fits(old[p]) BY <1>1, <1>3, SizesAssumption
  <1>5. \A t \in Tasks, p \in Papers : Fits(files[t][p])
    <2> HIDE DEF Fits
    <2> QED BY <1>1, <1>2, <1>3, <1>4
  <1>6. files \in [Tasks -> [Papers -> SUBSET Parts]]
    <2>1. DOMAIN files = Tasks /\ files = [t \in Tasks |-> files[t]] BY <1>3
    <2>2. \A t \in Tasks : files[t] = [p \in Papers |-> files[t][p]] BY <1>3
    <2>3. \A t \in Tasks, p \in Papers : files[t][p] \in SUBSET Parts BY <1>5
    <2> QED BY <2>1, <2>2, <2>3
  <1>7. FilesInv
    <2>1. LiveFile = After(done) BY <1>3, Live DEF LiveFile
    <2>2. After(0) = {} BY DEF After
    <2> QED BY <1>5, <2>1, <2>2 DEF FilesInv
  <1>8. /\ byId \subseteq Papers /\ absolute \in BOOLEAN /\ stale \in BOOLEAN /\ pc = "acquire"
        /\ results = <<>> /\ cur = NoResult
    BY DEF Init
  <1>9. results \in Seq(Result) /\ Len(results) = 0 /\ Len(results) < NumRefs
                                 /\ Len(results) <= NumRefs
    BY <1>8, RefsAssumption
  <1>10. cur \in Result BY <1>8 DEF NoResult, Result, Levels
  <1>11. AcquiredTypes
    BY <1>2, <1>6, <1>8, <1>9, <1>10 DEF AcquiredTypes, ComparisonPcs
  <1>12. CurrentInv BY <1>8, <1>9 DEF CurrentInv
  <1>13. ReportsAreTrue BY <1>8 DEF ReportsAreTrue, LevelIsTrue, FactsAreOnDisk
  <1> QED BY <1>7, <1>11, <1>12, <1>13 DEF AcquisitionInv

LEMMA Invariance == Spec => [](ArtifactInv /\ CompletionInv /\ AcquisitionInv /\ RunInv)
  <1>1. Init => ArtifactInv /\ CompletionInv /\ AcquisitionInv /\ RunInv
    <2>1. ASSUME Init PROVE RunInv BY <2>1, SizesAssumption DEF Init, RunInv
    <2> QED BY <2>1, InitInv, InitAcquisition
  <1>2. ArtifactInv /\ CompletionInv /\ AcquisitionInv /\ RunInv /\ [Next]_vars
          => (ArtifactInv /\ CompletionInv /\ AcquisitionInv /\ RunInv)'
    <2>1. ASSUME ArtifactInv, UNCHANGED vars PROVE ArtifactInv'
      BY <2>1 DEF vars, ArtifactInv, PassedContentIsKept
    <2>2. ASSUME CompletionInv, UNCHANGED vars PROVE CompletionInv'
      BY <2>2 DEF vars, work, session, CompletionInv, ProgressInv, StateInv, EndInv
    <2> QED BY <2>1, <2>2, ArtifactStep, CompletionStep, AcquisitionStep, RunStep
  <1> QED BY <1>1, <1>2, PTL DEF Spec

\* Every variable keeps its type.
THEOREM TypeCorrect == Spec => []TypeOK
  <1>1. CompletionInv /\ AcquisitionInv /\ RunInv => TypeOK
    <2> SUFFICES ASSUME CompletionInv, AcquisitionInv, RunInv PROVE TypeOK
      OBVIOUS
    <2>1. output \subseteq AllFiles BY DEF CompletionInv, ProgressInv
    <2>2. /\ status \in {"running", "paused", "cancelled", "completed", "failed"}
          /\ obj \in TaskState /\ disk \in TaskState /\ other \in OtherRun
      BY DEF CompletionInv, StateInv
    <2>3. status \in DOMAIN Transitions BY <2>2 DEF Transitions
    <2> QED BY <2>1, <2>2, <2>3 DEF TypeOK, AllFiles, AcquisitionInv, AcquiredTypes, RunInv
  <1> QED BY <1>1, Invariance, PTL

\* What the comparison reports of a paper is true: a complete one has its text and its
\* summary, and the content of each can be read on disk while the live task goes on.
THEOREM ReportsTrue == Spec => []ReportsAreTrue
  <1>1. AcquisitionInv => ReportsAreTrue BY DEF AcquisitionInv
  <1> QED BY <1>1, Invariance, PTL

\* Completing an artifact in place takes nothing from the live task that its passed
\* sub-steps wrote, translations and an overwritten file apart.
THEOREM ContentKept == Spec => []PassedContentIsKept
  <1>1. ArtifactInv => PassedContentIsKept BY DEF ArtifactInv
  <1> QED BY <1>1, Invariance, PTL

\* A completed session has a saved comparison, unless the research phases were run on it.
THEOREM CompletedSaved == Spec => []CompletedIsSaved
  <1>1. CompletionInv => CompletedIsSaved
    BY DEF CompletionInv, EndInv, AllFiles, CompletedIsSaved
  <1> QED BY <1>1, Invariance, PTL
=============================================================================

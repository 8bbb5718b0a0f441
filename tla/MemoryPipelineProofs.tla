------------------------- MODULE MemoryPipelineProofs -------------------------
(***************************************************************************)
(* Theorems about MemoryPipeline, for every number of candidates, set of   *)
(* texts, limit of attempts and number of failures.                        *)
(*                                                                         *)
(* TypeInv is inductive by itself; StoredOnce, CompletedIsStored, the      *)
(* account of attempts (CountInv), that of the worker (WatchInv) and the   *)
(* version chain (ChainInv) are inductive relative to it, and are proved   *)
(* one after the other.                                                    *)
(***************************************************************************)
EXTENDS MemoryPipeline, SequenceTheorems, TLAPS

-----------------------------------------------------------------------------
(* The inductive invariant.                                                *)

\* Jobs and memories belong to candidates that are saved.
RefsInv ==
    /\ \A j \in DOMAIN jobs : jobs[j].key \in DOMAIN cands
    /\ \A m \in DOMAIN mems : mems[m].key \in DOMAIN cands

\* During an attempt its job is running and the attempt is counted.
AttemptInv ==
    worker.pc \in AttemptPcs =>
        /\ worker.job \in DOMAIN jobs
        /\ jobs[worker.job].status = "running"
        /\ jobs[worker.job].attempts >= 1

\* The locals of the attempt are ids of stored memories where they are used.
PlaceInv ==
    /\ worker.pc = "supersede" => {worker.old, worker.new} \subseteq DOMAIN mems
    /\ worker.pc = "mark" => worker.new \in DOMAIN mems
    /\ worker.pc = "complete" => IsDone(Cand)

\* An accepted candidate refers to a stored memory.
AcceptedInv ==
    \A c \in DOMAIN cands : cands[c].status = "accepted" => cands[c].memory \in DOMAIN mems

\* A pending job has an attempt left, or one that a lost process took.
CountInv ==
    \A j \in DOMAIN jobs :
        /\ jobs[j].attempts <= MaxAttempts + crashes
        /\ jobs[j].status = "pending" => jobs[j].attempts < MaxAttempts + crashes

\* What is unfinished and not forgotten has the worker that will come to it.
WatchInv ==
    /\ \A c \in DOMAIN cands : HasJob(c, jobs) \/ c \in forgotten
    /\ \A j \in DOMAIN jobs :
          /\ jobs[j].status # "failed"
          /\ jobs[j].status = "running" =>
                jobs[j].key \in forgotten \/ (worker.pc \in AttemptPcs /\ worker.job = j)
          /\ jobs[j].status = "pending" =>
                \/ jobs[j].key \in forgotten
                \/ worker.pc # "none" /\ (worker.pc = "delay" => jobs[j].wait > 0)

TypeInv == TypeOK /\ RefsInv /\ AttemptInv /\ PlaceInv /\ AcceptedInv

-----------------------------------------------------------------------------
(* Sequences that are extended, or changed in one place.                   *)

\* A sequence with one more element.
LEMMA Appended ==
    ASSUME NEW S, NEW q \in Seq(S), NEW e \in S
    PROVE  /\ Append(q, e) \in Seq(S)
           /\ Len(Append(q, e)) = Len(q) + 1
           /\ DOMAIN Append(q, e) = DOMAIN q \cup {Len(q) + 1}
           /\ Len(q) + 1 \notin DOMAIN q
           /\ \A i \in DOMAIN q : Append(q, e)[i] = q[i]
           /\ Append(q, e)[Len(q) + 1] = e
<1>1. Append(q, e) \in Seq(S) /\ Len(Append(q, e)) = Len(q) + 1
  BY AppendProperties
<1>2. DOMAIN q = 1..Len(q) /\ Len(q) \in Nat
  BY LenProperties
<1>3. DOMAIN Append(q, e) = 1..Len(q) + 1
  BY <1>1, LenProperties
<1> QED
  BY <1>1, <1>2, <1>3, AppendProperties

\* A sequence with one element replaced.
LEMMA Changed ==
    ASSUME NEW S, NEW q \in Seq(S), NEW i \in DOMAIN q, NEW e \in S
    PROVE  [q EXCEPT ![i] = e] \in Seq(S) /\ Len([q EXCEPT ![i] = e]) = Len(q)
BY ExceptSeq, LenProperties

\* A sequence with every element replaced.
LEMMA Mapped ==
    ASSUME NEW S, NEW q \in Seq(S), NEW r,
           DOMAIN r = DOMAIN q, r = [i \in DOMAIN q |-> r[i]], \A i \in DOMAIN q : r[i] \in S
    PROVE  r \in Seq(S) /\ Len(r) = Len(q)
<1>1. DOMAIN q = 1..Len(q) /\ Len(q) \in Nat
  BY LenProperties
<1>2. r \in [1..Len(q) -> S]
  BY <1>1
<1>3. r \in Seq(S)
  BY <1>1, <1>2, SeqDef
<1> QED
  BY <1>1, <1>3, LenProperties

\* What the files hold, entry by entry.
LEMMA Entries ==
    ASSUME TypeOK
    PROVE  /\ DOMAIN cands = 1..Len(cands) /\ Len(cands) \in Nat /\ DOMAIN cands \subseteq Candidates
           /\ DOMAIN mems = 1..Len(mems) /\ Len(mems) \in Nat
           /\ DOMAIN jobs = 1..Len(jobs) /\ Len(jobs) \in Nat
           /\ \A c \in DOMAIN cands : cands[c] \in Candidate
           /\ \A m \in DOMAIN mems : mems[m] \in Memory
           /\ \A j \in DOMAIN jobs : jobs[j] \in Job
<1>1. /\ cands \in Seq(Candidate) /\ Len(cands) <= MaxCandidates
      /\ mems \in Seq(Memory)
      /\ jobs \in Seq(Job)
  BY DEF TypeOK
<1>2. /\ DOMAIN cands = 1..Len(cands) /\ Len(cands) \in Nat
      /\ DOMAIN mems = 1..Len(mems) /\ Len(mems) \in Nat
      /\ DOMAIN jobs = 1..Len(jobs) /\ Len(jobs) \in Nat
  BY <1>1, LenProperties
<1> QED
  BY <1>1, <1>2, ElementOfSeq, SizesAssumption DEF Candidates

-----------------------------------------------------------------------------
(* What an attempt does to the memories.                                   *)

\* The outcome of save_memory and of consolidate(): nothing is stored, and a
\* version that replaces another was found under the candidate's key ...
Kept == mems' = mems /\ (worker'.pc = "supersede" => worker'.new \in Own(Cand))

\* ... or a first memory of the candidate is stored, whatever follows ...
Added ==
    /\ Own(Cand) = {}
    /\ cands[Cand].status = "pending"
    /\ \E e \in Memory :
          /\ e.key = Cand /\ e.status = "active" /\ mems' = Append(mems, e)
          /\ \/ worker'.pc = "mark" /\ e.links = {}
             \/ /\ worker'.pc = "supersede" /\ e.links = {worker'.old}
                /\ worker'.old \in DOMAIN mems /\ worker'.new = Len(mems) + 1
             \/ worker'.pc = "failure" /\ torn' = torn \cup Unmarked /\ e.links \subseteq DOMAIN mems

\* ... with the next place and the locals for it.
Outcome ==
    /\ Kept \/ Added
    /\ worker'.pc \in {"supersede", "mark"} => cands[Cand].status = "pending"
    /\ worker' \in Worker
    /\ worker'.job = worker.job
    /\ worker'.pc \in {"supersede", "mark", "complete", "failure"}
    /\ {worker'.old, worker'.new} \subseteq 0..Len(mems')
    /\ worker'.pc = "supersede" => {worker'.old, worker'.new} \subseteq DOMAIN mems'
    /\ worker'.pc = "mark" => worker'.new \in DOMAIN mems'
    /\ worker'.pc = "complete" => IsDone(Cand)
    /\ torn' \in {torn, torn \cup Unmarked}
    /\ faults' \in 0..MaxFaults

\* Goto changes the place of the worker and nothing else of it.
LEMMA WentTo ==
    ASSUME NEW w \in Worker, NEW p \in Pcs, NEW v, v = [w EXCEPT !.pc = p]
    PROVE  /\ v \in Worker
           /\ v.pc = p /\ v.job = w.job /\ v.old = w.old /\ v.new = w.new /\ v.wake = w.wake
BY DEF Worker

\* save_memory: found under its key, stored, or stored without its index.
LEMMA SaveMemoryOutcome ==
    ASSUME TypeInv, At("consolidate"), NEW x \in Texts, NEW old, NEW l,
           \/ l = "mark" /\ old = 0
           \/ l = "supersede" /\ old \in DOMAIN mems,
           cands[Cand].status = "pending", SaveMemory(x, old, l)
    PROVE  Outcome
<1>1. /\ DOMAIN mems = 1..Len(mems) /\ Len(mems) \in Nat
      /\ old \in Nat /\ old \in 0..Len(mems)
      /\ worker \in Worker /\ {worker.old, worker.new} \subseteq 0..Len(mems)
      /\ mems \in Seq(Memory)
      /\ faults \in 0..MaxFaults /\ MaxFaults \in Nat
      /\ l \in Pcs /\ "failure" \in Pcs
  BY Entries, SizesAssumption DEF TypeInv, TypeOK, Pcs, AttemptPcs
<1>2. Cand \in Candidates
  BY Entries DEF TypeInv, RefsInv, AttemptInv, AttemptPcs, At, Cand
<1>3. CASE \E m \in Own(Cand) :
             /\ UNCHANGED mems
             /\ worker' = [worker EXCEPT !.pc = l, !.old = old, !.new = m]
             /\ UNCHANGED <<torn, faults>>
  <2>1. PICK m \in Own(Cand) :
             /\ UNCHANGED mems
             /\ worker' = [worker EXCEPT !.pc = l, !.old = old, !.new = m]
             /\ UNCHANGED <<torn, faults>>
    BY <1>3
  <2>0. m \in DOMAIN mems
    BY DEF Own
  <2>2. /\ worker' \in Worker /\ worker'.job = worker.job
        /\ worker'.pc = l /\ worker'.old = old /\ worker'.new = m
    <3>1. worker \in Worker /\ l \in Pcs /\ old \in Nat /\ m \in Nat
      BY <1>1, <2>0
    <3> QED
      BY <2>1, <3>1 DEF Worker
  <2> QED
    BY <1>1, <2>0, <2>1, <2>2 DEF Outcome, Kept
<1>4. CASE /\ Own(Cand) = {}
           /\ mems' = Append(mems, [key |-> Cand, content |-> x, status |-> "active",
                                    links |-> IF l = "supersede" THEN {old} ELSE {}])
           /\ \/ /\ worker' = [worker EXCEPT !.pc = l, !.old = old, !.new = Len(mems) + 1]
                 /\ UNCHANGED <<torn, faults>>
              \/ /\ Fault
                 /\ Goto("failure")
                 /\ torn' = torn \cup Unmarked
  <2> DEFINE e == [key |-> Cand, content |-> x, status |-> "active",
                   links |-> IF l = "supersede" THEN {old} ELSE {}]
  <2>1. e \in Memory
    BY <1>1, <1>2 DEF Memory
  <2>2. /\ Len(mems') = Len(mems) + 1
        /\ DOMAIN mems' = DOMAIN mems \cup {Len(mems) + 1}
    BY <1>1, <1>4, <2>1, Appended
  <2>3. /\ Own(Cand) = {}
        /\ e.key = Cand /\ e.status = "active" /\ mems' = Append(mems, e)
        /\ l = "mark" => e.links = {}
        /\ l = "supersede" => e.links = {old}
        /\ e.links \subseteq DOMAIN mems
    BY <1>4
  <2> HIDE DEF e
  <2>4. CASE /\ worker' = [worker EXCEPT !.pc = l, !.old = old, !.new = Len(mems) + 1]
             /\ UNCHANGED <<torn, faults>>
    <3>1. /\ worker' \in Worker /\ worker'.job = worker.job
          /\ worker'.pc = l /\ worker'.old = old /\ worker'.new = Len(mems) + 1
      <4>1. worker \in Worker /\ l \in Pcs /\ old \in Nat /\ Len(mems) + 1 \in Nat
        BY <1>1
      <4> QED
        BY <2>4, <4>1 DEF Worker
    <3>2. /\ {worker'.old, worker'.new} \subseteq 0..Len(mems')
          /\ worker'.pc = "supersede" => {worker'.old, worker'.new} \subseteq DOMAIN mems'
          /\ worker'.new \in DOMAIN mems'
      BY <1>1, <2>2, <3>1
    <3>3. worker'.pc \in {"supersede", "mark"} /\ torn' = torn /\ faults' \in 0..MaxFaults
      BY <1>1, <2>4, <3>1
    <3>4. Added
      BY <2>1, <2>3, <3>1 DEF Added
    <3> QED
      BY <3>1, <3>2, <3>3, <3>4 DEF Outcome
  <2>5. CASE Fault /\ Goto("failure") /\ torn' = torn \cup Unmarked
    <3>1. /\ worker' \in Worker /\ worker'.job = worker.job /\ worker'.pc = "failure"
          /\ worker'.old = worker.old /\ worker'.new = worker.new
          /\ faults' \in 0..MaxFaults
      BY <1>1, <2>5, WentTo DEF Goto, Fault
    <3>2. {worker'.old, worker'.new} \subseteq 0..Len(mems')
      BY <1>1, <2>2, <3>1
    <3>3. Added
      BY <2>1, <2>3, <2>5, <3>1 DEF Added
    <3> QED
      BY <2>5, <3>1, <3>2, <3>3 DEF Outcome
  <2> QED
    BY <1>4, <2>4, <2>5
<1> QED
  BY <1>3, <1>4 DEF SaveMemory

\* Every decision of consolidate() has such an outcome.
LEMMA ConsolidateOutcome ==
    ASSUME TypeInv, Consolidate
    PROVE  Outcome
<1> USE DEF Consolidate
<1>1. /\ DOMAIN mems = 1..Len(mems) /\ Len(mems) \in Nat
      /\ worker \in Worker /\ {worker.old, worker.new} \subseteq 0..Len(mems)
      /\ faults \in 0..MaxFaults
  BY Entries DEF TypeInv, TypeOK
<1>2. Text \in Texts
  BY Entries DEF TypeInv, RefsInv, AttemptInv, AttemptPcs, At, Cand, Text, Candidate
<1>3. CASE AlreadyDone
  <2>1. worker' \in Worker /\ worker' = [worker EXCEPT !.pc = "complete"]
    BY <1>1, <1>3 DEF AlreadyDone, Goto, Worker, Pcs, AttemptPcs
  <2> QED
    BY <1>1, <1>3, <2>1 DEF AlreadyDone, Outcome, Kept, Worker
<1>4. CASE NotPending
  <2>1. worker' \in Worker /\ worker' = [worker EXCEPT !.pc = "failure"]
    BY <1>1, <1>4 DEF NotPending, Goto, Worker, Pcs, AttemptPcs
  <2> QED
    BY <1>1, <1>4, <2>1 DEF NotPending, Outcome, Kept, Worker
<1>5. CASE StoreNew
  BY <1>2, <1>5, SaveMemoryOutcome DEF StoreNew
<1>6. ASSUME NEW m \in Active, Skip(m)
      PROVE  Outcome
  <2>1. m \in DOMAIN mems
    BY DEF Active
  <2>2. worker' \in Worker /\ worker' = [worker EXCEPT !.pc = "mark", !.new = m]
    <3>1. "mark" \in Pcs /\ m \in Nat
      BY <1>1, <2>1 DEF Pcs, AttemptPcs
    <3> QED
      BY <1>1, <1>6, <3>1 DEF Skip, Worker
  <2>3. worker'.pc = "mark" /\ worker'.job = worker.job /\ worker'.old = worker.old /\ worker'.new = m
    BY <1>1, <2>2 DEF Worker
  <2>4. {worker'.old, worker'.new} \subseteq 0..Len(mems)
    BY <1>1, <2>1, <2>3
  <2>5. mems' = mems /\ torn' = torn /\ faults' = faults /\ cands[Cand].status = "pending"
    BY <1>6 DEF Skip, Match
  <2> QED
    BY <1>1, <2>1, <2>2, <2>3, <2>4, <2>5 DEF Outcome, Kept
<1>7. ASSUME NEW m \in Active, StoreConflict(m)
      PROVE  Outcome
  BY <1>2, <1>7, SaveMemoryOutcome DEF StoreConflict, Differs, Match
<1>8. ASSUME NEW m \in Active, Update(m)
      PROVE  Outcome
  BY <1>2, <1>8, SaveMemoryOutcome DEF Update, Differs, Match, Active
<1>9. ASSUME NEW m \in Active, Merge(m)
      PROVE  Outcome
  <2>1. m \in DOMAIN mems
    BY DEF Active
  <2>2. Merged(Text, mems[m].content) \in Texts
    BY <1>2, <2>1, Entries DEF TypeInv, Memory, Merged, Texts
  <2> QED
    BY <1>9, <2>1, <2>2, SaveMemoryOutcome DEF Merge, Differs, Match
<1> QED
  BY <1>3, <1>4, <1>5, <1>6, <1>7, <1>8, <1>9

-----------------------------------------------------------------------------
(* What the other steps do to the files and the worker.                    *)

\* save_candidate adds a pending candidate or finds the one that is there.
LEMMA SavedCandidate ==
    ASSUME TypeInv, NEW c \in Candidates, Saved(c)
    PROVE  /\ cands' \in Seq(Candidate) /\ Len(cands') <= MaxCandidates
           /\ DOMAIN cands' = DOMAIN cands \cup {c}
           /\ \A d \in DOMAIN cands : cands'[d] = cands[d]
           /\ c \notin DOMAIN cands => cands'[c].status = "pending"
<1> USE DEF TypeInv, TypeOK
<1>1. CASE c \in DOMAIN cands /\ UNCHANGED cands
  BY <1>1
<1>2. ASSUME NEW x \in Contents, Len(cands) < MaxCandidates, c = Len(cands) + 1,
             cands' = Append(cands, [status |-> "pending", content |-> x, memory |-> 0])
      PROVE  /\ cands' \in Seq(Candidate) /\ Len(cands') <= MaxCandidates
             /\ DOMAIN cands' = DOMAIN cands \cup {c}
             /\ \A d \in DOMAIN cands : cands'[d] = cands[d]
             /\ c \notin DOMAIN cands => cands'[c].status = "pending"
  <2> DEFINE e == [status |-> "pending", content |-> x, memory |-> 0]
  <2>1. e \in Candidate
    BY DEF Candidate, Texts
  <2>2. /\ cands' \in Seq(Candidate) /\ Len(cands') = Len(cands) + 1
        /\ DOMAIN cands' = DOMAIN cands \cup {c}
        /\ \A d \in DOMAIN cands : cands'[d] = cands[d]
        /\ cands'[c] = e
    BY <1>2, <2>1, Appended
  <2>3. Len(cands') <= MaxCandidates
    BY <1>2, <2>2, Entries, SizesAssumption
  <2> QED
    BY <2>2, <2>3
<1> QED
  BY <1>1, <1>2 DEF Saved

\* Replacing a job keeps the file a sequence of jobs.
LEMMA JobChanged ==
    ASSUME TypeInv, NEW i \in DOMAIN jobs, NEW e \in Job,
           jobs' = [jobs EXCEPT ![i] = e]
    PROVE  /\ jobs' \in Seq(Job) /\ Len(jobs') = Len(jobs) /\ DOMAIN jobs' = DOMAIN jobs
           /\ jobs'[i] = e
           /\ \A j \in DOMAIN jobs : j # i => jobs'[j] = jobs[j]
<1>1. jobs \in Seq(Job)
  BY DEF TypeInv, TypeOK
<1> QED
  BY <1>1, Changed

\* An exception leaves a worker that holds nothing.
LEMMA WorkerEnded ==
    ASSUME TypeInv, WorkerEnds
    PROVE  /\ worker' \in Worker /\ worker'.pc = "none"
           /\ worker'.job = 0 /\ worker'.old = 0 /\ worker'.new = 0
           /\ forgotten' \subseteq Candidates
<1>1. forgotten \subseteq Candidates /\ DOMAIN cands \subseteq Candidates
  BY Entries DEF TypeInv, TypeOK
<1> QED
  BY <1>1 DEF WorkerEnds, NoWorker, Worker, Pcs, YieldPcs

\* After the job is written the worker goes on, or its checkpoint ended it.
LEMMA JobWritten ==
    ASSUME TypeInv, JobWrote
    PROVE  /\ worker' \in Worker /\ worker'.pc \in {"pick", "none"}
           /\ worker'.job \in {0, worker.job}
           /\ worker'.old \in {0, worker.old} /\ worker'.new \in {0, worker.new}
           /\ forgotten' \subseteq Candidates
           /\ faults' \in 0..MaxFaults
<1>1. /\ worker \in Worker /\ "pick" \in Pcs /\ forgotten \subseteq Candidates
      /\ faults \in 0..MaxFaults /\ MaxFaults \in Nat
  BY SizesAssumption DEF TypeInv, TypeOK, Pcs
<1>2. CASE Goto("pick") /\ UNCHANGED <<forgotten, faults>>
  BY <1>1, <1>2, WentTo DEF Goto
<1>3. CASE Fault /\ WorkerEnds
  BY <1>1, <1>3, WorkerEnded DEF Fault
<1> QED
  BY <1>2, <1>3 DEF JobWrote

\* After a write of the store the attempt goes on or fails.
LEMMA StoreWritten ==
    ASSUME TypeInv, NEW l \in {"mark", "complete"}, StoreWrote(l)
    PROVE  /\ worker' \in Worker /\ worker'.pc \in {l, "failure"} /\ worker'.job = worker.job
           /\ worker'.old = worker.old /\ worker'.new = worker.new
           /\ torn' \in {torn, torn \cup Unmarked}
           /\ worker'.pc = "failure" => torn' = torn \cup Unmarked
           /\ faults' \in 0..MaxFaults
<1>1. /\ worker \in Worker /\ l \in Pcs /\ "failure" \in Pcs
      /\ faults \in 0..MaxFaults /\ MaxFaults \in Nat
  BY SizesAssumption DEF TypeInv, TypeOK, Pcs, AttemptPcs
<1>2. CASE Goto(l) /\ UNCHANGED <<torn, faults>>
  BY <1>1, <1>2, WentTo DEF Goto
<1>3. CASE Fault /\ Goto("failure") /\ torn' = torn \cup Unmarked
  <2>1. faults' \in 0..MaxFaults
    BY <1>1, <1>3 DEF Fault
  <2> QED
    BY <1>1, <1>3, <2>1, WentTo DEF Goto
<1> QED
  BY <1>2, <1>3 DEF StoreWrote

\* The job and the candidate of an attempt.
LEMMA InAttempt ==
    ASSUME TypeInv, worker.pc \in AttemptPcs
    PROVE  /\ worker.job \in DOMAIN jobs
           /\ jobs[worker.job] \in Job
           /\ jobs[worker.job].status = "running"
           /\ jobs[worker.job].attempts \in Nat \ {0}
           /\ Cand \in DOMAIN cands /\ Cand = jobs[worker.job].key
           /\ cands[Cand] \in Candidate
<1>1. /\ worker.job \in DOMAIN jobs
      /\ jobs[worker.job] \in Job
      /\ jobs[worker.job].status = "running"
      /\ jobs[worker.job].attempts >= 1
  BY Entries DEF TypeInv, AttemptInv
<1>2. jobs[worker.job].attempts \in Nat
  BY <1>1 DEF Job
<1> QED
  BY <1>1, <1>2, Entries DEF TypeInv, RefsInv, Cand

\* Only the job at i is changed, and not its key.
OnlyJob(i) ==
    /\ jobs' \in Seq(Job) /\ Len(jobs') = Len(jobs) /\ DOMAIN jobs' = DOMAIN jobs
    /\ \A j \in DOMAIN jobs : jobs'[j].key = jobs[j].key /\ (j # i => jobs'[j] = jobs[j])

\* The job is written as completed or as a dead letter.
LEMMA JobEnded ==
    ASSUME TypeInv, worker.pc \in AttemptPcs, NEW st \in {"completed", "dead_letter"},
           jobs' = [jobs EXCEPT ![worker.job].status = st]
    PROVE  /\ OnlyJob(worker.job)
           /\ jobs'[worker.job].status = st
           /\ jobs'[worker.job].attempts = jobs[worker.job].attempts
<1> DEFINE e == [jobs[worker.job] EXCEPT !.status = st]
<1>1. worker.job \in DOMAIN jobs /\ jobs[worker.job] \in Job
  BY InAttempt
<1>2. /\ e \in Job /\ e.key = jobs[worker.job].key /\ e.status = st
      /\ e.attempts = jobs[worker.job].attempts
  BY <1>1 DEF Job
<1>3. jobs' = [jobs EXCEPT ![worker.job] = e]
  OBVIOUS
<1> HIDE DEF e
<1> QED
  BY <1>1, <1>2, <1>3, JobChanged DEF OnlyJob

\* The job is written as pending; its delay is a number by DelayAssumption.
LEMMA JobRetried ==
    ASSUME TypeInv, worker.pc \in AttemptPcs, MayRetry(jobs[worker.job]),
           jobs' = [jobs EXCEPT ![worker.job] = Retried(@)]
    PROVE  /\ OnlyJob(worker.job)
           /\ jobs'[worker.job].status = "pending"
           /\ jobs'[worker.job].attempts = jobs[worker.job].attempts
<1> DEFINE e == Retried(jobs[worker.job])
<1>1. worker.job \in DOMAIN jobs /\ jobs[worker.job] \in Job
  BY InAttempt
<1>2. jobs[worker.job].attempts \in 1..MaxAttempts
  BY InAttempt, SizesAssumption DEF MayRetry
<1>3. RetryDelay(jobs[worker.job].attempts) \in Nat
  BY <1>2, DelayAssumption
<1>4. /\ e \in Job /\ e.key = jobs[worker.job].key /\ e.status = "pending"
      /\ e.attempts = jobs[worker.job].attempts
  BY <1>1, <1>3 DEF Job, Retried
<1>5. jobs' = [jobs EXCEPT ![worker.job] = e]
  OBVIOUS
<1> HIDE DEF e
<1> QED
  BY <1>1, <1>4, <1>5, JobChanged DEF OnlyJob

\* The job is written as running with its attempt counted.
LEMMA JobStarted ==
    ASSUME TypeInv, NEW i \in DOMAIN jobs, jobs' = [jobs EXCEPT ![i] = Started(@)]
    PROVE  /\ OnlyJob(i)
           /\ jobs'[i].status = "running"
           /\ jobs'[i].attempts = jobs[i].attempts + 1
<1> DEFINE e == Started(jobs[i])
<1>1. jobs[i] \in Job
  BY Entries DEF TypeInv
<1>2. /\ e \in Job /\ e.key = jobs[i].key /\ e.status = "running"
      /\ e.attempts = jobs[i].attempts + 1
  <2>1. jobs[i].attempts + 1 \in Nat
    BY <1>1 DEF Job
  <2> QED
    BY <1>1, <2>1 DEF Job, Started
<1>3. jobs' = [jobs EXCEPT ![i] = e]
  OBVIOUS
<1> HIDE DEF e
<1> QED
  BY <1>1, <1>2, <1>3, JobChanged DEF OnlyJob

\* A new status and memory of the candidate in hand.
LEMMA CandidateMarked ==
    ASSUME TypeInv, worker.pc \in AttemptPcs,
           NEW st \in {"accepted", "failed"}, NEW m \in Nat,
           cands' = [cands EXCEPT ![Cand] = [@ EXCEPT !.status = st, !.memory = m]]
    PROVE  /\ cands' \in Seq(Candidate) /\ Len(cands') <= MaxCandidates
           /\ DOMAIN cands' = DOMAIN cands
           /\ cands'[Cand].status = st /\ cands'[Cand].memory = m
           /\ \A c \in DOMAIN cands : c # Cand => cands'[c] = cands[c]
<1> DEFINE e == [cands[Cand] EXCEPT !.status = st, !.memory = m]
<1>1. Cand \in DOMAIN cands /\ cands[Cand] \in Candidate
  BY InAttempt
<1>2. e \in Candidate /\ e.status = st /\ e.memory = m
  BY <1>1 DEF Candidate
<1>3. cands' = [cands EXCEPT ![Cand] = e] /\ cands \in Seq(Candidate) /\ Len(cands) <= MaxCandidates
  BY DEF TypeInv, TypeOK
<1> HIDE DEF e
<1>4. cands' \in Seq(Candidate) /\ Len(cands') = Len(cands)
  BY <1>1, <1>2, <1>3, Changed
<1> QED
  BY <1>1, <1>2, <1>3, <1>4

\* The superseded memory keeps its key and points to its successor.
LEMMA MemorySuperseded ==
    ASSUME TypeInv, worker.pc = "supersede",
           mems' = [mems EXCEPT ![worker.old] = Superseded(@, worker.new)]
    PROVE  /\ mems' \in Seq(Memory) /\ Len(mems') = Len(mems)
           /\ DOMAIN mems' = DOMAIN mems
           /\ \A m \in DOMAIN mems : mems'[m].key = mems[m].key
           /\ \A m \in DOMAIN mems : m # worker.old => mems'[m] = mems[m]
           /\ mems'[worker.old].status = "superseded" /\ mems'[worker.old].links = {worker.new}
<1> DEFINE e == Superseded(mems[worker.old], worker.new)
<1>1. /\ worker.old \in DOMAIN mems /\ worker.new \in Nat
      /\ mems[worker.old] \in Memory /\ mems \in Seq(Memory)
  BY Entries DEF TypeInv, TypeOK, PlaceInv
<1>2. /\ e \in Memory /\ e.key = mems[worker.old].key
      /\ e.status = "superseded" /\ e.links = {worker.new}
  BY <1>1 DEF Memory, Superseded
<1>3. mems' = [mems EXCEPT ![worker.old] = e]
  OBVIOUS
<1> HIDE DEF e
<1> QED
  BY <1>1, <1>2, <1>3, Changed

\* The history of torn candidates has candidates only.
LEMMA TornStays ==
    ASSUME TypeInv, torn' \in {torn, torn \cup Unmarked}, DOMAIN cands' = DOMAIN cands
    PROVE  torn' \subseteq Candidates
BY Entries DEF TypeInv, TypeOK, Unmarked

-----------------------------------------------------------------------------
(* Types, references and places.                                           *)

\* No file exists at first.
LEMMA TypeInit == Init => TypeInv
<1> SUFFICES ASSUME Init PROVE TypeInv
  OBVIOUS
<1>1. cands = <<>> /\ mems = <<>> /\ jobs = <<>> /\ worker = NoWorker
  BY DEF Init
<1>2. TypeOK
  BY <1>1, EmptySeq, SizesAssumption
  DEF Init, TypeOK, NoWorker, Worker, Pcs, YieldPcs
<1>3. DOMAIN cands = {} /\ DOMAIN mems = {} /\ DOMAIN jobs = {}
  BY <1>1, <1>2, Entries, EmptySeq
<1> QED
  BY <1>1, <1>2, <1>3
  DEF TypeInv, RefsInv, AttemptInv, PlaceInv, AcceptedInv, NoWorker, AttemptPcs

\* enqueue(), complete or cut short after its first write.
LEMMA TypeEnqueue ==
    ASSUME TypeInv, NEW c \in Candidates, Enqueue(c) \/ EnqueueEnds(c)
    PROVE  TypeInv'
<1> USE DEF TypeInv
<1>1. /\ worker.pc \in YieldPcs /\ Saved(c)
      /\ mems' = mems /\ torn' = torn /\ crashes' = crashes
  BY DEF Enqueue, EnqueueEnds
<1>2. /\ cands' \in Seq(Candidate) /\ Len(cands') <= MaxCandidates
      /\ DOMAIN cands' = DOMAIN cands \cup {c}
      /\ \A d \in DOMAIN cands : cands'[d] = cands[d]
      /\ c \notin DOMAIN cands => cands'[c].status = "pending"
  BY <1>1, SavedCandidate
<1>3. /\ jobs' \in Seq(Job) /\ Len(jobs') >= Len(jobs)
      /\ \A j \in DOMAIN jobs' : jobs'[j].key \in DOMAIN cands'
  <2>1. CASE jobs' = jobs
    BY <1>2, <2>1, Entries DEF TypeOK, RefsInv
  <2>2. CASE jobs' = Append(jobs, [key |-> c, status |-> "pending", attempts |-> 0, wait |-> 0])
    <3> DEFINE e == [key |-> c, status |-> "pending", attempts |-> 0, wait |-> 0]
    <3>1. e \in Job /\ e.key = c /\ jobs \in Seq(Job)
      BY DEF Job, TypeOK
    <3> HIDE DEF e
    <3>2. /\ jobs' \in Seq(Job) /\ Len(jobs') = Len(jobs) + 1
          /\ DOMAIN jobs' = DOMAIN jobs \cup {Len(jobs) + 1}
          /\ \A j \in DOMAIN jobs : jobs'[j] = jobs[j]
          /\ jobs'[Len(jobs) + 1] = e
      BY <2>2, <3>1, Appended DEF e
    <3> QED
      BY <1>2, <3>1, <3>2, Entries DEF RefsInv
  <2> QED
    BY <2>1, <2>2 DEF Enqueue, EnqueueEnds
<1>4. /\ worker' \in Worker /\ worker'.pc \in YieldPcs
      /\ worker'.job = worker.job /\ worker'.old = worker.old /\ worker'.new = worker.new
  <2>1. worker' = worker \/ worker' = [worker EXCEPT !.pc = "scheduled"]
    BY DEF Enqueue, EnqueueEnds, Scheduled, TypeOK, Worker
  <2>2. worker \in Worker /\ "scheduled" \in Pcs /\ "scheduled" \in YieldPcs
    BY DEF TypeOK, Pcs, YieldPcs
  <2> QED
    BY <1>1, <2>1, <2>2, WentTo
<1>5. forgotten' \subseteq Candidates /\ faults' \in 0..MaxFaults
  BY SizesAssumption DEF Enqueue, EnqueueEnds, Fault, TypeOK
<1>6. TypeOK'
  <2>1. worker'.job \in 0..Len(jobs')
    BY <1>3, <1>4, Entries, LenProperties DEF TypeOK
  <2> QED
    BY <1>1, <1>2, <1>3, <1>4, <1>5, <2>1 DEF TypeOK
<1>7. RefsInv'
  BY <1>1, <1>2, <1>3 DEF RefsInv
<1>8. AttemptInv' /\ PlaceInv'
  BY <1>4 DEF AttemptInv, PlaceInv, YieldPcs, AttemptPcs
<1>9. AcceptedInv'
  BY <1>1, <1>2 DEF AcceptedInv
<1> QED
  BY <1>6, <1>7, <1>8, <1>9

\* The loop of the worker: it begins, takes a job, or waits for one.
LEMMA TypeLoop ==
    ASSUME TypeInv, WorkerBegins \/ Pick \/ Delay
    PROVE  TypeInv'
<1> USE DEF TypeInv
<1>1. /\ cands' = cands /\ mems' = mems /\ torn' = torn
      /\ crashes' = crashes /\ faults' = faults /\ forgotten' \subseteq forgotten
  BY DEF WorkerBegins, Pick, Delay
<1>2. worker \in Worker /\ {"pick", "delay", "asleep", "consolidate"} \subseteq Pcs
  BY DEF TypeOK, Pcs, YieldPcs, AttemptPcs
<1>3. CASE /\ jobs' = jobs
           /\ worker' \in Worker /\ worker'.pc \in {"pick", "delay", "asleep", "none"}
           /\ worker'.job \in {0, worker.job}
           /\ worker'.old \in {0, worker.old} /\ worker'.new \in {0, worker.new}
  <2>1. TypeOK'
    BY <1>1, <1>3, Entries DEF TypeOK
  <2>2. AttemptInv' /\ PlaceInv'
    BY <1>3 DEF AttemptInv, PlaceInv, AttemptPcs
  <2> QED
    BY <1>1, <1>3, <2>1, <2>2 DEF RefsInv, AcceptedInv
<1>4. CASE WorkerBegins
  <2>1. jobs' = jobs /\ worker' = [worker EXCEPT !.pc = "pick"]
    BY <1>4 DEF WorkerBegins, Goto
  <2> QED
    BY <1>2, <1>3, <2>1, WentTo
<1>5. CASE Delay
  <2>1. ASSUME NEW j \in Later, worker' = [worker EXCEPT !.pc = "asleep", !.wake = jobs[j].wait]
        PROVE  /\ worker' \in Worker /\ worker'.pc = "asleep" /\ worker'.job = worker.job
               /\ worker'.old = worker.old /\ worker'.new = worker.new
    <3>1. jobs[j].wait \in Nat
      BY Entries DEF Later, Job
    <3> QED
      BY <1>2, <2>1, <3>1 DEF Worker
  <2>2. CASE worker' = NoWorker
    <3>1. /\ worker' \in Worker /\ worker'.pc = "none"
          /\ worker'.job = 0 /\ worker'.old = 0 /\ worker'.new = 0
      BY <2>2 DEF NoWorker, Worker, Pcs, YieldPcs
    <3> QED
      BY <1>3, <1>5, <3>1 DEF Delay
  <2> QED
    BY <1>3, <1>5, <2>1, <2>2 DEF Delay
<1>6. CASE Pick
  <2>1. CASE jobs' = jobs /\ worker' = [worker EXCEPT !.pc = "delay"]
    BY <1>2, <1>3, <2>1, WentTo
  <2>2. ASSUME NEW j \in Ready, jobs' = [jobs EXCEPT ![j] = Started(@)],
               worker' = [worker EXCEPT !.pc = "consolidate", !.job = j]
        PROVE  TypeInv'
    <3>1. j \in DOMAIN jobs /\ j \in Nat
      BY Entries DEF Ready
    <3>2. /\ OnlyJob(j)
          /\ jobs'[j].status = "running"
          /\ jobs'[j].attempts = jobs[j].attempts + 1
      BY <2>2, <3>1, JobStarted
    <3>3. /\ worker' \in Worker /\ worker'.pc = "consolidate" /\ worker'.job = j
          /\ worker'.old = worker.old /\ worker'.new = worker.new
      BY <1>2, <2>2, <3>1 DEF Worker
    <3>4. jobs'[j].attempts >= 1
      BY <3>1, <3>2, Entries DEF Job
    <3>5. TypeOK'
      BY <1>1, <3>1, <3>2, <3>3, Entries DEF TypeOK, OnlyJob
    <3>6. RefsInv'
      BY <1>1, <3>2 DEF RefsInv, OnlyJob
    <3>7. AttemptInv' /\ PlaceInv'
      BY <3>1, <3>2, <3>3, <3>4 DEF AttemptInv, PlaceInv, OnlyJob
    <3> QED
      BY <1>1, <3>5, <3>6, <3>7 DEF AcceptedInv
  <2> QED
    BY <1>6, <2>1, <2>2 DEF Pick, Goto
<1> QED
  BY <1>4, <1>5, <1>6

\* An attempt decides and stores.
LEMMA TypeConsolidate ==
    ASSUME TypeInv, Consolidate
    PROVE  TypeInv'
<1> USE DEF TypeInv
<1>1. /\ cands' = cands /\ jobs' = jobs /\ forgotten' = forgotten /\ crashes' = crashes
      /\ worker.pc \in AttemptPcs
  BY DEF Consolidate, At, AttemptPcs
<1>2. Outcome
  BY ConsolidateOutcome
<1>3. /\ mems' \in Seq(Memory)
      /\ DOMAIN mems \subseteq DOMAIN mems'
      /\ \A m \in DOMAIN mems' : mems'[m].key \in DOMAIN cands
  <2>1. CASE mems' = mems
    BY <2>1 DEF TypeOK, RefsInv
  <2>2. ASSUME NEW e \in Memory, e.key = Cand, mems' = Append(mems, e)
        PROVE  /\ mems' \in Seq(Memory)
               /\ DOMAIN mems \subseteq DOMAIN mems'
               /\ \A m \in DOMAIN mems' : mems'[m].key \in DOMAIN cands
    <3>1. mems \in Seq(Memory) /\ Cand \in DOMAIN cands
      BY <1>1, InAttempt DEF TypeOK
    <3> QED
      BY <2>2, <3>1, Appended DEF RefsInv
  <2> QED
    BY <1>2, <2>1, <2>2 DEF Outcome, Kept, Added
<1>4. TypeOK'
  <2>1. torn' \subseteq Candidates
    BY <1>1, <1>2, TornStays DEF Outcome
  <2> QED
    BY <1>1, <1>2, <1>3, <2>1 DEF TypeOK, Outcome
<1>5. RefsInv'
  BY <1>1, <1>3 DEF RefsInv
<1>6. AttemptInv'
  BY <1>1, <1>2 DEF AttemptInv, Outcome
<1>7. PlaceInv'
  <2>1. worker'.pc = "complete" => IsDone(Cand)'
    BY <1>1, <1>2 DEF Outcome, IsDone, Cand
  <2> QED
    BY <1>2, <2>1 DEF PlaceInv, Outcome
<1>8. AcceptedInv'
  BY <1>1, <1>3 DEF AcceptedInv
<1> QED
  BY <1>4, <1>5, <1>6, <1>7, <1>8

\* An attempt replaces the old version.
LEMMA TypeSupersede ==
    ASSUME TypeInv, Supersede
    PROVE  TypeInv'
<1> USE DEF TypeInv
<1>1. /\ cands' = cands /\ jobs' = jobs /\ forgotten' = forgotten /\ crashes' = crashes
      /\ worker.pc = "supersede" /\ worker.pc \in AttemptPcs
  BY DEF Supersede, At, AttemptPcs
<1>2. /\ mems' \in Seq(Memory) /\ Len(mems') = Len(mems)
      /\ DOMAIN mems' = DOMAIN mems
      /\ \A m \in DOMAIN mems : mems'[m].key = mems[m].key
  BY <1>1, MemorySuperseded DEF Supersede
<1>3. /\ worker' \in Worker /\ worker'.pc \in {"mark", "failure"} /\ worker'.job = worker.job
      /\ worker'.old = worker.old /\ worker'.new = worker.new
      /\ torn' \in {torn, torn \cup Unmarked}
      /\ faults' \in 0..MaxFaults
  BY StoreWritten DEF Supersede
<1>4. TypeOK'
  <2>1. torn' \subseteq Candidates
    BY <1>1, <1>3, TornStays
  <2> QED
    BY <1>1, <1>2, <1>3, <2>1 DEF TypeOK
<1>5. RefsInv' /\ AcceptedInv'
  BY <1>1, <1>2 DEF RefsInv, AcceptedInv
<1>6. AttemptInv' /\ PlaceInv'
  BY <1>1, <1>2, <1>3 DEF AttemptInv, PlaceInv
<1> QED
  BY <1>4, <1>5, <1>6

\* An attempt marks its candidate.
LEMMA TypeMark ==
    ASSUME TypeInv, Mark
    PROVE  TypeInv'
<1> USE DEF TypeInv
<1>1. /\ mems' = mems /\ jobs' = jobs /\ forgotten' = forgotten /\ crashes' = crashes
      /\ worker.pc = "mark" /\ worker.pc \in AttemptPcs
  BY DEF Mark, At, AttemptPcs
<1>2. worker.new \in DOMAIN mems /\ worker.new \in Nat \ {0}
  BY <1>1, Entries DEF PlaceInv
<1>3. /\ cands' \in Seq(Candidate) /\ Len(cands') <= MaxCandidates
      /\ DOMAIN cands' = DOMAIN cands
      /\ cands'[Cand].status = "accepted" /\ cands'[Cand].memory = worker.new
      /\ \A c \in DOMAIN cands : c # Cand => cands'[c] = cands[c]
  <2>1. Cand \in DOMAIN cands /\ cands[Cand] \in Candidate
    BY <1>1, InAttempt
  <2>2. cands' = [cands EXCEPT ![Cand] = [@ EXCEPT !.status = "accepted", !.memory = worker.new]]
    BY <2>1 DEF Mark, Candidate
  <2> QED
    BY <1>1, <1>2, <2>2, CandidateMarked
<1>4. /\ worker' \in Worker /\ worker'.pc \in {"complete", "failure"} /\ worker'.job = worker.job
      /\ worker'.old = worker.old /\ worker'.new = worker.new
      /\ torn' \in {torn, torn \cup Unmarked}
      /\ faults' \in 0..MaxFaults
  BY StoreWritten DEF Mark
<1>5. TypeOK'
  <2>1. torn' \subseteq Candidates
    BY <1>3, <1>4, TornStays
  <2> QED
    BY <1>1, <1>3, <1>4, <2>1 DEF TypeOK
<1>6. RefsInv' /\ AcceptedInv'
  BY <1>1, <1>2, <1>3 DEF RefsInv, AcceptedInv
<1>7. AttemptInv'
  BY <1>1, <1>4 DEF AttemptInv
<1>8. PlaceInv'
  <2>1. IsDone(Cand)'
    BY <1>1, <1>2, <1>3, <1>4 DEF IsDone, Cand
  <2> QED
    BY <1>4, <2>1 DEF PlaceInv
<1> QED
  BY <1>5, <1>6, <1>7, <1>8

\* A read or a write of an attempt fails.
LEMMA TypeStoreFails ==
    ASSUME TypeInv, StoreFails
    PROVE  TypeInv'
<1> USE DEF TypeInv
<1>1. /\ cands' = cands /\ mems' = mems /\ jobs' = jobs /\ forgotten' = forgotten
      /\ crashes' = crashes /\ worker.pc \in AttemptPcs
  BY DEF StoreFails, At, AttemptPcs
<1>2. /\ worker' \in Worker /\ worker'.pc = "failure" /\ worker'.job = worker.job
      /\ worker'.old = worker.old /\ worker'.new = worker.new
  BY WentTo DEF StoreFails, Goto, TypeOK, Pcs, AttemptPcs
<1>3. TypeOK'
  <2>1. torn' \subseteq Candidates
    BY <1>1, TornStays DEF StoreFails
  <2>2. faults' \in 0..MaxFaults
    BY SizesAssumption DEF StoreFails, Fault, TypeOK
  <2> QED
    BY <1>1, <1>2, <2>1, <2>2 DEF TypeOK
<1>4. RefsInv' /\ AttemptInv' /\ PlaceInv' /\ AcceptedInv'
  BY <1>1, <1>2 DEF RefsInv, AttemptInv, PlaceInv, AcceptedInv
<1> QED
  BY <1>3, <1>4

\* The job of the attempt is written as completed, pending or a dead letter.
LEMMA TypeJobEnds ==
    ASSUME TypeInv, Complete \/ Retry \/ DeadLetter
    PROVE  TypeInv'
<1> USE DEF TypeInv
<1>1. /\ cands' = cands /\ mems' = mems /\ torn' = torn /\ crashes' = crashes
      /\ worker.pc \in AttemptPcs /\ JobWrote
  BY DEF Complete, Retry, DeadLetter, At, AttemptPcs
<1>2. OnlyJob(worker.job)
  BY <1>1, JobEnded, JobRetried DEF Complete, Retry, DeadLetter
<1>3. /\ worker' \in Worker /\ worker'.pc \in {"pick", "none"}
      /\ worker'.job \in {0, worker.job}
      /\ worker'.old \in {0, worker.old} /\ worker'.new \in {0, worker.new}
      /\ forgotten' \subseteq Candidates
      /\ faults' \in 0..MaxFaults
  BY <1>1, JobWritten
<1>4. TypeOK'
  <2>1. worker'.job \in 0..Len(jobs') /\ {worker'.old, worker'.new} \subseteq 0..Len(mems')
    BY <1>1, <1>2, <1>3, Entries DEF TypeOK, OnlyJob
  <2> QED
    BY <1>1, <1>2, <1>3, <2>1 DEF TypeOK, OnlyJob
<1>5. RefsInv' /\ AcceptedInv'
  BY <1>1, <1>2 DEF RefsInv, AcceptedInv, OnlyJob
<1>6. AttemptInv' /\ PlaceInv'
  BY <1>3 DEF AttemptInv, PlaceInv, AttemptPcs
<1> QED
  BY <1>4, <1>5, <1>6

\* The last attempt failed.
LEMMA TypeGiveUp ==
    ASSUME TypeInv, GiveUp
    PROVE  TypeInv'
<1> USE DEF TypeInv
<1>1. /\ mems' = mems /\ jobs' = jobs /\ forgotten' = forgotten /\ torn' = torn
      /\ crashes' = crashes /\ worker.pc \in AttemptPcs
  BY DEF GiveUp, At, AttemptPcs
<1>2. /\ cands' \in Seq(Candidate) /\ Len(cands') <= MaxCandidates
      /\ DOMAIN cands' = DOMAIN cands
      /\ cands' = cands \/ cands'[Cand].status = "failed"
      /\ \A c \in DOMAIN cands : c # Cand => cands'[c] = cands[c]
  <2>1. Cand \in DOMAIN cands /\ cands[Cand] \in Candidate
    BY <1>1, InAttempt
  <2>2. CASE cands' = [cands EXCEPT ![Cand].status = "failed"]
    <3>1. cands' = [cands EXCEPT ![Cand] = [@ EXCEPT !.status = "failed", !.memory = cands[Cand].memory]]
      BY <2>1, <2>2 DEF Candidate
    <3>2. cands[Cand].memory \in Nat
      BY <2>1 DEF Candidate
    <3> QED
      BY <1>1, <3>1, <3>2, CandidateMarked
  <2>3. CASE cands' = cands
    BY <2>3 DEF TypeOK
  <2> QED
    BY <2>2, <2>3 DEF GiveUp
<1>3. /\ worker' \in Worker /\ worker'.pc = "dead" /\ worker'.job = worker.job
      /\ worker'.old = worker.old /\ worker'.new = worker.new
  BY WentTo DEF GiveUp, Goto, TypeOK, Pcs, AttemptPcs
<1>4. faults' \in 0..MaxFaults
  BY SizesAssumption DEF GiveUp, Fault, TypeOK
<1>5. TypeOK'
  BY <1>1, <1>2, <1>3, <1>4 DEF TypeOK
<1>6. RefsInv' /\ AcceptedInv'
  BY <1>1, <1>2 DEF RefsInv, AcceptedInv
<1>7. AttemptInv' /\ PlaceInv'
  BY <1>1, <1>3 DEF AttemptInv, PlaceInv
<1> QED
  BY <1>5, <1>6, <1>7

\* The jobs file cannot be written.
LEMMA TypeJobWriteFails ==
    ASSUME TypeInv, JobWriteFails
    PROVE  TypeInv'
<1> USE DEF TypeInv
<1>1. /\ cands' = cands /\ mems' = mems /\ jobs' = jobs /\ torn' = torn /\ crashes' = crashes
      /\ faults' \in 0..MaxFaults
  BY SizesAssumption DEF JobWriteFails, Fault, TypeOK
<1>2. /\ worker' \in Worker /\ worker'.pc = "none"
      /\ worker'.job = 0 /\ worker'.old = 0 /\ worker'.new = 0
      /\ forgotten' \subseteq Candidates
  BY WorkerEnded DEF JobWriteFails
<1>3. TypeOK'
  BY <1>1, <1>2, Entries DEF TypeOK
<1>4. RefsInv' /\ AcceptedInv' /\ AttemptInv' /\ PlaceInv'
  BY <1>1, <1>2 DEF RefsInv, AcceptedInv, AttemptInv, PlaceInv, AttemptPcs
<1> QED
  BY <1>3, <1>4

\* What _recover_interrupted_jobs does to one job.
LEMMA RecoveredJob ==
    ASSUME NEW e \in Job
    PROVE  /\ Recovered(e) \in Job
           /\ Recovered(e).key = e.key /\ Recovered(e).attempts = e.attempts
           /\ Recovered(e).status = IF e.status = "running" THEN "pending" ELSE e.status
<1>1. CASE e.status = "running"
  <2> DEFINE r == [e EXCEPT !.status = "pending", !.wait = 0]
  <2>1. r \in Job
    BY DEF Job
  <2>2. r.key = e.key /\ r.attempts = e.attempts /\ r.status = "pending"
    BY DEF Job
  <2>3. Recovered(e) = r
    BY <1>1 DEF Recovered
  <2> HIDE DEF r
  <2> QED
    BY <1>1, <2>1, <2>2, <2>3
<1>2. CASE e.status # "running"
  BY <1>2 DEF Recovered
<1> QED
  BY <1>1, <1>2

\* The process is lost and another one starts.
LEMMA TypeRestart ==
    ASSUME TypeInv, Restart
    PROVE  /\ TypeInv'
           /\ \A j \in DOMAIN jobs : jobs'[j] = Recovered(jobs[j])
<1> USE DEF TypeInv
<1>1. /\ cands' = cands /\ mems' = mems /\ faults' = faults
      /\ crashes' \in 0..MaxCrashes
      /\ DOMAIN jobs' = DOMAIN jobs /\ jobs' = [j \in DOMAIN jobs |-> jobs'[j]]
      /\ \A j \in DOMAIN jobs : jobs'[j] = Recovered(jobs[j])
  BY SizesAssumption DEF Restart, TypeOK
<1>2. \A j \in DOMAIN jobs : jobs'[j] \in Job /\ jobs'[j].key = jobs[j].key
  BY <1>1, Entries, RecoveredJob
<1>3. jobs' \in Seq(Job) /\ Len(jobs') = Len(jobs)
  BY <1>1, <1>2, Mapped DEF TypeOK
<1>4. /\ worker' \in Worker /\ worker'.pc = "none"
      /\ worker'.job = 0 /\ worker'.old = 0 /\ worker'.new = 0
  BY DEF Restart, NoWorker, Worker, Pcs, YieldPcs
<1>5. forgotten' \subseteq Candidates /\ torn' \subseteq Candidates
  BY <1>1, TornStays, Entries DEF Restart
<1>6. TypeOK'
  BY <1>1, <1>3, <1>4, <1>5, Entries DEF TypeOK
<1>7. RefsInv' /\ AcceptedInv' /\ AttemptInv' /\ PlaceInv'
  BY <1>1, <1>2, <1>4 DEF RefsInv, AcceptedInv, AttemptInv, PlaceInv, AttemptPcs
<1> QED
  BY <1>1, <1>6, <1>7

\* Time passes.
LEMMA TypeTick ==
    ASSUME TypeInv, Tick
    PROVE  /\ TypeInv'
           /\ DOMAIN jobs' = DOMAIN jobs
           /\ \A j \in DOMAIN jobs : jobs'[j] = [jobs[j] EXCEPT !.wait = Less(@)]
           /\ worker'.pc = worker.pc /\ worker'.job = worker.job
<1> USE DEF TypeInv
<1>1. /\ cands' = cands /\ mems' = mems /\ torn' = torn /\ crashes' = crashes /\ faults' = faults
      /\ DOMAIN jobs' = DOMAIN jobs /\ jobs' = [j \in DOMAIN jobs |-> jobs'[j]]
      /\ \A j \in DOMAIN jobs : jobs'[j] = [jobs[j] EXCEPT !.wait = Less(@)]
  BY DEF Tick
<1>2. \A n \in Nat : Less(n) \in Nat
  BY DEF Less
<1>3. \A j \in DOMAIN jobs :
          /\ jobs'[j] \in Job /\ jobs'[j].key = jobs[j].key
          /\ jobs'[j].status = jobs[j].status /\ jobs'[j].attempts = jobs[j].attempts
  BY <1>1, <1>2, Entries DEF Job
<1>4. jobs' \in Seq(Job) /\ Len(jobs') = Len(jobs)
  BY <1>1, <1>3, Mapped DEF TypeOK
<1>5. /\ worker' \in Worker /\ worker'.pc = worker.pc /\ worker'.job = worker.job
      /\ worker'.old = worker.old /\ worker'.new = worker.new
  BY <1>2 DEF Tick, TypeOK, Worker
<1>6. forgotten' \subseteq Candidates
  BY Entries DEF Tick, Later, Job, TypeOK
<1>7. TypeOK'
  BY <1>1, <1>4, <1>5, <1>6 DEF TypeOK
<1>8. RefsInv' /\ AcceptedInv'
  BY <1>1, <1>3 DEF RefsInv, AcceptedInv
<1>9. AttemptInv' /\ PlaceInv'
  BY <1>1, <1>3, <1>5 DEF AttemptInv, PlaceInv, IsDone, Cand, AttemptPcs
<1> QED
  BY <1>1, <1>5, <1>7, <1>8, <1>9

\* Every step keeps types, references and places.
LEMMA TypeStep ==
    ASSUME TypeInv, [Next]_vars
    PROVE  TypeInv'
<1>1. CASE UNCHANGED vars
  BY <1>1
  DEF vars, TypeInv, TypeOK, RefsInv, AttemptInv, PlaceInv, AcceptedInv, IsDone, Cand
<1>2. CASE Next
  BY <1>2, TypeEnqueue, TypeLoop, TypeConsolidate, TypeSupersede, TypeMark, TypeStoreFails,
     TypeJobEnds, TypeGiveUp, TypeJobWriteFails, TypeRestart, TypeTick DEF Next, WorkerStep
<1> QED
  BY <1>1, <1>2

\* Every variable keeps its type, for all values of the constants.
THEOREM TypeCorrect == Spec => []TypeOK
<1>1. TypeInv => TypeOK
  BY DEF TypeInv
<1> QED
  BY <1>1, TypeInit, TypeStep, PTL DEF Spec

-----------------------------------------------------------------------------
(* A candidate is stored once and queued once.                             *)

\* enqueue() of a candidate without a job appends a pending one.
LEMMA JobEnqueued ==
    ASSUME TypeInv, NEW c \in Candidates, Enqueue(c), ~HasJob(c, jobs)
    PROVE  \E i : /\ i \notin DOMAIN jobs /\ DOMAIN jobs' = DOMAIN jobs \cup {i}
                  /\ \A j \in DOMAIN jobs : jobs'[j] = jobs[j]
                  /\ jobs'[i].key = c /\ jobs'[i].status = "pending" /\ jobs'[i].attempts = 0
<1> DEFINE e == [key |-> c, status |-> "pending", attempts |-> 0, wait |-> 0]
<1>1. e \in Job /\ jobs \in Seq(Job) /\ jobs' = Append(jobs, e)
  BY DEF Job, TypeInv, TypeOK, Enqueue
<1>2. e.key = c /\ e.status = "pending" /\ e.attempts = 0
  OBVIOUS
<1> HIDE DEF e
<1>3. /\ Len(jobs) + 1 \notin DOMAIN jobs /\ DOMAIN jobs' = DOMAIN jobs \cup {Len(jobs) + 1}
      /\ \A j \in DOMAIN jobs : jobs'[j] = jobs[j]
      /\ jobs'[Len(jobs) + 1] = e
  BY <1>1, Appended
<1> QED
  BY <1>2, <1>3

\* The steps that leave the jobs file as it is.
JobsKept ==
    \/ \E c \in Candidates : EnqueueEnds(c) \/ (Enqueue(c) /\ HasJob(c, jobs))
    \/ WorkerBegins \/ Delay \/ Consolidate \/ Supersede \/ Mark \/ StoreFails \/ GiveUp
    \/ JobWriteFails \/ UNCHANGED vars

\* They do.
LEMMA JobsStay == JobsKept => jobs' = jobs
BY DEF JobsKept, EnqueueEnds, Enqueue, WorkerBegins, Delay, Consolidate, Supersede, Mark, StoreFails,
   GiveUp, JobWriteFails, vars

\* The other steps.
LEMMA JobsChange ==
    ASSUME TypeInv, [Next]_vars
    PROVE  \/ JobsKept
           \/ \E c \in Candidates : Enqueue(c) /\ ~HasJob(c, jobs)
           \/ Pick /\ Ready # {}
           \/ Pick /\ jobs' = jobs /\ worker'.pc = "delay"
           \/ Complete \/ Retry \/ DeadLetter \/ Restart \/ Tick
<1>1. CASE Pick /\ Ready = {}
  <2>1. worker' = [worker EXCEPT !.pc = "delay"] /\ jobs' = jobs
    BY <1>1 DEF Pick, Goto
  <2>2. worker'.pc = "delay"
    BY <2>1, WentTo DEF TypeInv, TypeOK, Pcs
  <2> QED
    BY <1>1, <2>1, <2>2
<1> QED
  BY <1>1 DEF Next, WorkerStep, JobsKept

\* The job that _next_ready_job returns is running afterwards.
LEMMA PickedJob ==
    ASSUME TypeInv, Pick, Ready # {}
    PROVE  \E i \in Ready : /\ i \in DOMAIN jobs /\ OnlyJob(i)
                            /\ jobs'[i].status = "running"
                            /\ jobs'[i].attempts = jobs[i].attempts + 1
                            /\ worker'.pc = "consolidate" /\ worker'.job = i
<1>1. PICK i \in Ready : /\ jobs' = [jobs EXCEPT ![i] = Started(@)]
                        /\ worker' = [worker EXCEPT !.pc = "consolidate", !.job = i]
  BY DEF Pick
<1>2. i \in DOMAIN jobs
  BY DEF Ready
<1>3. worker'.pc = "consolidate" /\ worker'.job = i
  BY <1>1 DEF TypeInv, TypeOK, Worker
<1> QED
  BY <1>1, <1>2, <1>3, JobStarted

\* The job of an attempt that ends, and its new status.
LEMMA EndedJob ==
    ASSUME TypeInv, Complete \/ Retry \/ DeadLetter
    PROVE  /\ worker.pc \in AttemptPcs /\ worker.job \in DOMAIN jobs
           /\ OnlyJob(worker.job)
           /\ jobs'[worker.job].attempts = jobs[worker.job].attempts
           /\ Complete => jobs'[worker.job].status = "completed"
           /\ DeadLetter => jobs'[worker.job].status = "dead_letter"
           /\ Retry => /\ jobs'[worker.job].status = "pending"
                       /\ jobs[worker.job].attempts < MaxAttempts
<1>1. worker.pc \in AttemptPcs
  BY DEF Complete, Retry, DeadLetter, At, AttemptPcs
<1>2. CASE Complete
  BY <1>1, <1>2, InAttempt, JobEnded DEF Complete, Retry, DeadLetter, At
<1>3. CASE Retry
  BY <1>1, <1>3, InAttempt, JobRetried DEF Complete, Retry, DeadLetter, At, MayRetry
<1>4. CASE DeadLetter
  BY <1>1, <1>4, InAttempt, JobEnded DEF Complete, Retry, DeadLetter, At
<1> QED
  BY <1>2, <1>3, <1>4

\* Time changes what jobs wait for, and nothing else.
LEMMA TickedJobs ==
    ASSUME TypeInv, Tick
    PROVE  /\ DOMAIN jobs' = DOMAIN jobs
           /\ \A j \in DOMAIN jobs :
                 /\ jobs'[j].key = jobs[j].key /\ jobs'[j].status = jobs[j].status
                 /\ jobs'[j].attempts = jobs[j].attempts /\ jobs'[j].wait = Less(jobs[j].wait)
           /\ worker'.pc = worker.pc /\ worker'.job = worker.job
BY TypeTick, Entries DEF TypeInv, Job

\* A restart makes running jobs pending.
LEMMA RestartedJobs ==
    ASSUME TypeInv, Restart
    PROVE  /\ DOMAIN jobs' = DOMAIN jobs
           /\ \A j \in DOMAIN jobs :
                 /\ jobs'[j].key = jobs[j].key /\ jobs'[j].attempts = jobs[j].attempts
                 /\ jobs'[j].status = IF jobs[j].status = "running" THEN "pending" ELSE jobs[j].status
           /\ worker'.pc = "none"
<1>1. DOMAIN jobs' = DOMAIN jobs /\ worker'.pc = "none"
  BY DEF Restart, NoWorker
<1> QED
  BY <1>1, TypeRestart, RecoveredJob, Entries DEF TypeInv

\* A memory is only added for a candidate that has none.
LEMMA MemoriesStep ==
    ASSUME TypeInv, [Next]_vars
    PROVE  \/ /\ DOMAIN mems' = DOMAIN mems
              /\ \A m \in DOMAIN mems : mems'[m].key = mems[m].key
           \/ \E i : /\ Own(Cand) = {}
                     /\ i \notin DOMAIN mems /\ DOMAIN mems' = DOMAIN mems \cup {i}
                     /\ \A m \in DOMAIN mems : mems'[m] = mems[m]
                     /\ mems'[i].key = Cand
<1>1. CASE Consolidate
  <2>1. CASE mems' = mems
    BY <2>1
  <2>2. ASSUME NEW e \in Memory, e.key = Cand, Own(Cand) = {}, mems' = Append(mems, e)
        PROVE  \E i : /\ Own(Cand) = {}
                      /\ i \notin DOMAIN mems /\ DOMAIN mems' = DOMAIN mems \cup {i}
                      /\ \A m \in DOMAIN mems : mems'[m] = mems[m]
                      /\ mems'[i].key = Cand
    <3>1. /\ Len(mems) + 1 \notin DOMAIN mems /\ DOMAIN mems' = DOMAIN mems \cup {Len(mems) + 1}
          /\ \A m \in DOMAIN mems : mems'[m] = mems[m]
          /\ mems'[Len(mems) + 1] = e
      BY <2>2, Appended DEF TypeInv, TypeOK
    <3> QED
      BY <2>2, <3>1
  <2>3. Outcome
    BY <1>1, ConsolidateOutcome
  <2> QED
    BY <2>1, <2>2, <2>3 DEF Outcome, Kept, Added
<1>2. CASE Supersede
  <2>1. worker.pc = "supersede" /\ mems' = [mems EXCEPT ![worker.old] = Superseded(@, worker.new)]
    BY <1>2 DEF Supersede, At
  <2> QED
    BY <2>1, MemorySuperseded
<1>3. CASE UNCHANGED mems
  BY <1>3
<1> QED
  BY <1>1, <1>2, <1>3
  DEF Next, WorkerStep, vars, Enqueue, EnqueueEnds, WorkerBegins, Pick, Delay, Mark, Complete, Retry,
      GiveUp, DeadLetter, StoreFails, JobWriteFails, Restart, Tick

\* Every step keeps keys unique.
LEMMA OnceStep ==
    ASSUME TypeInv, StoredOnce, [Next]_vars
    PROVE  StoredOnce'
<1>1. \A m, n \in DOMAIN mems' : mems'[m].key = mems'[n].key => m = n
  <2>1. CASE /\ DOMAIN mems' = DOMAIN mems
             /\ \A m \in DOMAIN mems : mems'[m].key = mems[m].key
    BY <2>1 DEF StoredOnce
  <2>2. ASSUME NEW i, Own(Cand) = {},
               i \notin DOMAIN mems, DOMAIN mems' = DOMAIN mems \cup {i},
               \A m \in DOMAIN mems : mems'[m] = mems[m],
               mems'[i].key = Cand
        PROVE  \A m, n \in DOMAIN mems' : mems'[m].key = mems'[n].key => m = n
    <3>1. \A m \in DOMAIN mems : mems[m].key # Cand
      BY <2>2 DEF Own
    <3> QED
      BY <2>2, <3>1 DEF StoredOnce
  <2> QED
    BY <2>1, <2>2, MemoriesStep
<1>2. \A i, j \in DOMAIN jobs' : jobs'[i].key = jobs'[j].key => i = j
  <2>1. CASE JobsKept
    BY <2>1, JobsStay DEF StoredOnce
  <2>2. CASE \E c \in Candidates : Enqueue(c) /\ ~HasJob(c, jobs)
    <3>1. PICK c \in Candidates : Enqueue(c) /\ ~HasJob(c, jobs)
      BY <2>2
    <3>2. PICK i : /\ i \notin DOMAIN jobs /\ DOMAIN jobs' = DOMAIN jobs \cup {i}
                   /\ \A j \in DOMAIN jobs : jobs'[j] = jobs[j]
                   /\ jobs'[i].key = c
      BY <3>1, JobEnqueued
    <3>3. \A j \in DOMAIN jobs : jobs[j].key # c
      BY <3>1 DEF HasJob
    <3> QED
      BY <3>2, <3>3 DEF StoredOnce
  <2>3. CASE Pick /\ Ready # {}
    BY <2>3, PickedJob DEF StoredOnce, OnlyJob
  <2>4. CASE jobs' = jobs
    BY <2>4 DEF StoredOnce
  <2>5. CASE Complete \/ Retry \/ DeadLetter
    BY <2>5, EndedJob DEF StoredOnce, OnlyJob
  <2>6. CASE Restart
    BY <2>6, RestartedJobs DEF StoredOnce
  <2>7. CASE Tick
    BY <2>7, TickedJobs DEF StoredOnce
  <2> QED
    BY <2>1, <2>2, <2>3, <2>4, <2>5, <2>6, <2>7, JobsChange
<1> QED
  BY <1>1, <1>2 DEF StoredOnce

\* There is nothing at first.
LEMMA InitialEmpty == Init => DOMAIN cands = {} /\ DOMAIN mems = {} /\ DOMAIN jobs = {}
BY TypeInit, Entries, EmptySeq DEF Init, TypeInv, TypeOK

\* However often attempts are repeated, a candidate is stored as one memory and
\* queued as one job.
THEOREM OneMemoryPerCandidate == Spec => []StoredOnce
<1>1. Init => StoredOnce
  BY InitialEmpty DEF StoredOnce
<1> QED
  BY <1>1, TypeInit, TypeStep, OnceStep, PTL DEF Spec

-----------------------------------------------------------------------------
(* The number of attempts.                                                 *)

\* Every step keeps the account of attempts.
LEMMA CountStep ==
    ASSUME TypeInv, CountInv, [Next]_vars
    PROVE  CountInv'
<1> USE SizesAssumption
<1>1. /\ crashes \in Nat /\ crashes' \in {crashes, crashes + 1}
      /\ Restart => crashes' = crashes + 1
  <2>1. crashes \in Nat
    BY DEF TypeInv, TypeOK
  <2>2. CASE Restart
    BY <2>1, <2>2 DEF Restart
  <2>3. CASE ~Restart
    BY <2>1, <2>3
    DEF Next, WorkerStep, vars, Enqueue, EnqueueEnds, WorkerBegins, Pick, Delay, Consolidate,
        Supersede, Mark, Complete, Retry, GiveUp, DeadLetter, StoreFails, JobWriteFails, Tick
  <2> QED
    BY <2>1, <2>2, <2>3
<1>2. \A j \in DOMAIN jobs : jobs[j].attempts \in Nat
  BY Entries DEF TypeInv, Job
<1>3. CASE jobs' = jobs
  BY <1>1, <1>2, <1>3 DEF CountInv
<1>4. CASE \E c \in Candidates : Enqueue(c) /\ ~HasJob(c, jobs)
  <2>1. PICK i : /\ i \notin DOMAIN jobs /\ DOMAIN jobs' = DOMAIN jobs \cup {i}
                 /\ \A j \in DOMAIN jobs : jobs'[j] = jobs[j]
                 /\ jobs'[i].attempts = 0
    BY <1>4, JobEnqueued
  <2> QED
    BY <1>1, <1>2, <2>1 DEF CountInv
<1>5. CASE Pick /\ Ready # {}
  BY <1>1, <1>2, <1>5, PickedJob DEF CountInv, OnlyJob, Ready
<1>6. CASE Complete \/ Retry \/ DeadLetter
  BY <1>1, <1>2, <1>6, EndedJob DEF CountInv, OnlyJob
<1>7. CASE Restart
  BY <1>1, <1>2, <1>7, RestartedJobs DEF CountInv
<1>8. CASE Tick
  BY <1>1, <1>2, <1>8, TickedJobs DEF CountInv
<1> QED
  BY <1>3, <1>4, <1>5, <1>6, <1>7, <1>8, JobsChange, JobsStay

\* A job is tried at most max_attempts times, and once more for every process
\* that was lost during an attempt.
THEOREM AttemptLimit == Spec => []AttemptsBounded
<1>1. Init => CountInv
  BY InitialEmpty DEF CountInv
<1>2. CountInv => AttemptsBounded
  BY DEF CountInv, AttemptsBounded
<1> QED
  BY <1>1, <1>2, TypeInit, TypeStep, CountStep, PTL DEF Spec

-----------------------------------------------------------------------------
(* What is completed is stored.                                            *)

\* A candidate is changed when it is accepted or given up.
LEMMA CandidatesStep ==
    ASSUME TypeInv, [Next]_vars, NEW c \in DOMAIN cands
    PROVE  \/ cands'[c] = cands[c]
           \/ cands'[c].status = "accepted" /\ cands'[c].memory \in DOMAIN mems
           \/ GiveUp /\ c = Cand
<1>1. CASE \E d \in Candidates : Enqueue(d) \/ EnqueueEnds(d)
  BY <1>1, SavedCandidate DEF Enqueue, EnqueueEnds
<1>2. CASE Mark
  <2>1. worker.pc = "mark" /\ worker.pc \in AttemptPcs
    BY <1>2 DEF Mark, At, AttemptPcs
  <2>2. worker.new \in DOMAIN mems /\ Cand \in DOMAIN cands /\ cands[Cand] \in Candidate
    BY <2>1, InAttempt DEF TypeInv, PlaceInv
  <2>3. cands' = [cands EXCEPT ![Cand].status = "accepted", ![Cand].memory = worker.new]
    BY <1>2 DEF Mark
  <2>4. CASE c = Cand
    BY <2>2, <2>3, <2>4 DEF Candidate
  <2>5. CASE c # Cand
    BY <2>3, <2>5
  <2> QED
    BY <2>4, <2>5
<1>3. CASE GiveUp
  BY <1>3 DEF GiveUp
<1>4. CASE UNCHANGED cands
  BY <1>4
<1> QED
  BY <1>1, <1>2, <1>3, <1>4
  DEF Next, WorkerStep, vars, WorkerBegins, Pick, Delay, Consolidate, Supersede, Complete, Retry,
      DeadLetter, StoreFails, JobWriteFails, Restart, Tick

\* A job is completed by Complete only, and stays completed.
LEMMA CompletedJobs ==
    ASSUME TypeInv, [Next]_vars, NEW j \in DOMAIN jobs', jobs'[j].status = "completed"
    PROVE  /\ j \in DOMAIN jobs /\ jobs'[j].key = jobs[j].key
           /\ jobs[j].status = "completed" \/ (Complete /\ j = worker.job)
<1>1. CASE jobs' = jobs
  BY <1>1
<1>2. CASE \E c \in Candidates : Enqueue(c) /\ ~HasJob(c, jobs)
  <2>1. PICK i : /\ DOMAIN jobs' = DOMAIN jobs \cup {i}
                 /\ \A k \in DOMAIN jobs : jobs'[k] = jobs[k]
                 /\ jobs'[i].status = "pending"
    BY <1>2, JobEnqueued
  <2> QED
    BY <2>1
<1>3. CASE Pick /\ Ready # {}
  BY <1>3, PickedJob DEF OnlyJob
<1>4. CASE Complete \/ Retry \/ DeadLetter
  BY <1>4, EndedJob DEF OnlyJob
<1>5. CASE Restart
  BY <1>5, RestartedJobs
<1>6. CASE Tick
  BY <1>6, TickedJobs
<1> QED
  BY <1>1, <1>2, <1>3, <1>4, <1>5, <1>6, JobsChange, JobsStay

\* Every step keeps completed jobs stored: a candidate that is given up has its
\* only job running.
LEMMA CompletedStep ==
    ASSUME TypeInv, StoredOnce, CompletedIsStored, [Next]_vars
    PROVE  CompletedIsStored'
<1> SUFFICES ASSUME NEW j \in DOMAIN jobs', jobs'[j].status = "completed"
             PROVE  /\ cands'[jobs'[j].key].status = "accepted"
                    /\ cands'[jobs'[j].key].memory \in DOMAIN mems'
  BY DEF CompletedIsStored
<1> DEFINE c == jobs[j].key
<1>1. j \in DOMAIN jobs /\ jobs'[j].key = c
  BY CompletedJobs
<1>2. c \in DOMAIN cands
  BY <1>1 DEF TypeInv, RefsInv
<1>3. DOMAIN mems \subseteq DOMAIN mems'
  BY MemoriesStep
<1>4. CASE Complete /\ j = worker.job
  <2>1. IsDone(Cand) /\ Cand = c /\ cands' = cands
    BY <1>4 DEF Complete, At, TypeInv, PlaceInv, Cand
  <2> QED
    BY <1>1, <1>2, <1>3, <2>1 DEF IsDone, TypeInv, AcceptedInv
<1>5. CASE jobs[j].status = "completed"
  <2>1. cands[c].status = "accepted" /\ cands[c].memory \in DOMAIN mems
    BY <1>1, <1>5 DEF CompletedIsStored
  <2>2. ~(GiveUp /\ c = Cand)
    <3>1. SUFFICES ASSUME GiveUp, c = Cand PROVE FALSE
      OBVIOUS
    <3>2. worker.pc \in AttemptPcs
      BY <3>1 DEF GiveUp, At, AttemptPcs
    <3>3. worker.job \in DOMAIN jobs /\ jobs[worker.job].key = c /\ jobs[worker.job].status = "running"
      BY <3>1, <3>2, InAttempt
    <3> QED
      BY <1>1, <1>5, <3>3 DEF StoredOnce
  <2> HIDE DEF c
  <2> QED
    BY <1>1, <1>2, <1>3, <2>1, <2>2, CandidatesStep
<1> QED
  BY <1>4, <1>5, CompletedJobs

\* A completed job has an accepted candidate with a stored memory.
THEOREM CompletedMeansStored == Spec => []CompletedIsStored
<1>1. Init => StoredOnce /\ CompletedIsStored
  BY InitialEmpty DEF StoredOnce, CompletedIsStored
<1> QED
  BY <1>1, TypeInit, TypeStep, OnceStep, CompletedStep, PTL DEF Spec

-----------------------------------------------------------------------------
(* Nobody is forgotten silently.                                           *)

\* One entry of WatchInv.
Watched(j) ==
    /\ jobs[j].status # "failed"
    /\ jobs[j].status = "running" =>
          jobs[j].key \in forgotten \/ (worker.pc \in AttemptPcs /\ worker.job = j)
    /\ jobs[j].status = "pending" =>
          \/ jobs[j].key \in forgotten
          \/ worker.pc # "none" /\ (worker.pc = "delay" => jobs[j].wait > 0)

\* What enqueue() takes off the forgotten has a pending job and a worker.
LEMMA WatchEnqueue ==
    ASSUME TypeInv, StoredOnce, WatchInv, NEW c \in Candidates, Enqueue(c)
    PROVE  WatchInv'
<1>1. /\ worker.pc \in YieldPcs
      /\ worker'.pc = IF worker.pc = "none" THEN "scheduled" ELSE worker.pc
      /\ forgotten' = {d \in forgotten : ~Waiting(d, jobs')}
      /\ DOMAIN cands' = DOMAIN cands \cup {c}
  BY SavedCandidate DEF Enqueue, Scheduled, TypeInv, TypeOK, Worker
<1>2. \E i \in DOMAIN jobs' :
          /\ DOMAIN jobs' = DOMAIN jobs \cup {i}
          /\ \A j \in DOMAIN jobs : jobs'[j] = jobs[j]
          /\ jobs'[i].key = c
          /\ i \notin DOMAIN jobs => jobs'[i].status = "pending"
  <2>1. CASE HasJob(c, jobs)
    BY <2>1 DEF Enqueue, HasJob
  <2>2. CASE ~HasJob(c, jobs)
    BY <2>2, JobEnqueued
  <2> QED
    BY <2>1, <2>2
<1>3. PICK i \in DOMAIN jobs' :
          /\ DOMAIN jobs' = DOMAIN jobs \cup {i}
          /\ \A j \in DOMAIN jobs : jobs'[j] = jobs[j]
          /\ jobs'[i].key = c
          /\ i \notin DOMAIN jobs => jobs'[i].status = "pending"
  BY <1>2
<1>4. worker'.pc \in YieldPcs \ {"none"}
  BY <1>1 DEF YieldPcs
<1>5. \A d \in DOMAIN cands' : HasJob(d, jobs') \/ d \in forgotten'
  <2> SUFFICES ASSUME NEW d \in DOMAIN cands', ~HasJob(d, jobs') PROVE d \in forgotten'
    OBVIOUS
  <2>1. d # c /\ ~HasJob(d, jobs) /\ ~Waiting(d, jobs')
    BY <1>3 DEF HasJob, Waiting
  <2> QED
    BY <1>1, <2>1 DEF WatchInv
<1>6. \A j \in DOMAIN jobs' : jobs'[j].status = "running" => jobs'[j].key \in forgotten'
  <2> SUFFICES ASSUME NEW j \in DOMAIN jobs', jobs'[j].status = "running"
               PROVE  jobs'[j].key \in forgotten'
    OBVIOUS
  <2>1. j \in DOMAIN jobs /\ jobs'[j] = jobs[j]
    BY <1>3
  <2>2. worker.pc \notin AttemptPcs
    BY <1>1 DEF YieldPcs, AttemptPcs
  <2>3. jobs[j].key \in forgotten
    BY <2>1, <2>2 DEF WatchInv
  <2>4. ~Waiting(jobs[j].key, jobs')
    <3>1. StoredOnce'
      BY OnceStep DEF Next
    <3> QED
      BY <2>1, <3>1 DEF Waiting, StoredOnce
  <2> QED
    BY <1>1, <2>1, <2>3, <2>4
<1>7. \A j \in DOMAIN jobs' : jobs'[j].status # "failed"
  BY <1>3 DEF WatchInv
<1> QED
  BY <1>4, <1>5, <1>6, <1>7 DEF WatchInv, YieldPcs

\* A candidate that is saved without a job is forgotten.
LEMMA WatchEnqueueEnds ==
    ASSUME TypeInv, WatchInv, NEW c \in Candidates, EnqueueEnds(c)
    PROVE  WatchInv'
<1>1. /\ DOMAIN cands' = DOMAIN cands \cup {c} /\ forgotten' = forgotten \cup {c}
      /\ jobs' = jobs /\ worker' = worker
  BY SavedCandidate DEF EnqueueEnds
<1> QED
  BY <1>1 DEF WatchInv, HasJob

\* An exception or a lost process: what is unfinished is forgotten.
LEMMA WatchWorkerEnds ==
    ASSUME TypeInv, WatchInv, WorkerEnds,
           cands' = cands, DOMAIN jobs' = DOMAIN jobs,
           \A j \in DOMAIN jobs : jobs'[j].key = jobs[j].key /\ jobs'[j].status # "failed"
    PROVE  WatchInv'
<1>1. forgotten' = forgotten \cup {c \in DOMAIN cands : Unfinished(c, jobs')}
  BY DEF WorkerEnds
<1>2. \A c \in DOMAIN cands' : HasJob(c, jobs') \/ c \in forgotten'
  BY <1>1 DEF WatchInv, HasJob
<1>3. ASSUME NEW j \in DOMAIN jobs', jobs'[j].status \in {"running", "pending"}
      PROVE  jobs'[j].key \in forgotten'
  <2>1. jobs'[j].key \in DOMAIN cands /\ Unfinished(jobs'[j].key, jobs')
    BY <1>3 DEF TypeInv, RefsInv, Unfinished
  <2> QED
    BY <1>1, <2>1
<1> QED
  BY <1>2, <1>3 DEF WatchInv

\* A worker that goes to sleep has looked at every pending job.
LEMMA WatchLoop ==
    ASSUME TypeInv, StoredOnce, WatchInv, WorkerBegins \/ Pick \/ Delay
    PROVE  WatchInv'
<1>1. /\ cands' = cands /\ worker.pc \notin AttemptPcs
  BY DEF WorkerBegins, Pick, Delay, At, AttemptPcs
<1>2. CASE WorkerBegins
  <2>1. jobs' = jobs /\ forgotten' = forgotten /\ worker'.pc = "pick"
    BY <1>2, WentTo DEF WorkerBegins, Goto, TypeInv, TypeOK, Pcs
  <2> QED
    BY <1>1, <2>1 DEF WatchInv
<1>3. CASE Pick /\ Ready # {}
  <2>1. PICK i \in DOMAIN jobs : /\ OnlyJob(i) /\ jobs'[i].status = "running"
                                /\ worker'.pc = "consolidate" /\ worker'.job = i
    BY <1>3, PickedJob
  <2>2. forgotten' = forgotten
    BY <1>3 DEF Pick
  <2>3. \A c \in DOMAIN cands' : HasJob(c, jobs') \/ c \in forgotten'
    BY <1>1, <2>1, <2>2 DEF WatchInv, HasJob, OnlyJob
  <2>4. \A j \in DOMAIN jobs' : Watched(j)'
    BY <1>1, <2>1, <2>2 DEF WatchInv, OnlyJob, Watched, AttemptPcs
  <2> QED
    BY <2>3, <2>4 DEF WatchInv, Watched
<1>4. CASE Pick /\ Ready = {}
  <2>1. jobs' = jobs /\ forgotten' = forgotten /\ worker'.pc = "delay"
    <3>1. jobs' = jobs /\ forgotten' = forgotten /\ worker' = [worker EXCEPT !.pc = "delay"]
      BY <1>4 DEF Pick, Goto
    <3> QED
      BY <3>1 DEF TypeInv, TypeOK, Worker
  <2>2. \A j \in DOMAIN jobs : jobs[j].status = "pending" => jobs[j].wait > 0
    BY <1>4, Entries DEF Ready, Job, TypeInv
  <2> QED
    BY <1>1, <2>1, <2>2 DEF WatchInv
<1>5. CASE Delay
  <2>0. worker.pc = "delay" /\ jobs' = jobs
    BY <1>5 DEF Delay, At
  <2>1. CASE Later = {}
    <3>1. forgotten' = forgotten
      BY <1>5, <2>1 DEF Delay
    <3>2. \A j \in DOMAIN jobs : jobs[j].status = "pending" => ~(jobs[j].wait > 0)
      BY <2>1 DEF Later
    <3> QED
      BY <1>1, <2>0, <3>1, <3>2 DEF WatchInv
  <2>2. CASE Later # {}
    <3>1. worker'.pc = "asleep" /\ forgotten' = {c \in forgotten : ~Waiting(c, jobs)}
      BY <1>5, <2>2 DEF Delay, TypeInv, TypeOK, Worker
    <3>2. \A c \in DOMAIN cands' : HasJob(c, jobs') \/ c \in forgotten'
      BY <1>1, <2>0, <3>1 DEF WatchInv, Waiting, HasJob
    <3>3. \A j \in DOMAIN jobs :
              jobs[j].status = "running" => jobs[j].key \in forgotten /\ ~Waiting(jobs[j].key, jobs)
      BY <1>1 DEF WatchInv, Waiting, StoredOnce
    <3> QED
      BY <1>1, <2>0, <3>1, <3>2, <3>3 DEF WatchInv
  <2> QED
    BY <2>1, <2>2
<1> QED
  BY <1>2, <1>3, <1>4, <1>5

\* The attempt goes on: the job and its candidate are as they were.
LEMMA WatchAttempt ==
    ASSUME TypeInv, WatchInv, Consolidate \/ Supersede \/ Mark \/ StoreFails \/ GiveUp
    PROVE  WatchInv'
<1>1. /\ jobs' = jobs /\ forgotten' = forgotten
      /\ worker.pc \in AttemptPcs
  BY DEF Consolidate, Supersede, Mark, StoreFails, GiveUp, At, AttemptPcs
<1>2. DOMAIN cands' = DOMAIN cands
  BY DEF Consolidate, Supersede, Mark, StoreFails, GiveUp
<1>3. worker'.pc \in AttemptPcs /\ worker'.job = worker.job
  <2>1. CASE Consolidate
    BY <2>1, ConsolidateOutcome DEF Outcome, AttemptPcs
  <2>2. CASE Supersede
    BY <2>2, StoreWritten DEF Supersede, AttemptPcs
  <2>3. CASE Mark
    BY <2>3, StoreWritten DEF Mark, AttemptPcs
  <2>4. CASE StoreFails \/ GiveUp
    BY <2>4 DEF StoreFails, GiveUp, Goto, AttemptPcs, TypeInv, TypeOK, Worker
  <2> QED
    BY <2>1, <2>2, <2>3, <2>4
<1>4. worker'.pc # "none" /\ worker'.pc # "delay" /\ worker.pc # "none"
  BY <1>1, <1>3 DEF AttemptPcs
<1> QED
  BY <1>1, <1>2, <1>3, <1>4 DEF WatchInv

\* A job that ends needs no worker, and one that is retried has it.
LEMMA WatchJobEnds ==
    ASSUME TypeInv, WatchInv, Complete \/ Retry \/ DeadLetter
    PROVE  WatchInv'
<1>1. cands' = cands /\ JobWrote
  BY DEF Complete, Retry, DeadLetter
<1>2. /\ worker.pc \in AttemptPcs /\ worker.job \in DOMAIN jobs
      /\ OnlyJob(worker.job)
      /\ jobs'[worker.job].status \in {"completed", "dead_letter", "pending"}
  BY EndedJob
<1>3. /\ DOMAIN jobs' = DOMAIN jobs
      /\ \A j \in DOMAIN jobs : jobs'[j].key = jobs[j].key /\ jobs'[j].status # "failed"
  BY <1>2 DEF OnlyJob, WatchInv
<1>4. CASE WorkerEnds
  BY <1>1, <1>3, <1>4, WatchWorkerEnds
<1>5. CASE Goto("pick") /\ forgotten' = forgotten
  <2>1. worker'.pc = "pick"
    BY <1>5 DEF Goto, TypeInv, TypeOK, Worker
  <2>2. \A c \in DOMAIN cands' : HasJob(c, jobs') \/ c \in forgotten'
    BY <1>1, <1>3, <1>5 DEF WatchInv, HasJob
  <2>3. \A j \in DOMAIN jobs' : jobs'[j].status = "running" => jobs'[j].key \in forgotten'
    BY <1>2, <1>3, <1>5 DEF WatchInv, OnlyJob
  <2> QED
    BY <1>3, <2>1, <2>2, <2>3 DEF WatchInv
<1> QED
  BY <1>1, <1>4, <1>5 DEF JobWrote

\* The worker ends on the exception.
LEMMA WatchJobWriteFails ==
    ASSUME TypeInv, WatchInv, JobWriteFails
    PROVE  WatchInv'
<1>1. cands' = cands /\ jobs' = jobs /\ WorkerEnds
  BY DEF JobWriteFails
<1> QED
  BY <1>1, WatchWorkerEnds DEF WatchInv

\* The next process has no worker yet.
LEMMA WatchRestart ==
    ASSUME TypeInv, WatchInv, Restart
    PROVE  WatchInv'
<1>1. /\ cands' = cands
      /\ forgotten' = {c \in DOMAIN cands : HasJob(c, jobs) => Unfinished(c, jobs)}
  BY DEF Restart
<1>2. /\ DOMAIN jobs' = DOMAIN jobs
      /\ \A j \in DOMAIN jobs :
            /\ jobs'[j].key = jobs[j].key
            /\ jobs'[j].status = IF jobs[j].status = "running" THEN "pending" ELSE jobs[j].status
  BY RestartedJobs
<1>3. \A c \in DOMAIN cands' : HasJob(c, jobs') \/ c \in forgotten'
  BY <1>1, <1>2 DEF HasJob
<1>4. ASSUME NEW j \in DOMAIN jobs', jobs'[j].status \in {"running", "pending"}
      PROVE  jobs'[j].key \in forgotten'
  <2>1. Unfinished(jobs[j].key, jobs) /\ jobs[j].key \in DOMAIN cands
    BY <1>2, <1>4 DEF Unfinished, TypeInv, RefsInv
  <2> QED
    BY <1>1, <1>2, <2>1
<1>5. \A j \in DOMAIN jobs' : jobs'[j].status # "failed"
  BY <1>2 DEF WatchInv
<1> QED
  BY <1>3, <1>4, <1>5 DEF WatchInv

\* A job that becomes due between the two looks of the worker is forgotten.
LEMMA WatchTick ==
    ASSUME TypeInv, WatchInv, Tick
    PROVE  WatchInv'
<1>1. /\ cands' = cands /\ forgotten \subseteq forgotten'
      /\ worker.pc = "delay" => \A j \in Later : jobs[j].key \in forgotten'
  BY DEF Tick
<1>2. /\ DOMAIN jobs' = DOMAIN jobs
      /\ \A j \in DOMAIN jobs :
            jobs'[j].key = jobs[j].key /\ jobs'[j].status = jobs[j].status
      /\ worker'.pc = worker.pc /\ worker'.job = worker.job
  BY TickedJobs
<1>3. \A c \in DOMAIN cands' : HasJob(c, jobs') \/ c \in forgotten'
  BY <1>1, <1>2 DEF WatchInv, HasJob
<1>4. ASSUME NEW j \in DOMAIN jobs', jobs'[j].status = "pending"
      PROVE  jobs'[j].key \in forgotten' \/ (worker'.pc # "none" /\ worker'.pc # "delay")
  BY <1>1, <1>2, <1>4 DEF WatchInv, Later
<1> QED
  BY <1>1, <1>2, <1>3, <1>4 DEF WatchInv

\* Every step keeps the account of who is watched.
LEMMA WatchStep ==
    ASSUME TypeInv, StoredOnce, WatchInv, [Next]_vars
    PROVE  WatchInv'
<1>1. CASE UNCHANGED vars
  BY <1>1 DEF vars, WatchInv, HasJob
<1>2. CASE Next
  BY <1>2, WatchEnqueue, WatchEnqueueEnds, WatchLoop, WatchAttempt, WatchJobEnds,
     WatchJobWriteFails, WatchRestart, WatchTick DEF Next, WorkerStep
<1> QED
  BY <1>1, <1>2

\* Every saved candidate has a finished job, a worker that will come to it, or
\* is one of those the code is known to forget.
THEOREM NobodyForgotten == Spec => []NothingForgotten
<1>1. Init => StoredOnce /\ WatchInv
  BY InitialEmpty DEF StoredOnce, WatchInv
<1>2. TypeInv /\ WatchInv => NothingForgotten
  <2> SUFFICES ASSUME TypeInv, WatchInv, NEW c \in DOMAIN cands, c \notin forgotten,
                      ~(HasJob(c, jobs) /\ ~Unfinished(c, jobs))
               PROVE  \/ Waiting(c, jobs) /\ worker.pc # "none"
                      \/ worker.pc \in AttemptPcs /\ Cand = c
    BY DEF NothingForgotten
  <2>1. Unfinished(c, jobs)
    BY DEF WatchInv
  <2>2. PICK j \in DOMAIN jobs :
             jobs[j].key = c /\ jobs[j].status \notin {"completed", "dead_letter"}
    BY <2>1 DEF Unfinished
  <2>3. jobs[j].status \in {"pending", "running"}
    BY <2>2, Entries DEF TypeInv, Job, WatchInv
  <2> QED
    BY <2>2, <2>3 DEF WatchInv, Waiting, Cand
<1> QED
  BY <1>1, <1>2, TypeInit, TypeStep, OnceStep, WatchStep, PTL DEF Spec

-----------------------------------------------------------------------------
(* The version chain.                                                      *)

\* An attempt that has stored a memory is about to mark a pending candidate, and
\* a version was stored after the one it replaces, or in an earlier attempt.
StoredInv ==
    /\ worker.pc \in {"supersede", "mark"} => cands[Cand].status = "pending"
    /\ worker.pc = "supersede" =>
          /\ mems[worker.new].key = Cand
          /\ worker.new > worker.old \/ Cand \in torn

\* A candidate that is still pending after its memory was stored is torn, or
\* in the middle of the attempt.
PendingInv ==
    \A m \in DOMAIN mems : cands[mems[m].key].status = "pending" =>
        \/ mems[m].key \in torn
        \/ worker.pc \in {"supersede", "mark"} /\ mems[m].key = Cand

\* What an active version was made from is superseded, or next to be.
ReplacedInv ==
    \A n \in DOMAIN mems : mems[n].status = "active" => \A m \in mems[n].links :
        /\ m \in DOMAIN mems
        /\ \/ mems[m].status = "superseded"
           \/ mems[n].key \in torn
           \/ worker.pc = "supersede" /\ worker.old = m /\ worker.new = n

ChainInv == ChainGoesForward /\ StoredInv /\ PendingInv /\ ReplacedInv

\* The step is not part of an attempt that has stored a memory: the attempt
\* waits, or there is none before and after.
Apart ==
    \/ worker.pc \notin {"supersede", "mark"} /\ worker'.pc \notin {"supersede", "mark"}
    \/ /\ worker'.pc = worker.pc /\ worker'.old = worker.old /\ worker'.new = worker.new
       /\ Cand' = Cand /\ Cand \in DOMAIN cands

\* A step that leaves the memories alone and makes no candidate pending that
\* has one keeps the chain.
LEMMA ChainApart ==
    ASSUME TypeInv, ChainInv, mems' = mems, torn \subseteq torn', Apart,
           \A c \in DOMAIN cands : cands'[c] = cands[c]
    PROVE  ChainInv'
<1>1. \A m \in DOMAIN mems : mems[m].key \in DOMAIN cands
  BY DEF TypeInv, RefsInv
<1>2. StoredInv'
  BY DEF Apart, ChainInv, StoredInv
<1>3. PendingInv'
  BY <1>1 DEF Apart, ChainInv, PendingInv
<1>4. ReplacedInv'
  BY DEF Apart, ChainInv, ReplacedInv
<1>5. ChainGoesForward'
  BY DEF ChainInv, ChainGoesForward
<1> QED
  BY <1>2, <1>3, <1>4, <1>5 DEF ChainInv

\* An attempt that ends early leaves its candidate torn.
LEMMA ChainTorn ==
    ASSUME TypeInv, ChainInv, mems' = mems, cands' = cands, torn' = torn \cup Unmarked,
           worker'.pc \notin {"supersede", "mark"}
    PROVE  ChainInv'
<1>1. \A m \in DOMAIN mems : cands[mems[m].key].status = "pending" => mems[m].key \in torn'
  BY DEF Unmarked, TypeInv, RefsInv
<1>2. StoredInv' /\ PendingInv'
  BY <1>1 DEF StoredInv, PendingInv
<1>3. ReplacedInv'
  <2>1. worker.pc = "supersede" =>
            /\ worker.new \in DOMAIN mems
            /\ cands[mems[worker.new].key].status = "pending"
    BY DEF ChainInv, StoredInv, TypeInv, PlaceInv
  <2> QED
    BY <1>1, <2>1 DEF ChainInv, ReplacedInv
<1>4. ChainGoesForward'
  BY DEF ChainInv, ChainGoesForward
<1> QED
  BY <1>2, <1>3, <1>4 DEF ChainInv

\* Saving a candidate or its job touches no attempt.
LEMMA ChainEnqueue ==
    ASSUME TypeInv, ChainInv, NEW c \in Candidates, Enqueue(c) \/ EnqueueEnds(c)
    PROVE  ChainInv'
<1>1. mems' = mems /\ torn' = torn /\ \A d \in DOMAIN cands : cands'[d] = cands[d]
  BY SavedCandidate DEF Enqueue, EnqueueEnds
<1>2. worker.pc \in YieldPcs /\ worker'.pc \in YieldPcs
  BY DEF Enqueue, EnqueueEnds, Scheduled, TypeInv, TypeOK, Worker, YieldPcs
<1>3. Apart
  BY <1>2 DEF Apart, YieldPcs
<1> QED
  BY <1>1, <1>3, ChainApart

\* Nor does the worker between two attempts.
LEMMA ChainLoop ==
    ASSUME TypeInv, ChainInv,
           \/ WorkerBegins \/ Pick \/ Delay \/ Complete \/ Retry \/ DeadLetter \/ JobWriteFails
    PROVE  ChainInv'
<1>1. mems' = mems /\ torn' = torn /\ cands' = cands
  BY DEF WorkerBegins, Pick, Delay, Complete, Retry, DeadLetter, JobWriteFails
<1>2. worker.pc \notin {"supersede", "mark"}
  BY DEF WorkerBegins, Pick, Delay, Complete, Retry, DeadLetter, JobWriteFails, At
<1>3. worker'.pc \notin {"supersede", "mark"}
  <2>1. CASE WorkerBegins \/ Pick \/ Delay
    <3>1. worker \in Worker
      BY DEF TypeInv, TypeOK
    <3>2. CASE WorkerBegins
      BY <3>1, <3>2 DEF WorkerBegins, Goto, Worker
    <3>3. CASE Pick
      BY <3>1, <3>3 DEF Pick, Goto, Worker
    <3>4. CASE Delay
      <4>1. worker'.pc = "asleep" \/ worker' = NoWorker
        BY <3>1, <3>4 DEF Delay, Worker
      <4> QED
        BY <4>1 DEF NoWorker
    <3> QED
      BY <2>1, <3>2, <3>3, <3>4
  <2>2. CASE Complete \/ Retry \/ DeadLetter
    BY <2>2, JobWritten DEF Complete, Retry, DeadLetter
  <2>3. CASE JobWriteFails
    BY <2>3, WorkerEnded DEF JobWriteFails
  <2> QED
    BY <2>1, <2>2, <2>3
<1>4. Apart
  BY <1>2, <1>3 DEF Apart
<1> QED
  BY <1>1, <1>4, ChainApart

\* Nor does the time that passes.
LEMMA ChainTick ==
    ASSUME TypeInv, ChainInv, Tick
    PROVE  ChainInv'
<1>1. mems' = mems /\ torn' = torn /\ cands' = cands
  BY DEF Tick
<1>2. /\ worker'.pc = worker.pc /\ worker'.old = worker.old /\ worker'.new = worker.new
      /\ worker'.job = worker.job
  BY DEF Tick, TypeInv, TypeOK, Worker
<1>3. Apart
  <2>1. CASE worker.pc \in AttemptPcs
    <3>1. Cand' = Cand /\ Cand \in DOMAIN cands
      BY <1>2, <2>1, InAttempt, TickedJobs DEF Cand
    <3> QED
      BY <1>2, <3>1 DEF Apart
  <2>2. CASE worker.pc \notin AttemptPcs
    BY <1>2, <2>2 DEF Apart, AttemptPcs
  <2> QED
    BY <2>1, <2>2
<1> QED
  BY <1>1, <1>3, ChainApart

\* A memory that is stored supersedes nothing yet.
LEMMA ChainAdded ==
    ASSUME TypeInv, ChainInv, worker.pc = "consolidate", cands' = cands, Cand' = Cand,
           Cand \in DOMAIN cands, torn \subseteq torn', Outcome, Added
    PROVE  ChainInv'
<1>1. PICK e \in Memory :
          /\ e.key = Cand /\ e.status = "active" /\ mems' = Append(mems, e)
          /\ \/ worker'.pc = "mark" /\ e.links = {}
             \/ /\ worker'.pc = "supersede" /\ e.links = {worker'.old}
                /\ worker'.old \in DOMAIN mems /\ worker'.new = Len(mems) + 1
             \/ worker'.pc = "failure" /\ torn' = torn \cup Unmarked /\ e.links \subseteq DOMAIN mems
  BY DEF Added
<1> DEFINE i == Len(mems) + 1
<1>2. /\ DOMAIN mems' = DOMAIN mems \cup {i} /\ i \notin DOMAIN mems
      /\ \A m \in DOMAIN mems : mems'[m] = mems[m]
      /\ mems'[i] = e
  BY <1>1, Appended DEF TypeInv, TypeOK
<1>3. \A m \in DOMAIN mems : m \in Nat /\ m < i
  BY Entries DEF TypeInv
<1>4. cands[Cand].status = "pending"
  BY DEF Added
<1> HIDE DEF i
<1>5. worker'.pc = "failure" => Cand \in torn'
  BY <1>1, <1>2, <1>4 DEF Unmarked
<1>6. ChainGoesForward'
  BY <1>1, <1>2 DEF ChainInv, ChainGoesForward
<1>7. StoredInv'
  BY <1>1, <1>2, <1>3, <1>4 DEF StoredInv, i
<1>8. PendingInv'
  BY <1>1, <1>2, <1>5 DEF ChainInv, PendingInv
<1>9. ReplacedInv'
  BY <1>1, <1>2, <1>5 DEF ChainInv, ReplacedInv, i
<1> QED
  BY <1>6, <1>7, <1>8, <1>9 DEF ChainInv

\* Nor does one that is found again, whose candidate is torn.
LEMMA ChainConsolidate ==
    ASSUME TypeInv, ChainInv, Consolidate
    PROVE  ChainInv'
<1>1. /\ worker.pc = "consolidate" /\ worker.pc \in AttemptPcs
      /\ cands' = cands /\ jobs' = jobs /\ Outcome
  BY ConsolidateOutcome DEF Consolidate, At, AttemptPcs
<1>2. Cand' = Cand /\ Cand \in DOMAIN cands /\ torn \subseteq torn'
  BY <1>1, InAttempt DEF Outcome, Cand
<1>3. CASE Kept
  <2>1. mems' = mems
    BY <1>3 DEF Kept
  <2>2. ChainGoesForward' /\ PendingInv' /\ ReplacedInv'
    BY <1>1, <1>2, <2>1 DEF ChainInv, ChainGoesForward, PendingInv, ReplacedInv
  <2>3. StoredInv'
    <3>1. worker'.pc \in {"supersede", "mark"} => cands[Cand].status = "pending"
      BY <1>1 DEF Outcome
    <3>2. worker'.pc = "supersede" => /\ worker'.new \in DOMAIN mems
                                      /\ mems[worker'.new].key = Cand
      BY <1>3 DEF Kept, Own
    <3>3. worker'.pc = "supersede" => Cand \in torn
      BY <1>1, <3>1, <3>2 DEF ChainInv, PendingInv
    <3> QED
      BY <1>1, <1>2, <2>1, <3>1, <3>2, <3>3 DEF StoredInv
  <2> QED
    BY <2>2, <2>3 DEF ChainInv
<1>4. CASE Added
  BY <1>1, <1>2, <1>4, ChainAdded
<1> QED
  BY <1>1, <1>3, <1>4 DEF Outcome

\* The old version points to the new one, which is later or torn.
LEMMA ChainSupersede ==
    ASSUME TypeInv, ChainInv, Supersede
    PROVE  ChainInv'
<1>1. /\ worker.pc = "supersede" /\ worker.pc \in AttemptPcs
      /\ cands' = cands /\ jobs' = jobs
  BY DEF Supersede, At, AttemptPcs
<1>2. /\ DOMAIN mems' = DOMAIN mems
      /\ \A m \in DOMAIN mems : mems'[m].key = mems[m].key
      /\ \A m \in DOMAIN mems : m # worker.old => mems'[m] = mems[m]
      /\ mems'[worker.old].status = "superseded" /\ mems'[worker.old].links = {worker.new}
  BY <1>1, MemorySuperseded DEF Supersede
<1>3. /\ worker'.pc \in {"mark", "failure"} /\ worker'.job = worker.job
      /\ torn \subseteq torn'
      /\ worker'.pc = "failure" => torn' = torn \cup Unmarked
  BY StoreWritten DEF Supersede
<1>4. /\ Cand' = Cand /\ Cand \in DOMAIN cands /\ cands[Cand].status = "pending"
      /\ worker.old \in DOMAIN mems /\ worker.new \in DOMAIN mems
      /\ mems[worker.new].key = Cand
      /\ worker.new > worker.old \/ Cand \in torn
  BY <1>1, <1>3, InAttempt DEF Cand, ChainInv, StoredInv, TypeInv, PlaceInv
<1>5. ChainGoesForward'
  <2> SUFFICES ASSUME NEW m \in DOMAIN mems, mems'[m].status = "superseded"
               PROVE  \E n \in DOMAIN mems :
                         mems'[m].links = {n} /\ (n > m \/ mems'[n].key \in torn')
    BY <1>2 DEF ChainGoesForward
  <2>1. CASE m = worker.old
    BY <1>2, <1>3, <1>4, <2>1
  <2>2. CASE m # worker.old
    BY <1>2, <1>3, <2>2 DEF ChainInv, ChainGoesForward
  <2> QED
    BY <2>1, <2>2
<1>6. StoredInv'
  BY <1>1, <1>3, <1>4 DEF StoredInv
<1>7. PendingInv'
  <2> SUFFICES ASSUME NEW m \in DOMAIN mems, cands[mems[m].key].status = "pending",
                      worker'.pc = "mark" => mems[m].key # Cand
               PROVE  mems[m].key \in torn'
    BY <1>1, <1>2, <1>3, <1>4 DEF PendingInv
  <2>1. CASE worker'.pc = "mark"
    BY <1>3, <2>1 DEF ChainInv, PendingInv
  <2>2. CASE worker'.pc = "failure"
    BY <1>1, <1>2, <1>3, <2>2 DEF Unmarked, TypeInv, RefsInv
  <2> QED
    BY <1>3, <2>1, <2>2
<1>8. ReplacedInv'
  <2> SUFFICES ASSUME NEW n \in DOMAIN mems, mems'[n].status = "active", NEW m \in mems'[n].links
               PROVE  /\ m \in DOMAIN mems
                      /\ mems'[m].status = "superseded" \/ mems'[n].key \in torn'
    BY <1>2 DEF ReplacedInv
  <2>1. n # worker.old /\ mems'[n] = mems[n]
    BY <1>2
  <2>2. /\ m \in DOMAIN mems
        /\ mems[m].status = "superseded" \/ mems[n].key \in torn \/ worker.old = m
    BY <2>1 DEF ChainInv, ReplacedInv
  <2> QED
    BY <1>2, <1>3, <2>1, <2>2
<1> QED
  BY <1>5, <1>6, <1>7, <1>8 DEF ChainInv

\* A candidate that is marked or given up is no longer pending.
LEMMA ChainMark ==
    ASSUME TypeInv, ChainInv, Mark \/ GiveUp
    PROVE  ChainInv'
<1>1. /\ worker.pc \in {"mark", "failure"} /\ worker.pc \in AttemptPcs
      /\ mems' = mems
  BY DEF Mark, GiveUp, At, AttemptPcs
<1>2. torn \subseteq torn' /\ worker'.pc \notin {"supersede", "mark"}
  <2>1. CASE Mark
    BY <2>1, StoreWritten DEF Mark
  <2>2. CASE GiveUp
    BY <2>2 DEF GiveUp, Goto, TypeInv, TypeOK, Worker
  <2> QED
    BY <2>1, <2>2
<1>3. /\ \A c \in DOMAIN cands : c # Cand => cands'[c] = cands[c]
      /\ cands'[Cand].status # "pending" \/ (worker.pc = "failure" /\ cands' = cands)
  <2>1. Cand \in DOMAIN cands /\ cands[Cand] \in Candidate
    BY <1>1, InAttempt
  <2>2. \/ cands' = [cands EXCEPT ![Cand].status = "accepted", ![Cand].memory = worker.new]
        \/ cands' = [cands EXCEPT ![Cand].status = "failed"]
        \/ worker.pc = "failure" /\ cands' = cands
    BY DEF Mark, GiveUp, At
  <2> QED
    BY <2>1, <2>2 DEF Candidate
<1>4. ChainGoesForward' /\ StoredInv' /\ ReplacedInv'
  BY <1>1, <1>2 DEF ChainInv, ChainGoesForward, StoredInv, ReplacedInv
<1>5. PendingInv'
  <2> SUFFICES ASSUME NEW m \in DOMAIN mems, cands'[mems[m].key].status = "pending"
               PROVE  mems[m].key \in torn
    BY <1>1, <1>2 DEF PendingInv
  <2>1. mems[m].key \in DOMAIN cands
    BY DEF TypeInv, RefsInv
  <2>2. cands[mems[m].key].status = "pending" /\ (worker.pc = "mark" => mems[m].key # Cand)
    BY <1>3, <2>1
  <2> QED
    BY <1>1, <2>2 DEF ChainInv, PendingInv
<1> QED
  BY <1>4, <1>5 DEF ChainInv

\* A lost process or a failed access ends the attempt early.
LEMMA ChainEndsEarly ==
    ASSUME TypeInv, ChainInv, StoreFails \/ Restart
    PROVE  ChainInv'
<1>1. mems' = mems /\ cands' = cands /\ torn' = torn \cup Unmarked
  BY DEF StoreFails, Restart
<1>2. worker'.pc \notin {"supersede", "mark"}
  BY DEF StoreFails, Restart, Goto, NoWorker, TypeInv, TypeOK, Worker
<1> QED
  BY <1>1, <1>2, ChainTorn

\* Every step keeps the chain.
LEMMA ChainStep ==
    ASSUME TypeInv, ChainInv, [Next]_vars
    PROVE  ChainInv'
<1>1. CASE UNCHANGED vars
  BY <1>1 DEF vars, ChainInv, ChainGoesForward, StoredInv, PendingInv, ReplacedInv, Cand
<1>2. CASE Next
  BY <1>2, ChainEnqueue, ChainLoop, ChainTick, ChainConsolidate, ChainSupersede, ChainMark,
     ChainEndsEarly DEF Next, WorkerStep
<1> QED
  BY <1>1, <1>2

\* The chain holds initially.
LEMMA ChainInit == Init => ChainInv
<1> SUFFICES ASSUME Init PROVE ChainInv
  OBVIOUS
<1>1. DOMAIN mems = {} /\ worker.pc = "none"
  BY InitialEmpty DEF Init, NoWorker
<1> QED
  BY <1>1 DEF ChainInv, ChainGoesForward, StoredInv, PendingInv, ReplacedInv

\* A superseded memory points to one later version, unless its candidate was
\* torn: the chain of versions has no cycle and ends in an active memory; and a
\* version that has taken effect has replaced the one it was made from.
THEOREM VersionChain == Spec => []VersionsAreChained
<1>1. ChainInv => ChainGoesForward
  BY DEF ChainInv
<1>2. TypeInv /\ ChainInv => VersionsReplace
  <2> SUFFICES ASSUME TypeInv, ChainInv, NEW m \in DOMAIN mems, NEW n \in DOMAIN mems,
                      cands[mems[n].key].status = "accepted", mems[n].key \notin torn,
                      mems[n].status = "active", m \in mems[n].links
               PROVE  mems[m].status = "superseded"
    BY DEF VersionsReplace
  <2>1. ~(worker.pc = "supersede" /\ worker.new = n)
    BY DEF ChainInv, StoredInv
  <2> QED
    BY <2>1 DEF ChainInv, ReplacedInv
<1>3. TypeInv /\ ChainInv => VersionsAreChained
  BY <1>1, <1>2 DEF VersionsAreChained
<1> QED
  BY <1>3, TypeInit, TypeStep, ChainInit, ChainStep, PTL DEF Spec

===============================================================================

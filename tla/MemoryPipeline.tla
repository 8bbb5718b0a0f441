---------------------------- MODULE MemoryPipeline ----------------------------
(***************************************************************************)
(* The durable queue that turns memory candidates into long-term memories: *)
(* MemoryPipeline with its worker, MemoryConsolidator and MemoryStore.     *)
(*                                                                         *)
(* Three files are written one after the other: the candidates, the        *)
(* memories and the jobs.  The pipeline runs on the event loop and yields  *)
(* only while its worker sleeps or has not begun, so a step ends at each   *)
(* write: between two writes the process may be lost, and a write may      *)
(* fail.  A write of the store is followed by one of its index; when only  *)
(* that one fails the record is in the file and the call raises.           *)
(*                                                                         *)
(* A text is the set of its terms (MemoryConsolidator._terms): similarity  *)
(* is computed from it as in the code, equal texts have equal terms, a     *)
(* contained text has a subset, and a merged text the union.  Candidates   *)
(* have one owner, type and scope: others never meet.  Times are what is   *)
(* left of them.  Abstracted: sources, priorities, conflict marks on the   *)
(* records, the index and the checkpoint (nothing reads them back), and    *)
(* the limit of twenty memories that are compared.                         *)
(***************************************************************************)
EXTENDS Integers, Sequences, FiniteSets

CONSTANTS MaxCandidates, \* bound: candidates saved
          Contents,      \* the texts a candidate may have: sets of terms
          Markers,       \* _CONFLICT_MARKERS
          MaxAttempts,   \* max_attempts
          BaseDelay,     \* retry_base_delay_seconds
          MaxCrashes,    \* bound: processes lost
          MaxFaults      \* bound: writes that fail

ASSUME SizesAssumption ==
    /\ MaxAttempts \in Nat \ {0}
    /\ {MaxCandidates, BaseDelay, MaxCrashes, MaxFaults} \subseteq Nat
\* The delay after the nth attempt.
RetryDelay(n) == BaseDelay * 2 ^ (n - 1)
ASSUME DelayAssumption == \A n \in 1..MaxAttempts : RetryDelay(n) \in Nat
ASSUME ContentsAssumption == \A x \in Contents : IsFiniteSet(x) /\ x # {}

VARIABLES cands,      \* memory_candidates.json; the place in it is id and key
          mems,       \* memories.json; the place in it is the id
          jobs,       \* memory_jobs.json
          worker,     \* the worker task and its locals
          forgotten,  \* history: candidates nobody is going to process
          torn,       \* history: an attempt ended between memory and candidate
          crashes, faults

vars == <<cands, mems, jobs, worker, forgotten, torn, crashes, faults>>

-----------------------------------------------------------------------------
Texts == SUBSET UNION Contents
Candidates == 1..MaxCandidates

Candidate == [status: {"pending", "accepted", "failed"}, content: Texts, memory: Nat]
Memory == [key: Candidates, content: Texts, status: {"active", "superseded"}, links: SUBSET Nat]
Job == [key: Candidates, status: {"pending", "running", "completed", "failed", "dead_letter"},
        attempts: Nat, wait: Nat]

\* none: no worker task; scheduled and asleep: the event loop runs others.
YieldPcs == {"none", "scheduled", "asleep"}
\* An attempt is in progress: the places in _process_job and what it calls.
AttemptPcs == {"consolidate", "supersede", "mark", "complete", "failure", "dead"}
Pcs == YieldPcs \cup {"pick", "delay"} \cup AttemptPcs
Worker == [pc: Pcs, job: Nat, old: Nat, new: Nat, wake: Nat]
NoWorker == [pc |-> "none", job |-> 0, old |-> 0, new |-> 0, wake |-> 0]

HasJob(c, q) == \E j \in DOMAIN q : q[j].key = c
Unfinished(c, q) ==
    \E j \in DOMAIN q : q[j].key = c /\ q[j].status \notin {"completed", "dead_letter"}
Waiting(c, q) == \E j \in DOMAIN q : q[j].key = c /\ q[j].status = "pending"

\* The candidate in hand.
Cand == jobs[worker.job].key
Text == cands[Cand].content

\* The memories a candidate is compared with (_load_matching_memories).
Active == {m \in DOMAIN mems : mems[m].status = "active"}

\* The two parts of a similarity: terms in both texts, terms in either.
Shared(x, y) == Cardinality(x \cap y)
Total(x, y) == Cardinality(x \cup y)

-----------------------------------------------------------------------------
(* Plausible bugs.                                                         *)

NoFloor(n) == n - 1
OneMoreAttempt(j) == j.attempts <= MaxAttempts
LinksKept(m, n) == [m EXCEPT !.status = "superseded"]
StatusKept(m, n) == [m EXCEPT !.links = {n}]
FailedIsDone(c) == cands[c].status # "pending"
OnlyWithoutJobs == [worker EXCEPT !.pc = IF jobs = <<>> THEN "scheduled" ELSE @]
FailedForGood(j) == [j EXCEPT !.status = "failed"]

-----------------------------------------------------------------------------
(* MemoryConsolidator.                                                     *)

\* _similarity(x, y) >= percent / 100
Similar(x, y, percent) == 100 * Shared(x, y) >= percent * Total(x, y)

\* The first of the ranked memories; priority and age decide between equals.
Best(x) ==
    {m \in Active : \A n \in Active :
        Shared(x, mems[m].content) * Total(x, mems[n].content)
            >= Shared(x, mems[n].content) * Total(x, mems[m].content)}

\* _normalize(x) == _normalize(y)
SameText(x, y) == x = y
\* _is_conflict
Conflicts(x, y) == (x \cup y) \cap Markers # {}
\* similarity >= 0.65 or _contains_facts: the new text replaces the old one.
Updates(x, y) == Similar(x, y, 65) \/ y \subseteq x
\* _merge_content
Merged(x, y) == y \cup x

\* The memory that save_memory finds under the idempotency key.
Own(c) == {m \in DOMAIN mems : mems[m].key = c}

\* The update of the existing memory in _update and _merge.
Superseded(m, n) == [m EXCEPT !.status = "superseded", !.links = {n}]

(* MemoryPipeline.                                                         *)

\* candidate.status == ACCEPTED and candidate.memory_id
IsDone(c) == cands[c].status = "accepted" /\ cands[c].memory # 0

\* job.attempt_count < job.max_attempts
MayRetry(j) == j.attempts < MaxAttempts

Started(j) == [j EXCEPT !.status = "running", !.attempts = @ + 1]
Retried(j) == [j EXCEPT !.status = "pending", !.wait = RetryDelay(j.attempts)]
Recovered(j) == IF j.status = "running" THEN [j EXCEPT !.status = "pending", !.wait = 0] ELSE j

\* What is left of a time after one unit.
Less(n) == IF n > 0 THEN n - 1 ELSE 0

\* _schedule_worker
Scheduled == [worker EXCEPT !.pc = IF @ = "none" THEN "scheduled" ELSE @]

-----------------------------------------------------------------------------
Init ==
    /\ cands = <<>>
    /\ mems = <<>>
    /\ jobs = <<>>
    /\ worker = NoWorker
    /\ forgotten = {}
    /\ torn = {}
    /\ crashes = 0
    /\ faults = 0

Fault == faults < MaxFaults /\ faults' = faults + 1

\* The candidates with a memory of their own that they do not refer to.
Unmarked == {c \in DOMAIN cands' : (\E m \in DOMAIN mems' : mems'[m].key = c)
                                        /\ cands'[c].status # "accepted"}

-----------------------------------------------------------------------------
(* enqueue, called by the hooks of the session layer.                      *)

\* save_candidate: a candidate whose key is known is kept as it is.
Saved(c) ==
    \/ /\ Len(cands) < MaxCandidates
       /\ c = Len(cands) + 1
       /\ \E x \in Contents :
             cands' = Append(cands, [status |-> "pending", content |-> x, memory |-> 0])
    \/ c \in DOMAIN cands /\ UNCHANGED cands

\* The job is appended unless there is one, and the worker is scheduled.
Enqueue(c) ==
    /\ worker.pc \in YieldPcs
    /\ Saved(c)
    /\ jobs' = IF HasJob(c, jobs) THEN jobs
               ELSE Append(jobs, [key |-> c, status |-> "pending", attempts |-> 0, wait |-> 0])
    /\ worker' = Scheduled
    /\ forgotten' = {d \in forgotten : ~Waiting(d, jobs')}
    /\ UNCHANGED <<mems, torn, crashes, faults>>

\* The second write of enqueue() failed, which try_enqueue swallows; the loss of
\* the process at this point leaves the same files.
EnqueueEnds(c) ==
    /\ worker.pc \in YieldPcs
    /\ Saved(c)
    /\ ~HasJob(c, jobs)
    /\ Fault
    /\ forgotten' = forgotten \cup {c}
    /\ UNCHANGED <<mems, jobs, worker, torn, crashes>>

-----------------------------------------------------------------------------
(* The worker.                                                             *)

Goto(l) == worker' = [worker EXCEPT !.pc = l]
At(l) == worker.pc = l

\* An exception leaves the loop, and whatever is unfinished has no worker.
WorkerEnds ==
    /\ worker' = NoWorker
    /\ forgotten' = forgotten \cup {c \in DOMAIN cands : Unfinished(c, jobs')}

WorkerBegins ==
    /\ \/ At("scheduled")
       \/ At("asleep") /\ worker.wake = 0
    /\ Goto("pick")
    /\ UNCHANGED <<cands, mems, jobs, forgotten, torn, crashes, faults>>

Ready == {j \in DOMAIN jobs : jobs[j].status = "pending" /\ jobs[j].wait = 0}
Later == {j \in DOMAIN jobs : jobs[j].status = "pending" /\ jobs[j].wait > 0}

\* _next_ready_job, and the job is saved as running.
Pick ==
    /\ At("pick")
    /\ \/ /\ Ready = {}
          /\ Goto("delay")
          /\ UNCHANGED jobs
       \/ \E j \in Ready :
             /\ \A i \in Ready : j <= i
             /\ jobs' = [jobs EXCEPT ![j] = Started(@)]
             /\ worker' = [worker EXCEPT !.pc = "consolidate", !.job = j]
    /\ UNCHANGED <<cands, mems, forgotten, torn, crashes, faults>>

\* _next_retry_delay: a job that is neither ready in Pick nor later here is
\* not seen (Tick).
Delay ==
    /\ At("delay")
    /\ \/ \E j \in Later :
             /\ \A i \in Later : jobs[j].wait <= jobs[i].wait
             /\ worker' = [worker EXCEPT !.pc = "asleep", !.wake = jobs[j].wait]
             /\ forgotten' = {c \in forgotten : ~Waiting(c, jobs)}
       \/ /\ Later = {}
          /\ worker' = NoWorker
          /\ UNCHANGED forgotten
    /\ UNCHANGED <<cands, mems, jobs, torn, crashes, faults>>

\* A call of the store returned, or only its last write, the index, failed.
StoreWrote(l) ==
    \/ /\ Goto(l)
       /\ UNCHANGED <<torn, faults>>
    \/ /\ Fault
       /\ Goto("failure")
       /\ torn' = torn \cup Unmarked

\* save_memory: with a key that is known the stored memory is returned.
SaveMemory(x, old, l) ==
    /\ \/ \E m \in Own(Cand) :
             /\ UNCHANGED mems
             /\ worker' = [worker EXCEPT !.pc = l, !.old = old, !.new = m]
             /\ UNCHANGED <<torn, faults>>
       \/ /\ Own(Cand) = {}
          /\ mems' = Append(mems, [key |-> Cand, content |-> x, status |-> "active",
                                   links |-> IF l = "supersede" THEN {old} ELSE {}])
          /\ \/ /\ worker' = [worker EXCEPT !.pc = l, !.old = old, !.new = Len(mems) + 1]
                /\ UNCHANGED <<torn, faults>>
             \/ /\ Fault
                /\ Goto("failure")
                /\ torn' = torn \cup Unmarked

AlreadyDone ==
    /\ IsDone(Cand)
    /\ Goto("complete")
    /\ UNCHANGED <<mems, torn, faults>>

\* consolidate() refuses a candidate that was given up.
NotPending ==
    /\ cands[Cand].status = "failed"
    /\ ~IsDone(Cand)
    /\ Goto("failure")
    /\ UNCHANGED <<mems, torn, faults>>

StoreNew ==
    /\ cands[Cand].status = "pending"
    /\ \A m \in Active : ~Similar(Text, mems[m].content, 20)
    /\ SaveMemory(Text, 0, "mark")

\* m is the best match of the candidate; what it says decides what is done.
Match(m) ==
    /\ cands[Cand].status = "pending"
    /\ m \in Best(Text)
    /\ Similar(Text, mems[m].content, 20)

Skip(m) ==
    /\ Match(m)
    /\ SameText(Text, mems[m].content)
    /\ worker' = [worker EXCEPT !.pc = "mark", !.new = m]
    /\ UNCHANGED <<mems, torn, faults>>

Differs(m) == Match(m) /\ ~SameText(Text, mems[m].content)

StoreConflict(m) ==
    /\ Differs(m)
    /\ Conflicts(Text, mems[m].content)
    /\ SaveMemory(Text, 0, "mark")

Update(m) ==
    /\ Differs(m)
    /\ ~Conflicts(Text, mems[m].content)
    /\ Updates(Text, mems[m].content)
    /\ SaveMemory(Text, m, "supersede")

Merge(m) ==
    /\ Differs(m)
    /\ ~Conflicts(Text, mems[m].content)
    /\ ~Updates(Text, mems[m].content)
    /\ SaveMemory(Merged(Text, mems[m].content), m, "supersede")

Consolidate ==
    /\ At("consolidate")
    /\ UNCHANGED cands
    /\ \/ AlreadyDone \/ NotPending \/ StoreNew
       \/ \E m \in Active : Skip(m) \/ StoreConflict(m) \/ Update(m) \/ Merge(m)
    /\ UNCHANGED <<jobs, forgotten, crashes>>

\* The second write of an update or a merge.
Supersede ==
    /\ At("supersede")
    /\ mems' = [mems EXCEPT ![worker.old] = Superseded(@, worker.new)]
    /\ UNCHANGED cands
    /\ StoreWrote("mark")
    /\ UNCHANGED <<jobs, forgotten, crashes>>

Mark ==
    /\ At("mark")
    /\ cands' = [cands EXCEPT ![Cand].status = "accepted", ![Cand].memory = worker.new]
    /\ UNCHANGED mems
    /\ StoreWrote("complete")
    /\ UNCHANGED <<jobs, forgotten, crashes>>

\* A read or the record's own write fails: nothing is changed.
StoreFails ==
    /\ At("consolidate") \/ At("supersede") \/ At("mark")
    /\ Fault
    /\ Goto("failure")
    /\ UNCHANGED <<cands, mems, jobs, forgotten, crashes>>
    /\ torn' = torn \cup Unmarked

\* The job is saved, and then the checkpoint, whose failure ends the worker.
JobWrote ==
    \/ Goto("pick") /\ UNCHANGED <<forgotten, faults>>
    \/ Fault /\ WorkerEnds

Complete ==
    /\ At("complete")
    /\ jobs' = [jobs EXCEPT ![worker.job].status = "completed"]
    /\ JobWrote
    /\ UNCHANGED <<cands, mems, torn, crashes>>

Retry ==
    /\ At("failure")
    /\ MayRetry(jobs[worker.job])
    /\ jobs' = [jobs EXCEPT ![worker.job] = Retried(@)]
    /\ JobWrote
    /\ UNCHANGED <<cands, mems, torn, crashes>>

\* The last attempt failed; that the candidate cannot be marked is swallowed.
GiveUp ==
    /\ At("failure")
    /\ ~MayRetry(jobs[worker.job])
    /\ Goto("dead")
    /\ \/ cands' = [cands EXCEPT ![Cand].status = "failed"] /\ UNCHANGED faults
       \/ Fault /\ UNCHANGED cands
    /\ UNCHANGED <<mems, jobs, forgotten, torn, crashes>>

DeadLetter ==
    /\ At("dead")
    /\ jobs' = [jobs EXCEPT ![worker.job].status = "dead_letter"]
    /\ JobWrote
    /\ UNCHANGED <<cands, mems, torn, crashes>>

\* The jobs file cannot be written, and the exception leaves the loop.
JobWriteFails ==
    /\ \/ At("pick") /\ Ready # {}
       \/ At("complete") \/ At("dead")
       \/ At("failure") /\ MayRetry(jobs[worker.job])
    /\ Fault
    /\ UNCHANGED <<cands, mems, jobs, torn, crashes>>
    /\ WorkerEnds

-----------------------------------------------------------------------------
\* The process is lost; the next one finds the files and makes running jobs
\* pending (_recover_interrupted_jobs), with no worker until the next enqueue().
Restart ==
    /\ crashes < MaxCrashes
    /\ crashes' = crashes + 1
    /\ jobs' = [j \in DOMAIN jobs |-> Recovered(jobs[j])]
    /\ worker' = NoWorker
    /\ UNCHANGED <<cands, mems, faults>>
    /\ forgotten' = {c \in DOMAIN cands : HasJob(c, jobs) => Unfinished(c, jobs)}
    /\ torn' = torn \cup Unmarked

\* A job that becomes due between the two looks of the worker is overlooked.
Tick ==
    /\ worker.wake > 0 \/ Later # {}
    /\ jobs' = [j \in DOMAIN jobs |-> [jobs[j] EXCEPT !.wait = Less(@)]]
    /\ worker' = [worker EXCEPT !.wake = Less(@)]
    /\ forgotten' = IF worker.pc = "delay" THEN forgotten \cup {jobs[j].key : j \in Later}
                    ELSE forgotten
    /\ UNCHANGED <<cands, mems, torn, crashes, faults>>

WorkerStep ==
    \/ WorkerBegins \/ Pick \/ Delay \/ Consolidate \/ Supersede \/ Mark
    \/ Complete \/ Retry \/ GiveUp \/ DeadLetter

Next ==
    \/ \E c \in Candidates : Enqueue(c) \/ EnqueueEnds(c)
    \/ WorkerStep \/ StoreFails \/ JobWriteFails
    \/ Restart \/ Tick

\* The event loop runs the worker it has scheduled, and time passes.
Spec == Init /\ [][Next]_vars
FairSpec == Spec /\ WF_vars(WorkerStep) /\ WF_vars(Tick)

-----------------------------------------------------------------------------
(* Properties.                                                             *)

\* Every variable keeps its type.
TypeOK ==
    /\ cands \in Seq(Candidate) /\ Len(cands) <= MaxCandidates
    /\ mems \in Seq(Memory)
    /\ jobs \in Seq(Job)
    /\ worker \in Worker
    /\ worker.job \in 0..Len(jobs) /\ {worker.old, worker.new} \subseteq 0..Len(mems)
    /\ forgotten \subseteq Candidates
    /\ torn \subseteq Candidates
    /\ crashes \in 0..MaxCrashes
    /\ faults \in 0..MaxFaults

\* A job is tried at most max_attempts times, and once more for every process
\* that was lost during an attempt: the count is saved before the attempt.
AttemptsBounded == \A j \in DOMAIN jobs : jobs[j].attempts <= MaxAttempts + crashes

\* However often an attempt is repeated after a crash or a failed write, a
\* candidate is stored as one memory and queued as one job.
StoredOnce ==
    /\ \A m, n \in DOMAIN mems : mems[m].key = mems[n].key => m = n
    /\ \A i, j \in DOMAIN jobs : jobs[i].key = jobs[j].key => i = j

\* The version chain: a superseded memory points to one later version, so the
\* chain ends in an active memory, except for versions of a torn candidate.
ChainGoesForward ==
    \A m \in DOMAIN mems : mems[m].status = "superseded" =>
        \E n \in DOMAIN mems : mems[m].links = {n} /\ (n > m \/ mems[n].key \in torn)

\* A version that has taken effect has replaced the one it was made from.
VersionsReplace ==
    \A m, n \in DOMAIN mems :
        (cands[mems[n].key].status = "accepted" /\ mems[n].key \notin torn
            /\ mems[n].status = "active" /\ m \in mems[n].links) =>
                mems[m].status = "superseded"

\* The versions of a memory form a chain, and each has replaced the one before it.
VersionsAreChained == ChainGoesForward /\ VersionsReplace

\* A completed job has an accepted candidate with a stored memory.
CompletedIsStored ==
    \A j \in DOMAIN jobs : jobs[j].status = "completed" =>
        cands[jobs[j].key].status = "accepted" /\ cands[jobs[j].key].memory \in DOMAIN mems

\* Every saved candidate has a finished job or a worker that will come to it,
\* except for those the code is known to forget: by a restart, by a failed
\* write, or by the clock between the worker's two looks at it.
NothingForgotten ==
    \A c \in DOMAIN cands :
        \/ c \in forgotten
        \/ HasJob(c, jobs) /\ ~Unfinished(c, jobs)
        \/ Waiting(c, jobs) /\ worker.pc # "none"
        \/ worker.pc \in AttemptPcs /\ Cand = c

\* The queue settles: every job is completed or a dead letter in the end, or
\* is forgotten.
AllSettled == \A c \in DOMAIN cands : Unfinished(c, jobs) => c \in forgotten
QueueSettles == ~AllSettled ~> AllSettled

-----------------------------------------------------------------------------
(* What the documents say and the code does not do.                        *)

\* Requirements of F, "recoverable": restarts and retries must not lose data.
\* When memories were stored, some version of them is still active.
MemorySurvives == mems # <<>> => Active # {}
===============================================================================

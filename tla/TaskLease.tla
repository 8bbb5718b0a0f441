------------------------------- MODULE TaskLease -------------------------------
(***************************************************************************)
(* The file lease of one task (TaskLeaseStore) and the processes that      *)
(* start up, claim it, recover the task and release it                     *)
(* (TaskRecoveryManager).                                                  *)
(*                                                                         *)
(* A process has a fresh owner_id and scans the tasks once, so it claims   *)
(* the lease of a task at most once.  Every file system call is a step of  *)
(* its own.  A file keeps its identity when its name is removed, as the    *)
(* descriptor of the process that created it still writes to it; so files  *)
(* are named after the process that created them.  The run itself is in    *)
(* TaskRun and TaskSession.                                                *)
(***************************************************************************)
EXTENDS Naturals

CONSTANTS Owners,     \* processes
          TTL,        \* ttl_seconds, in units of the clock
          MaxClock    \* bound: the clock stops here

ASSUME LeaseAssumption == TTL \in Nat /\ MaxClock \in Nat

VARIABLES path,       \* the file that task.lease.json names
          written,    \* the files that hold their payload
          expires,    \* expires_at of each file
          pc,
          began,      \* the local variable now of claim()
          tries,      \* the loop variable of claim()
          clock,
          robbed      \* history: owners whose file was removed by another process

leaseVars == <<path, written, expires, pc, began, tries, clock, robbed>>

None == "no file"
Old == "left by a lost process"
Files == Owners \cup {Old}

ASSUME OwnersAssumption == {None, Old} \cap Owners = {}

Pcs == {"idle", "create", "write", "read", "unlink", "holds", "check", "remove",
        "refused", "released", "crashed"}
\* The process created its file, and is not done with it.
Holding == {"write", "holds", "check", "remove"}

-----------------------------------------------------------------------------
(* Plausible bugs.                                                         *)

ExpiryInMilliseconds(o) == began[o] + 1000 * TTL
NotExclusive == TRUE
OneAttempt == 1
NothingToRelease(o) == FALSE

-----------------------------------------------------------------------------
(* Operators of the code.                                                  *)

ExpiresAt(o) == began[o] + TTL
Attempts == 2

\* O_EXCL
MayCreate == path = None

\* expires_at > now, of the file that is read; a file without its payload and a
\* file that is gone count as expired.
Unexpired(o) == path # None /\ path \in written /\ expires[path] > began[o]

\* existing["owner_id"] == owner_id
OwnsLease(o) == path = o /\ o \in written

\* path.unlink()
Unlinked(o) ==
    /\ path' = None
    /\ robbed' = IF path \in Owners \ {o} THEN robbed \cup {path} ELSE robbed

-----------------------------------------------------------------------------
\* There may be a lease of a process that was lost, before or after it wrote
\* the payload.
LeaseInit ==
    /\ path \in {None, Old}
    /\ written \in {{}, {Old}}
    /\ \E e \in 0..TTL : expires = [f \in Files |-> e]
    /\ pc = [o \in Owners |-> "idle"]
    /\ began = [o \in Owners |-> 0]
    /\ tries = [o \in Owners |-> 0]
    /\ clock = 0
    /\ robbed = {}

Goto(o, l) == pc' = [pc EXCEPT ![o] = l]
Lease == <<path, written, expires, robbed>>

\* recover_once found the task and calls claim().
Claim(o) ==
    /\ pc[o] = "idle"
    /\ Goto(o, "create")
    /\ began' = [began EXCEPT ![o] = clock]
    /\ UNCHANGED <<Lease, tries, clock>>

Create(o) ==
    /\ pc[o] = "create"
    /\ IF MayCreate THEN path' = o /\ Goto(o, "write")
                    ELSE UNCHANGED path /\ Goto(o, "read")
    /\ UNCHANGED <<written, expires, began, tries, clock, robbed>>

\* The payload reaches the file, and claim() returns True.
Write(o) ==
    /\ pc[o] = "write"
    /\ Goto(o, "holds")
    /\ written' = written \cup {o}
    /\ expires' = [expires EXCEPT ![o] = ExpiresAt(o)]
    /\ UNCHANGED <<path, began, tries, clock, robbed>>

Read(o) ==
    /\ pc[o] = "read"
    /\ Goto(o, IF ~Unexpired(o) THEN "unlink" ELSE IF OwnsLease(o) THEN "holds" ELSE "refused")
    /\ UNCHANGED <<Lease, began, tries, clock>>

Unlink(o) ==
    /\ pc[o] = "unlink"
    /\ Unlinked(o)
    /\ tries' = [tries EXCEPT ![o] = @ + 1]
    /\ Goto(o, IF tries'[o] < Attempts THEN "create" ELSE "refused")
    /\ UNCHANGED <<written, expires, began, clock>>

\* The run is over, or could not be restored: release() is called.
Release(o) ==
    /\ pc[o] = "holds"
    /\ Goto(o, "check")
    /\ UNCHANGED <<Lease, began, tries, clock>>

CheckOwner(o) ==
    /\ pc[o] = "check"
    /\ Goto(o, IF OwnsLease(o) THEN "remove" ELSE "released")
    /\ UNCHANGED <<Lease, began, tries, clock>>

Remove(o) ==
    /\ pc[o] = "remove"
    /\ Goto(o, "released")
    /\ Unlinked(o)
    /\ UNCHANGED <<written, expires, began, tries, clock>>

Crash(o) ==
    /\ pc[o] \notin {"idle", "refused", "released", "crashed"}
    /\ Goto(o, "crashed")
    /\ UNCHANGED <<Lease, began, tries, clock>>

Tick ==
    /\ clock < MaxClock
    /\ clock' = clock + 1
    /\ UNCHANGED <<Lease, pc, began, tries>>

Step(o) ==
    \/ Claim(o) \/ Create(o) \/ Write(o) \/ Read(o) \/ Unlink(o)
    \/ Release(o) \/ CheckOwner(o) \/ Remove(o)

LeaseNext == (\E o \in Owners : Step(o) \/ Crash(o)) \/ Tick

LeaseSpec == LeaseInit /\ [][LeaseNext]_leaseVars

-----------------------------------------------------------------------------
(* Properties.                                                             *)

\* Every variable keeps its type.
LeaseTypeOK ==
    /\ path \in Files \cup {None}
    /\ written \subseteq Files
    /\ expires \in [Files -> 0..(MaxClock + TTL)]
    /\ pc \in [Owners -> Pcs]
    /\ began \in [Owners -> 0..MaxClock]
    /\ tries \in [Owners -> 0..Attempts]
    /\ clock \in 0..MaxClock
    /\ robbed \subseteq Owners

\* A process that was granted the lease, and whose file nobody removed, still
\* has its file under the name: of several holders at most one was not robbed,
\* so exclusion fails through the unlink of another process and in no other way.
HolderOwnsFile ==
    \A o \in Owners : pc[o] \in Holding => path = o \/ o \in robbed

\* A lease is not left behind: the file under the name belongs to a process
\* that still has to release it, or that was lost.
LeaseHasOwner ==
    \A o \in Owners : path = o => pc[o] \in Holding \cup {"crashed"}

\* Competing processes do not all give up: when every claim was refused, the
\* lease that was found had not expired when some of them looked.
NotAllRefused ==
    (Owners # {} /\ \A o \in Owners : pc[o] = "refused") =>
        Old \in written /\ \E o \in Owners : expires[Old] > began[o]

-----------------------------------------------------------------------------
(* What the documents say and the code does not do.                        *)

\* TaskLeaseStore: "File leases that prevent two workers from recovering one
\* task".
OneRecovers ==
    \A o, q \in Owners : (pc[o] = "holds" /\ pc[q] = "holds") => o = q
=============================================================================

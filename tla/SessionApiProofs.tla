--------------------------- MODULE SessionApiProofs ---------------------------
(***************************************************************************)
(* Theorems about SessionApi for every number of requests in progress, of  *)
(* request ids and contents, and for every bound on requests, faults,      *)
(* events and disconnections.                                              *)
(***************************************************************************)
EXTENDS SessionApi, FiniteSetTheorems, TLAPS

-----------------------------------------------------------------------------
(* The invariant, part by part.                                            *)

Histories == [runs: [Ids -> Nat], failed: [Ids -> Nat], answers: [Ids -> SUBSET Record],
              torn: BOOLEAN, missed: SUBSET Nat]

Types ==
    /\ calls \in [Slots -> Call \cup {Idle}]
    /\ records \in [Ids -> Record \cup {NoRecord}]
    /\ file \in [messages: Int, count: Int]
    /\ closed \in BOOLEAN
    /\ stored \in Nat
    /\ history \in Histories
    /\ used \in [calls: 0..MaxCalls, faults: Nat, events: Nat, drops: Nat]

\* The handler of a locked request has a number.
Numbered == \A c \in Slots : calls[c].pc \in Locked => calls[c].run # 0

\* The lock of a request_id has one holder.
OneHolder ==
    \A c, d \in Slots :
        /\ calls[c].pc \in Locked /\ calls[d].pc \in Locked
        /\ calls[c].id = calls[d].id
        => c = d

\* Every execution was sent by a client, and so was every request that waits.
WaitingSlots == {c \in Slots : calls[c].pc = "waiting"}
Sent ==
    /\ IsFiniteSet(WaitingSlots)
    /\ \A i \in Ids : history.runs[i] + Cardinality(WaitingSlots) <= used.calls

CallInv == Types /\ Numbered /\ OneHolder /\ Sent

-----------------------------------------------------------------------------
(* Requests in progress.                                                   *)

\* A slot in use holds a request, and an idle one is in none of the places.
LEMMA CallTypes ==
    ASSUME Types, NEW c \in Slots
    PROVE  /\ calls[c].pc # "idle" => calls[c] \in Call
           /\ calls[c].pc \in Locked \cup {"waiting"} => calls[c].pc # "idle"
           /\ calls[c] \in Call => /\ calls[c].pc \in Locked \cup {"waiting"}
                                   /\ calls[c].id \in Ids /\ calls[c].content \in Contents
                                   /\ calls[c].run \in 0..MaxCalls /\ calls[c].http \in {200, 409}
           /\ Idle.pc = "idle" /\ Idle.pc \notin Locked \cup {"waiting"}
  BY DEF Types, Call, Idle, Locked, Writing

\* A request that holds its lock and goes on to another place with it.
Moved(c, place, http) ==
    calls' = [calls EXCEPT ![c] = [calls[c] EXCEPT !.pc = place, !.http = http]]
Moves(c) ==
    /\ calls[c].pc \in Locked
    /\ \E place \in Locked, http \in {200, 409} : Moved(c, place, http)

\* What such a step changes.
LEMMA AfterMove ==
    ASSUME Types, NEW c \in Slots, Moves(c)
    PROVE  /\ calls' \in [Slots -> Call \cup {Idle}]
           /\ calls[c] \in Call /\ calls'[c] \in Call
           /\ calls'[c].pc \in Locked /\ calls'[c].id = calls[c].id
           /\ calls'[c].run = calls[c].run /\ calls'[c].content = calls[c].content
           /\ \A d \in Slots \ {c} : calls'[d] = calls[d]
  <1>1. calls[c] \in Call BY CallTypes DEF Moves
  <1>2. PICK place \in Locked, http \in {200, 409} : Moved(c, place, http) BY DEF Moves
  <1>3. [calls[c] EXCEPT !.pc = place, !.http = http] \in Call BY <1>1 DEF Call
  <1> QED BY <1>1, <1>2, <1>3 DEF Types, Call, Moved

\* The slot of a request becomes free.
LEMMA Left ==
    ASSUME Types, NEW c \in Slots, Leave(c)
    PROVE  /\ calls' \in [Slots -> Call \cup {Idle}] /\ calls'[c] = Idle
           /\ \A d \in Slots \ {c} : calls'[d] = calls[d]
  BY DEF Types, Leave

\* The steps of a request inside its lock are of the first kind.
LEMMA InsideLock ==
    ASSUME Types, NEW c \in Slots, Count(c) \/ HandlerReturns(c) \/ Publish(c) \/ Save(c)
    PROVE  Moves(c)
  <1>1. calls[c].pc \in Locked
    BY DEF Count, HandlerReturns, Publish, Save, Locked, Writing
  <1>2. calls[c] \in Call /\ calls[c].http \in {200, 409} BY <1>1, CallTypes
  <1>3. ASSUME NEW place \in Locked, Goto(c, place)  PROVE Moves(c)
    <2>1. calls' = [calls EXCEPT ![c] = [calls[c] EXCEPT !.pc = place]]
      BY <1>3 DEF Goto, Types
    <2>2. [calls[c] EXCEPT !.pc = place]
             = [calls[c] EXCEPT !.pc = place, !.http = calls[c].http]
      BY <1>2 DEF Call
    <2>3. Moved(c, place, calls[c].http) BY <2>1, <2>2 DEF Moved
    <2> QED BY <1>1, <1>2, <2>3 DEF Moves
  <1>4. CASE Count(c) BY <1>3, <1>4 DEF Count, Locked, Writing
  <1>5. CASE HandlerReturns(c)
    <2>1. PICK http \in {200, 409} :
             \E place \in {"replied", "publishing", "saving"} :
                calls' = [calls EXCEPT ![c].pc = place, ![c].http = http]
      BY <1>5 DEF HandlerReturns
    <2>2. PICK place \in {"replied", "publishing", "saving"} :
             calls' = [calls EXCEPT ![c].pc = place, ![c].http = http]
      BY <2>1
    <2>3. Moved(c, place, http)
      <3>1. calls' = [[calls EXCEPT ![c] = [calls[c] EXCEPT !.pc = place]]
                         EXCEPT ![c] = [[calls[c] EXCEPT !.pc = place] EXCEPT !.http = http]]
        BY <2>2 DEF Types
      <3>2. [[calls[c] EXCEPT !.pc = place] EXCEPT !.http = http]
               = [calls[c] EXCEPT !.pc = place, !.http = http]
        BY <1>2 DEF Call
      <3> QED BY <3>1, <3>2 DEF Types, Moved
    <2>4. place \in Locked BY DEF Locked, Writing
    <2> QED BY <1>1, <2>3, <2>4 DEF Moves
  <1>6. CASE Publish(c) BY <1>3, <1>6 DEF Publish, Locked, Writing
  <1>7. CASE Save(c) BY <1>3, <1>7 DEF Save, Locked, Writing
  <1> QED BY <1>4, <1>5, <1>6, <1>7

\* The steps that end a request free its slot.
LEMMA EndOfRequest ==
    ASSUME NEW c \in Slots, Replay(c) \/ Return(c) \/ HandlerRaises(c) \/ AppendFails(c)
    PROVE  Leave(c) /\ calls[c].pc \in Locked \cup {"waiting"}
  BY DEF Replay, Return, HandlerRaises, AppendFails, Enters, Locked, Writing

\* A request enters its lock and gets a number.
LEMMA Entered ==
    ASSUME Types, NEW c \in Slots, Handle(c)
    PROVE  /\ calls[c] \in Call /\ calls[c].pc = "waiting" /\ calls[c].id \in Ids
           /\ calls'[c].pc \in {"handling", "saving", "appended"}
           /\ calls'[c].id = calls[c].id /\ calls'[c].content = calls[c].content
           /\ calls'[c].run = history.runs[calls[c].id] + 1
           /\ \A d \in Slots \ {c} : calls'[d] = calls[d]
           /\ history.runs[calls[c].id] < MaxCalls => calls' \in [Slots -> Call \cup {Idle}]
  <1>1. calls[c].pc = "waiting" BY DEF Handle, Enters
  <1>2. calls[c] \in Call /\ calls[c].id \in Ids BY <1>1, CallTypes
  <1> DEFINE run == history.runs[calls[c].id] + 1
             place == CASE calls[c].content \in Actions -> "handling"
                        [] closed -> "saving"
                        [] OTHER -> "appended"
  <1>3. calls' = [calls EXCEPT ![c].pc = place, ![c].run = run] BY DEF Handle
  <1>4. place \in {"handling", "saving", "appended"} /\ place \in Locked
    <2>1. calls[c].content \in Contents BY <1>2, CallTypes
    <2> QED BY <2>1, ContentsAssumption DEF Contents, Locked, Writing, Types
  <1>5. run \in Nat /\ MaxCalls \in Nat
    BY <1>2, BoundsAssumption DEF Types, Histories
  <1> HIDE DEF run, place
  <1> DEFINE r == [calls[c] EXCEPT !.pc = place, !.run = run]
  <1>6. calls' = [calls EXCEPT ![c] = r]
    <2>1. calls' = [[calls EXCEPT ![c] = [calls[c] EXCEPT !.pc = place]]
                       EXCEPT ![c] = [[calls[c] EXCEPT !.pc = place] EXCEPT !.run = run]]
      BY <1>3 DEF Types
    <2>2. [[calls[c] EXCEPT !.pc = place] EXCEPT !.run = run] = r BY <1>2 DEF Call
    <2> QED BY <2>1, <2>2 DEF Types
  <1>7. r.pc = place /\ r.id = calls[c].id /\ r.content = calls[c].content /\ r.run = run
    BY <1>2 DEF Call
  <1>10. run <= MaxCalls => r \in Call
    <2> SUFFICES ASSUME run <= MaxCalls PROVE r \in Call OBVIOUS
    <2>1. run \in 0..MaxCalls BY <1>5
    <2> QED BY <1>2, <1>4, <2>1 DEF Call
  <1> HIDE DEF r
  <1>8. calls'[c] = r /\ \A d \in Slots \ {c} : calls'[d] = calls[d] BY <1>6 DEF Types
  <1>9. history.runs[calls[c].id] < MaxCalls => calls' \in [Slots -> Call \cup {Idle}]
    <2>1. history.runs[calls[c].id] < MaxCalls => run <= MaxCalls
      BY <1>2, <1>5 DEF run, Types, Histories
    <2> QED BY <1>6, <1>10, <2>1 DEF Types
  <1> QED BY <1>1, <1>2, <1>4, <1>7, <1>8, <1>9 DEF run
-----------------------------------------------------------------------------
(* Locks and numbers.                                                      *)

\* The kinds of steps, as far as the requests in progress are concerned.
LEMMA StepKinds ==
    ASSUME Next
    PROVE  \/ \E c \in Slots : Send(c)
           \/ \E c \in Slots : Handle(c)
           \/ \E c \in Slots : Count(c) \/ HandlerReturns(c) \/ Publish(c) \/ Save(c)
           \/ \E c \in Slots : Replay(c) \/ Return(c) \/ HandlerRaises(c) \/ AppendFails(c)
           \/ Crash
           \/ UNCHANGED calls
  BY DEF Next, Request, WorkflowPublishes, SessionEnds, Connect, Subscribe, Deliver, Disconnect

\* A request that is sent waits for its lock.
LEMMA Waits ==
    ASSUME Types, NEW c \in Slots, Send(c)
    PROVE  /\ calls' \in [Slots -> Call \cup {Idle}]
           /\ calls[c].pc = "idle" /\ calls'[c].pc = "waiting"
           /\ \A d \in Slots \ {c} : calls'[d] = calls[d]
           /\ used.calls + 1 \in 0..MaxCalls /\ used'.calls = used.calls + 1
  <1>1. PICK i \in Ids, content \in Contents :
           calls' = [calls EXCEPT ![c] = [pc |-> "waiting", id |-> i, content |-> content,
                                          run |-> 0, http |-> 200]]
    BY DEF Send
  <1>2. MaxCalls \in Nat BY BoundsAssumption
  <1>3. [pc |-> "waiting", id |-> i, content |-> content, run |-> 0, http |-> 200] \in Call
    BY <1>2 DEF Call
  <1>4. used.calls + 1 \in 0..MaxCalls BY <1>2 DEF Send, Types
  <1> QED BY <1>1, <1>3, <1>4 DEF Types, Send

\* No request without a number, and no lock with two holders.
LEMMA LockStep ==
    ASSUME Types, Numbered, OneHolder, Next
    PROVE  Numbered' /\ OneHolder'
  <1>1. ASSUME NEW c \in Slots, Send(c) PROVE Numbered' /\ OneHolder'
    <2>1. "waiting" \notin Locked BY DEF Locked, Writing
    <2> QED BY <1>1, <2>1, Waits DEF Numbered, OneHolder
  <1>2. ASSUME NEW c \in Slots, Handle(c) PROVE Numbered' /\ OneHolder'
    <2>1. history.runs[calls[c].id] + 1 # 0 BY <1>2, Entered DEF Types, Histories
    <2>2. \A d \in Slots : calls[d].pc \in Locked => calls[d].id # calls[c].id
      BY <1>2 DEF Handle, Enters, MayEnter
    <2> QED BY <1>2, <2>1, <2>2, Entered DEF Numbered, OneHolder
  <1>3. ASSUME NEW c \in Slots, Moves(c) PROVE Numbered' /\ OneHolder'
    <2>1. calls[c].pc \in Locked BY <1>3 DEF Moves
    <2> QED BY <1>3, <2>1, AfterMove DEF Numbered, OneHolder
  <1>4. ASSUME NEW c \in Slots, Leave(c) PROVE Numbered' /\ OneHolder'
    <2>1. Idle.pc \notin Locked BY CallTypes, <1>4
    <2> QED BY <1>4, <2>1, Left DEF Numbered, OneHolder
  <1>5. ASSUME Crash PROVE Numbered' /\ OneHolder'
    <2>1. \A c \in Slots : calls'[c].pc \notin Locked
      BY <1>5, CallTypes DEF Crash
    <2> QED BY <2>1 DEF Numbered, OneHolder
  <1>6. ASSUME UNCHANGED calls PROVE Numbered' /\ OneHolder'
    BY <1>6 DEF Numbered, OneHolder
  <1> QED BY <1>1, <1>2, <1>3, <1>4, <1>5, <1>6, StepKinds, InsideLock, EndOfRequest
-----------------------------------------------------------------------------
(* Types.                                                                  *)

\* The record a request leaves is a record, and never the absence of one.
LEMMA Recorded ==
    ASSUME Types, Numbered, NEW c \in Slots, calls[c].pc \in Locked
    PROVE  /\ RecordOf(calls[c]) \in Record /\ calls[c].id \in Ids
           /\ NoRecord \notin Record
  <1>1. calls[c] \in Call BY CallTypes
  <1>2. calls[c].run \in 1..MaxCalls
    <2>1. MaxCalls \in Nat BY BoundsAssumption
    <2> QED BY <1>1, <2>1 DEF Numbered, Call
  <1> QED BY <1>1, <1>2 DEF RecordOf, Record, NoRecord, Call

\* At most one request of an id is lost with its process.
LEMMA LostOfId ==
    ASSUME Types, OneHolder, NEW i \in Ids
    PROVE  LET lost == {c \in Slots : calls[c].pc \in Locked /\ calls[c].id = i}
           IN  /\ Cardinality(lost) \in Nat
               /\ lost # {} => Cardinality(lost) = 1
  <1> DEFINE lost == {c \in Slots : calls[c].pc \in Locked /\ calls[c].id = i}
  <1>1. lost = {} \/ \E c \in Slots : lost = {c} BY DEF OneHolder
  <1> HIDE DEF lost
  <1>2. Cardinality(lost) \in Nat /\ (lost # {} => Cardinality(lost) = 1)
    <2>1. CASE lost = {} BY <2>1, FS_EmptySet
    <2>2. ASSUME NEW c \in Slots, lost = {c} PROVE Cardinality(lost) = 1
      BY <2>2, FS_Singleton
    <2> QED BY <1>1, <2>1, <2>2
  <1> QED BY <1>2 DEF lost

\* The history keeps its type.
LEMMA HistoryStep ==
    ASSUME Types, Numbered, OneHolder, Next
    PROVE  history' \in Histories
  <1>0. history \in Histories /\ stored \in Nat BY DEF Types
  <1>1. ASSUME NEW i \in Ids, NEW r \in Record PROVE
           [history EXCEPT !.answers[i] = @ \cup {r}] \in Histories
    BY <1>0 DEF Histories
  <1>2. ASSUME NEW i \in Ids PROVE
           /\ [history EXCEPT !.failed[i] = @ + 1] \in Histories
           /\ [history EXCEPT !.failed[i] = @ + 1, !.torn = TRUE] \in Histories
           /\ \A n \in Nat : [history EXCEPT !.runs[i] = n] \in Histories
    <2>1. [history EXCEPT !.failed[i] = @ + 1] \in Histories BY <1>0 DEF Histories
    <2>2. [[history EXCEPT !.failed[i] = @ + 1] EXCEPT !.torn = TRUE] \in Histories
      BY <2>1 DEF Histories
    <2>3. [history EXCEPT !.failed[i] = @ + 1, !.torn = TRUE]
             = [[history EXCEPT !.failed[i] = @ + 1] EXCEPT !.torn = TRUE]
      BY <1>0 DEF Histories
    <2>4. \A n \in Nat : [history EXCEPT !.runs[i] = n] \in Histories
      BY <1>0 DEF Histories
    <2> QED BY <2>1, <2>2, <2>3, <2>4
  <1>3. [history EXCEPT !.missed = Missed] \in Histories BY <1>0 DEF Histories, Missed
  <1>4. ASSUME NEW c \in Slots, Send(c) PROVE history' \in Histories BY <1>0, <1>4 DEF Send
  <1>5. ASSUME NEW c \in Slots, Replay(c) PROVE history' \in Histories
    <2>1. calls[c].id \in Ids BY <1>5, CallTypes DEF Replay, Enters
    <2>2. records[calls[c].id] \in Record BY <1>5, <2>1 DEF Types, Replay
    <2> QED BY <1>0, <1>1, <1>5, <2>1, <2>2 DEF Replay
  <1>6. ASSUME NEW c \in Slots, Handle(c) PROVE history' \in Histories
    <2>1. calls[c].id \in Ids BY <1>6, Entered
    <2>2. history.runs[calls[c].id] + 1 \in Nat BY <1>0, <2>1 DEF Histories
    <2> QED BY <1>2, <1>6, <2>1, <2>2 DEF Handle
  <1>7. ASSUME NEW c \in Slots, Count(c) PROVE history' \in Histories
    BY <1>0, <1>7 DEF Count, Histories
  <1>8. ASSUME NEW c \in Slots, HandlerReturns(c) PROVE history' \in Histories
    BY <1>0, <1>8 DEF HandlerReturns
  <1>9. ASSUME NEW c \in Slots, Publish(c) PROVE history' \in Histories
    BY <1>3, <1>9 DEF Publish
  <1>10. ASSUME NEW c \in Slots, Save(c) PROVE history' \in Histories BY <1>0, <1>10 DEF Save
  <1>11. ASSUME NEW c \in Slots, Return(c) PROVE history' \in Histories
    <2>1. calls[c].pc \in Locked BY <1>11 DEF Return, Locked, Writing
    <2> QED BY <1>1, <1>11, <2>1, Recorded DEF Return, Answered
  <1>12. ASSUME NEW c \in Slots, HandlerRaises(c) \/ AppendFails(c)
         PROVE  history' \in Histories
    <2>1. calls[c].id \in Ids BY <1>12, EndOfRequest, CallTypes
    <2>2. CASE HandlerRaises(c) BY <1>2, <2>1, <2>2 DEF HandlerRaises
    <2>3. CASE AppendFails(c) BY <1>2, <2>1, <2>3 DEF AppendFails
    <2> QED BY <1>12, <2>2, <2>3
  <1>13. ASSUME Crash PROVE history' \in Histories
    <2> DEFINE f == [i \in Ids |-> history.failed[i]
                 + Cardinality({c \in Slots : calls[c].pc \in Locked /\ calls[c].id = i})]
               t == history.torn \/ \E c \in Slots : calls[c].pc \in {"appended", "replied"}
    <2>1. f \in [Ids -> Nat] BY <1>0, LostOfId DEF Histories
    <2>2. history' = [history EXCEPT !.failed = f, !.torn = t]
      BY <1>0, <1>13 DEF Crash, Histories
    <2>3. t \in BOOLEAN OBVIOUS
    <2> HIDE DEF f, t
    <2> QED BY <1>0, <2>1, <2>2, <2>3 DEF Histories
  <1>14. ASSUME WorkflowPublishes PROVE history' \in Histories
    BY <1>3, <1>14 DEF WorkflowPublishes
  <1>15. ASSUME SessionEnds \/ Connect \/ Subscribe \/ Deliver \/ Disconnect
         PROVE  history' \in Histories
    BY <1>0, <1>15 DEF SessionEnds, Connect, Subscribe, Deliver, Disconnect
  <1> QED BY <1>4, <1>5, <1>6, <1>7, <1>8, <1>9, <1>10, <1>11, <1>12, <1>13, <1>14, <1>15
          DEF Next, Request
\* Of a history, only the entry of a request changes the numbers of executions.
LEMMA RunsKept ==
    ASSUME Types, Next, ~\E c \in Slots : Handle(c)
    PROVE  history'.runs = history.runs
  <1>1. history \in Histories BY DEF Types
  <1>2. \/ UNCHANGED history
        \/ \E i, r : history' = [history EXCEPT !.answers[i] = @ \cup {r}]
        \/ history' = [history EXCEPT !.torn = FALSE]
        \/ history' = [history EXCEPT !.missed = Missed]
        \/ \E i : history' = [history EXCEPT !.failed[i] = @ + 1]
        \/ \E i : history' = [history EXCEPT !.failed[i] = @ + 1, !.torn = TRUE]
        \/ \E f, t : history' = [history EXCEPT !.failed = f, !.torn = t]
    <2>1. CASE Crash BY <2>1 DEF Crash
    <2>2. ASSUME NEW c \in Slots, Request(c), ~Handle(c)
          PROVE  \/ UNCHANGED history
                 \/ \E i, r : history' = [history EXCEPT !.answers[i] = @ \cup {r}]
                 \/ history' = [history EXCEPT !.torn = FALSE]
                 \/ history' = [history EXCEPT !.missed = Missed]
                 \/ \E i : history' = [history EXCEPT !.failed[i] = @ + 1]
                 \/ \E i : history' = [history EXCEPT !.failed[i] = @ + 1, !.torn = TRUE]
      BY <2>2 DEF Request, Send, Replay, Count, HandlerReturns, Publish, Save, Return, Answered,
                  HandlerRaises, AppendFails
    <2>3. CASE WorkflowPublishes BY <2>3 DEF WorkflowPublishes
    <2>4. CASE SessionEnds \/ Connect \/ Subscribe \/ Deliver \/ Disconnect
      BY <2>4 DEF SessionEnds, Connect, Subscribe, Deliver, Disconnect
    <2> QED BY <2>1, <2>2, <2>3, <2>4 DEF Next
  <1> QED BY <1>1, <1>2 DEF Histories

\* The requests that wait, after a step of each kind.
LEMMA WaitingAfter ==
    ASSUME Types, NEW c \in Slots
    PROVE  /\ Send(c) => WaitingSlots' = WaitingSlots \cup {c} /\ c \notin WaitingSlots
           /\ Handle(c) => WaitingSlots' = WaitingSlots \ {c} /\ c \in WaitingSlots
           /\ Moves(c) => WaitingSlots' = WaitingSlots
           /\ Leave(c) => WaitingSlots' = WaitingSlots \ {c}
           /\ Crash => WaitingSlots' = {}
  <1>1. ASSUME Send(c) PROVE WaitingSlots' = WaitingSlots \cup {c} /\ c \notin WaitingSlots
    BY <1>1, Waits DEF WaitingSlots
  <1>2. ASSUME Handle(c) PROVE WaitingSlots' = WaitingSlots \ {c} /\ c \in WaitingSlots
    BY <1>2, Entered DEF WaitingSlots
  <1>3. ASSUME Moves(c) PROVE WaitingSlots' = WaitingSlots
    <2>1. "waiting" \notin Locked BY DEF Locked, Writing
    <2>2. calls[c].pc \in Locked BY <1>3 DEF Moves
    <2> QED BY <1>3, <2>1, <2>2, AfterMove DEF WaitingSlots
  <1>4. ASSUME Leave(c) PROVE WaitingSlots' = WaitingSlots \ {c}
    <2>1. Idle.pc # "waiting" BY DEF Idle
    <2> QED BY <1>4, <2>1, Left DEF WaitingSlots
  <1>5. ASSUME Crash PROVE WaitingSlots' = {}
    BY <1>5 DEF Crash, WaitingSlots, Idle
  <1> QED BY <1>1, <1>2, <1>3, <1>4, <1>5

\* Every execution has a request of its own.
LEMMA SentStep ==
    ASSUME Types, Sent, Next
    PROVE  Sent'
  <1> DEFINE n == Cardinality(WaitingSlots)
  <1>0. /\ IsFiniteSet(WaitingSlots) /\ n \in Nat
        /\ history.runs \in [Ids -> Nat] /\ used.calls \in Nat
        /\ \A i \in Ids : history.runs[i] + n <= used.calls
    BY FS_CardinalityType, BoundsAssumption DEF Sent, Types, Histories
  <1>1. ASSUME NEW c \in Slots, Send(c) PROVE Sent'
    <2>1. IsFiniteSet(WaitingSlots') /\ Cardinality(WaitingSlots') = n + 1
      BY <1>0, <1>1, WaitingAfter, FS_AddElement
    <2>2. history' = history /\ used'.calls = used.calls + 1 BY <1>1, Waits DEF Send
    <2> QED BY <1>0, <2>1, <2>2 DEF Sent
  <1>2. ASSUME NEW c \in Slots, Handle(c) PROVE Sent'
    <2>1. IsFiniteSet(WaitingSlots') /\ Cardinality(WaitingSlots') = n - 1
      BY <1>0, <1>2, WaitingAfter, FS_RemoveElement
    <2>2. calls[c].id \in Ids BY <1>2, Entered
    <2>3. history'.runs = [history.runs EXCEPT ![calls[c].id] = @ + 1] /\ UNCHANGED used
      BY <1>2, <2>2 DEF Handle, Types, Histories
    <2> QED BY <1>0, <2>1, <2>2, <2>3 DEF Sent
  <1>3. ASSUME history'.runs = history.runs, used'.calls = used.calls,
               WaitingSlots' \subseteq WaitingSlots
        PROVE  Sent'
    <2>1. IsFiniteSet(WaitingSlots') /\ Cardinality(WaitingSlots') <= n
      BY <1>0, <1>3, FS_Subset
    <2>2. Cardinality(WaitingSlots') \in Nat BY <2>1, FS_CardinalityType
    <2> QED BY <1>0, <1>3, <2>1, <2>2 DEF Sent
  <1>4. CASE ~\E c \in Slots : Send(c) \/ Handle(c)
    <2>1. history'.runs = history.runs BY <1>4, RunsKept
    <2>2. used'.calls = used.calls
      BY <1>4 DEF Next, Request, Replay, Count, HandlerReturns, Publish, Save, Return,
                  HandlerRaises, AppendFails, Fault, Crash, WorkflowPublishes, SessionEnds,
                  Connect, Subscribe, Deliver, Disconnect, Types
    <2>3. WaitingSlots' \subseteq WaitingSlots
      <3>1. CASE Crash BY <3>1 DEF Crash, WaitingSlots, Idle
      <3>2. CASE UNCHANGED calls BY <3>2 DEF WaitingSlots
      <3> QED BY <1>4, <3>1, <3>2, StepKinds, InsideLock, EndOfRequest, WaitingAfter
    <2> QED BY <1>3, <2>1, <2>2, <2>3
  <1> QED BY <1>1, <1>2, <1>4

\* Every step keeps the types.
LEMMA TypesStep ==
    ASSUME CallInv, Next
    PROVE  Types'
  <1>0. Types /\ Numbered /\ OneHolder /\ Sent /\ MaxCalls \in Nat
    BY BoundsAssumption DEF CallInv
  <1>1. history' \in Histories BY <1>0, HistoryStep
  <1>2. calls' \in [Slots -> Call \cup {Idle}]
    <2>1. ASSUME NEW c \in Slots, Handle(c) PROVE calls' \in [Slots -> Call \cup {Idle}]
      <3>1. c \in WaitingSlots /\ calls[c].id \in Ids
        BY <1>0, <2>1, WaitingAfter, Entered
      <3>2. Cardinality(WaitingSlots) \in Nat /\ Cardinality(WaitingSlots) # 0
        BY <1>0, <3>1, FS_CardinalityType, FS_EmptySet DEF Sent
      <3>3. history.runs[calls[c].id] < MaxCalls
        BY <1>0, <3>1, <3>2 DEF Sent, Types, Histories
      <3> QED BY <1>0, <2>1, <3>3, Entered
    <2>2. CASE Crash BY <2>2 DEF Crash
    <2>3. CASE UNCHANGED calls BY <1>0, <2>3 DEF Types
    <2> QED BY <1>0, <2>1, <2>2, <2>3, StepKinds, Waits, InsideLock, AfterMove, EndOfRequest, Left
  <1>3. records' \in [Ids -> Record \cup {NoRecord}]
    <2>1. ASSUME NEW c \in Slots, Save(c) PROVE records' \in [Ids -> Record \cup {NoRecord}]
      <3>1. calls[c].pc \in Locked BY <2>1 DEF Save, Locked, Writing
      <3> QED BY <1>0, <2>1, <3>1, Recorded DEF Save, Types
    <2>2. CASE ~\E c \in Slots : Save(c)
      BY <1>0, <2>2 DEF Types, Next, Request, Send, Replay, Handle, Count, HandlerReturns,
           Publish, Return, HandlerRaises, AppendFails, Crash, WorkflowPublishes, SessionEnds,
           Connect, Subscribe, Deliver, Disconnect
    <2> QED BY <2>1, <2>2
  <1>4. file' \in [messages: Int, count: Int]
    <2>1. \A f \in {WithMessage(file), Counted(file), Restored(file), file} :
             f \in [messages: Int, count: Int]
      BY <1>0 DEF Types, WithMessage, Counted, Restored
    <2>2. file' \in {WithMessage(file), Counted(file), Restored(file), file}
      BY DEF Next, Request, Send, Replay, Handle, Count, HandlerReturns, Publish, Save, Return,
             HandlerRaises, AppendFails, Crash, WorkflowPublishes, SessionEnds,
             Connect, Subscribe, Deliver, Disconnect
    <2> QED BY <2>1, <2>2
  <1>5. used' \in [calls: 0..MaxCalls, faults: Nat, events: Nat, drops: Nat]
    <2>1. ASSUME NEW c \in Slots, Send(c)
          PROVE  used' \in [calls: 0..MaxCalls, faults: Nat, events: Nat, drops: Nat]
      BY <1>0, <2>1, Waits DEF Send, Types
    <2>2. CASE ~\E c \in Slots : Send(c)
      <3>1. used' \in {used, [used EXCEPT !.faults = @ + 1], [used EXCEPT !.events = @ + 1],
                       [used EXCEPT !.drops = @ + 1]}
        BY <2>2 DEF Next, Request, Replay, Handle, Count, HandlerReturns,
             Publish, Save, Return, HandlerRaises, AppendFails, Fault, Crash, WorkflowPublishes,
             SessionEnds, Connect, Subscribe, Deliver, Disconnect
      <3> QED BY <1>0, <3>1 DEF Types
    <2> QED BY <2>1, <2>2
  <1>6. closed' \in {closed, TRUE} /\ stored' \in {stored, stored + 1}
    BY DEF Next, Request, Send, Replay, Handle, Count, HandlerReturns, Publish,
         Published, Save, Return, HandlerRaises, AppendFails, Crash, WorkflowPublishes,
         SessionEnds, Connect, Subscribe, Deliver, Disconnect
  <1>7. closed' \in BOOLEAN /\ stored' \in Nat
    <2>1. closed \in BOOLEAN /\ stored \in Nat BY <1>0 DEF Types
    <2>2. closed' \in BOOLEAN BY <1>6, <2>1, Zenon
    <2>3. stored' \in Nat BY <1>6, <2>1
    <2> QED BY <2>2, <2>3
  <1> QED BY <1>1, <1>2, <1>3, <1>4, <1>5, <1>7 DEF Types

\* The requests in progress, their locks and their numbers.
LEMMA CallInvHolds == Spec => []CallInv
  <1>1. Init => CallInv
    <2> SUFFICES ASSUME Init PROVE CallInv OBVIOUS
    <2>1. Types
      <3>1. history \in Histories BY DEF Init, Histories
      <3>2. used \in [calls: 0..MaxCalls, faults: Nat, events: Nat, drops: Nat]
        BY BoundsAssumption DEF Init
      <3>3. calls \in [Slots -> Call \cup {Idle}] /\ records \in [Ids -> Record \cup {NoRecord}]
        BY DEF Init
      <3>4. file \in [messages: Int, count: Int] /\ stored \in Nat BY DEF Init
      <3>5. closed \in BOOLEAN BY DEF Init
      <3> QED BY <3>1, <3>2, <3>3, <3>4, <3>5 DEF Types
    <2>2. WaitingSlots = {} BY DEF Init, WaitingSlots, Idle
    <2>3. Sent BY <2>2, FS_EmptySet DEF Sent, Init
    <2>4. Numbered /\ OneHolder BY <2>1, CallTypes DEF Init, Numbered, OneHolder
    <2> QED BY <2>1, <2>3, <2>4 DEF CallInv
  <1>2. CallInv /\ [Next]_vars => CallInv'
    <2>1. CallInv /\ UNCHANGED vars => CallInv'
      BY DEF CallInv, Types, Numbered, OneHolder, Sent, WaitingSlots, vars
    <2>2. CallInv /\ Next => CallInv'
      BY TypesStep, LockStep, SentStep DEF CallInv
    <2> QED BY <2>1, <2>2
  <1> QED BY <1>1, <1>2, PTL DEF Spec
-----------------------------------------------------------------------------
(* Executions and answers.                                                 *)

\* While a request is executed its id has no record; on its way out the record
\* is its own; and whoever was answered got the record of the id.
AnswerInv ==
    /\ \A c \in Slots : calls[c].pc \in Locked =>
          records[calls[c].id] = IF calls[c].pc = "returning" THEN RecordOf(calls[c])
                                                              ELSE NoRecord
    /\ \A i \in Ids : \A a \in history.answers[i] : records[i] = a

\* Some request of the id is inside the lock.
Open(i) == \E c \in Slots : calls[c].pc \in Locked /\ calls[c].id = i

\* An execution failed, goes on, or has left its record.
ExecutionInv ==
    \A i \in Ids :
        \/ history.runs[i] <= history.failed[i]
        \/ history.runs[i] = history.failed[i] + 1 /\ (Open(i) \/ records[i] # NoRecord)

\* The parts of the history that the invariant speaks of.
SameRuns == /\ history'.runs = history.runs /\ history'.failed = history.failed
            /\ history'.answers = history.answers

\* Steps that neither fail nor answer.
LEMMA SameHistory ==
    ASSUME Types, NEW c \in Slots,
           \/ Send(c) \/ Count(c) \/ HandlerReturns(c) \/ Publish(c) \/ Save(c)
           \/ WorkflowPublishes \/ SessionEnds \/ Connect \/ Subscribe \/ Deliver \/ Disconnect
    PROVE  SameRuns
  <1>1. history \in Histories BY DEF Types
  <1>2. \/ UNCHANGED history
        \/ history' = [history EXCEPT !.torn = FALSE]
        \/ history' = [history EXCEPT !.missed = Missed]
    BY DEF Send, Count, HandlerReturns, Publish, Save, WorkflowPublishes, SessionEnds, Connect,
           Subscribe, Deliver, Disconnect
  <1> QED BY <1>1, <1>2 DEF Histories, SameRuns

\* A failed request is counted for its id.
LEMMA Failed ==
    ASSUME Types, NEW c \in Slots, HandlerRaises(c) \/ AppendFails(c)
    PROVE  /\ calls[c].pc \in Locked \ {"returning"} /\ calls[c].id \in Ids
           /\ UNCHANGED records
           /\ history'.runs = history.runs /\ history'.answers = history.answers
           /\ history'.failed = [history.failed EXCEPT ![calls[c].id] = @ + 1]
  <1>1. history \in Histories BY DEF Types
  <1>2. calls[c].pc \in Locked \ {"returning"} /\ UNCHANGED records
    BY DEF HandlerRaises, AppendFails, Locked, Writing
  <1>3. calls[c].id \in Ids BY <1>2, CallTypes
  <1>4. \/ history' = [history EXCEPT !.failed[calls[c].id] = @ + 1]
        \/ history' = [history EXCEPT !.failed[calls[c].id] = @ + 1, !.torn = TRUE]
    BY DEF HandlerRaises, AppendFails
  <1> QED BY <1>1, <1>2, <1>3, <1>4 DEF Histories

\* An answer is added for its id.
LEMMA AnswerAdded ==
    ASSUME Types, NEW i \in Ids, NEW a, history' = [history EXCEPT !.answers[i] = @ \cup {a}]
    PROVE  /\ history'.runs = history.runs /\ history'.failed = history.failed
           /\ history'.answers = [history.answers EXCEPT ![i] = @ \cup {a}]
  BY DEF Types, Histories

\* Every step keeps the answers and the account of executions.
LEMMA AnswerStep ==
    ASSUME CallInv, CallInv', AnswerInv, ExecutionInv, Next
    PROVE  AnswerInv' /\ ExecutionInv'
  <1>0. /\ Types /\ Numbered /\ OneHolder /\ Types'
        /\ history.runs \in [Ids -> Nat] /\ history.failed \in [Ids -> Nat]
        /\ history.answers \in [Ids -> SUBSET Record]
        /\ records \in [Ids -> Record \cup {NoRecord}]
    BY DEF CallInv, Types, Histories
  <1>00. /\ "waiting" \notin Locked /\ "idle" \notin Locked /\ "returning" \in Locked
         /\ {"handling", "saving", "appended"} \subseteq Locked \ {"returning"}
    BY DEF Locked, Writing
  <1>1. ASSUME NEW c \in Slots, Send(c) PROVE AnswerInv' /\ ExecutionInv'
    <2>1. SameRuns /\ UNCHANGED records BY <1>0, <1>1, SameHistory DEF Send
    <2>2. \A i \in Ids : Open(i)' <=> Open(i) BY <1>0, <1>00, <1>1, Waits DEF Open
    <2>3. AnswerInv' BY <1>0, <1>00, <1>1, <2>1, Waits DEF AnswerInv, SameRuns, RecordOf
    <2> QED BY <1>0, <2>1, <2>2, <2>3 DEF ExecutionInv, SameRuns
  <1>2. ASSUME NEW c \in Slots, Replay(c) PROVE AnswerInv' /\ ExecutionInv'
    <2> DEFINE i == calls[c].id
    <2>1. /\ i \in Ids /\ calls[c].pc = "waiting" /\ UNCHANGED records /\ Leave(c)
      BY <1>0, <1>2, CallTypes DEF Replay, Enters
    <2>2. \/ SameRuns
          \/ /\ history'.runs = history.runs /\ history'.failed = history.failed
             /\ history'.answers = [history.answers EXCEPT ![i] = @ \cup {records[i]}]
      BY <1>0, <1>2, <2>1, AnswerAdded DEF Replay, SameRuns
    <2>3. \A j \in Ids : Open(j)' <=> Open(j)
      BY <1>0, <1>00, <2>1, Left, CallTypes DEF Open
    <2>4. \A j \in Ids : \A a \in history'.answers[j] : records'[j] = a
      BY <1>0, <2>1, <2>2 DEF AnswerInv, SameRuns
    <2>5. AnswerInv'
      BY <1>0, <1>00, <2>1, <2>4, Left, CallTypes DEF AnswerInv, RecordOf
    <2> QED BY <1>0, <2>1, <2>2, <2>3, <2>5 DEF ExecutionInv, SameRuns
  <1>3. ASSUME NEW c \in Slots, Handle(c) PROVE AnswerInv' /\ ExecutionInv'
    <2> DEFINE i == calls[c].id
    <2>1. /\ i \in Ids /\ records[i] = NoRecord /\ UNCHANGED records
          /\ ~Open(i) /\ calls[c].pc = "waiting"
      BY <1>0, <1>3, Entered DEF Handle, Enters, MayEnter, Open
    <2>2. /\ history'.runs = [history.runs EXCEPT ![i] = @ + 1]
          /\ history'.failed = history.failed /\ history'.answers = history.answers
      BY <1>0, <1>3, <2>1 DEF Handle, Types, Histories
    <2>3. \A j \in Ids : Open(j)' <=> Open(j) \/ j = i
      BY <1>0, <1>00, <1>3, <2>1, Entered DEF Open
    <2>4. AnswerInv'
      BY <1>0, <1>00, <1>3, <2>1, <2>2, Entered DEF AnswerInv, RecordOf
    <2> QED BY <1>0, <2>1, <2>2, <2>3, <2>4 DEF ExecutionInv
  <1>4. ASSUME NEW c \in Slots, Count(c) \/ HandlerReturns(c) \/ Publish(c)
        PROVE  AnswerInv' /\ ExecutionInv'
    <2>1. SameRuns /\ UNCHANGED records /\ Moves(c)
      <3>1. SameRuns BY <1>0, <1>4, SameHistory
      <3>2. Moves(c) BY <1>0, <1>4, InsideLock
      <3>3. UNCHANGED records BY <1>4 DEF Count, HandlerReturns, Publish
      <3> QED BY <3>1, <3>2, <3>3
    <2>2. calls[c].pc # "returning"
      BY <1>4 DEF Count, HandlerReturns, Publish
    <2>3. calls'[c].pc # "returning"
      <3>1. calls[c] \in Call BY <1>0, <2>1, AfterMove
      <3>2. ASSUME NEW place, place # "returning", calls' = [calls EXCEPT ![c].pc = place]
            PROVE  calls'[c].pc # "returning"
        BY <1>0, <3>1, <3>2 DEF Types, Call
      <3>3. CASE Count(c) BY <3>2, <3>3 DEF Count, Goto
      <3>4. CASE Publish(c) BY <3>2, <3>4 DEF Publish, Goto
      <3>5. CASE HandlerReturns(c)
        <4>1. PICK http \in {200, 409} :
                 \E place \in {"replied", "publishing", "saving"} :
                    calls' = [calls EXCEPT ![c].pc = place, ![c].http = http]
          BY <3>5 DEF HandlerReturns
        <4>2. PICK place \in {"replied", "publishing", "saving"} :
                 calls' = [calls EXCEPT ![c].pc = place, ![c].http = http]
          BY <4>1
        <4> QED BY <1>0, <3>1, <4>2 DEF Types, Call
      <3> QED BY <1>4, <3>3, <3>4, <3>5
    <2>4. \A i \in Ids : Open(i)' <=> Open(i) BY <1>0, <2>1, AfterMove DEF Open, Moves
    <2>5. AnswerInv'
      <3>1. /\ calls[c].pc \in Locked /\ calls'[c].id = calls[c].id
            /\ \A d \in Slots \ {c} : calls'[d] = calls[d]
        BY <1>0, <2>1, AfterMove DEF Moves
      <3>2. ASSUME NEW d \in Slots, calls'[d].pc \in Locked
            PROVE  records'[calls'[d].id] = IF calls'[d].pc = "returning"
                                           THEN RecordOf(calls[d])' ELSE NoRecord
        <4>1. CASE d = c BY <2>1, <2>2, <2>3, <3>1, <4>1 DEF AnswerInv
        <4>2. CASE d # c
          <5>1. calls'[d] = calls[d] BY <3>1, <4>2
          <5>2. RecordOf(calls[d])' = RecordOf(calls[d]) BY <5>1 DEF RecordOf
          <5> QED BY <2>1, <3>2, <5>1, <5>2 DEF AnswerInv
        <4> QED BY <4>1, <4>2
      <3> QED BY <2>1, <3>2 DEF AnswerInv, SameRuns
    <2> QED BY <1>0, <2>1, <2>4, <2>5 DEF ExecutionInv, SameRuns
  <1>5. ASSUME NEW c \in Slots, Save(c) PROVE AnswerInv' /\ ExecutionInv'
    <2> DEFINE i == calls[c].id
    <2>1. /\ SameRuns /\ Moves(c) /\ calls[c].pc \in Locked /\ calls[c].pc # "returning"
      <3>1. SameRuns BY <1>0, <1>5, SameHistory
      <3>2. Moves(c) BY <1>0, <1>5, InsideLock
      <3> QED BY <1>5, <3>1, <3>2 DEF Save, Moves
    <2>2. i \in Ids /\ records' = [records EXCEPT ![i] = RecordOf(calls[c])]
          /\ RecordOf(calls[c]) # NoRecord
      BY <1>0, <1>5, <2>1, Recorded DEF Save
    <2>3. calls' = [calls EXCEPT ![c].pc = "returning"] BY <1>5 DEF Save, Goto
    <2>4. calls'[c].pc = "returning" /\ RecordOf(calls[c])' = RecordOf(calls[c])
      <3>1. calls[c] \in Call BY <1>0, <2>1, CallTypes
      <3> QED BY <1>0, <2>3, <3>1 DEF RecordOf, Types, Call
    <2>5. records[i] = NoRecord /\ history.answers[i] = {}
      <3>1. records[i] = NoRecord BY <2>1 DEF AnswerInv
      <3>2. NoRecord \notin Record BY <1>0, <2>1, Recorded
      <3> QED BY <1>0, <2>2, <3>1, <3>2 DEF AnswerInv
    <2>6. \A d \in Slots \ {c} : calls'[d] = calls[d]
                                /\ (calls[d].pc \in Locked => calls[d].id # i)
      BY <1>0, <2>1, AfterMove DEF OneHolder
    <2>7. calls'[c].id = i /\ \A j \in Ids : Open(j)' <=> Open(j)
      BY <1>0, <2>1, AfterMove DEF Open
    <2>8. \A j \in Ids : \A a \in history'.answers[j] : records'[j] = a
      BY <1>0, <2>1, <2>2, <2>5 DEF AnswerInv, SameRuns
    <2>9. ASSUME NEW d \in Slots, calls'[d].pc \in Locked
          PROVE  records'[calls'[d].id] = IF calls'[d].pc = "returning"
                                         THEN RecordOf(calls[d])' ELSE NoRecord
      <3>1. CASE d = c BY <1>0, <2>2, <2>4, <2>7, <3>1
      <3>2. CASE d # c
        <4>1. calls'[d] = calls[d] /\ calls[d].pc \in Locked /\ calls[d].id # i
          BY <2>6, <2>9, <3>2
        <4>2. calls[d].id \in Ids BY <1>0, <4>1, CallTypes
        <4> QED BY <1>0, <2>2, <4>1, <4>2 DEF AnswerInv, RecordOf
      <3> QED BY <3>1, <3>2
    <2>10. AnswerInv' BY <2>8, <2>9 DEF AnswerInv
    <2> QED BY <1>0, <2>1, <2>2, <2>7, <2>10 DEF ExecutionInv, SameRuns
  <1>6. ASSUME NEW c \in Slots, Return(c) PROVE AnswerInv' /\ ExecutionInv'
    <2> DEFINE i == calls[c].id
    <2>1. /\ calls[c].pc = "returning" /\ calls[c].pc \in Locked /\ UNCHANGED records /\ Leave(c)
      BY <1>00, <1>6 DEF Return
    <2>2. i \in Ids /\ RecordOf(calls[c]) # NoRecord /\ records[i] = RecordOf(calls[c])
      BY <1>0, <2>1, Recorded DEF AnswerInv
    <2>3. /\ history'.runs = history.runs /\ history'.failed = history.failed
          /\ history'.answers = [history.answers EXCEPT ![i] = @ \cup {RecordOf(calls[c])}]
      BY <1>0, <1>6, <2>2, AnswerAdded DEF Return, Answered
    <2>4. \A j \in Ids : Open(j)' <=> Open(j) /\ j # i
      BY <1>0, <1>00, <2>1, Left, CallTypes DEF Open, OneHolder
    <2>5. \A j \in Ids : \A a \in history'.answers[j] : records'[j] = a
      BY <1>0, <2>1, <2>2, <2>3 DEF AnswerInv
    <2>6. AnswerInv'
      BY <1>0, <1>00, <2>1, <2>5, Left, CallTypes DEF AnswerInv, RecordOf
    <2> QED BY <1>0, <2>1, <2>2, <2>3, <2>4, <2>6 DEF ExecutionInv
  <1>7. ASSUME NEW c \in Slots, HandlerRaises(c) \/ AppendFails(c)
        PROVE  AnswerInv' /\ ExecutionInv'
    <2> DEFINE i == calls[c].id
    <2>1. /\ calls[c].pc \in Locked \ {"returning"} /\ i \in Ids /\ UNCHANGED records
          /\ history'.runs = history.runs /\ history'.answers = history.answers
          /\ history'.failed = [history.failed EXCEPT ![i] = @ + 1]
          /\ Leave(c)
      BY <1>0, <1>7, Failed, EndOfRequest
    <2>2. \A j \in Ids : Open(j)' <=> Open(j) /\ j # i
      BY <1>0, <1>00, <2>1, Left, CallTypes DEF Open, OneHolder
    <2>3. AnswerInv'
      BY <1>0, <1>00, <2>1, Left, CallTypes DEF AnswerInv, RecordOf
    <2>4. records[i] = NoRecord BY <2>1 DEF AnswerInv
    <2> QED BY <1>0, <2>1, <2>2, <2>3, <2>4 DEF ExecutionInv
  <1>8. ASSUME Crash PROVE AnswerInv' /\ ExecutionInv'
    <2> DEFINE lost(i) == {c \in Slots : calls[c].pc \in Locked /\ calls[c].id = i}
               f == [i \in Ids |-> history.failed[i] + Cardinality(lost(i))]
    <2>1. UNCHANGED records /\ \A c \in Slots : calls'[c].pc \notin Locked
      BY <1>0, <1>8, CallTypes DEF Crash
    <2>2. /\ history'.runs = history.runs /\ history'.answers = history.answers
          /\ history'.failed = f
      BY <1>0, <1>8 DEF Crash, Types, Histories
    <2>3. \A i \in Ids : /\ Cardinality(lost(i)) \in Nat
                         /\ Open(i) => Cardinality(lost(i)) = 1
      BY <1>0, LostOfId DEF Open
    <2>4. \A i \in Ids : /\ f[i] \in Nat /\ f[i] >= history.failed[i]
                         /\ Open(i) => f[i] = history.failed[i] + 1
      BY <1>0, <2>3
    <2> HIDE DEF f, lost
    <2>5. AnswerInv' BY <2>1, <2>2 DEF AnswerInv
    <2>6. ExecutionInv' BY <1>0, <2>1, <2>2, <2>4 DEF ExecutionInv
    <2> QED BY <2>5, <2>6
  <1>9. ASSUME WorkflowPublishes \/ SessionEnds \/ Connect \/ Subscribe \/ Deliver \/ Disconnect
        PROVE  AnswerInv' /\ ExecutionInv'
    <2>1. UNCHANGED <<calls, records>>
      BY <1>9 DEF WorkflowPublishes, SessionEnds, Connect, Subscribe, Deliver, Disconnect
    <2>2. SameRuns
      <3>1. \/ UNCHANGED history
            \/ history' = [history EXCEPT !.missed = Missed]
        BY <1>9 DEF WorkflowPublishes, SessionEnds, Connect, Subscribe, Deliver, Disconnect
      <3> QED BY <1>0, <3>1 DEF Types, Histories, SameRuns
    <2> QED BY <2>1, <2>2 DEF AnswerInv, ExecutionInv, Open, SameRuns, RecordOf
  <1> QED BY <1>1, <1>2, <1>3, <1>4, <1>5, <1>6, <1>7, <1>8, <1>9 DEF Next, Request

\* However many requests repeat a request_id, in whatever order they and the
\* failures come: all answers are the same, and the handler ran once, and once
\* more for every request that ended in an exception or with the process.
THEOREM RepeatedRequestsAgree == Spec => []Idempotent
  <1>1. Init => AnswerInv /\ ExecutionInv
    <2> SUFFICES ASSUME Init PROVE AnswerInv /\ ExecutionInv OBVIOUS
    <2>1. \A c \in Slots : calls[c].pc \notin Locked BY DEF Init, Idle, Locked, Writing
    <2>2. \A i \in Ids : /\ history.answers[i] = {} /\ history.runs[i] = 0
                         /\ history.failed[i] = 0
      BY DEF Init
    <2> QED BY <2>1, <2>2 DEF AnswerInv, ExecutionInv
  <1>2. CallInv /\ CallInv' /\ AnswerInv /\ ExecutionInv /\ [Next]_vars
          => AnswerInv' /\ ExecutionInv'
    <2>1. AnswerInv /\ ExecutionInv /\ UNCHANGED vars => AnswerInv' /\ ExecutionInv'
      BY DEF AnswerInv, ExecutionInv, Open, RecordOf, vars
    <2> QED BY <2>1, AnswerStep
  <1>3. CallInv /\ AnswerInv /\ ExecutionInv => Idempotent
    <2> SUFFICES ASSUME CallInv, AnswerInv, ExecutionInv, NEW i \in Ids
                 PROVE  /\ Cardinality(history.answers[i]) <= 1
                        /\ history.runs[i] <= 1 + history.failed[i]
      BY DEF Idempotent
    <2>1. history.runs[i] \in Nat /\ history.failed[i] \in Nat
      BY DEF CallInv, Types, Histories
    <2>2. history.answers[i] = {} \/ history.answers[i] = {records[i]}
      BY DEF AnswerInv
    <2>3. Cardinality(history.answers[i]) <= 1
      <3>1. CASE history.answers[i] = {} BY <3>1, FS_EmptySet
      <3>2. CASE history.answers[i] = {records[i]}
        <4>1. Cardinality({records[i]}) = 1 BY FS_Singleton
        <4> QED BY <3>2, <4>1
      <3> QED BY <2>2, <3>1, <3>2
    <2> QED BY <2>1, <2>3 DEF ExecutionInv
  <1> QED BY <1>1, <1>2, <1>3, CallInvHolds, PTL DEF Spec
-----------------------------------------------------------------------------
(* The two files of a message.                                             *)

Appending(c) == calls[c].pc \in {"appended", "replied"}

\* A request that writes is the only one.
OneWriter == \A c, d \in Slots : calls[c].pc \in Writing /\ calls[d].pc \in Writing => c = d

\* Between the two writes of a message the count is one behind.
FileInv ==
    /\ file.messages \in Nat /\ file.count \in Nat
    /\ \A c \in Slots : Appending(c) => file.messages # 0
                                        /\ (~history.torn => file.messages = file.count + 1)
    /\ (\A c \in Slots : ~Appending(c)) => (~history.torn => file.messages = file.count)

\* Only a request that the event loop runs alone begins to write.
LEMMA WriterStep ==
    ASSUME Types, OneWriter, Next
    PROVE  OneWriter'
  <1>0. {"appended", "replied", "publishing", "saving", "returning"} = Writing
        /\ Idle.pc \notin Writing /\ "waiting" \notin Writing
    BY DEF Writing, Idle
  <1>1. ASSUME NEW c \in Slots, \A d \in Slots \ {c} : calls'[d] = calls[d],
               calls[c].pc \in Writing \/ Free \/ calls'[c].pc \notin Writing
        PROVE  OneWriter'
    BY <1>1 DEF OneWriter, Free
  <1>2. ASSUME NEW c \in Slots, Send(c) PROVE OneWriter' BY <1>0, <1>1, <1>2, Waits
  <1>3. ASSUME NEW c \in Slots, Handle(c) PROVE OneWriter'
    <2>1. Free BY <1>3 DEF Handle, Enters
    <2> QED BY <1>1, <1>3, <2>1, Entered
  <1>4. ASSUME NEW c \in Slots, Count(c) \/ HandlerReturns(c) \/ Publish(c) \/ Save(c)
        PROVE  OneWriter'
    <2>1. calls[c].pc \in Writing \/ Free
      BY <1>0, <1>4 DEF Count, HandlerReturns, Publish, Save
    <2>2. \A d \in Slots \ {c} : calls'[d] = calls[d] BY <1>4, InsideLock, AfterMove
    <2> QED BY <1>1, <2>1, <2>2
  <1>5. ASSUME NEW c \in Slots, Leave(c) PROVE OneWriter' BY <1>0, <1>1, <1>5, Left
  <1>6. ASSUME Crash PROVE OneWriter'
    BY <1>0, <1>6 DEF Crash, OneWriter
  <1>7. ASSUME UNCHANGED calls PROVE OneWriter' BY <1>7 DEF OneWriter
  <1> QED BY <1>2, <1>3, <1>4, <1>5, <1>6, <1>7, StepKinds, EndOfRequest

\* A step that leaves the file and the mark alone and no request between the writes.
LEMMA FileUntouched ==
    ASSUME FileInv, UNCHANGED file, history'.torn = history.torn,
           \A c \in Slots : Appending(c)' <=> Appending(c)
    PROVE  FileInv'
  BY DEF FileInv

\* Every step keeps the count.
LEMMA FileStep ==
    ASSUME CallInv, OneWriter, OneWriter', FileInv, Next
    PROVE  FileInv'
  <1>0. /\ Types /\ history \in Histories /\ file \in [messages: Int, count: Int]
        /\ file.messages \in Nat /\ file.count \in Nat /\ history.torn \in BOOLEAN
    BY DEF CallInv, Types, Histories, FileInv
  <1>00. /\ "waiting" \notin {"appended", "replied"} /\ Idle.pc \notin {"appended", "replied"}
         /\ {"appended", "replied"} \subseteq Writing
    BY DEF Idle, Writing
  <1>a. /\ WithMessage(file).messages = file.messages + 1 /\ WithMessage(file).count = file.count
        /\ Counted(file).messages = file.messages /\ Counted(file).count = file.messages
        /\ Restored(file).messages = file.messages - 1 /\ Restored(file).count = file.count
    BY <1>0 DEF WithMessage, Counted, Restored
  <1>b. ASSUME NEW c \in Slots, file' = WithMessage(file), history'.torn = history.torn,
               Appending(c)', ~\E d \in Slots : Appending(d)
        PROVE  FileInv'
    BY <1>0, <1>a, <1>b DEF FileInv
  <1>1. ASSUME NEW c \in Slots, Send(c) PROVE FileInv'
    <2>1. \A d \in Slots : Appending(d)' <=> Appending(d)
      BY <1>0, <1>00, <1>1, Waits DEF Appending
    <2> QED BY <1>1, <2>1, FileUntouched DEF Send
  <1>2. ASSUME NEW c \in Slots, Replay(c) \/ Return(c) PROVE FileInv'
    <2>1. Leave(c) /\ UNCHANGED file /\ calls[c].pc \notin {"appended", "replied"}
      BY <1>2, EndOfRequest DEF Replay, Return, Enters
    <2>2. \A d \in Slots : Appending(d)' <=> Appending(d)
      BY <1>0, <1>00, <2>1, Left DEF Appending
    <2>3. history'.torn = history.torn
      <3>1. history' = history \/ \E i, a : history' = [history EXCEPT !.answers[i] = @ \cup {a}]
        BY <1>2 DEF Replay, Return, Answered
      <3> QED BY <1>0, <3>1 DEF Histories
    <2> QED BY <2>1, <2>2, <2>3, FileUntouched
  <1>3. ASSUME NEW c \in Slots, Handle(c) PROVE FileInv'
    <2>1. ~\E d \in Slots : Appending(d) BY <1>00, <1>3 DEF Handle, Enters, Free, Appending
    <2>2. history'.torn = history.torn
      <3>1. history' = [history EXCEPT !.runs[calls[c].id] = history.runs[calls[c].id] + 1]
        BY <1>3 DEF Handle
      <3> QED BY <1>0, <3>1 DEF Histories
    <2>3. \/ Appending(c)' /\ file' = WithMessage(file)
          \/ ~Appending(c)' /\ UNCHANGED file
      <3> DEFINE place == CASE calls[c].content \in Actions -> "handling"
                            [] closed -> "saving"
                            [] OTHER -> "appended"
                 run == history.runs[calls[c].id] + 1
      <3>1. /\ calls' = [calls EXCEPT ![c].pc = place, ![c].run = run]
            /\ file' = IF place = "appended" THEN WithMessage(file) ELSE file
        BY <1>3 DEF Handle
      <3>2. place \in {"handling", "saving", "appended"}
        <4>1. calls[c].content \in Contents BY <1>0, <1>3, Entered, CallTypes
        <4> QED BY <1>0, <4>1, ContentsAssumption DEF Contents, Types
      <3> HIDE DEF place, run
      <3>3. calls'[c].pc = place
        <4>1. calls[c] \in Call BY <1>0, <1>3, Entered
        <4> QED BY <1>0, <3>1, <4>1 DEF Types, Call
      <3> QED BY <3>1, <3>2, <3>3 DEF Appending
    <2>4. \A d \in Slots \ {c} : calls'[d] = calls[d] BY <1>0, <1>3, Entered
    <2>5. CASE Appending(c)' /\ file' = WithMessage(file)
      BY <1>b, <2>1, <2>2, <2>5
    <2>6. CASE ~Appending(c)' /\ UNCHANGED file
      <3>1. \A d \in Slots : Appending(d)' <=> Appending(d) BY <2>1, <2>4, <2>6 DEF Appending
      <3> QED BY <2>2, <2>6, <3>1, FileUntouched
    <2> QED BY <2>3, <2>5, <2>6
  <1>4. ASSUME NEW c \in Slots, Count(c) PROVE FileInv'
    <2>1. Appending(c) /\ file' = Counted(file) BY <1>4 DEF Count, Appending
    <2>2. \A d \in Slots : ~Appending(d)'
      <3>1. ~Appending(c)'
        <4>1. calls[c] \in Call BY <1>0, <1>4, InsideLock, AfterMove
        <4> QED BY <1>0, <1>4, <4>1 DEF Count, Goto, Types, Call, Appending
      <3>2. ASSUME NEW d \in Slots \ {c} PROVE ~Appending(d)'
        <4>1. calls'[d] = calls[d] BY <1>0, <1>4, InsideLock, AfterMove
        <4>2. ~Appending(d) BY <1>00, <2>1 DEF Appending, OneWriter
        <4> QED BY <4>1, <4>2 DEF Appending
      <3> QED BY <3>1, <3>2
    <2> QED BY <1>0, <1>a, <2>1, <2>2 DEF FileInv
  <1>5. ASSUME NEW c \in Slots, HandlerReturns(c) PROVE FileInv'
    <2>1. (\A d \in Slots : ~Appending(d)) /\ UNCHANGED history
      BY <1>00, <1>5 DEF HandlerReturns, Free, Appending
    <2>2. \A d \in Slots \ {c} : calls'[d] = calls[d] BY <1>0, <1>5, InsideLock, AfterMove
    <2>3. calls[c] \in Call BY <1>0, <1>5, InsideLock, AfterMove
    <2>4. PICK http \in {200, 409} :
             \/ /\ calls' = [calls EXCEPT ![c].pc = "replied", ![c].http = http]
                /\ file' = WithMessage(file)
             \/ \E place \in {"publishing", "saving"} :
                   /\ calls' = [calls EXCEPT ![c].pc = place, ![c].http = http]
                   /\ UNCHANGED file
      BY <1>5 DEF HandlerReturns
    <2>5. \/ Appending(c)' /\ file' = WithMessage(file)
          \/ ~Appending(c)' /\ UNCHANGED file
      BY <1>0, <2>3, <2>4 DEF Types, Call, Appending
    <2>6. CASE ~Appending(c)' /\ UNCHANGED file
      <3>1. \A d \in Slots : Appending(d)' <=> Appending(d) BY <2>1, <2>2, <2>6 DEF Appending
      <3> QED BY <2>1, <2>6, <3>1, FileUntouched
    <2> QED BY <1>b, <2>1, <2>5, <2>6
  <1>6. ASSUME NEW c \in Slots, Publish(c) \/ Save(c) PROVE FileInv'
    <2>1. UNCHANGED file /\ ~Appending(c) BY <1>6 DEF Publish, Save, Appending
    <2>2. history'.torn = history.torn
      <3>1. history' = history \/ history' = [history EXCEPT !.missed = Missed]
        BY <1>6 DEF Publish, Save
      <3> QED BY <1>0, <3>1 DEF Histories
    <2>3. ~Appending(c)'
      <3>1. calls[c] \in Call BY <1>0, <1>6, InsideLock, AfterMove
      <3> QED BY <1>0, <1>6, <3>1 DEF Publish, Save, Goto, Types, Call, Appending
    <2>4. \A d \in Slots \ {c} : calls'[d] = calls[d] BY <1>0, <1>6, InsideLock, AfterMove
    <2>5. \A d \in Slots : Appending(d)' <=> Appending(d) BY <2>1, <2>3, <2>4 DEF Appending
    <2> QED BY <2>1, <2>2, <2>5, FileUntouched
  <1>7. ASSUME NEW c \in Slots, HandlerRaises(c) PROVE FileInv'
    <2>1. Leave(c) /\ UNCHANGED file /\ ~Appending(c)
      BY <1>7, EndOfRequest DEF HandlerRaises, Appending
    <2>2. history'.torn = history.torn BY <1>0, <1>7 DEF HandlerRaises, Histories
    <2>3. \A d \in Slots : Appending(d)' <=> Appending(d)
      BY <1>0, <1>00, <2>1, Left DEF Appending
    <2> QED BY <2>1, <2>2, <2>3, FileUntouched
  <1>8. ASSUME NEW c \in Slots, AppendFails(c) PROVE FileInv'
    <2>1. Leave(c) /\ Appending(c) BY <1>8, EndOfRequest DEF AppendFails, Appending
    <2>2. \A d \in Slots : ~Appending(d)'
      BY <1>0, <1>00, <2>1, Left DEF Appending, OneWriter
    <2>3. \/ file' = Restored(file) /\ history'.torn = history.torn
          \/ file' = file /\ history'.torn = TRUE
      BY <1>0, <1>8 DEF AppendFails, Histories
    <2> QED BY <1>0, <1>a, <2>1, <2>2, <2>3 DEF FileInv
  <1>9. ASSUME Crash PROVE FileInv'
    <2>1. UNCHANGED file /\ \A c \in Slots : ~Appending(c)'
      BY <1>00, <1>9 DEF Crash, Appending
    <2>2. history'.torn = (history.torn \/ \E c \in Slots : Appending(c))
      <3> DEFINE t == history.torn \/ \E c \in Slots : calls[c].pc \in {"appended", "replied"}
      <3>1. \E f : history' = [history EXCEPT !.failed = f, !.torn = t]
        <4> DEFINE f == [i \in Ids |-> history.failed[i]
                   + Cardinality({c \in Slots : calls[c].pc \in Locked /\ calls[c].id = i})]
        <4>1. history' = [history EXCEPT !.failed = f, !.torn = t]
          BY <1>0, <1>9 DEF Crash, Histories
        <4> HIDE DEF f, t
        <4> QED BY <4>1
      <3> HIDE DEF t
      <3>2. history'.torn = t BY <1>0, <3>1 DEF Histories
      <3> QED BY <3>2 DEF t, Appending
    <2> QED BY <1>0, <2>1, <2>2 DEF FileInv
  <1>10. ASSUME WorkflowPublishes \/ SessionEnds \/ Connect \/ Subscribe \/ Deliver \/ Disconnect
         PROVE  FileInv'
    <2>1. UNCHANGED <<calls, file>>
          /\ (history' = history \/ history' = [history EXCEPT !.missed = Missed])
      BY <1>10 DEF WorkflowPublishes, SessionEnds, Connect, Subscribe, Deliver, Disconnect
    <2>2. history'.torn = history.torn BY <1>0, <2>1 DEF Histories
    <2> QED BY <2>1, <2>2, FileUntouched DEF Appending
  <1> QED BY <1>1, <1>2, <1>3, <1>4, <1>5, <1>6, <1>7, <1>8, <1>9, <1>10 DEF Next, Request

\* The messages and their count.
LEMMA FileInvHolds == Spec => [](OneWriter /\ FileInv)
  <1>1. Init => OneWriter /\ FileInv
    BY DEF Init, OneWriter, FileInv, Idle, Writing, Appending
  <1>2. CallInv /\ OneWriter /\ FileInv /\ [Next]_vars => OneWriter' /\ FileInv'
    <2>1. OneWriter /\ FileInv /\ UNCHANGED vars => OneWriter' /\ FileInv'
      BY DEF OneWriter, FileInv, Appending, vars
    <2>2. CallInv /\ OneWriter /\ FileInv /\ Next => OneWriter' /\ FileInv'
      BY WriterStep, FileStep DEF CallInv
    <2> QED BY <2>1, <2>2
  <1> QED BY <1>1, <1>2, CallInvHolds, PTL DEF Spec

\* Outside an append the count is that of the messages, unless the last append
\* ended between its two files; no other request comes in between.
THEOREM CountIsKept == Spec => []CountAgrees
  <1>1. FileInv => CountAgrees BY DEF FileInv, CountAgrees, Appending
  <1> QED BY <1>1, FileInvHolds, PTL
-----------------------------------------------------------------------------
(* The event stream.                                                       *)

Rising(s) == \A j, k \in DOMAIN s : j < k => s[j] < s[k]
Has(s, e) == \E k \in DOMAIN s : s[k] = e

\* A client has a rising part of the events; what is left to deliver rises above it;
\* and while a connection exists nothing but the missed events is outside both.
StreamInv ==
    /\ stream \in [pc: {"off", "listed", "open"}, todo: Seq(1..stored)]
    /\ received \in Seq(1..stored)
    /\ Rising(received) /\ Rising(stream.todo)
    /\ \A j \in DOMAIN received, k \in DOMAIN stream.todo : received[j] < stream.todo[k]
    /\ \A j \in DOMAIN received, e \in 1..stored :
          e <= received[j] => Has(received, e) \/ e \in history.missed
    /\ stream.pc # "off" => \A e \in 1..stored :
          Has(received, e) \/ Has(stream.todo, e) \/ e \in history.missed
    /\ stream.pc = "off" => stream.todo = <<>>

\* The elements of a sequence, and a function that is one.
LEMMA Elements ==
    ASSUME NEW S, NEW s \in Seq(S)
    PROVE  /\ DOMAIN s = 1..Len(s) /\ Len(s) \in Nat
           /\ \A k \in DOMAIN s : k \in Nat /\ s[k] \in S
  OBVIOUS

LEMMA IsSequence ==
    ASSUME NEW S, NEW n \in Nat, NEW f \in [1..n -> S]
    PROVE  f \in Seq(S)
  OBVIOUS

\* One more element at the end.
LEMMA Appended ==
    ASSUME NEW S, NEW s \in Seq(S), NEW e \in S
    PROVE  /\ Append(s, e) \in Seq(S) /\ DOMAIN Append(s, e) = 1..Len(s) + 1
           /\ DOMAIN s = 1..Len(s) /\ Len(s) \in Nat
           /\ \A k \in DOMAIN s : Append(s, e)[k] = s[k]
           /\ Append(s, e)[Len(s) + 1] = e
           /\ \A x : Has(Append(s, e), x) <=> Has(s, x) \/ x = e
  <1>1. /\ Append(s, e) \in Seq(S) /\ DOMAIN Append(s, e) = 1..Len(s) + 1
        /\ DOMAIN s = 1..Len(s) /\ Len(s) \in Nat
        /\ \A k \in DOMAIN s : Append(s, e)[k] = s[k]
        /\ Append(s, e)[Len(s) + 1] = e
    OBVIOUS
  <1> DEFINE t == Append(s, e)
  <1> HIDE DEF t
  <1>2. \A x : Has(t, x) <=> Has(s, x) \/ x = e BY <1>1 DEF Has, t
  <1> QED BY <1>1, <1>2 DEF t

\* The first element and the others.
LEMMA Split ==
    ASSUME NEW S, NEW s \in Seq(S), s # <<>>
    PROVE  /\ Head(s) \in S /\ Head(s) = s[1] /\ 1 \in DOMAIN s
           /\ Tail(s) \in Seq(S)
           /\ \A k \in DOMAIN Tail(s) : k \in Nat /\ k + 1 \in DOMAIN s /\ Tail(s)[k] = s[k + 1]
           /\ \A k \in DOMAIN s : k = 1 \/ k - 1 \in DOMAIN Tail(s)
  OBVIOUS

\* The sequences of a range grow with it.
LEMMA Wider ==
    ASSUME NEW n \in Nat, NEW s \in Seq(1..n)
    PROVE  s \in Seq(1..n + 1)
  OBVIOUS

\* The last event a client has got.
LEMMA LastIsLargest ==
    ASSUME stored \in Nat, received \in Seq(1..stored), Rising(received)
    PROVE  /\ LastReceived \in 0..stored
           /\ \A j \in DOMAIN received : received[j] <= LastReceived
           /\ received # <<>> => \E j \in DOMAIN received : received[j] = LastReceived
           /\ received = <<>> => LastReceived = 0
  <1>1. CASE received = <<>> BY <1>1 DEF LastReceived
  <1>2. CASE received # <<>>
    <2>1. Len(received) \in DOMAIN received /\ LastReceived = received[Len(received)]
      BY <1>2 DEF LastReceived, Last
    <2>2. \A j \in DOMAIN received : j \in Nat /\ j <= Len(received) /\ received[j] \in 1..stored
      OBVIOUS
    <2> QED BY <1>2, <2>1, <2>2 DEF Rising
  <1> QED BY <1>1, <1>2

\* A new event goes to the end of an open stream, and is missed by one that has
\* listed the events and does not listen yet.
LEMMA EventStep ==
    ASSUME Types, StreamInv, Published, history' = [history EXCEPT !.missed = Missed],
           UNCHANGED received
    PROVE  StreamInv'
  <1> DEFINE e == stored + 1
  <1>0. /\ stored \in Nat /\ stored' = e /\ e \in Nat /\ e \in 1..e /\ 1..e = 1..stored \cup {e}
        /\ history'.missed = Missed /\ history.missed \subseteq Missed
    BY DEF Types, Histories, Published, Missed
  <1>1. received' \in Seq(1..e) /\ stream.todo \in Seq(1..e)
    BY <1>0, Wider DEF StreamInv
  <1>2. \A j \in DOMAIN received : received[j] \in 1..stored
    BY Elements DEF StreamInv
  <1>3. \A k \in DOMAIN stream.todo : stream.todo[k] \in 1..stored
    <2>1. stream.todo \in Seq(1..stored) BY DEF StreamInv
    <2> QED BY <2>1, Elements
  <1>4. \A j \in DOMAIN received', x \in 1..stored' :
           x <= received'[j] => Has(received', x) \/ x \in history'.missed
    BY <1>0, <1>2 DEF StreamInv
  <1>5. CASE stream.pc = "open"
    <2> DEFINE s == stream.todo
               n == Len(s)
               t == Append(s, e)
    <2>1. stream'.pc = "open" /\ stream'.todo = t BY <1>5 DEF Published, StreamInv
    <2>2. /\ t \in Seq(1..e) /\ DOMAIN t = 1..n + 1 /\ DOMAIN s = 1..n /\ n \in Nat
          /\ \A k \in DOMAIN s : t[k] = s[k]
          /\ t[n + 1] = e
          /\ \A x : Has(t, x) <=> Has(s, x) \/ x = e
      <3>1. s \in Seq(1..e) /\ e \in 1..e BY <1>0, <1>1
      <3> HIDE DEF s, e
      <3> QED BY <3>1, Appended
    <2>7. /\ Rising(s) /\ \A j \in DOMAIN received, k \in DOMAIN s : received[j] < s[k]
          /\ \A k \in DOMAIN s : s[k] \in 1..stored
      BY <1>3 DEF StreamInv
    <2>8. \A k \in DOMAIN t : k \in DOMAIN s \/ k = n + 1 BY <2>2
    <2> HIDE DEF t, n
    <2>3. Rising(t)
      <3> SUFFICES ASSUME NEW j \in DOMAIN t, NEW k \in DOMAIN t, j < k PROVE t[j] < t[k]
        BY DEF Rising
      <3>1. j \in DOMAIN s BY <2>2
      <3>2. CASE k \in DOMAIN s BY <2>2, <2>7, <3>1, <3>2 DEF Rising
      <3>3. CASE k = n + 1 BY <1>0, <2>2, <2>7, <3>1, <3>3
      <3> QED BY <2>8, <3>2, <3>3
    <2>4. \A j \in DOMAIN received, k \in DOMAIN t : received[j] < t[k]
      <3> SUFFICES ASSUME NEW j \in DOMAIN received, NEW k \in DOMAIN t PROVE received[j] < t[k]
        OBVIOUS
      <3>1. CASE k \in DOMAIN s BY <2>2, <2>7, <3>1
      <3>2. CASE k = n + 1 BY <1>0, <1>2, <2>2, <3>2
      <3> QED BY <2>8, <3>1, <3>2
    <2>5. \A x \in 1..stored' : Has(received, x) \/ Has(t, x) \/ x \in history'.missed
      BY <1>0, <1>5, <2>2 DEF StreamInv
    <2>6. stream' \in [pc: {"off", "listed", "open"}, todo: Seq(1..stored')]
      BY <1>0, <1>5, <2>2 DEF Published, StreamInv, t
    <2> QED BY <1>0, <1>1, <1>4, <2>1, <2>3, <2>4, <2>5, <2>6 DEF StreamInv
  <1>6. CASE stream.pc # "open"
    <2>1. stream' = stream BY <1>6 DEF Published
    <2>2. stream.pc = "listed" => e \in history'.missed BY <1>0 DEF Missed
    <2>3. stream' \in [pc: {"off", "listed", "open"}, todo: Seq(1..stored')]
      BY <1>0, <1>1, <2>1 DEF StreamInv
    <2>4. stream.pc # "off" => \A x \in 1..stored' :
             Has(received, x) \/ Has(stream.todo, x) \/ x \in history'.missed
      BY <1>0, <1>6, <2>2 DEF StreamInv
    <2> QED BY <1>0, <1>1, <1>4, <2>1, <2>3, <2>4 DEF StreamInv
  <1> QED BY <1>5, <1>6

\* Every step keeps the stream.
LEMMA StreamStep ==
    ASSUME CallInv, CallInv', StreamInv, Next
    PROVE  StreamInv'
  <1>0. Types /\ Types' /\ stored \in Nat /\ history \in Histories BY DEF CallInv, Types
  <1>1. ASSUME UNCHANGED <<stored, stream, received>>, history'.missed = history.missed
        PROVE  StreamInv'
    BY <1>1 DEF StreamInv
  <1>2. ASSUME UNCHANGED <<stored, received>>, history'.missed = history.missed,
               stream' = [pc |-> "off", todo |-> <<>>]
        PROVE  StreamInv'
    <2>1. stream'.pc = "off" /\ stream'.todo = <<>> /\ DOMAIN stream'.todo = {} BY <1>2
    <2>2. stream' \in [pc: {"off", "listed", "open"}, todo: Seq(1..stored)] BY <1>2
    <2>3. Rising(stream'.todo) BY <2>1 DEF Rising
    <2> QED BY <1>2, <2>1, <2>2, <2>3 DEF StreamInv
  <1>3. ASSUME NEW c \in Slots, Request(c), ~Publish(c) PROVE StreamInv'
    <2>1. UNCHANGED <<stored, stream, received>>
      BY <1>3 DEF Request, Send, Replay, Handle, Count, HandlerReturns, Save, Return,
                  HandlerRaises, AppendFails
    <2>2. history'.missed = history.missed
      <3>1. \/ UNCHANGED history
            \/ \E i, r : history' = [history EXCEPT !.answers[i] = @ \cup {r}]
            \/ \E i, n : history' = [history EXCEPT !.runs[i] = n]
            \/ history' = [history EXCEPT !.torn = FALSE]
            \/ \E i : history' = [history EXCEPT !.failed[i] = @ + 1]
            \/ \E i : history' = [history EXCEPT !.failed[i] = @ + 1, !.torn = TRUE]
        <4>1. CASE Handle(c) BY <4>1 DEF Handle
        <4>2. CASE ~Handle(c)
          BY <1>3, <4>2 DEF Request, Send, Replay, Count, HandlerReturns, Save, Return, Answered,
                            HandlerRaises, AppendFails
        <4> QED BY <4>1, <4>2
      <3> QED BY <1>0, <3>1 DEF Histories
    <2> QED BY <1>1, <2>1, <2>2
  <1>4. ASSUME NEW c \in Slots, Publish(c) PROVE StreamInv'
    BY <1>0, <1>4, EventStep DEF Publish
  <1>5. CASE WorkflowPublishes BY <1>0, <1>5, EventStep DEF WorkflowPublishes
  <1>6. CASE Crash
    <2>1. history'.missed = history.missed
      <3> DEFINE f == [i \in Ids |-> history.failed[i]
                 + Cardinality({c \in Slots : calls[c].pc \in Locked /\ calls[c].id = i})]
                 t == history.torn \/ \E c \in Slots : calls[c].pc \in {"appended", "replied"}
      <3>1. history' = [history EXCEPT !.failed = f, !.torn = t]
        BY <1>0, <1>6 DEF Crash, Histories
      <3> HIDE DEF f, t
      <3> QED BY <1>0, <3>1 DEF Histories
    <2> QED BY <1>2, <1>6, <2>1 DEF Crash
  <1>7. CASE SessionEnds BY <1>1, <1>7 DEF SessionEnds
  <1>8. CASE Disconnect BY <1>2, <1>8 DEF Disconnect
  <1>9. CASE Subscribe
    <2>1. /\ UNCHANGED <<stored, received, history>> /\ stream.pc = "listed"
          /\ stream' = [stream EXCEPT !.pc = "open"]
      BY <1>9 DEF Subscribe
    <2>2. /\ stream'.pc = "open" /\ stream'.todo = stream.todo
          /\ stream' \in [pc: {"off", "listed", "open"}, todo: Seq(1..stored)]
      BY <2>1 DEF StreamInv
    <2> QED BY <2>1, <2>2 DEF StreamInv
  <1>10. CASE Connect
    <2> DEFINE L == LastReceived
    <2>1. /\ L \in 0..stored /\ \A j \in DOMAIN received : received[j] <= L
          /\ received # <<>> => \E j \in DOMAIN received : received[j] = L
          /\ received = <<>> => L = 0
      BY <1>0, LastIsLargest DEF StreamInv
    <2>2. /\ UNCHANGED <<stored, received, history>>
          /\ stream' = [pc |-> "listed", todo |-> Listed]
      BY <1>10 DEF Connect
    <2>3. Listed = [k \in 1..(stored + 1 - (L + 1)) |-> L + 1 + k - 1]
      BY DEF Listed, StartIndex
    <2> HIDE DEF L
    <2>4. stored - L \in Nat /\ stored + 1 - (L + 1) = stored - L BY <1>0, <2>1
    <2>5. /\ DOMAIN Listed = 1..(stored - L)
          /\ \A k \in 1..(stored - L) : Listed[k] = L + k /\ L + k \in 1..stored
      BY <1>0, <2>1, <2>3, <2>4
    <2>6. Listed \in Seq(1..stored)
      <3>1. Listed \in [1..(stored - L) -> 1..stored] BY <2>3, <2>4, <2>5
      <3> QED BY <2>4, <3>1, IsSequence
    <2>7. Rising(Listed) BY <1>0, <2>1, <2>4, <2>5 DEF Rising
    <2>8. \A j \in DOMAIN received, k \in DOMAIN Listed : received[j] < Listed[k]
      <3>1. \A j \in DOMAIN received : received[j] \in 1..stored
        BY Elements DEF StreamInv
      <3> QED BY <1>0, <2>1, <2>4, <2>5, <3>1
    <2>9. \A e \in 1..stored : Has(received, e) \/ Has(Listed, e) \/ e \in history.missed
      <3> SUFFICES ASSUME NEW e \in 1..stored
                   PROVE  Has(received, e) \/ Has(Listed, e) \/ e \in history.missed
        OBVIOUS
      <3>1. CASE e <= L
        <4>1. PICK j \in DOMAIN received : received[j] = L BY <2>1, <3>1
        <4> QED BY <3>1, <4>1 DEF StreamInv
      <3>2. CASE e > L
        <4>1. e - L \in 1..(stored - L) /\ L + (e - L) = e BY <1>0, <2>1, <2>4, <3>2
        <4> QED BY <2>5, <4>1 DEF Has
      <3> QED BY <1>0, <2>1, <3>1, <3>2
    <2>10. stream'.pc = "listed" /\ stream'.todo = Listed
           /\ stream' \in [pc: {"off", "listed", "open"}, todo: Seq(1..stored)]
      BY <2>2, <2>6
    <2> QED BY <2>2, <2>7, <2>8, <2>9, <2>10 DEF StreamInv
  <1>11. CASE Deliver
    <2> DEFINE s == stream.todo
               h == Head(s)
               r == Append(received, h)
    <2>1. /\ stream.pc = "open" /\ s # <<>> /\ UNCHANGED <<stored, history>>
          /\ received' = r /\ stream' = [stream EXCEPT !.todo = Tail(s)]
      BY <1>11 DEF Deliver
    <2>2. s \in Seq(1..stored) /\ received \in Seq(1..stored) BY DEF StreamInv
    <2>3. /\ h \in 1..stored /\ h = s[1] /\ 1 \in DOMAIN s /\ Tail(s) \in Seq(1..stored)
          /\ \A k \in DOMAIN Tail(s) : k \in Nat /\ k + 1 \in DOMAIN s /\ Tail(s)[k] = s[k + 1]
          /\ \A k \in DOMAIN s : k = 1 \/ k - 1 \in DOMAIN Tail(s)
      BY <2>1, <2>2, Split
    <2>4. /\ r \in Seq(1..stored) /\ DOMAIN r = 1..Len(received) + 1
          /\ DOMAIN received = 1..Len(received) /\ Len(received) \in Nat
          /\ \A k \in DOMAIN received : r[k] = received[k]
          /\ r[Len(received) + 1] = h
          /\ \A x : Has(r, x) <=> Has(received, x) \/ x = h
      BY <2>2, <2>3, Appended
    <2>5. /\ stream'.pc = "open" /\ stream'.todo = Tail(s)
          /\ stream' \in [pc: {"off", "listed", "open"}, todo: Seq(1..stored)]
      BY <2>1, <2>3 DEF StreamInv
    <2>6. \A k \in DOMAIN s : k \in Nat /\ s[k] \in 1..stored BY <2>2, Elements
    <2>7. \A k \in DOMAIN received : received[k] \in 1..stored BY <2>2, Elements
    <2>8. /\ Rising(received) /\ Rising(s)
          /\ \A j \in DOMAIN received, k \in DOMAIN s : received[j] < s[k]
          /\ \A e \in 1..stored : Has(received, e) \/ Has(s, e) \/ e \in history.missed
      BY <2>1 DEF StreamInv
    <2> HIDE DEF s, h, r
    <2>9. Rising(r) BY <2>3, <2>4, <2>7, <2>8 DEF Rising
    <2>10. \A k \in DOMAIN Tail(s) : h < Tail(s)[k]
      BY <2>3, <2>6, <2>8 DEF Rising
    <2>11. Rising(Tail(s))
      <3> SUFFICES ASSUME NEW j \in DOMAIN Tail(s), NEW k \in DOMAIN Tail(s), j < k
                   PROVE  Tail(s)[j] < Tail(s)[k]
        BY DEF Rising
      <3>1. j + 1 \in DOMAIN s /\ k + 1 \in DOMAIN s /\ j + 1 < k + 1 BY <2>3
      <3> QED BY <2>3, <2>8, <3>1 DEF Rising
    <2>12. \A j \in DOMAIN r, k \in DOMAIN Tail(s) : r[j] < Tail(s)[k]
      <3> SUFFICES ASSUME NEW j \in DOMAIN r, NEW k \in DOMAIN Tail(s) PROVE r[j] < Tail(s)[k]
        OBVIOUS
      <3>1. CASE j \in DOMAIN received BY <2>3, <2>4, <2>8, <3>1
      <3>2. CASE j = Len(received) + 1 BY <2>4, <2>10, <3>2
      <3> QED BY <2>4, <3>1, <3>2
    <2>13. \A e \in 1..stored : Has(s, e) => e = h \/ Has(Tail(s), e)
      <3> SUFFICES ASSUME NEW k \in DOMAIN s PROVE s[k] = h \/ Has(Tail(s), s[k])
        BY DEF Has
      <3>1. CASE k = 1 BY <2>3, <3>1
      <3>2. CASE k - 1 \in DOMAIN Tail(s)
        <4>1. Tail(s)[k - 1] = s[(k - 1) + 1] /\ (k - 1) + 1 = k BY <2>3, <2>6, <3>2
        <4> QED BY <3>2, <4>1 DEF Has
      <3> QED BY <2>3, <3>1, <3>2
    <2>14. \A e \in 1..stored : Has(r, e) \/ Has(Tail(s), e) \/ e \in history.missed
      BY <2>4, <2>8, <2>13
    <2>15. \A j \in DOMAIN r, e \in 1..stored :
              e <= r[j] => Has(r, e) \/ e \in history.missed
      <3> SUFFICES ASSUME NEW j \in DOMAIN r, NEW e \in 1..stored, e <= r[j],
                          Has(Tail(s), e)
                   PROVE  FALSE
        BY <2>14
      <3>1. PICK k \in DOMAIN Tail(s) : Tail(s)[k] = e BY DEF Has
      <3>2. r[j] < e BY <2>12, <3>1
      <3>3. r[j] \in 1..stored BY <2>4, Elements
      <3> QED BY <1>0, <3>2, <3>3
    <2> QED BY <2>1, <2>4, <2>5, <2>9, <2>11, <2>12, <2>14, <2>15 DEF StreamInv
  <1> QED BY <1>3, <1>4, <1>5, <1>6, <1>7, <1>8, <1>9, <1>10, <1>11 DEF Next

\* What a client has got and will get.
LEMMA StreamInvHolds == Spec => []StreamInv
  <1>1. Init => StreamInv
    <2> SUFFICES ASSUME Init PROVE StreamInv OBVIOUS
    <2>1. /\ stored = 0 /\ received = <<>> /\ stream = [pc |-> "off", todo |-> <<>>]
      BY DEF Init
    <2>2. stream.pc = "off" /\ stream.todo = <<>> /\ DOMAIN stream.todo = {} /\ DOMAIN received = {}
      BY <2>1
    <2> QED BY <2>1, <2>2 DEF StreamInv, Rising
  <1>2. CallInv /\ CallInv' /\ StreamInv /\ [Next]_vars => StreamInv'
    <2>1. StreamInv /\ UNCHANGED vars => StreamInv'
      BY DEF StreamInv, vars
    <2> QED BY <2>1, StreamStep
  <1> QED BY <1>1, <1>2, CallInvHolds, PTL DEF Spec

\* Over any number of disconnections and lost processes the client gets rising
\* events, and up to the last one all that no connection missed between its list
\* and its subscription.
THEOREM NoEventLost == Spec => []StreamIsComplete
  <1>1. CallInv /\ StreamInv => StreamIsComplete
    <2> SUFFICES ASSUME CallInv, StreamInv PROVE StreamIsComplete OBVIOUS
    <2>1. stored \in Nat BY DEF CallInv, Types
    <2>2. /\ LastReceived \in 0..stored
          /\ received # <<>> => \E j \in DOMAIN received : received[j] = LastReceived
          /\ received = <<>> => LastReceived = 0
      BY <2>1, LastIsLargest DEF StreamInv
    <2>3. ASSUME NEW e \in 1..LastReceived PROVE Has(received, e) \/ e \in history.missed
      <3>1. e \in 1..stored /\ received # <<>> /\ e <= LastReceived BY <2>1, <2>2, <2>3
      <3>2. PICK j \in DOMAIN received : received[j] = LastReceived BY <2>2, <3>1
      <3> QED BY <3>1, <3>2 DEF StreamInv
    <2>4. 1..LastReceived \subseteq ToSet(received) \cup history.missed
      BY <2>3 DEF ToSet, Has
    <2> QED BY <2>4 DEF StreamIsComplete, StreamInv, Rising
  <1> QED BY <1>1, CallInvHolds, StreamInvHolds, PTL

\* Every variable keeps its type.
THEOREM TypeCorrect == Spec => []TypeOK
  <1>1. CallInv /\ FileInv /\ StreamInv => TypeOK
    <2> SUFFICES ASSUME CallInv, FileInv, StreamInv PROVE TypeOK OBVIOUS
    <2>1. Types BY DEF CallInv
    <2>2. file \in [messages: Nat, count: Nat]
      BY <2>1 DEF Types, FileInv
    <2> QED BY <2>1, <2>2 DEF TypeOK, Types, Histories, StreamInv
  <1> QED BY <1>1, CallInvHolds, FileInvHolds, StreamInvHolds, PTL
=============================================================================

------------------------------- MODULE SessionApi -------------------------------
(***************************************************************************)
(* The HTTP gateway of one session: requests that clients repeat under the *)
(* same request_id, the messages they append, the record each leaves, and  *)
(* the event stream with its reconnections.                                *)
(*                                                                         *)
(* The gateway runs on one event loop.  A request gives way while it waits *)
(* for its lock and while the handler awaits the model or a tool; all file *)
(* operations after that are synchronous, so nobody else runs between      *)
(* them, but each may fail and the process may be lost after each of them. *)
(***************************************************************************)
EXTENDS Naturals, FiniteSets, SequencesExt

CONSTANTS Slots,      \* requests in progress at the same time
          Ids,        \* request_id
          Messages,   \* contents of POST .../messages
          Actions,    \* actions with their token, of POST .../actions
          MaxCalls,   \* bound: requests
          MaxFaults,  \* bound: exceptions, failed writes and lost processes
          MaxEvents,  \* bound: events of the workflow
          MaxDrops    \* bound: disconnections of the stream

ASSUME ContentsAssumption == Messages \cap Actions = {}
ASSUME BoundsAssumption == {MaxCalls, MaxFaults, MaxEvents, MaxDrops} \subseteq Nat

VARIABLES calls,     \* the requests in progress
          records,   \* conversation_request_idempotency.json
          file,      \* messages.json and the message_count of session.json
          closed,    \* the session has a terminal status
          stored,    \* events in the EventStore, numbered as they are appended
          stream,    \* the client's connection
          received,  \* events the client has got
          history,   \* what the properties need to know of the past
          used       \* how much of each bound is used up

vars == <<calls, records, file, closed, stored, stream, received, history, used>>

-----------------------------------------------------------------------------
Contents == Messages \cup Actions

\* answer: the execution of the handler that gave it.
Record == [content: Contents, answer: 1..MaxCalls, http: {200, 409}]
NoRecord == [answer |-> 0]

\* In these places a request does not give way to anything.
Writing == {"appended", "replied", "publishing", "saving", "returning"}
Locked == Writing \cup {"handling"}
Call == [pc: Locked \cup {"waiting"}, id: Ids, content: Contents, run: 0..MaxCalls,
         http: {200, 409}]
Idle == [pc |-> "idle"]

-----------------------------------------------------------------------------
(* Plausible bugs.                                                         *)

NoLock(c) == TRUE
LastTwoDropped(f) == [f EXCEPT !.messages = @ - 2]
CountAsRead(f) == [f EXCEPT !.count = f.messages - 1]
LastAgain(k) == IF k = 0 THEN 1 ELSE k

-----------------------------------------------------------------------------
(* Operators of the code.                                                  *)

\* The asyncio lock of (session, request_id).
MayEnter(c) == \A k \in Slots : calls[k].pc \in Locked => calls[k].id # calls[c].id

\* The event loop is not in the middle of another request.
Free == \A k \in Slots : calls[k].pc \notin Writing

\* append_message: messages.json, then the count; a failure restores the snapshot.
WithMessage(f) == [f EXCEPT !.messages = @ + 1]
Counted(f) == [f EXCEPT !.count = f.messages]
Restored(f) == [f EXCEPT !.messages = @ - 1]

RecordOf(call) == [content |-> call.content, answer |-> call.run, http |-> call.http]

\* The place in the list of events at which a stream starts after event k.
StartIndex(k) == k + 1
LastReceived == IF received = <<>> THEN 0 ELSE Last(received)
Listed == [k \in 1..(stored + 1 - StartIndex(LastReceived)) |-> StartIndex(LastReceived) + k - 1]

-----------------------------------------------------------------------------
Init ==
    /\ calls = [c \in Slots |-> Idle]
    /\ records = [i \in Ids |-> NoRecord]
    /\ file = [messages |-> 0, count |-> 0]
    /\ closed = FALSE
    /\ stored = 0
    /\ stream = [pc |-> "off", todo |-> <<>>]
    /\ received = <<>>
    /\ history = [runs |-> [i \in Ids |-> 0], failed |-> [i \in Ids |-> 0],
                  answers |-> [i \in Ids |-> {}], torn |-> FALSE, missed |-> {}]
    /\ used = [calls |-> 0, faults |-> 0, events |-> 0, drops |-> 0]

Answered(c) == history' = [history EXCEPT !.answers[calls[c].id] = @ \cup {RecordOf(calls[c])}]
Goto(c, place) == calls' = [calls EXCEPT ![c].pc = place]
Leave(c) == calls' = [calls EXCEPT ![c] = Idle]

\* A client sends a request, or sends it again.
Send(c) ==
    /\ calls[c].pc = "idle"
    /\ used.calls < MaxCalls
    /\ used' = [used EXCEPT !.calls = @ + 1]
    /\ \E i \in Ids, content \in Contents :
          calls' = [calls EXCEPT ![c] = [pc |-> "waiting", id |-> i, content |-> content,
                                         run |-> 0, http |-> 200]]
    /\ UNCHANGED <<records, file, closed, stored, stream, received, history>>

Enters(c) == calls[c].pc = "waiting" /\ Free /\ MayEnter(c)

\* A record exists: its response is returned, or request_id_reused.
Replay(c) ==
    LET record == records[calls[c].id]
    IN  /\ Enters(c)
        /\ record # NoRecord
        /\ history' = IF record.content = calls[c].content
                      THEN [history EXCEPT !.answers[calls[c].id] = @ \cup {record}]
                      ELSE history
        /\ Leave(c)
        /\ UNCHANGED <<records, file, closed, stored, stream, received, used>>

\* The handler begins; handle_message appends the message of the user, unless the
\* session has ended.
Handle(c) ==
    LET call == calls[c]
        run == history.runs[call.id] + 1
        place == CASE call.content \in Actions -> "handling"
                   [] closed -> "saving"
                   [] OTHER -> "appended"
    IN  /\ Enters(c)
        /\ records[call.id] = NoRecord
        /\ history' = [history EXCEPT !.runs[call.id] = run]
        /\ calls' = [calls EXCEPT ![c].pc = place, ![c].run = run]
        /\ file' = IF place = "appended" THEN WithMessage(file) ELSE file
        /\ UNCHANGED <<records, closed, stored, stream, received, used>>

\* The second write of append_message.
Count(c) ==
    /\ calls[c].pc \in {"appended", "replied"}
    /\ file' = Counted(file)
    /\ history' = [history EXCEPT !.torn = FALSE]
    /\ Goto(c, IF calls[c].pc = "appended" THEN "handling" ELSE "publishing")
    /\ UNCHANGED <<records, closed, stored, stream, received, used>>

\* The handler comes back from its awaits: with a reply, or for an action without
\* one; update_status may refuse after the reply.
HandlerReturns(c) ==
    /\ calls[c].pc = "handling" /\ Free
    /\ \E http \in {200, 409} :
          IF calls[c].content \in Messages
          THEN /\ calls' = [calls EXCEPT ![c].pc = "replied", ![c].http = http]
               /\ file' = WithMessage(file)
          ELSE /\ calls' = [calls EXCEPT ![c].pc = IF http = 200 THEN "publishing" ELSE "saving",
                                         ![c].http = http]
               /\ UNCHANGED file
    /\ UNCHANGED <<records, closed, stored, stream, received, history, used>>

\* EventPublisher.publish: the event is stored and then handed to the subscribers.
Published ==
    /\ stored' = stored + 1
    /\ stream' = IF stream.pc = "open" THEN [stream EXCEPT !.todo = Append(@, stored + 1)]
                 ELSE stream

Missed == IF stream.pc = "listed" THEN history.missed \cup {stored + 1} ELSE history.missed

Publish(c) ==
    /\ calls[c].pc = "publishing"
    /\ Published
    /\ history' = [history EXCEPT !.missed = Missed]
    /\ Goto(c, "saving")
    /\ UNCHANGED <<records, file, closed, received, used>>

\* RequestIdempotencyStore.save, before the response is sent.
Save(c) ==
    /\ calls[c].pc = "saving"
    /\ records' = [records EXCEPT ![calls[c].id] = RecordOf(calls[c])]
    /\ Goto(c, "returning")
    /\ UNCHANGED <<file, closed, stored, stream, received, history, used>>

Return(c) ==
    /\ calls[c].pc = "returning"
    /\ Answered(c)
    /\ Leave(c)
    /\ UNCHANGED <<records, file, closed, stored, stream, received, used>>

\* Faults.  Only FileNotFoundError and ValueError leave a record.
Fault == used.faults < MaxFaults /\ used' = [used EXCEPT !.faults = @ + 1]

HandlerRaises(c) ==
    /\ Fault
    /\ calls[c].pc \in {"publishing", "saving"} \/ (calls[c].pc = "handling" /\ Free)
    /\ history' = [history EXCEPT !.failed[calls[c].id] = @ + 1]
    /\ Leave(c)
    /\ UNCHANGED <<records, file, closed, stored, stream, received>>

\* session.json cannot be written; the rollback may fail as well.
AppendFails(c) ==
    /\ Fault
    /\ calls[c].pc \in {"appended", "replied"}
    /\ \/ file' = Restored(file) /\ history' = [history EXCEPT !.failed[calls[c].id] = @ + 1]
       \/ file' = file /\ history' = [history EXCEPT !.failed[calls[c].id] = @ + 1, !.torn = TRUE]
    /\ Leave(c)
    /\ UNCHANGED <<records, closed, stored, stream, received>>

\* The process is lost: locks and connections are gone.
Crash ==
    /\ Fault
    /\ history' =
          [history EXCEPT
              !.failed = [i \in Ids |->
                  @[i] + Cardinality({c \in Slots : calls[c].pc \in Locked /\ calls[c].id = i})],
              !.torn = @ \/ \E c \in Slots : calls[c].pc \in {"appended", "replied"}]
    /\ calls' = [c \in Slots |-> Idle]
    /\ stream' = [pc |-> "off", todo |-> <<>>]
    /\ UNCHANGED <<records, file, closed, stored, received>>

-----------------------------------------------------------------------------
\* The workflow of the session publishes an event, or ends with the session.
WorkflowPublishes ==
    /\ Free
    /\ used.events < MaxEvents
    /\ used' = [used EXCEPT !.events = @ + 1]
    /\ Published
    /\ history' = [history EXCEPT !.missed = Missed]
    /\ UNCHANGED <<calls, records, file, closed, received>>

SessionEnds ==
    /\ Free
    /\ ~closed
    /\ closed' = TRUE
    /\ UNCHANGED <<calls, records, file, stored, stream, received, history, used>>

\* session_events: the stored events are listed when the request arrives, and the
\* generator subscribes when the server begins to send.
Connect ==
    /\ Free
    /\ stream.pc = "off"
    /\ stream' = [pc |-> "listed", todo |-> Listed]
    /\ UNCHANGED <<calls, records, file, closed, stored, received, history, used>>

Subscribe ==
    /\ Free
    /\ stream.pc = "listed"
    /\ stream' = [stream EXCEPT !.pc = "open"]
    /\ UNCHANGED <<calls, records, file, closed, stored, received, history, used>>

\* The listed events, then those of the queue.
Deliver ==
    /\ Free
    /\ stream.pc = "open" /\ stream.todo # <<>>
    /\ received' = Append(received, Head(stream.todo))
    /\ stream' = [stream EXCEPT !.todo = Tail(@)]
    /\ UNCHANGED <<calls, records, file, closed, stored, history, used>>

Disconnect ==
    /\ Free
    /\ stream.pc # "off"
    /\ used.drops < MaxDrops
    /\ used' = [used EXCEPT !.drops = @ + 1]
    /\ stream' = [pc |-> "off", todo |-> <<>>]
    /\ UNCHANGED <<calls, records, file, closed, stored, received, history>>

-----------------------------------------------------------------------------
Request(c) == Send(c) \/ Replay(c) \/ Handle(c) \/ Count(c) \/ HandlerReturns(c) \/ Publish(c)
              \/ Save(c) \/ Return(c) \/ HandlerRaises(c) \/ AppendFails(c)

Next == (\E c \in Slots : Request(c)) \/ Crash \/ WorkflowPublishes \/ SessionEnds
        \/ Connect \/ Subscribe \/ Deliver \/ Disconnect

Spec == Init /\ [][Next]_vars

\* Requests in progress and request ids are interchangeable.
Symmetry == Permutations(Slots) \cup Permutations(Ids)

-----------------------------------------------------------------------------
(* Properties.                                                             *)

\* Every variable keeps its type.
TypeOK ==
    /\ \A c \in Slots : calls[c] \in Call \cup {Idle}
    /\ records \in [Ids -> Record \cup {NoRecord}]
    /\ file \in [messages: Nat, count: Nat]
    /\ closed \in BOOLEAN
    /\ stored \in Nat
    /\ stream.pc \in {"off", "listed", "open"} /\ stream.todo \in Seq(1..stored)
    /\ received \in Seq(1..stored)
    /\ history.answers \in [Ids -> SUBSET Record]

\* All responses a client gets for one request_id, 500 and request_id_reused apart,
\* are one and the same, and the handler ran once, and once more for every request
\* that ended in an exception or with the process.
Idempotent ==
    \A i \in Ids :
        /\ Cardinality(history.answers[i]) <= 1
        /\ history.runs[i] <= 1 + history.failed[i]

\* message_count is the number of messages, unless the last append ended between its
\* two files and could not be rolled back; the next append repairs it.
CountAgrees ==
    (~history.torn /\ \A c \in Slots : calls[c].pc \notin {"appended", "replied"})
        => file.count = file.messages

\* Over all reconnections with Last-Event-ID a client gets events in order, none
\* twice, and none is left out but those published while a connection had listed the
\* events and not yet subscribed.
StreamIsComplete ==
    /\ \A j, k \in DOMAIN received : j < k => received[j] < received[k]
    /\ 1..LastReceived \subseteq ToSet(received) \cup history.missed

-----------------------------------------------------------------------------
(* What the documents say and the code does not do.                        *)

\* P36: the final response is saved whether the first request succeeds or fails, and a
\* repeated request_id is not executed again.
ExecutedOnce == \A i \in Ids : history.runs[i] <= 1
=============================================================================

---------------------------------- MODULE Chat ----------------------------------
(***************************************************************************)
(* A conversation about papers: which paper a session has selected, which  *)
(* action waits for a confirmation, and what a confirmation starts.        *)
(*                                                                         *)
(* handle_message appends the message, chooses a candidate or routes, and  *)
(* acts on the decision.  It reads the session before the call of the      *)
(* model or of an adapter and writes a copy of that context afterwards;    *)
(* other messages and confirmations run meanwhile.  The life of the        *)
(* started task is in TaskSession; events, memories and texts are left     *)
(* out.                                                                    *)
(***************************************************************************)
EXTENDS Routing

CONSTANTS Handlers,     \* message requests in progress at the same time
          MaxFound,     \* bound: candidates a search returns
          MaxMessages   \* bound: messages of the user

ASSUME BoundsAssumption == MaxFound \in Nat /\ MaxMessages \in Nat

VARIABLES status,   \* ConversationSession.status
          ctx,      \* ConversationSession.context
          msgs,     \* the handlers
          started,  \* the workflow that was started, if any
          asked,    \* history: what the message behind each token named
          chosen,   \* history: the paper the user last chose
          strayed,  \* history: a handler wrote an old copy over a newer context
          sent

vars == <<status, ctx, msgs, started, asked, chosen, strayed, sent>>

-----------------------------------------------------------------------------
Statuses == {"active", "waiting_user_input", "waiting_confirmation", "running"}
Tokens == 1..MaxMessages
Lists == {s \in UNION {[1..n -> Papers] : n \in 0..MaxFound} : IsInjective(s)}

\* PendingAction; token 0: there is none.
Pending == [token: 0..MaxMessages, cap: Capabilities \cup {"none"},
            paper: Papers \cup {NoPaper}, refs: Seq(Papers)]
NoPending == [token |-> 0, cap |-> "none", paper |-> NoPaper, refs |-> <<>>]

Context == [sel: Papers \cup {NoPaper}, cands: Lists, pending: Pending, task: BOOLEAN]
EmptyContext == [sel |-> NoPaper, cands |-> <<>>, pending |-> NoPending, task |-> FALSE]

\* What the message behind a token, or a started workflow, is about; by: whether the
\* words of the message, the model, or a reference it made named the papers.
Request == [cap: Capabilities \cup {"none"}, papers: Seq(Papers \cup {NoPaper}),
            by: {"words", "model", "reference"}, token: 0..MaxMessages]
NoRequest == [cap |-> "none", papers |-> <<>>, by |-> "words", token |-> 0]

Idle == [pc |-> "idle", seen |-> EmptyContext, cap |-> "none", token |-> 0]

Plain == [term |-> "none", ids |-> <<>>, exact |-> FALSE, ordinals |-> <<>>, number |-> 0,
          path |-> "none", topic |-> TRUE]

\* The messages users send.
Ordinal(n) == [Plain EXCEPT !.number = n]
AboutPaper(t, p, e) ==
    [Plain EXCEPT !.term = t, !.ids = IF p = NoPaper THEN <<>> ELSE <<p>>, !.exact = e]
Comparison(i, o) == [Plain EXCEPT !.term = "compare_papers", !.ids = i, !.ordinals = o]
AboutPath(t, w) == [Plain EXCEPT !.term = t, !.path = w]
Aimless == [Plain EXCEPT !.term = "paper_search", !.topic = FALSE]

Ordinals == {Ordinal(n) : n \in 0..MaxFound}
PaperMessages ==
    {AboutPaper(t, p, e) :
        t \in {"process_selected_paper", "paper_search", "paper_download"},
        p \in Papers \cup {NoPaper}, e \in BOOLEAN}
Comparisons == {Comparison(i, o) : i \in Lists, o \in {<<>>, <<1, 2>>}}
PathMessages == {AboutPath(t, w) : t \in {"paper_parse", "paper_summary"}, w \in PathKinds}
UserMessages == Ordinals \cup PaperMessages \cup Comparisons \cup PathMessages \cup {Aimless}

-----------------------------------------------------------------------------
(* Plausible bugs.                                                         *)

SelectionCleared(c, found) == [c EXCEPT !.cands = found, !.sel = NoPaper]
WithSelected(seen, d) == seen
ForcedStatus(s) == status' = "closed"

-----------------------------------------------------------------------------
(* Operators of the code.                                                  *)

\* SESSION_STATUS_TRANSITIONS between the statuses of a session that goes on.
Transitions == [active |-> Statuses,
                waiting_user_input |-> Statuses \ {"running"},
                waiting_confirmation |-> Statuses \ {"waiting_user_input"},
                running |-> {"running"}]
Become(s) == status' = IF s \in Transitions[status] THEN s ELSE status

\* _explicit_paper_from_decision: its selection is written before the authorization,
\* on the session as it is then.
Explicit(d) == d.matched /\ d.cap = "process_selected_paper" /\ d.paper # NoPaper
Base(seen, d) == IF Explicit(d) THEN [ctx EXCEPT !.sel = d.paper] ELSE seen

\* _persist_search_result
WithCandidates(c, found) == [c EXCEPT !.cands = found]

\* The pending action of a decision.
PendingOf(d, sel, token) ==
    [token |-> token, cap |-> d.cap, paper |-> sel, refs |-> d.refs]

\* What confirm and ComparisonSpec refuse: no paper, too few references, or the same
\* paper twice.
MayStart(p) ==
    IF p.cap = "compare_papers" THEN Len(p.refs) \in 2..MaxRefs /\ IsInjective(p.refs)
    ELSE p.paper # NoPaper

\* update_context with a copy: strayed when it undoes what others wrote.
Write(c, old) ==
    /\ ctx' = c
    /\ strayed' = (strayed \/ old # ctx)

Answered(m) == msgs' = [msgs EXCEPT ![m] = Idle]

-----------------------------------------------------------------------------
Init ==
    /\ status = "active"
    /\ ctx = EmptyContext
    /\ msgs = [m \in Handlers |-> Idle]
    /\ started = NoRequest
    /\ asked = [k \in Tokens |-> NoRequest]
    /\ chosen = NoPaper
    /\ strayed = FALSE
    /\ sent = 0

\* A message that picks a candidate; update_status may raise after the selection
\* was stored.
Select(m, msg) ==
    LET p == SelectedBy(msg, ctx.cands)
    IN  /\ p # NoPaper
        /\ ctx' = [ctx EXCEPT !.sel = p]
        /\ chosen' = p
        /\ Become("active")
        /\ UNCHANGED <<msgs, started, asked, strayed>>

\* What the message behind a decision asks for.
Meant(d, seen, token) ==
    [cap |-> d.cap,
     papers |-> IF d.cap = "compare_papers" THEN d.refs
                ELSE IF d.paper # NoPaper THEN <<d.paper>>
                ELSE IF d.reference # 0 THEN <<seen.cands[d.reference]>> ELSE <<seen.sel>>,
     by |-> IF d.source = "deterministic" THEN "words"
            ELSE IF d.paper = NoPaper /\ d.reference # 0 THEN "reference" ELSE "model",
     token |-> token]

\* handle_message after the router, on the session read before it.
Act(m, d, seen, token) ==
    LET base == Base(seen, d)
        old == IF Explicit(d) THEN ctx ELSE seen
        verdict == Authorize(d)
    IN  /\ chosen' = IF Explicit(d) THEN d.paper ELSE chosen
        /\ UNCHANGED started
        /\ \/ /\ verdict = "confirm"
              /\ Write([base EXCEPT !.pending = PendingOf(d, base.sel, token)], old)
              /\ asked' = [asked EXCEPT ![token] = Meant(d, seen, token)]
              /\ Become("waiting_confirmation")
              /\ Answered(m)
           \/ /\ verdict = "allowed"
              /\ msgs' = [msgs EXCEPT ![m] = [pc |-> "executing", seen |-> seen, cap |-> d.cap,
                                           token |-> token]]
              /\ UNCHANGED <<status, ctx, asked, strayed>>
           \/ /\ verdict = "denied"
              /\ ctx' = IF Explicit(d) THEN base ELSE ctx
              /\ IF d.matched THEN UNCHANGED status ELSE Become("waiting_user_input")
              /\ Answered(m)
              /\ UNCHANGED <<asked, strayed>>

\* A message arrives.  The deterministic router does not wait for anything.
Receive(m, msg) ==
    /\ msgs[m].pc = "idle"
    /\ sent < MaxMessages
    /\ sent' = sent + 1
    /\ LET d == Deterministic(msg, ctx.sel, ctx.cands)
       IN  \/ Select(m, msg)
           \/ /\ SelectedBy(msg, ctx.cands) = NoPaper
              /\ Handled(d)
              /\ Act(m, d, ctx, sent')
           \/ /\ SelectedBy(msg, ctx.cands) = NoPaper
              /\ ~Handled(d)
              /\ msgs' = [msgs EXCEPT ![m] = [pc |-> "routing", seen |-> ctx, cap |-> "none",
                                               token |-> sent']]
              /\ UNCHANGED <<status, ctx, started, asked, chosen, strayed>>

\* The model answered.
RouterAnswers(m) ==
    /\ msgs[m].pc = "routing"
    /\ UNCHANGED sent
    /\ \E d \in Routed(msgs[m].seen.cands) : Act(m, d, msgs[m].seen, msgs[m].token)

\* The call of the model raises, and the request fails.
RouterFails(m) ==
    /\ msgs[m].pc = "routing"
    /\ Answered(m)
    /\ UNCHANGED <<status, ctx, started, asked, chosen, strayed, sent>>

\* The search of the adapter succeeded: _persist_search_result.
SearchFinished(m) ==
    /\ msgs[m].pc = "executing" /\ msgs[m].cap = "paper_search"
    /\ \E found \in Lists : Write(WithCandidates(msgs[m].seen, found), msgs[m].seen)
    /\ Become("waiting_confirmation")
    /\ Answered(m)
    /\ UNCHANGED <<started, asked, chosen, sent>>

\* The adapter is blocked without a task or a paper, fails, raises, or it succeeds with
\* artifacts: the session stays as it is.
ToolFinished(m) ==
    /\ msgs[m].pc = "executing"
    /\ Answered(m)
    /\ UNCHANGED <<status, ctx, started, asked, chosen, strayed, sent>>

\* confirm of the pending action.
Confirm ==
    LET p == ctx.pending
    IN  /\ p.token # 0
        /\ ~ctx.task
        /\ MayStart(p)
        /\ ctx' = [ctx EXCEPT !.pending = NoPending, !.task = TRUE,
                              !.sel = IF p.cap = "compare_papers" THEN @ ELSE p.paper]
        /\ Become("running")
        /\ started' = IF "running" \in Transitions[status]
                      THEN [cap |-> p.cap, by |-> asked[p.token].by, token |-> p.token,
                            papers |-> IF p.cap = "compare_papers" THEN p.refs ELSE <<p.paper>>]
                      ELSE started
        /\ chosen' = ctx'.sel
        /\ UNCHANGED <<msgs, asked, strayed, sent>>

-----------------------------------------------------------------------------
Handler(m) == RouterAnswers(m) \/ RouterFails(m) \/ SearchFinished(m) \/ ToolFinished(m)

Next == (\E m \in Handlers : Handler(m) \/ \E msg \in UserMessages : Receive(m, msg)) \/ Confirm

Spec == Init /\ [][Next]_vars

-----------------------------------------------------------------------------
(* Properties.                                                             *)

\* Every variable keeps its type.
TypeOK ==
    /\ status \in Statuses
    /\ ctx \in Context
    /\ \A m \in Handlers : /\ msgs[m].pc \in {"idle", "routing", "executing"}
                           /\ msgs[m].seen \in Context
                           /\ msgs[m].cap \in Capabilities \cup {"none"}
                           /\ msgs[m].token \in 0..MaxMessages
    /\ started \in Request
    /\ asked \in [Tokens -> Request]
    /\ chosen \in Papers \cup {NoPaper}
    /\ strayed \in BOOLEAN
    /\ sent \in 0..MaxMessages

\* A workflow is started on the papers that the message behind its token named, or
\* had selected, whatever was selected, searched or asked between the message and
\* its confirmation; references of the model apart.
StartedIsNamed ==
    started.by = "reference" \/ started.cap = "none" \/ started = asked[started.token]

\* The selected paper is the one the user chose last, through searches, failures and
\* denied requests, as long as no handler wrote a context it had read before another
\* one changed it.
SelectionIsChosen == strayed \/ ctx.sel = chosen

-----------------------------------------------------------------------------
(* What the documents say and the code does not do.                        *)

\* P32: the second paper is referred to by its candidate index, and the reference is
\* resolved to the paper before it is executed.
ReferenceIsProcessed == started.by = "reference" => started.papers = asked[started.token].papers
=============================================================================

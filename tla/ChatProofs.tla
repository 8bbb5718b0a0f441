------------------------------- MODULE ChatProofs -------------------------------
(***************************************************************************)
(* Theorems about Chat for any papers, handlers, limits and numbers of     *)
(* messages.                                                               *)
(***************************************************************************)
EXTENDS Chat, SequenceTheorems, WellFoundedInduction, TLAPS

-----------------------------------------------------------------------------
(* The invariant, part by part.                                            *)

Busy(m) == msgs[m].pc # "idle"
IsContext(c) ==
    /\ c = [sel |-> c.sel, cands |-> c.cands, pending |-> c.pending, task |-> c.task]
    /\ c.cands \in Seq(Papers)

\* The fields and the counters are there.
ShapeInv ==
    /\ DOMAIN asked = Tokens /\ DOMAIN msgs = Handlers
    /\ sent \in 0..MaxMessages
    /\ IsContext(ctx) /\ \A m \in Handlers : IsContext(msgs[m].seen)

\* The messages in progress have tokens of their own.
TokenInv ==
    /\ \A m \in Handlers : Busy(m) => msgs[m].token \in 1..sent
    /\ \A m, n \in Handlers : Busy(m) /\ Busy(n) /\ m # n => msgs[m].token # msgs[n].token

\* No message in progress can write what is asked for a token.
Settled(k) == k \in 1..sent /\ \A m \in Handlers : Busy(m) => msgs[m].token # k

\* A pending action is what was asked for its token, a reference of the model apart.
Asked(p) ==
    \/ asked[p.token].by = "reference"
    \/ asked[p.token] = [cap |-> p.cap, by |-> asked[p.token].by, token |-> p.token,
                         papers |-> IF p.cap = "compare_papers" THEN p.refs ELSE <<p.paper>>]

\* So it is in the context of the session, and in every copy a handler has kept.
PendingIsAsked(c) == c.pending.token # 0 => Settled(c.pending.token) /\ Asked(c.pending)
PendingInv == PendingIsAsked(ctx) /\ \A m \in Handlers : PendingIsAsked(msgs[m].seen)

StartedInv ==
    started.cap # "none" =>
        /\ Settled(started.token)
        /\ started.by = "reference" \/ started = asked[started.token]

IInv == ShapeInv /\ TokenInv /\ PendingInv /\ StartedInv

-----------------------------------------------------------------------------
(* Lemmas about Routing.                                                   *)

\* Only the model refers to a candidate by its index.
HasSource(d) == d.reference = 0 \/ d.source # "deterministic"

LEMMA DeterministicSource ==
    ASSUME NEW msg, NEW sel, NEW cands
    PROVE  HasSource(Deterministic(msg, sel, cands))
  <1>1. NoDecision.reference = 0 BY DEF NoDecision
  <1>2. Arguments(msg, cands).reference = 0 BY DEF Arguments, NoDecision
  <1>3. ASSUME NEW b PROVE [Arguments(msg, cands) EXCEPT !.matched = b].reference = 0
    BY <1>2 DEF Arguments, NoDecision
  <1> QED BY <1>1, <1>3 DEF Deterministic, HasSource

\* What the model answers is never taken for the words of the user.
LEMMA RoutedSource ==
    ASSUME NEW cands, Len(Visible(cands)) \in 0..MaxVisible, NEW d \in Routed(cands)
    PROVE  HasSource(d)
  <1> DEFINE shown == Len(Visible(cands))
  <1>1. \A c : /\ Answer(c).source = "llm"
               /\ DOMAIN Answer(c) = {"matched", "cap", "paper", "refs", "path", "content",
                                      "reference", "source"}
    BY DEF Answer, NoDecision
  <1>2. ASSUME NEW x \in Answers(shown)
        PROVE  x.source = "llm" /\ "source" \in DOMAIN x
    <2>1. CASE x = Answer("unknown") BY <1>1, <2>1
    <2>2. CASE x \in PaperAnswers(shown)
      <3>1. PICK c, p, n, w : x = PaperAnswer(c, p, n, w) BY <2>2 DEF PaperAnswers
      <3> QED BY <1>1, <3>1 DEF PaperAnswer
    <2>3. CASE x \in ComparisonAnswers
      <3>1. PICK r : x = ComparisonAnswer(r) BY <2>3 DEF ComparisonAnswers
      <3> QED BY <1>1, <3>1 DEF ComparisonAnswer
    <2>4. CASE x \in ArtifactAnswers
      <3>1. PICK c, w, b : x = ArtifactAnswer(c, w, b) BY <2>4 DEF ArtifactAnswers
      <3> QED BY <1>1, <3>1 DEF ArtifactAnswer
    <2> QED BY <1>2, <2>1, <2>2, <2>3, <2>4 DEF Answers
  <1>3. Fallback.source = "fallback" /\ "source" \in DOMAIN Fallback BY DEF Fallback, NoDecision
  <1>4. d \in {Fallback} \cup {Clarified(ParseResponse(x), c) : x \in Answers(shown), c \in BOOLEAN}
    BY DEF Routed, Routes
  <1> HIDE DEF shown
  <1>5. CASE d = Fallback BY <1>3, <1>5 DEF HasSource
  <1>6. CASE d # Fallback
    <2>1. PICK x \in Answers(shown), c \in BOOLEAN : d = Clarified(ParseResponse(x), c)
      BY <1>4, <1>6
    <2> DEFINE y == ParseResponse(x)
    <2>2. y.source \in {"llm", "fallback"} /\ "source" \in DOMAIN y
      BY <1>2, <1>3 DEF ParseResponse
    <2>3. d = y \/ d = [y EXCEPT !.matched = FALSE, !.source = "fallback"]
      BY <2>1 DEF Clarified
    <2> HIDE DEF y
    <2>4. d.source \in {"llm", "fallback"} BY <2>2, <2>3
    <2> QED BY <2>4 DEF HasSource
  <1> QED BY <1>5, <1>6

\* The two capabilities that must be confirmed.
LEMMA Confirmed ==
    ASSUME NEW d, Authorize(d) = "confirm"
    PROVE  d.matched /\ d.cap \in {"process_selected_paper", "compare_papers"}
  <1>1. d.matched /\ Valid(d) /\ Catalog[d.cap].confirm
    BY DEF Authorize
  <1>2. d.cap \in Capabilities BY <1>1 DEF Valid
  <1>3. \A c \in Capabilities :
           Catalog[c].confirm => c \in {"process_selected_paper", "compare_papers"}
    BY DEF Capabilities, Catalog
  <1> QED BY <1>1, <1>2, <1>3
-----------------------------------------------------------------------------
(* What a decision does.                                                   *)

\* A pending action is what the message behind it asked for.
LEMMA PendingIsMeant ==
    ASSUME NEW d, NEW seen, NEW token, IsContext(ctx), IsContext(seen), HasSource(d),
           Authorize(d) = "confirm"
    PROVE  LET p == PendingOf(d, Base(seen, d).sel, token)
               q == Meant(d, seen, token)
           IN  /\ p.token = token
               /\ \/ q.by = "reference"
                  \/ q = [cap |-> p.cap, by |-> q.by, token |-> p.token,
                          papers |-> IF p.cap = "compare_papers" THEN p.refs ELSE <<p.paper>>]
  <1> DEFINE sel == Base(seen, d).sel
  <1> DEFINE p == PendingOf(d, sel, token)
  <1> DEFINE q == Meant(d, seen, token)
  <1>1. d.matched /\ d.cap \in {"process_selected_paper", "compare_papers"} BY Confirmed
  <1>2. p.token = token /\ p.cap = d.cap /\ p.paper = sel /\ p.refs = d.refs BY DEF PendingOf
  <1>3. Explicit(d) => sel = d.paper BY DEF Base, IsContext
  <1>4. ~Explicit(d) => sel = seen.sel BY DEF Base
  <1>5. CASE d.cap = "compare_papers"
    <2>1. q = [cap |-> d.cap, papers |-> d.refs, by |-> q.by, token |-> token]
      BY <1>5 DEF Meant
    <2> QED BY <1>2, <1>5, <2>1
  <1>6. CASE d.cap = "process_selected_paper" /\ d.paper # NoPaper
    <2>1. sel = d.paper BY <1>1, <1>3, <1>6 DEF Explicit
    <2>2. q = [cap |-> d.cap, papers |-> <<d.paper>>, by |-> q.by, token |-> token]
      BY <1>6 DEF Meant
    <2> QED BY <1>2, <1>6, <2>1, <2>2
  <1>7. CASE d.cap = "process_selected_paper" /\ d.paper = NoPaper
    <2>1. sel = seen.sel BY <1>4, <1>7 DEF Explicit
    <2>2. CASE d.reference = 0
      <3>1. q = [cap |-> d.cap, papers |-> <<seen.sel>>, by |-> q.by, token |-> token]
        BY <1>7, <2>2 DEF Meant
      <3> QED BY <1>2, <1>7, <2>1, <3>1
    <2>3. CASE d.reference # 0
      <3>1. q.by = "reference" BY <1>7, <2>3 DEF Meant, HasSource
      <3> QED BY <1>2, <3>1
    <2> QED BY <2>2, <2>3
  <1> QED BY <1>1, <1>5, <1>6, <1>7

\* What nobody in progress can write stays as it was, but for a new token.
LEMMA Kept ==
    ASSUME NEW token, NEW q, DOMAIN asked = Tokens, NEW k \in Tokens, k # token,
           asked' = asked \/ asked' = [asked EXCEPT ![token] = q]
    PROVE  asked'[k] = asked[k]
  OBVIOUS

\* A handler acts on a decision, on a context it has read and with a token of its own.
LEMMA ActStep ==
    ASSUME IInv, NEW m \in Handlers, NEW d, NEW seen, NEW token \in 1..sent', Act(m, d, seen, token),
           HasSource(d), IsContext(seen), PendingIsAsked(seen), sent' \in 0..MaxMessages,
           sent <= sent', \A n \in Handlers : Busy(n) /\ n # m => msgs[n].token # token,
           \A k \in 1..sent : Settled(k) => k # token
    PROVE  IInv'
  <1>0. /\ DOMAIN asked = Tokens /\ DOMAIN msgs = Handlers /\ sent \in 0..MaxMessages
        /\ IsContext(ctx) /\ \A n \in Handlers : IsContext(msgs[n].seen)
        /\ MaxMessages \in Nat
    BY BoundsAssumption DEF IInv, ShapeInv
  <1>1. token \in Tokens /\ \A k \in 1..sent : k \in Tokens /\ k \in 1..sent'
    BY <1>0 DEF Tokens
  <1>2. /\ \/ msgs' = [msgs EXCEPT ![m] = Idle]
           \/ msgs' = [msgs EXCEPT ![m] = [pc |-> "executing", seen |-> seen, cap |-> d.cap,
                                           token |-> token]]
        /\ started' = started
    BY DEF Act, Answered
  <1>3. Idle.pc = "idle" /\ Idle.seen = EmptyContext /\ IsContext(EmptyContext)
        /\ EmptyContext.pending.token = 0
    BY DEF Idle, EmptyContext, IsContext, NoPending
  <1>4. \A n \in Handlers : n # m => msgs'[n] = msgs[n] BY <1>0, <1>2
  <1>5. DOMAIN msgs' = Handlers
        /\ (msgs'[m] = Idle \/ msgs'[m] = [pc |-> "executing", seen |-> seen, cap |-> d.cap,
                                           token |-> token])
    BY <1>0, <1>2
  <1>6. /\ msgs'[m].seen \in {seen, EmptyContext}
        /\ Busy(m)' => msgs'[m].token = token
    BY <1>3, <1>5 DEF Busy
  <1>7. \/ asked' = asked /\ Authorize(d) # "confirm"
        \/ asked' = [asked EXCEPT ![token] = Meant(d, seen, token)] /\ Authorize(d) = "confirm"
    BY DEF Act
  <1>8. DOMAIN asked' = Tokens /\ \A k \in Tokens : k # token => asked'[k] = asked[k]
    BY <1>0, <1>7
  <1>9. ASSUME NEW k \in 1..sent, Settled(k)
        PROVE  Settled(k)' /\ k \in Tokens /\ k # token /\ asked'[k] = asked[k]
    <2>1. k # token /\ k \in 1..sent' /\ k \in Tokens BY <1>1, <1>9
    <2>2. \A n \in Handlers : Busy(n)' => msgs'[n].token # k
      <3>1. ASSUME NEW n \in Handlers, Busy(n)' PROVE msgs'[n].token # k
        <4>1. CASE n = m BY <1>6, <2>1, <3>1, <4>1
        <4>2. CASE n # m BY <1>4, <1>9, <3>1, <4>2 DEF Settled, Busy
        <4> QED BY <4>1, <4>2
      <3> QED BY <3>1
    <2> QED BY <1>8, <2>1, <2>2 DEF Settled
  <1>10. ASSUME NEW c, PendingIsAsked(c)
         PROVE  c.pending.token # 0 =>
                   /\ Settled(c.pending.token)'
                   /\ \/ asked'[c.pending.token].by = "reference"
                      \/ asked'[c.pending.token] =
                           [cap |-> c.pending.cap, by |-> asked'[c.pending.token].by,
                            token |-> c.pending.token,
                            papers |-> IF c.pending.cap = "compare_papers" THEN c.pending.refs
                                       ELSE <<c.pending.paper>>]
    BY <1>9, <1>10 DEF PendingIsAsked, Settled, Asked
  <1>11. TokenInv'
    <2>1. ASSUME NEW n \in Handlers, Busy(n)' PROVE msgs'[n].token \in 1..sent'
      <3>1. CASE n = m BY <1>6, <2>1, <3>1
      <3>2. CASE n # m
        <4>1. msgs[n].token \in 1..sent BY <1>4, <2>1, <3>2 DEF Busy, IInv, TokenInv
        <4> QED BY <1>1, <1>4, <3>2, <4>1
      <3> QED BY <3>1, <3>2
    <2>2. ASSUME NEW n \in Handlers, NEW q \in Handlers, Busy(n)', Busy(q)', n # q
          PROVE  msgs'[n].token # msgs'[q].token
      <3>1. \A x \in Handlers : x # m /\ Busy(x)' => Busy(x) /\ msgs'[x].token = msgs[x].token
                                                    /\ msgs[x].token # token
        BY <1>4 DEF Busy
      <3>2. CASE n = m BY <1>6, <2>2, <3>1, <3>2
      <3>3. CASE q = m BY <1>6, <2>2, <3>1, <3>3
      <3>4. CASE n # m /\ q # m BY <2>2, <3>1, <3>4 DEF IInv, TokenInv
      <3> QED BY <3>2, <3>3, <3>4
    <2> QED BY <2>1, <2>2 DEF TokenInv
  <1>12. StartedInv'
    BY <1>2, <1>9 DEF IInv, StartedInv, Settled
  <1>13. \A n \in Handlers : IsContext(msgs[n].seen)' /\ PendingIsAsked(msgs[n].seen)'
    <2>1. ASSUME NEW n \in Handlers, n # m
          PROVE  IsContext(msgs[n].seen)' /\ PendingIsAsked(msgs[n].seen)'
      <3>1. msgs'[n].seen = msgs[n].seen BY <1>4, <2>1
      <3>2. PendingIsAsked(msgs[n].seen) BY DEF IInv, PendingInv
      <3> QED BY <1>0, <1>10, <3>1, <3>2 DEF PendingIsAsked, Asked, IsContext
    <2>2. IsContext(msgs[m].seen)' /\ PendingIsAsked(msgs[m].seen)'
      <3>1. CASE msgs'[m].seen = seen BY <1>10, <3>1 DEF PendingIsAsked, Asked, IsContext
      <3>2. CASE msgs'[m].seen = EmptyContext BY <1>3, <3>2 DEF PendingIsAsked, IsContext
      <3> QED BY <1>6, <3>1, <3>2
    <2> QED BY <2>1, <2>2
  <1>14. IsContext(ctx)' /\ PendingIsAsked(ctx)'
    <2>1. PendingIsAsked(ctx) BY DEF IInv, PendingInv
    <2>2. CASE Authorize(d) = "confirm"
      <3> DEFINE p == PendingOf(d, Base(seen, d).sel, token)
      <3> DEFINE base == Base(seen, d)
      <3>1. ctx' = [base EXCEPT !.pending = p] /\ msgs' = [msgs EXCEPT ![m] = Idle]
            /\ asked' = [asked EXCEPT ![token] = Meant(d, seen, token)]
        BY <2>2 DEF Act, Write, Answered
      <3>2. IsContext(base) BY <1>0 DEF Base, IsContext
      <3>3. p.token = token
            /\ \/ Meant(d, seen, token).by = "reference"
               \/ Meant(d, seen, token) =
                    [cap |-> p.cap, by |-> Meant(d, seen, token).by, token |-> p.token,
                     papers |-> IF p.cap = "compare_papers" THEN p.refs ELSE <<p.paper>>]
        BY <1>0, <2>2, PendingIsMeant
      <3> HIDE DEF p, base
      <3>4. IsContext(ctx') /\ ctx'.pending = p BY <3>1, <3>2 DEF IsContext
      <3>5. asked'[token] = Meant(d, seen, token) BY <1>0, <1>1, <3>1
      <3>6. Settled(token)'
        <4>1. \A n \in Handlers : Busy(n)' => Busy(n) /\ n # m /\ msgs'[n].token = msgs[n].token
          BY <1>0, <1>3, <3>1 DEF Busy
        <4> QED BY <4>1 DEF Settled
      <3> QED BY <3>3, <3>4, <3>5, <3>6 DEF PendingIsAsked, Asked
    <2>3. CASE Authorize(d) # "confirm"
      <3>1. ctx' = ctx \/ ctx' = [ctx EXCEPT !.sel = d.paper]
        BY <2>3 DEF Act, Base
      <3>2. IsContext(ctx') /\ ctx'.pending = ctx.pending BY <1>0, <3>1 DEF IsContext
      <3> QED BY <1>10, <2>1, <3>2 DEF PendingIsAsked, Asked
    <2> QED BY <2>2, <2>3
  <1>15. ShapeInv' BY <1>5, <1>8, <1>13, <1>14 DEF ShapeInv, IsContext
  <1> QED BY <1>11, <1>12, <1>13, <1>14, <1>15 DEF IInv, PendingInv
-----------------------------------------------------------------------------
(* The steps.                                                              *)

\* A handler that only ends, and a session that writes a context and starts a workflow
\* that were asked for.
LEMMA OtherStep ==
    ASSUME IInv, UNCHANGED <<asked, sent>>, msgs' = msgs \/ \E m \in Handlers : Answered(m),
           NEW c, IsContext(c), PendingIsAsked(c), ctx' = c,
           NEW s, s.cap # "none" => /\ Settled(s.token)
                                    /\ s.by = "reference" \/ s = asked[s.token],
           started' = s
    PROVE  IInv'
  <1>0. /\ DOMAIN asked = Tokens /\ DOMAIN msgs = Handlers /\ sent \in 0..MaxMessages
        /\ \A n \in Handlers : IsContext(msgs[n].seen)
    BY DEF IInv, ShapeInv
  <1>1. Idle.pc = "idle" /\ Idle.seen = EmptyContext /\ IsContext(EmptyContext)
        /\ EmptyContext.pending.token = 0
    BY DEF Idle, EmptyContext, IsContext, NoPending
  <1>2. DOMAIN msgs' = Handlers /\ \A n \in Handlers : msgs'[n] \in {msgs[n], Idle}
    BY <1>0 DEF Answered
  <1>3. \A n \in Handlers : Busy(n)' => Busy(n) /\ msgs'[n] = msgs[n] BY <1>1, <1>2 DEF Busy
  <1>4. \A k : Settled(k) => Settled(k)' BY <1>3 DEF Settled
  <1>5. TokenInv' BY <1>3 DEF IInv, TokenInv
  <1>6. StartedInv' BY <1>4 DEF StartedInv
  <1>7. PendingIsAsked(ctx)' BY <1>4 DEF PendingIsAsked, Asked
  <1>8. ASSUME NEW n \in Handlers
        PROVE  IsContext(msgs[n].seen)' /\ PendingIsAsked(msgs[n].seen)'
    <2>1. CASE msgs'[n] = msgs[n]
      <3>1. PendingIsAsked(msgs[n].seen) BY DEF IInv, PendingInv
      <3> QED BY <1>0, <1>4, <2>1, <3>1 DEF PendingIsAsked, Asked, IsContext
    <2>2. CASE msgs'[n] = Idle BY <1>1, <2>2 DEF PendingIsAsked, IsContext
    <2> QED BY <1>2, <2>1, <2>2
  <1>9. IsContext(ctx)' BY DEF IsContext
  <1> QED BY <1>0, <1>2, <1>5, <1>6, <1>7, <1>8, <1>9 DEF IInv, ShapeInv, PendingInv

\* A message arrives with the next token.
LEMMA ReceiveStep ==
    ASSUME IInv, NEW m \in Handlers, NEW msg, Receive(m, msg)
    PROVE  IInv'
  <1>0. /\ DOMAIN asked = Tokens /\ DOMAIN msgs = Handlers /\ sent \in 0..MaxMessages
        /\ IsContext(ctx) /\ \A n \in Handlers : IsContext(msgs[n].seen)
        /\ MaxMessages \in Nat
    BY BoundsAssumption DEF IInv, ShapeInv
  <1>1. sent' = sent + 1 /\ sent' \in 1..MaxMessages /\ sent' \in 0..MaxMessages /\ ~Busy(m)
        /\ sent' \notin 1..sent /\ sent' \in 1..sent' /\ sent <= sent'
        /\ \A k \in 1..sent : k \in 1..sent'
    BY <1>0 DEF Receive, Busy
  <1>2. \A n \in Handlers : Busy(n) => msgs[n].token # sent' BY <1>1 DEF IInv, TokenInv
  <1>3. CASE Act(m, Deterministic(msg, ctx.sel, ctx.cands), ctx, sent')
    <2> DEFINE d == Deterministic(msg, ctx.sel, ctx.cands)
    <2>1. HasSource(d) BY DeterministicSource
    <2> HIDE DEF d
    <2>2. Act(m, d, ctx, sent') BY <1>3 DEF d
    <2>3. PendingIsAsked(ctx) BY DEF IInv, PendingInv
    <2> QED BY <1>0, <1>1, <1>2, <2>1, <2>2, <2>3, ActStep
  <1>4. CASE /\ UNCHANGED <<asked, started>>
             /\ \/ msgs' = msgs /\ IsContext(ctx') /\ ctx'.pending = ctx.pending
                \/ ctx' = ctx /\ msgs' = [msgs EXCEPT ![m] = [pc |-> "routing", seen |-> ctx,
                                                              cap |-> "none", token |-> sent']]
    <2>1. DOMAIN msgs' = Handlers /\ (\A n \in Handlers : n # m => msgs'[n] = msgs[n])
          /\ (msgs'[m] = msgs[m] \/ (Busy(m)' /\ msgs'[m].token = sent' /\ msgs'[m].seen = ctx))
      BY <1>0, <1>4 DEF Busy
    <2>2. \A n \in Handlers : \/ msgs'[n] = msgs[n]
                              \/ n = m /\ msgs'[n].token = sent' /\ msgs'[n].seen = ctx
      BY <2>1
    <2>3. ASSUME NEW k, Settled(k) PROVE Settled(k)'
      <3>1. k \in 1..sent /\ k \in 1..sent' /\ k # sent' BY <1>1, <2>3 DEF Settled
      <3> QED BY <2>2, <2>3, <3>1 DEF Settled, Busy
    <2>4. TokenInv'
      <3>1. \A n \in Handlers : Busy(n)' => msgs'[n].token \in 1..sent'
        BY <1>1, <2>2 DEF IInv, TokenInv, Busy
      <3>2. ASSUME NEW n \in Handlers, NEW q \in Handlers, Busy(n)', Busy(q)', n # q
            PROVE  msgs'[n].token # msgs'[q].token
        <4>1. \A x \in Handlers : x # m /\ Busy(x)' => Busy(x) /\ msgs'[x].token = msgs[x].token
                                                      /\ msgs[x].token # sent'
          BY <1>2, <2>1 DEF Busy
        <4>2. Busy(m)' => msgs'[m].token = sent' BY <1>1, <2>1 DEF Busy
        <4>3. CASE n = m BY <3>2, <4>1, <4>2, <4>3
        <4>4. CASE q = m BY <3>2, <4>1, <4>2, <4>4
        <4>5. CASE n # m /\ q # m BY <3>2, <4>1, <4>5 DEF IInv, TokenInv
        <4> QED BY <4>3, <4>4, <4>5
      <3> QED BY <3>1, <3>2 DEF TokenInv
    <2>5. StartedInv' BY <1>4, <2>3 DEF IInv, StartedInv
    <2>6. PendingIsAsked(ctx)' /\ IsContext(ctx)'
      BY <1>0, <1>4, <2>3 DEF IInv, PendingInv, PendingIsAsked, Asked, IsContext
    <2>7. ASSUME NEW n \in Handlers
          PROVE  IsContext(msgs[n].seen)' /\ PendingIsAsked(msgs[n].seen)'
      <3>1. PendingIsAsked(msgs[n].seen) /\ PendingIsAsked(ctx) BY DEF IInv, PendingInv
      <3>2. msgs'[n].seen \in {msgs[n].seen, ctx} BY <2>2
      <3> QED BY <1>0, <1>4, <2>3, <3>1, <3>2 DEF PendingIsAsked, Asked, IsContext
    <2> QED BY <1>0, <1>1, <1>4, <2>1, <2>4, <2>5, <2>6, <2>7 DEF IInv, ShapeInv, PendingInv
  <1>5. CASE Select(m, msg)
    <2>1. UNCHANGED <<asked, started, msgs>>
          /\ ctx' = [ctx EXCEPT !.sel = SelectedBy(msg, ctx.cands)]
      BY <1>5 DEF Select
    <2>2. IsContext(ctx') /\ ctx'.pending = ctx.pending BY <1>0, <2>1 DEF IsContext
    <2> QED BY <1>4, <2>1, <2>2
  <1> QED BY <1>3, <1>4, <1>5 DEF Receive

\* The model answered, or a tool.
LEMMA HandlerStep ==
    ASSUME IInv, NEW m \in Handlers, Handler(m)
    PROVE  IInv'
  <1>0. /\ DOMAIN asked = Tokens /\ DOMAIN msgs = Handlers /\ sent \in 0..MaxMessages
        /\ IsContext(ctx) /\ IsContext(msgs[m].seen) /\ PendingIsAsked(msgs[m].seen)
    BY DEF IInv, ShapeInv, PendingInv
  <1>1. CASE RouterAnswers(m)
    <2>1. PICK d \in Routed(msgs[m].seen.cands) : Act(m, d, msgs[m].seen, msgs[m].token)
      BY <1>1 DEF RouterAnswers
    <2>2. Len(Visible(msgs[m].seen.cands)) \in 0..MaxVisible
      BY <1>0, LimitsAssumption DEF IsContext, Visible
    <2>3. HasSource(d) BY <2>2, RoutedSource
    <2>4. Busy(m) /\ sent' = sent BY <1>1 DEF RouterAnswers, Busy
    <2>5. msgs[m].token \in 1..sent
          /\ \A n \in Handlers : Busy(n) /\ n # m => msgs[n].token # msgs[m].token
      BY <2>4 DEF IInv, TokenInv
    <2>6. \A k \in 1..sent : Settled(k) => k # msgs[m].token BY <2>4 DEF Settled
    <2> QED BY <1>0, <2>1, <2>3, <2>4, <2>5, <2>6, ActStep
  <1>2. CASE RouterFails(m) \/ ToolFinished(m)
    <2>1. Answered(m) /\ UNCHANGED <<ctx, asked, started, sent>>
      BY <1>2 DEF RouterFails, ToolFinished
    <2>2. PendingIsAsked(ctx) /\ StartedInv BY DEF IInv, PendingInv
    <2> QED BY <1>0, <2>1, <2>2, OtherStep DEF StartedInv
  <1>3. CASE SearchFinished(m)
    <2> DEFINE c == msgs[m].seen
    <2>1. PICK found \in Lists : ctx' = [c EXCEPT !.cands = found]
      BY <1>3 DEF SearchFinished, Write, WithCandidates
    <2>2. UNCHANGED <<asked, started, sent>> /\ Answered(m) BY <1>3 DEF SearchFinished
    <2>3. found \in Seq(Papers) BY BoundsAssumption DEF Lists
    <2>4. IsContext(ctx') /\ ctx'.pending = c.pending BY <1>0, <2>1, <2>3 DEF IsContext
    <2>5. PendingIsAsked(ctx')
      BY <1>0, <2>4 DEF PendingIsAsked, Asked
    <2>6. StartedInv BY DEF IInv
    <2> HIDE DEF c
    <2> QED BY <2>2, <2>4, <2>5, <2>6, OtherStep DEF StartedInv
  <1> QED BY <1>1, <1>2, <1>3 DEF Handler

\* A confirmation starts what was asked for the token of the pending action.
LEMMA ConfirmStep ==
    ASSUME IInv, Confirm
    PROVE  IInv'
  <1> DEFINE p == ctx.pending
  <1>0. IsContext(ctx) /\ PendingIsAsked(ctx) /\ StartedInv BY DEF IInv, ShapeInv, PendingInv
  <1>1. p.token # 0 /\ Settled(p.token) /\ Asked(p) BY <1>0 DEF Confirm, PendingIsAsked
  <1>2. UNCHANGED <<msgs, asked, sent>>
        /\ ctx' = [ctx EXCEPT !.pending = NoPending, !.task = TRUE,
                              !.sel = IF p.cap = "compare_papers" THEN ctx.sel ELSE p.paper]
    BY DEF Confirm
  <1>3. IsContext(ctx') /\ ctx'.pending = NoPending BY <1>0, <1>2 DEF IsContext
  <1>4. PendingIsAsked(ctx') BY <1>3 DEF PendingIsAsked, NoPending
  <1>5. started'.cap # "none" => /\ Settled(started'.token)
                                 /\ started'.by = "reference" \/ started' = asked[started'.token]
    <2>1. CASE started' = started BY <1>0, <2>1 DEF StartedInv
    <2>2. CASE started' = [cap |-> p.cap, by |-> asked[p.token].by, token |-> p.token,
                           papers |-> IF p.cap = "compare_papers" THEN p.refs ELSE <<p.paper>>]
      BY <1>1, <2>2 DEF Asked
    <2> QED BY <2>1, <2>2 DEF Confirm
  <1> HIDE DEF p
  <1> QED BY <1>2, <1>3, <1>4, <1>5, OtherStep

\* The selection follows the choices.
Selection == strayed \/ ctx.sel = chosen

LEMMA ActSelects ==
    ASSUME IInv, Selection, NEW m, NEW d, NEW seen, NEW token, Act(m, d, seen, token), IsContext(seen)
    PROVE  Selection'
  <1>0. IsContext(ctx) BY DEF IInv, ShapeInv
  <1>1. CASE Explicit(d)
    <2>1. chosen' = d.paper BY <1>1 DEF Act
    <2>2. Base(seen, d) = [ctx EXCEPT !.sel = d.paper] /\ IsContext(Base(seen, d))
          /\ Base(seen, d).sel = d.paper
      BY <1>0, <1>1 DEF Base, IsContext
    <2>3. CASE Authorize(d) = "confirm"
      <3>1. \E p : ctx' = [Base(seen, d) EXCEPT !.pending = p] BY <2>3 DEF Act, Write
      <3>2. ctx'.sel = d.paper BY <2>2, <3>1 DEF IsContext
      <3> QED BY <2>1, <3>2 DEF Selection
    <2>4. CASE Authorize(d) = "denied"
      <3>1. ctx' = Base(seen, d) BY <1>1, <2>4 DEF Act
      <3> QED BY <2>1, <2>2, <3>1 DEF Selection
    <2>5. Authorize(d) # "allowed"
      BY <1>1 DEF Explicit, Authorize, Catalog
    <2> QED BY <2>3, <2>4, <2>5 DEF Act
  <1>2. CASE ~Explicit(d)
    <2>1. chosen' = chosen /\ Base(seen, d) = seen BY <1>2 DEF Act, Base
    <2>2. CASE Authorize(d) = "confirm"
      <3>1. \E p : ctx' = [seen EXCEPT !.pending = p] BY <2>1, <2>2 DEF Act, Write
      <3>2. ctx'.sel = seen.sel BY <3>1 DEF IsContext
      <3>3. strayed' = (strayed \/ seen # ctx) BY <1>2, <2>2 DEF Act, Write
      <3> QED BY <2>1, <3>2, <3>3 DEF Selection
    <2>3. CASE Authorize(d) # "confirm"
      <3>1. ctx' = ctx /\ strayed' = strayed BY <1>2, <2>3 DEF Act
      <3> QED BY <2>1, <3>1 DEF Selection
    <2> QED BY <2>2, <2>3
  <1> QED BY <1>1, <1>2

LEMMA SelectionStep ==
    ASSUME IInv, Selection, Next
    PROVE  Selection'
  <1>0. IsContext(ctx) /\ \A m \in Handlers : IsContext(msgs[m].seen) BY DEF IInv, ShapeInv
  <1>1. ASSUME NEW m \in Handlers, Handler(m) PROVE Selection'
    <2>1. CASE RouterAnswers(m) BY <1>0, <2>1, ActSelects DEF RouterAnswers
    <2>2. CASE RouterFails(m) \/ ToolFinished(m)
      BY <2>2 DEF RouterFails, ToolFinished, Selection
    <2>3. CASE SearchFinished(m)
      <3>1. PICK found \in Lists : /\ ctx' = [msgs[m].seen EXCEPT !.cands = found]
                                   /\ strayed' = (strayed \/ msgs[m].seen # ctx)
        BY <2>3 DEF SearchFinished, Write, WithCandidates
      <3>2. chosen' = chosen BY <2>3 DEF SearchFinished
      <3>3. ctx'.sel = msgs[m].seen.sel BY <1>0, <3>1 DEF IsContext
      <3> QED BY <3>1, <3>2, <3>3 DEF Selection
    <2> QED BY <1>1, <2>1, <2>2, <2>3 DEF Handler
  <1>2. ASSUME NEW m \in Handlers, NEW msg, Receive(m, msg) PROVE Selection'
    <2>1. CASE Select(m, msg)
      <3>1. ctx' = [ctx EXCEPT !.sel = SelectedBy(msg, ctx.cands)]
            /\ chosen' = SelectedBy(msg, ctx.cands)
        BY <2>1 DEF Select
      <3>2. ctx'.sel = chosen' BY <1>0, <3>1 DEF IsContext
      <3> QED BY <3>2 DEF Selection
    <2>2. CASE \E d : Act(m, d, ctx, sent') BY <1>0, <2>2, ActSelects
    <2>3. CASE UNCHANGED <<ctx, chosen, strayed>> BY <2>3 DEF Selection
    <2> QED BY <1>2, <2>1, <2>2, <2>3 DEF Receive
  <1>3. CASE Confirm BY <1>3 DEF Confirm, Selection
  <1> QED BY <1>1, <1>2, <1>3 DEF Next

-----------------------------------------------------------------------------
(* The types of a decision.                                                *)

\* What is true of some number is true of a least one.
LEMMA Least ==
    ASSUME NEW T \in SUBSET Nat, T # {}
    PROVE  \E n \in T : \A k \in T : n <= k
  <1>1. IsWellFoundedOn(OpToRel(<, Nat), Nat) BY NatLessThanWellFounded
  <1>2. PICK n \in T : \A y \in T : ~(<<y, n>> \in OpToRel(<, Nat)) BY <1>1, WFMin, Zenon
  <1>3. \A y \in T : ~(y < n) BY <1>2 DEF OpToRel
  <1> QED BY <1>3

\* The loop over the references, as far as the first n of them.
Step(s, u, k) ==
    IF k = 0 THEN <<>>
    ELSE IF s[k] = NoPaper \/ s[k] \in ToSet(u[k - 1]) THEN u[k - 1]
         ELSE Append(u[k - 1], s[k])
Loop(s, n, u) == u = [k \in 0..n |-> Step(s, u, k)]

LEMMA LoopGoesOn ==
    ASSUME NEW s, NEW n \in Nat, NEW u, Loop(s, n, u)
    PROVE  \E v : Loop(s, n + 1, v)
  <1> DEFINE last == IF s[n + 1] = NoPaper \/ s[n + 1] \in ToSet(u[n]) THEN u[n]
                     ELSE Append(u[n], s[n + 1])
  <1> DEFINE v == [k \in 0..n + 1 |-> IF k = n + 1 THEN last ELSE u[k]]
  <1>1. \A k \in 0..n : u[k] = Step(s, u, k) BY DEF Loop
  <1>2. \A k \in 0..n + 1 : v[k] = Step(s, v, k)
    <2>1. ASSUME NEW k \in 0..n PROVE v[k] = Step(s, v, k)
      <3>1. v[k] = u[k] OBVIOUS
      <3>2. k # 0 => v[k - 1] = u[k - 1] OBVIOUS
      <3> HIDE DEF v
      <3> QED BY <1>1, <3>1, <3>2 DEF Step
    <2>2. v[n + 1] = Step(s, v, n + 1)
      <3>1. v[n + 1] = last /\ v[n] = u[n] /\ n + 1 # 0 /\ (n + 1) - 1 = n OBVIOUS
      <3> HIDE DEF v
      <3> QED BY <3>1 DEF Step
    <2> HIDE DEF v
    <2> QED BY <2>1, <2>2
  <1>3. v = [k \in 0..n + 1 |-> v[k]] OBVIOUS
  <1> HIDE DEF v
  <1> QED BY <1>2, <1>3 DEF Loop

LEMMA LoopExists ==
    ASSUME NEW s, NEW n \in Nat
    PROVE  \E u : Loop(s, n, u)
  <1> DEFINE T == {k \in Nat : ~ \E u : Loop(s, k, u)}
  <1>1. SUFFICES ASSUME n \in T PROVE FALSE OBVIOUS
  <1>2. PICK m \in T : \A k \in T : m <= k
    <2>1. T \in SUBSET Nat /\ T # {} BY <1>1
    <2> HIDE DEF T
    <2> QED BY <2>1, Least
  <1>3. m # 0
    <2>1. Loop(s, 0, [k \in 0..0 |-> <<>>])
      <3> DEFINE u == [k \in 0..0 |-> <<>>]
      <3>1. \A k \in 0..0 : u[k] = Step(s, u, k) BY DEF Step
      <3>2. u = [k \in 0..0 |-> u[k]] OBVIOUS
      <3> HIDE DEF u
      <3>3. Loop(s, 0, u) BY <3>1, <3>2 DEF Loop
      <3> QED BY <3>3 DEF u
    <2> QED BY <1>2, <2>1
  <1>4. m - 1 \in Nat /\ m - 1 \notin T BY <1>2, <1>3
  <1>5. PICK u : Loop(s, m - 1, u) BY <1>4
  <1>6. \E v : Loop(s, (m - 1) + 1, v) BY <1>4, <1>5, LoopGoesOn
  <1> QED BY <1>2, <1>6

\* What is named after the first k references: papers, each once, and all of those.
NamesAre(t, s, k) ==
    /\ t \in Seq(Papers) /\ IsInjective(t)
    /\ ToSet(t) = {s[j] : j \in 1..k} \ {NoPaper}

LEMMA NamesGoOn ==
    ASSUME NEW s \in Seq(Papers \cup {NoPaper}), NEW k \in 1..Len(s), NEW t, NamesAre(t, s, k - 1)
    PROVE  /\ s[k] = NoPaper \/ s[k] \in ToSet(t) => NamesAre(t, s, k)
           /\ ~(s[k] = NoPaper \/ s[k] \in ToSet(t)) => NamesAre(Append(t, s[k]), s, k)
  <1>1. Len(s) \in Nat /\ k \in Nat /\ k - 1 \in Nat /\ s[k] \in Papers \cup {NoPaper} OBVIOUS
  <1>2. t \in Seq(Papers) /\ IsInjective(t) /\ ToSet(t) = {s[j] : j \in 1..k - 1} \ {NoPaper}
    BY DEF NamesAre
  <1>3. {s[j] : j \in 1..k} = {s[j] : j \in 1..k - 1} \cup {s[k]}
    <2>1. 1..k = (1..k - 1) \cup {k} BY <1>1
    <2> QED BY <2>1
  <1>4. CASE s[k] = NoPaper \/ s[k] \in ToSet(t) BY <1>2, <1>3, <1>4 DEF NamesAre
  <1>5. CASE ~(s[k] = NoPaper \/ s[k] \in ToSet(t))
    <2> DEFINE v == Append(t, s[k])
    <2>1. s[k] \in Papers BY <1>1, <1>5
    <2>2. /\ v \in Seq(Papers) /\ Len(t) \in Nat /\ DOMAIN t = 1..Len(t)
          /\ DOMAIN v = 1..Len(t) + 1 /\ v[Len(t) + 1] = s[k]
          /\ \A j \in 1..Len(t) : v[j] = t[j]
      BY <1>2, <2>1
    <2>3. \A j \in 1..Len(t) : t[j] # s[k] BY <1>5, <2>2 DEF ToSet
    <2>4. \A a, b \in 1..Len(t) : t[a] = t[b] => a = b BY <1>2, <2>2 DEF IsInjective
    <2> HIDE DEF v
    <2>5. \A j \in DOMAIN v : j \in 1..Len(t) \/ j = Len(t) + 1 BY <2>2
    <2>6. IsInjective(v)
      <3>1. ASSUME NEW a \in DOMAIN v, NEW b \in DOMAIN v, v[a] = v[b] PROVE a = b
        BY <2>2, <2>3, <2>4, <2>5, <3>1
      <3> QED BY <3>1 DEF IsInjective
    <2>7. ToSet(v) = ToSet(t) \cup {s[k]}
      <3>1. \A x : x \in ToSet(v) <=> \E j \in DOMAIN v : v[j] = x BY DEF ToSet
      <3>2. \A x : x \in ToSet(t) <=> \E j \in 1..Len(t) : t[j] = x BY <2>2 DEF ToSet
      <3>3. \A j \in 1..Len(t) : j \in DOMAIN v BY <2>2
      <3>4. Len(t) + 1 \in DOMAIN v BY <2>2
      <3> QED BY <2>2, <2>5, <3>1, <3>2, <3>3, <3>4
    <2>8. ToSet(v) = {s[j] : j \in 1..k} \ {NoPaper} BY <1>2, <1>3, <1>5, <2>7
    <2> QED BY <1>5, <2>2, <2>6, <2>8 DEF NamesAre, v
  <1> QED BY <1>4, <1>5

\* The loop of _comparison_references names exactly the papers it is given, each of
\* them once, however many references there are and whichever ordinals miss.
THEOREM NamedOnce ==
    ASSUME NEW s \in Seq(Papers \cup {NoPaper})
    PROVE  /\ Unique(s) \in Seq(Papers) /\ IsInjective(Unique(s))
           /\ ToSet(Unique(s)) = ToSet(s) \ {NoPaper}
  <1> DEFINE n == Len(s)
  <1> DEFINE u == CHOOSE v : Loop(s, n, v)
  <1>1. n \in Nat OBVIOUS
  <1>2. Loop(s, n, u) BY <1>1, LoopExists
  <1>3. Unique(s) = u[n] BY DEF Unique, Loop, Step
  <1> HIDE DEF u
  <1>4. \A k \in 0..n : u[k] = Step(s, u, k) BY <1>2 DEF Loop
  <1> DEFINE T == {k \in 0..n : ~NamesAre(u[k], s, k)}
  <1>5. ASSUME T # {} PROVE FALSE
    <2>1. T \in SUBSET Nat OBVIOUS
    <2>2. PICK m \in T : \A k \in T : m <= k
      <3> HIDE DEF T
      <3> QED BY <1>5, <2>1, Least
    <2>3. m # 0
      <3>1. u[0] = <<>> BY <1>1, <1>4 DEF Step
      <3>2. NamesAre(<<>>, s, 0)
        <4>1. <<>> \in Seq(Papers) /\ DOMAIN <<>> = {} /\ 1..0 = {} OBVIOUS
        <4>2. ToSet(<<>>) = {} /\ IsInjective(<<>>) BY <4>1 DEF ToSet, IsInjective
        <4>3. {s[j] : j \in 1..0} = {} BY <4>1
        <4> QED BY <4>1, <4>2, <4>3 DEF NamesAre
      <3> QED BY <3>1, <3>2
    <2>4. m - 1 \in 0..n /\ m - 1 \notin T /\ m \in 1..n BY <1>1, <2>2, <2>3
    <2>5. NamesAre(u[m - 1], s, m - 1) BY <2>4
    <2>6. u[m] = IF s[m] = NoPaper \/ s[m] \in ToSet(u[m - 1]) THEN u[m - 1]
                 ELSE Append(u[m - 1], s[m])
      BY <1>4, <2>3, <2>4 DEF Step
    <2>7. NamesAre(u[m], s, m) BY <2>4, <2>5, <2>6, NamesGoOn
    <2> QED BY <2>7
  <1>6. n \in 0..n BY <1>1
  <1>7. NamesAre(u[n], s, n) BY <1>5, <1>6
  <1>8. ToSet(s) = {s[j] : j \in 1..n} BY DEF ToSet
  <1> QED BY <1>3, <1>7, <1>8 DEF NamesAre

LEMMA ReferencesType ==
    ASSUME NEW ids \in Seq(Papers), NEW ordinals \in Seq(Nat), NEW cands \in Seq(Papers)
    PROVE  ComparisonReferences(ids, ordinals, cands) \in Seq(Papers)
  <1> DEFINE named == [k \in DOMAIN ordinals |->
                         IF ordinals[k] \in DOMAIN cands THEN cands[ordinals[k]] ELSE NoPaper]
  <1>1. Unique(ids) \in Seq(Papers)
    <2>1. ids \in Seq(Papers \cup {NoPaper}) OBVIOUS
    <2> QED BY <2>1, NamedOnce
  <1>2. named \in Seq(Papers \cup {NoPaper})
    <2>1. \A k \in DOMAIN ordinals : named[k] \in Papers \cup {NoPaper} OBVIOUS
    <2>2. DOMAIN ordinals = 1..Len(ordinals) /\ Len(ordinals) \in Nat OBVIOUS
    <2> QED BY <2>1, <2>2
  <1>3. Unique(named) \in Seq(Papers) BY <1>2, NamedOnce
  <1> HIDE DEF named
  <1>4. Unique(ids) \o Unique(named) \in Seq(Papers) BY <1>1, <1>3
  <1> QED BY <1>4 DEF ComparisonReferences, named

\* The first candidate that is named is one of the candidates.
LEMMA SelectedType ==
    ASSUME NEW msg, NEW cands \in Seq(Papers)
    PROVE  SelectedBy(msg, cands) \in Papers \cup {NoPaper}
  <1> DEFINE named == {k \in DOMAIN cands : msg.exact /\ cands[k] \in ToSet(msg.ids)}
  <1>1. \A k \in DOMAIN cands : cands[k] \in Papers OBVIOUS
  <1>2. CASE msg.number \in DOMAIN cands BY <1>1, <1>2 DEF SelectedBy
  <1>3. CASE msg.number \notin DOMAIN cands /\ named = {} BY <1>3 DEF SelectedBy
  <1>4. CASE msg.number \notin DOMAIN cands /\ named # {}
    <2>1. named \in SUBSET Nat /\ named \subseteq DOMAIN cands OBVIOUS
    <2>2. SelectedBy(msg, cands) = cands[CHOOSE k \in named : \A j \in named : k <= j]
      BY <1>4 DEF SelectedBy
    <2> HIDE DEF named
    <2>3. (CHOOSE k \in named : \A j \in named : k <= j) \in named BY <1>4, <2>1, Least
    <2> QED BY <1>1, <2>1, <2>2, <2>3
  <1> QED BY <1>2, <1>3, <1>4

\* A decision names papers, and refers to candidates that exist.
Decided(d, shown) ==
    /\ d.paper \in Papers \cup {NoPaper}
    /\ d.refs \in Seq(Papers)
    /\ d.reference \in 0..shown

\* The fields of a decision.
Fields == {"matched", "cap", "paper", "refs", "path", "content", "reference", "source"}

LEMMA DeterministicType ==
    ASSUME NEW msg, msg.ids \in Seq(Papers), msg.ordinals \in Seq(Nat), NEW sel,
           NEW cands \in Seq(Papers)
    PROVE  Decided(Deterministic(msg, sel, cands), Len(cands))
  <1>1. Len(cands) \in Nat OBVIOUS
  <1>2. Decided(NoDecision, Len(cands)) BY <1>1 DEF NoDecision, Decided
  <1> DEFINE a == Arguments(msg, cands)
             paper == IF msg.term \in {"paper_download", "process_selected_paper", "paper_search"}
                      THEN Named(msg.ids) ELSE NoPaper
             refs == IF msg.term = "compare_papers"
                     THEN ComparisonReferences(msg.ids, msg.ordinals, cands) ELSE <<>>
  <1>3. paper \in Papers \cup {NoPaper} BY DEF Named
  <1>4. refs \in Seq(Papers) BY ReferencesType
  <1>5. a = [NoDecision EXCEPT !.cap = msg.term, !.path = msg.path, !.paper = paper, !.refs = refs]
    BY DEF Arguments
  <1> HIDE DEF paper, refs, a
  <1>6. DOMAIN a = Fields /\ a.paper = paper /\ a.refs = refs /\ a.reference = 0
    BY <1>5 DEF NoDecision, Fields
  <1>7. ASSUME NEW b PROVE Decided([a EXCEPT !.matched = b], Len(cands))
    BY <1>1, <1>3, <1>4, <1>6 DEF Decided, Fields
  <1> QED BY <1>2, <1>7 DEF Deterministic, a

LEMMA RoutedType ==
    ASSUME NEW cands \in Seq(Papers), NEW d \in Routed(cands)
    PROVE  Decided(d, Len(cands))
  <1> DEFINE shown == Len(Visible(cands))
  <1>1. shown \in 0..MaxVisible /\ shown \in 0..Len(cands) /\ Len(cands) \in Nat
    BY LimitsAssumption DEF Visible
  <1>2. d \in {Fallback} \cup {Clarified(ParseResponse(x), c) : x \in Answers(shown), c \in BOOLEAN}
    BY <1>1 DEF Routed, Routes
  <1> HIDE DEF shown
  <1> DEFINE Typed(x) == Decided(x, Len(cands)) /\ DOMAIN x = Fields
  <1>3. \A c : /\ Answer(c).paper = NoPaper /\ Answer(c).refs = <<>> /\ Answer(c).reference = 0
               /\ DOMAIN Answer(c) = Fields
    BY DEF Answer, NoDecision, Fields
  <1>4. \A k \in 0..shown : k \in 0..Len(cands) BY <1>1
  <1>5. Typed(Fallback) BY <1>1 DEF Fallback, NoDecision, Fields, Decided
  <1>6. ASSUME NEW x \in Answers(shown) PROVE Typed(x)
    <2>1. CASE x = Answer("unknown")
      <3>1. x.paper = NoPaper /\ x.refs = <<>> /\ x.reference = 0 /\ DOMAIN x = Fields
        BY <1>3, <2>1
      <3> QED BY <1>1, <3>1 DEF Decided
    <2>2. CASE x \in PaperAnswers(shown)
      <3>1. PICK c \in {"process_selected_paper", "paper_search"}, p \in Papers \cup {NoPaper},
                 n \in 0..shown, w \in {"none", "outside"} : x = PaperAnswer(c, p, n, w)
        BY <2>2 DEF PaperAnswers
      <3>2. x = [Answer(c) EXCEPT !.paper = p, !.reference = n, !.path = w]
        BY <3>1 DEF PaperAnswer
      <3>3. x.paper = p /\ x.refs = <<>> /\ x.reference = n /\ DOMAIN x = Fields
        BY <1>3, <3>2 DEF Fields
      <3> QED BY <1>4, <3>3 DEF Decided
    <2>3. CASE x \in ComparisonAnswers
      <3>1. PICK r \in UNION {[1..k -> Papers] : k \in 1..MaxRefs + 1} : x = ComparisonAnswer(r)
        BY <2>3 DEF ComparisonAnswers
      <3>2. PICK k \in 1..MaxRefs + 1 : r \in [1..k -> Papers] BY <3>1
      <3>3. r \in Seq(Papers) BY <3>2, LimitsAssumption
      <3>4. x = [Answer("compare_papers") EXCEPT !.refs = r] BY <3>1 DEF ComparisonAnswer
      <3>5. x.paper = NoPaper /\ x.refs = r /\ x.reference = 0 /\ DOMAIN x = Fields
        BY <1>3, <3>4 DEF Fields
      <3> QED BY <1>1, <3>3, <3>5 DEF Decided
    <2>4. CASE x \in ArtifactAnswers
      <3>1. PICK c, w, b : x = ArtifactAnswer(c, w, b) BY <2>4 DEF ArtifactAnswers
      <3>2. x = [Answer(c) EXCEPT !.path = w, !.content = b] BY <3>1 DEF ArtifactAnswer
      <3>3. x.paper = NoPaper /\ x.refs = <<>> /\ x.reference = 0 /\ DOMAIN x = Fields
        BY <1>3, <3>2 DEF Fields
      <3> QED BY <1>1, <3>3 DEF Decided
    <2> QED BY <1>6, <2>1, <2>2, <2>3, <2>4 DEF Answers
  <1>7. ASSUME NEW x, Typed(x), NEW c PROVE Decided(Clarified(x, c), Len(cands))
    <2>1. [x EXCEPT !.matched = FALSE, !.source = "fallback"].paper = x.paper
          /\ [x EXCEPT !.matched = FALSE, !.source = "fallback"].refs = x.refs
          /\ [x EXCEPT !.matched = FALSE, !.source = "fallback"].reference = x.reference
      BY <1>7 DEF Fields
    <2> QED BY <1>7, <2>1 DEF Clarified, Decided
  <1>8. \A x \in Answers(shown) : Typed(ParseResponse(x)) BY <1>5, <1>6 DEF ParseResponse
  <1> HIDE DEF Typed
  <1>9. CASE d = Fallback BY <1>5, <1>9 DEF Typed
  <1>10. CASE d # Fallback
    <2>1. PICK x \in Answers(shown), c \in BOOLEAN : d = Clarified(ParseResponse(x), c)
      BY <1>2, <1>10
    <2> QED BY <1>7, <1>8, <2>1
  <1> QED BY <1>9, <1>10

\* The messages of the users.
LEMMA MessageType ==
    ASSUME NEW msg \in UserMessages
    PROVE  msg.ids \in Seq(Papers) /\ msg.ordinals \in Seq(Nat)
  <1>1. \A x \in Lists : x \in Seq(Papers) BY BoundsAssumption DEF Lists
  <1>2. <<1, 2>> \in Seq(Nat) /\ <<>> \in Seq(Nat) /\ <<>> \in Seq(Papers)
        /\ \A p \in Papers : <<p>> \in Seq(Papers)
    OBVIOUS
  <1>3. Plain.ids = <<>> /\ Plain.ordinals = <<>>
        /\ DOMAIN Plain = {"term", "ids", "exact", "ordinals", "number", "path", "topic"}
    BY DEF Plain
  <1>4. CASE msg \in Ordinals BY <1>2, <1>3, <1>4 DEF Ordinals, Ordinal
  <1>5. CASE msg \in PaperMessages
    <2>1. PICK t \in {"process_selected_paper", "paper_search", "paper_download"},
               p \in Papers \cup {NoPaper}, e \in BOOLEAN : msg = AboutPaper(t, p, e)
      BY <1>5 DEF PaperMessages
    <2>2. msg.ids = (IF p = NoPaper THEN <<>> ELSE <<p>>) /\ msg.ordinals = <<>>
      BY <1>3, <2>1 DEF AboutPaper
    <2> QED BY <1>2, <2>1, <2>2
  <1>6. CASE msg \in Comparisons
    <2>1. PICK i \in Lists, o \in {<<>>, <<1, 2>>} : msg = Comparison(i, o)
      BY <1>6 DEF Comparisons
    <2>2. msg.ids = i /\ msg.ordinals = o BY <1>3, <2>1 DEF Comparison
    <2> QED BY <1>1, <1>2, <2>2
  <1>7. CASE msg \in PathMessages
    <2>1. PICK t, w : msg = AboutPath(t, w) BY <1>7 DEF PathMessages
    <2>2. msg.ids = <<>> /\ msg.ordinals = <<>> BY <1>3, <2>1 DEF AboutPath
    <2> QED BY <1>2, <2>2
  <1>8. CASE msg = Aimless
    <2>1. msg.ids = <<>> /\ msg.ordinals = <<>> BY <1>3, <1>8 DEF Aimless
    <2> QED BY <1>2, <2>1
  <1> QED BY <1>4, <1>5, <1>6, <1>7, <1>8 DEF UserMessages

-----------------------------------------------------------------------------
(* The types of the session.                                               *)

Names == Capabilities \cup {"none"}
Phase(x) == /\ x.pc \in {"idle", "routing", "executing"} /\ x.seen \in Context
            /\ x.cap \in Names /\ x.token \in 0..MaxMessages

TypeInv == IInv /\ TypeOK

\* The constants have the types of what is initialised with them.
LEMMA Constants ==
    /\ EmptyContext \in Context /\ NoPending \in Pending /\ NoRequest \in Request
    /\ Phase(Idle)
    /\ \A x \in Lists : x \in Seq(Papers)
    /\ 0 \in 0..MaxMessages
  <1>1. 0 \in 0..MaxMessages BY BoundsAssumption
  <1>2. NoPending \in Pending BY <1>1 DEF NoPending, Pending
  <1>3. <<>> \in Lists
    <2>1. 0 \in 0..MaxFound /\ <<>> \in [1..0 -> Papers] BY BoundsAssumption
    <2>2. IsInjective(<<>>) BY DEF IsInjective
    <2> QED BY <2>1, <2>2 DEF Lists
  <1>4. EmptyContext \in Context BY <1>2, <1>3 DEF EmptyContext, Context
  <1>5. NoRequest \in Request
    <2>1. <<>> \in Seq(Papers \cup {NoPaper}) OBVIOUS
    <2> QED BY <1>1, <2>1 DEF NoRequest, Request
  <1>6. Phase(Idle) BY <1>1, <1>4 DEF Idle, Phase, Names
  <1>7. \A x \in Lists : x \in Seq(Papers) BY BoundsAssumption DEF Lists
  <1> QED BY <1>1, <1>2, <1>4, <1>5, <1>6, <1>7

\* The status of a session stays one.
LEMMA Becomes ==
    ASSUME status \in Statuses, NEW s, Become(s)
    PROVE  status' \in Statuses
  <1>1. Transitions[status] \subseteq Statuses BY DEF Statuses, Transitions
  <1> QED BY <1>1 DEF Become

\* What a context becomes.
LEMMA Contexts ==
    ASSUME NEW c \in Context
    PROVE  /\ \A p \in Papers \cup {NoPaper} : [c EXCEPT !.sel = p] \in Context
           /\ \A f \in Lists : [c EXCEPT !.cands = f] \in Context
           /\ \A p \in Pending : [c EXCEPT !.pending = p] \in Context
           /\ \A p \in Pending, s \in Papers \cup {NoPaper} :
                 [c EXCEPT !.pending = p, !.task = TRUE, !.sel = s] \in Context
  BY DEF Context

\* A handler is answered, or goes on.
LEMMA HandlerTypes ==
    ASSUME TypeInv, NEW m \in Handlers, NEW x, Phase(x),
           msgs' = msgs \/ msgs' = [msgs EXCEPT ![m] = x]
    PROVE  \A n \in Handlers : Phase(msgs'[n])
  <1>1. DOMAIN msgs = Handlers BY DEF TypeInv, IInv, ShapeInv
  <1>2. \A n \in Handlers : Phase(msgs[n]) BY DEF TypeInv, TypeOK, Phase, Names
  <1> QED BY <1>1, <1>2

\* A decision names the capability of the catalog, or nothing is done with it.
LEMMA Authorized ==
    ASSUME NEW d, Authorize(d) # "denied"
    PROVE  d.cap \in Capabilities
  BY DEF Authorize, Valid

LEMMA ActTypes ==
    ASSUME TypeInv, NEW m \in Handlers, NEW d, NEW seen \in Context, NEW token \in Tokens,
           Act(m, d, seen, token), Decided(d, Len(seen.cands)), sent' \in 0..MaxMessages
    PROVE  TypeOK'
  <1>0. /\ status \in Statuses /\ ctx \in Context /\ started \in Request
        /\ asked \in [Tokens -> Request] /\ chosen \in Papers \cup {NoPaper} /\ strayed \in BOOLEAN
    BY DEF TypeInv, TypeOK
  <1>1. token \in 0..MaxMessages BY BoundsAssumption DEF Tokens
  <1>2. Base(seen, d) \in Context BY <1>0, Contexts DEF Base, Decided
  <1>3. chosen' \in Papers \cup {NoPaper} /\ started' \in Request
    BY <1>0 DEF Act, Decided
  <1>4. status' \in Statuses BY <1>0, Becomes DEF Act
  <1>5. CASE Authorize(d) = "confirm"
    <2> DEFINE p == PendingOf(d, Base(seen, d).sel, token)
               q == Meant(d, seen, token)
    <2>1. /\ ctx' = [Base(seen, d) EXCEPT !.pending = p]
          /\ asked' = [asked EXCEPT ![token] = q] /\ msgs' = [msgs EXCEPT ![m] = Idle]
      BY <1>5 DEF Act, Write, Answered
    <2>2. d.cap \in Names BY <1>5, Authorized DEF Names
    <2>3. p \in Pending
      <3>1. Base(seen, d).sel \in Papers \cup {NoPaper} BY <1>2 DEF Context
      <3> QED BY <1>1, <2>2, <3>1 DEF PendingOf, Pending, Decided, Names
    <2>4. q \in Request
      <3>1. seen.sel \in Papers \cup {NoPaper} /\ seen.cands \in Seq(Papers)
        BY Constants DEF Context
      <3>2. q.papers \in Seq(Papers \cup {NoPaper})
        <4>1. d.refs \in Seq(Papers \cup {NoPaper}) BY DEF Decided
        <4>2. <<d.paper>> \in Seq(Papers \cup {NoPaper}) BY DEF Decided
        <4>3. <<seen.sel>> \in Seq(Papers \cup {NoPaper}) BY <3>1
        <4>4. d.reference # 0 => seen.cands[d.reference] \in Papers
          BY <3>1 DEF Decided
        <4>5. d.reference # 0 => <<seen.cands[d.reference]>> \in Seq(Papers \cup {NoPaper})
          BY <4>4
        <4> QED BY <4>1, <4>2, <4>3, <4>5 DEF Meant
      <3>3. q.by \in {"words", "model", "reference"} BY DEF Meant
      <3>4. q = [cap |-> d.cap, papers |-> q.papers, by |-> q.by, token |-> token] BY DEF Meant
      <3> HIDE DEF q
      <3> QED BY <1>1, <2>2, <3>2, <3>3, <3>4 DEF Request, Names
    <2> HIDE DEF p, q
    <2>5. ctx' \in Context BY <1>2, <2>1, <2>3, Contexts
    <2>6. asked' \in [Tokens -> Request] BY <1>0, <2>1, <2>4
    <2>7. \A n \in Handlers : Phase(msgs'[n]) BY <2>1, Constants, HandlerTypes
    <2>8. strayed' \in BOOLEAN BY <1>0, <1>5 DEF Act, Write
    <2> QED BY <1>3, <1>4, <2>5, <2>6, <2>7, <2>8 DEF TypeOK, Phase, Names
  <1>6. CASE Authorize(d) = "allowed"
    <2> DEFINE x == [pc |-> "executing", seen |-> seen, cap |-> d.cap, token |-> token]
    <2>1. msgs' = [msgs EXCEPT ![m] = x] /\ UNCHANGED <<ctx, asked, strayed>>
      BY <1>6 DEF Act
    <2>2. Phase(x) BY <1>1, <1>6, Authorized DEF Phase, Names
    <2> HIDE DEF x
    <2>3. \A n \in Handlers : Phase(msgs'[n]) BY <2>1, <2>2, HandlerTypes
    <2> QED BY <1>0, <1>3, <1>4, <2>1, <2>3 DEF TypeOK, Phase, Names
  <1>7. CASE Authorize(d) = "denied"
    <2>1. /\ msgs' = [msgs EXCEPT ![m] = Idle] /\ UNCHANGED <<asked, strayed>>
          /\ ctx' \in {ctx, Base(seen, d)}
      BY <1>7 DEF Act, Answered
    <2>2. \A n \in Handlers : Phase(msgs'[n]) BY <2>1, Constants, HandlerTypes
    <2> QED BY <1>0, <1>2, <1>3, <1>4, <2>1, <2>2 DEF TypeOK, Phase, Names
  <1> QED BY <1>5, <1>6, <1>7 DEF Act

LEMMA TypeStep ==
    ASSUME TypeInv, Next
    PROVE  TypeOK'
  <1>0. /\ status \in Statuses /\ ctx \in Context /\ started \in Request
        /\ asked \in [Tokens -> Request] /\ chosen \in Papers \cup {NoPaper} /\ strayed \in BOOLEAN
        /\ sent \in 0..MaxMessages /\ MaxMessages \in Nat
        /\ \A m \in Handlers : Phase(msgs[m])
    BY BoundsAssumption DEF TypeInv, TypeOK, Phase, Names
  <1>1. ASSUME NEW m \in Handlers, NEW msg \in UserMessages, Receive(m, msg) PROVE TypeOK'
    <2>1. sent' = sent + 1 /\ sent' \in Tokens /\ sent' \in 0..MaxMessages
      BY <1>0, <1>1 DEF Receive, Tokens
    <2>2. ctx.cands \in Seq(Papers) BY <1>0, Constants DEF Context
    <2>3. CASE Select(m, msg)
      <3>1. SelectedBy(msg, ctx.cands) \in Papers \cup {NoPaper} BY <2>2, SelectedType
      <3>2. /\ ctx' = [ctx EXCEPT !.sel = SelectedBy(msg, ctx.cands)]
            /\ chosen' = SelectedBy(msg, ctx.cands) /\ Become("active")
            /\ UNCHANGED <<msgs, started, asked, strayed>>
        BY <2>3 DEF Select
      <3>3. ctx' \in Context BY <1>0, <3>1, <3>2, Contexts
      <3>4. status' \in Statuses BY <1>0, <3>2, Becomes
      <3> QED BY <1>0, <2>1, <3>1, <3>2, <3>3, <3>4 DEF TypeOK, Phase, Names
    <2>4. CASE Act(m, Deterministic(msg, ctx.sel, ctx.cands), ctx, sent')
      <3>1. Decided(Deterministic(msg, ctx.sel, ctx.cands), Len(ctx.cands))
        BY <2>2, MessageType, DeterministicType
      <3> QED BY <1>0, <2>1, <2>4, <3>1, ActTypes
    <2>5. CASE /\ msgs' = [msgs EXCEPT ![m] = [pc |-> "routing", seen |-> ctx, cap |-> "none",
                                               token |-> sent']]
               /\ UNCHANGED <<status, ctx, started, asked, chosen, strayed>>
      <3> DEFINE x == [pc |-> "routing", seen |-> ctx, cap |-> "none", token |-> sent']
      <3>1. Phase(x) BY <1>0, <2>1 DEF Phase, Names
      <3>2. msgs' = [msgs EXCEPT ![m] = x] BY <2>5
      <3> HIDE DEF x
      <3>3. \A n \in Handlers : Phase(msgs'[n]) BY <3>1, <3>2, HandlerTypes
      <3> QED BY <1>0, <2>1, <2>5, <3>3 DEF TypeOK, Phase, Names
    <2> QED BY <1>1, <2>3, <2>4, <2>5 DEF Receive
  <1>2. ASSUME NEW m \in Handlers, Handler(m) PROVE TypeOK'
    <2>1. msgs[m].seen \in Context /\ msgs[m].seen.cands \in Seq(Papers)
      BY <1>0, Constants DEF Phase, Context
    <2>2. CASE RouterAnswers(m)
      <3>1. PICK d \in Routed(msgs[m].seen.cands) : Act(m, d, msgs[m].seen, msgs[m].token)
        BY <2>2 DEF RouterAnswers
      <3>2. Decided(d, Len(msgs[m].seen.cands)) BY <2>1, RoutedType
      <3>3. msgs[m].token \in Tokens /\ sent' \in 0..MaxMessages
        <4>1. Busy(m) /\ sent' = sent BY <2>2 DEF RouterAnswers, Busy
        <4>2. msgs[m].token \in 1..sent BY <4>1 DEF TypeInv, IInv, TokenInv
        <4> QED BY <1>0, <4>1, <4>2 DEF Tokens
      <3> QED BY <2>1, <3>1, <3>2, <3>3, ActTypes
    <2>3. CASE RouterFails(m) \/ ToolFinished(m)
      <3>1. /\ msgs' = [msgs EXCEPT ![m] = Idle]
            /\ UNCHANGED <<status, ctx, started, asked, chosen, strayed, sent>>
        BY <2>3 DEF RouterFails, ToolFinished, Answered
      <3>2. \A n \in Handlers : Phase(msgs'[n]) BY <3>1, Constants, HandlerTypes
      <3> QED BY <1>0, <3>1, <3>2 DEF TypeOK, Phase, Names
    <2>4. CASE SearchFinished(m)
      <3>1. PICK found \in Lists : /\ ctx' = [msgs[m].seen EXCEPT !.cands = found]
                                   /\ strayed' = (strayed \/ msgs[m].seen # ctx)
        BY <2>4 DEF SearchFinished, Write, WithCandidates
      <3>2. /\ msgs' = [msgs EXCEPT ![m] = Idle] /\ Become("waiting_confirmation")
            /\ UNCHANGED <<started, asked, chosen, sent>>
        BY <2>4 DEF SearchFinished, Answered
      <3>3. \A n \in Handlers : Phase(msgs'[n]) BY <3>2, Constants, HandlerTypes
      <3>4. ctx' \in Context BY <2>1, <3>1, Contexts
      <3>5. status' \in Statuses BY <1>0, <3>2, Becomes
      <3>6. strayed' \in BOOLEAN BY <3>1
      <3> QED BY <1>0, <3>2, <3>3, <3>4, <3>5, <3>6 DEF TypeOK, Phase, Names
    <2> QED BY <1>2, <2>2, <2>3, <2>4 DEF Handler
  <1>3. CASE Confirm
    <2> DEFINE p == ctx.pending
               sel == IF p.cap = "compare_papers" THEN ctx.sel ELSE p.paper
               papers == IF p.cap = "compare_papers" THEN p.refs ELSE <<p.paper>>
               r == [cap |-> p.cap, by |-> asked[p.token].by, token |-> p.token, papers |-> papers]
    <2>1. p \in Pending /\ ctx.sel \in Papers \cup {NoPaper} BY <1>0 DEF Context
    <2>2. sel \in Papers \cup {NoPaper} BY <2>1 DEF Pending
    <2>3. ctx' = [ctx EXCEPT !.pending = NoPending, !.task = TRUE, !.sel = sel]
      BY <1>3 DEF Confirm
    <2>4. p.token # 0 /\ started' \in {r, started} /\ chosen' = ctx'.sel /\ Become("running")
          /\ UNCHANGED <<msgs, asked, strayed, sent>>
      BY <1>3 DEF Confirm
    <2>5. papers \in Seq(Papers \cup {NoPaper})
      <3>1. p.refs \in Seq(Papers \cup {NoPaper}) BY <2>1 DEF Pending
      <3>2. <<p.paper>> \in Seq(Papers \cup {NoPaper}) BY <2>1 DEF Pending
      <3> QED BY <3>1, <3>2
    <2>6. asked[p.token].by \in {"words", "model", "reference"}
      <3>1. p.token \in Tokens BY <1>0, <2>1, <2>4 DEF Pending, Tokens
      <3>2. asked[p.token] \in Request BY <1>0, <3>1
      <3> QED BY <3>2 DEF Request
    <2> HIDE DEF papers, sel
    <2>7. r \in Request BY <2>1, <2>5, <2>6 DEF Request, Pending
    <2> HIDE DEF r, p
    <2>8. ctx' \in Context BY <1>0, <2>2, <2>3, Contexts, Constants
    <2>9. chosen' \in Papers \cup {NoPaper} BY <2>4, <2>8 DEF Context
    <2>10. status' \in Statuses BY <1>0, <2>4, Becomes
    <2> QED BY <1>0, <2>4, <2>7, <2>8, <2>9, <2>10 DEF TypeOK, Phase, Names
  <1> QED BY <1>1, <1>2, <1>3 DEF Next

-----------------------------------------------------------------------------
(* The theorems.                                                           *)

LEMMA InitInv ==
    ASSUME Init
    PROVE  IInv /\ Selection
  <1>1. Idle.pc = "idle" /\ Idle.seen = EmptyContext /\ IsContext(EmptyContext)
        /\ EmptyContext.pending.token = 0 /\ EmptyContext.sel = NoPaper
    BY DEF Idle, EmptyContext, IsContext, NoPending
  <1>2. started.cap = "none" BY DEF Init, NoRequest
  <1>3. ShapeInv BY <1>1, BoundsAssumption DEF Init, ShapeInv
  <1>4. TokenInv /\ PendingInv BY <1>1 DEF Init, TokenInv, Busy, PendingInv, PendingIsAsked
  <1>5. StartedInv BY <1>2 DEF StartedInv
  <1>6. Selection BY <1>1 DEF Init, Selection
  <1> QED BY <1>3, <1>4, <1>5, <1>6 DEF IInv

LEMMA InitTypes == ASSUME Init PROVE TypeOK
  <1>1. \A m \in Handlers : Phase(msgs[m]) BY Constants DEF Init
  <1>2. asked \in [Tokens -> Request] /\ started \in Request /\ ctx \in Context
    BY Constants DEF Init
  <1>3. /\ status \in Statuses /\ chosen \in Papers \cup {NoPaper} /\ strayed \in BOOLEAN
        /\ sent \in 0..MaxMessages
    BY Constants DEF Init, Statuses
  <1> QED BY <1>1, <1>2, <1>3 DEF TypeOK, Phase, Names

LEMMA Invariance == Spec => [](TypeInv /\ Selection)
  <1>1. Init => TypeInv /\ Selection BY InitInv, InitTypes DEF TypeInv
  <1>2. TypeInv /\ Selection /\ [Next]_vars => (TypeInv /\ Selection)'
    <2>1. ASSUME IInv, Next PROVE IInv'
      BY <2>1, ReceiveStep, HandlerStep, ConfirmStep DEF Next
    <2>2. ASSUME IInv, Selection, UNCHANGED vars PROVE IInv' /\ Selection'
      BY <2>2 DEF vars, IInv, ShapeInv, IsContext, TokenInv, Busy, PendingInv, PendingIsAsked,
         Settled, Asked, StartedInv, Selection
    <2>3. ASSUME TypeOK, UNCHANGED vars PROVE TypeOK' BY <2>3 DEF vars, TypeOK
    <2> QED BY <2>1, <2>2, <2>3, SelectionStep, TypeStep DEF TypeInv
  <1> QED BY <1>1, <1>2, PTL DEF Spec

\* Every variable keeps its type: what is asked, pending or started names papers, and a
\* candidate that the model refers to exists.
THEOREM TypeCorrect == Spec => []TypeOK
  <1>1. TypeInv => TypeOK BY DEF TypeInv
  <1> QED BY <1>1, Invariance, PTL

\* A workflow is started on the papers that the message behind its token named, or had
\* selected, however messages, searches and confirmations overtake each other.
THEOREM StartedAsNamed == Spec => []StartedIsNamed
  <1>1. TypeInv => StartedIsNamed BY DEF TypeInv, IInv, StartedInv, StartedIsNamed
  <1> QED BY <1>1, Invariance, PTL

\* The selected paper is the one chosen last, unless a handler wrote an old context.
THEOREM SelectedAsChosen == Spec => []SelectionIsChosen
  <1>1. Selection => SelectionIsChosen BY DEF Selection, SelectionIsChosen
  <1> QED BY <1>1, Invariance, PTL
-----------------------------------------------------------------------------
(* Ordinals.                                                               *)

\* How numbers below 100 and below 1000 are written, and read out for a unit above.
Ones(d) == IF d = 0 THEN <<>> ELSE <<d>>
TensOnly(n) == IF n < 10 THEN <<>> ELSE IF n < 20 THEN <<10>> ELSE <<n \div 10, 10>>
Tens(n) == TensOnly(n) \o Ones(n % 10)
Zero(n) == IF n \in 1..9 THEN <<0>> ELSE <<>>
BelowHundred(n) == Zero(n) \o Tens(n)
HundredsOnly(n) == <<n \div 100, 100>>
Hundreds(n) == HundredsOnly(n) \o BelowHundred(n % 100)
Numeral(n) == IF n < 100 THEN Tens(n) ELSE Hundreds(n)

\* The loop of the parser, as far as the first n characters.
Nothing == [total |-> 0, section |-> 0, number |-> 0]
ReadStep(s, u, k) == IF k = 0 THEN Nothing ELSE ReadNext(u[k - 1], s[k])
Reading(s, n, u) == u = [k \in 0..n |-> ReadStep(s, u, k)]
Agree(s, t, n) == \A j \in 1..n : s[j] = t[j]
AtEnd(s) == (CHOOSE u : Reading(s, Len(s), u))[Len(s)]

LEMMA ReadingGoesOn ==
    ASSUME NEW s, NEW n \in Nat, NEW u, Reading(s, n, u)
    PROVE  \E v : Reading(s, n + 1, v)
  <1> DEFINE v == [k \in 0..n + 1 |-> IF k = n + 1 THEN ReadNext(u[n], s[n + 1]) ELSE u[k]]
  <1>1. \A k \in 0..n : u[k] = ReadStep(s, u, k) BY DEF Reading
  <1>2. \A k \in 0..n + 1 : v[k] = ReadStep(s, v, k)
    <2>1. ASSUME NEW k \in 0..n PROVE v[k] = ReadStep(s, v, k)
      <3>1. v[k] = u[k] OBVIOUS
      <3>2. k # 0 => v[k - 1] = u[k - 1] OBVIOUS
      <3> HIDE DEF v
      <3> QED BY <1>1, <3>1, <3>2 DEF ReadStep
    <2>2. v[n + 1] = ReadStep(s, v, n + 1)
      <3>1. v[n + 1] = ReadNext(u[n], s[n + 1]) /\ v[n] = u[n] /\ n + 1 # 0 /\ (n + 1) - 1 = n
        OBVIOUS
      <3> HIDE DEF v
      <3> QED BY <3>1 DEF ReadStep
    <2> HIDE DEF v
    <2> QED BY <2>1, <2>2
  <1>3. v = [k \in 0..n + 1 |-> v[k]] OBVIOUS
  <1> HIDE DEF v
  <1> QED BY <1>2, <1>3 DEF Reading

LEMMA ReadingExists ==
    ASSUME NEW s, NEW n \in Nat
    PROVE  \E u : Reading(s, n, u)
  <1> DEFINE T == {k \in Nat : ~ \E u : Reading(s, k, u)}
  <1>1. SUFFICES ASSUME n \in T PROVE FALSE OBVIOUS
  <1>2. PICK m \in T : \A k \in T : m <= k
    <2>1. T \in SUBSET Nat /\ T # {} BY <1>1
    <2> HIDE DEF T
    <2> QED BY <2>1, Least
  <1>3. m # 0
    <2> DEFINE u == [k \in 0..0 |-> Nothing]
    <2>1. \A k \in 0..0 : u[k] = ReadStep(s, u, k) BY DEF ReadStep
    <2>2. u = [k \in 0..0 |-> u[k]] OBVIOUS
    <2> HIDE DEF u
    <2>3. Reading(s, 0, u) BY <2>1, <2>2 DEF Reading
    <2> QED BY <1>2, <2>3
  <1>4. m - 1 \in Nat /\ m - 1 \notin T BY <1>2, <1>3
  <1>5. PICK u : Reading(s, m - 1, u) BY <1>4
  <1>6. \E v : Reading(s, (m - 1) + 1, v) BY <1>4, <1>5, ReadingGoesOn
  <1> QED BY <1>2, <1>6

\* What has been read depends on the characters read only.
LEMMA ReadingsAgree ==
    ASSUME NEW s, NEW t, NEW n \in Nat, NEW m \in Nat, n <= m, Agree(s, t, n),
           NEW u, NEW v, Reading(s, n, u), Reading(t, m, v)
    PROVE  u[n] = v[n]
  <1>1. \A k \in 0..n : u[k] = ReadStep(s, u, k) BY DEF Reading
  <1>2. \A k \in 0..n : v[k] = ReadStep(t, v, k) BY DEF Reading
  <1> DEFINE T == {k \in 0..n : u[k] # v[k]}
  <1>3. ASSUME T # {} PROVE FALSE
    <2>1. T \in SUBSET Nat OBVIOUS
    <2>2. PICK k \in T : \A j \in T : k <= j
      <3> HIDE DEF T
      <3> QED BY <1>3, <2>1, Least
    <2>3. k # 0
      <3>1. u[0] = Nothing /\ v[0] = Nothing BY <1>1, <1>2 DEF ReadStep
      <3> QED BY <3>1
    <2>4. k - 1 \in 0..n /\ k - 1 \notin T /\ k \in 1..n BY <2>2, <2>3
    <2>5. u[k - 1] = v[k - 1] /\ s[k] = t[k] BY <2>4 DEF Agree
    <2>6. u[k] = ReadNext(u[k - 1], s[k]) /\ v[k] = ReadNext(v[k - 1], t[k])
      BY <1>1, <1>2, <2>3, <2>4 DEF ReadStep
    <2> QED BY <2>5, <2>6
  <1> QED BY <1>3

LEMMA ReadingGrows ==
    ASSUME NEW s \in Seq(Nat), NEW c \in Nat, NEW u, NEW v,
           Reading(s, Len(s), u), Reading(Append(s, c), Len(s) + 1, v)
    PROVE  v[Len(s) + 1] = ReadNext(u[Len(s)], c)
  <1> DEFINE t == Append(s, c)
             n == Len(s)
             m == n + 1
  <1>1. n \in Nat /\ m \in Nat /\ n <= m /\ m # 0 /\ m - 1 = n /\ m \in 0..m OBVIOUS
  <1>2. t[m] = c OBVIOUS
  <1>3. Agree(s, t, n) BY DEF Agree
  <1>4. Reading(s, n, u) /\ Reading(t, m, v) OBVIOUS
  <1> HIDE DEF t, n, m
  <1>5. u[n] = v[n] BY <1>1, <1>3, <1>4, ReadingsAgree
  <1>6. v[m] = ReadStep(t, v, m) BY <1>1, <1>4 DEF Reading
  <1>7. v[m] = ReadNext(v[n], c) BY <1>1, <1>2, <1>6 DEF ReadStep
  <1>8. v[m] = ReadNext(u[n], c) BY <1>5, <1>7
  <1> QED BY <1>8 DEF n, m

LEMMA Ends ==
    /\ AtEnd(<<>>) = Nothing
    /\ \A s \in Seq(Nat), c \in Nat : AtEnd(Append(s, c)) = ReadNext(AtEnd(s), c)
    /\ \A s \in Seq(Nat) :
          ParseNumber(s) = AtEnd(s).total + AtEnd(s).section + AtEnd(s).number
  <1>1. ASSUME NEW s \in Seq(Nat) PROVE Reading(s, Len(s), CHOOSE u : Reading(s, Len(s), u))
    <2>1. Len(s) \in Nat OBVIOUS
    <2> QED BY <2>1, ReadingExists
  <1>2. AtEnd(<<>>) = Nothing
    <2> DEFINE u == CHOOSE u : Reading(<<>>, Len(<<>>), u)
    <2>a. <<>> \in Seq(Nat) /\ Len(<<>>) = 0 OBVIOUS
    <2>1. Reading(<<>>, Len(<<>>), u) /\ Len(<<>>) = 0 BY <1>1, <2>a
    <2>2. AtEnd(<<>>) = u[0] BY <2>1 DEF AtEnd
    <2> HIDE DEF u
    <2>3. \A k \in 0..0 : u[k] = ReadStep(<<>>, u, k) BY <2>1 DEF Reading
    <2> QED BY <2>2, <2>3 DEF ReadStep
  <1>3. ASSUME NEW s \in Seq(Nat), NEW c \in Nat
        PROVE  AtEnd(Append(s, c)) = ReadNext(AtEnd(s), c)
    <2> DEFINE t == Append(s, c)
               u == CHOOSE u : Reading(s, Len(s), u)
               v == CHOOSE v : Reading(t, Len(t), v)
    <2>1. Len(t) = Len(s) + 1 /\ t \in Seq(Nat) OBVIOUS
    <2>2. Reading(s, Len(s), u) /\ AtEnd(s) = u[Len(s)] BY <1>1 DEF AtEnd
    <2>3. Reading(t, Len(s) + 1, v) /\ AtEnd(t) = v[Len(s) + 1]
      <3>1. Reading(t, Len(t), v) BY <1>1, <2>1
      <3>2. AtEnd(t) = v[Len(t)] BY DEF AtEnd
      <3> HIDE DEF v, t
      <3> QED BY <2>1, <3>1, <3>2
    <2> HIDE DEF u, v
    <2>4. v[Len(s) + 1] = ReadNext(u[Len(s)], c) BY <2>2, <2>3, ReadingGrows
    <2> HIDE DEF t
    <2>5. AtEnd(t) = ReadNext(AtEnd(s), c) BY <2>2, <2>3, <2>4
    <2> QED BY <2>5 DEF t
  <1>4. ASSUME NEW s \in Seq(Nat)
        PROVE  ParseNumber(s) = AtEnd(s).total + AtEnd(s).section + AtEnd(s).number
    BY DEF ParseNumber, AtEnd, Reading, ReadStep, Nothing
  <1> QED BY <1>2, <1>3, <1>4

\* What one or two more characters add.
LEMMA ReadsOn ==
    ASSUME NEW s \in Seq(Nat), NEW a \in Nat
    PROVE  /\ s \o <<a>> \in Seq(Nat) /\ AtEnd(s \o <<a>>) = ReadNext(AtEnd(s), a)
           /\ \A b \in Nat : /\ s \o <<a, b>> \in Seq(Nat)
                             /\ AtEnd(s \o <<a, b>>) = ReadNext(ReadNext(AtEnd(s), a), b)
  <1>1. Append(s, a) \in Seq(Nat) /\ s \o <<a>> = Append(s, a) OBVIOUS
  <1>2. ASSUME NEW b \in Nat
        PROVE  Append(Append(s, a), b) \in Seq(Nat) /\ s \o <<a, b>> = Append(Append(s, a), b)
    OBVIOUS
  <1> QED BY <1>1, <1>2, Ends

\* The parser between two groups of digits: no digit waits for a unit.
Between(T, S) == [total |-> T, section |-> S, number |-> 0]

LEMMA DigitRead ==
    ASSUME NEW T, NEW R, NEW k \in 0..9
    PROVE  ReadNext(Between(T, R), k) = [total |-> T, section |-> R, number |-> k]
  BY DEF ReadNext, Between

LEMMA UnitRead ==
    ASSUME NEW T, NEW R, NEW k, NEW c \in {10, 100}
    PROVE  ReadNext([total |-> T, section |-> R, number |-> k], c)
             = Between(T, R + c * (IF k = 0 THEN 1 ELSE k))
  <1> DEFINE acc == [total |-> T, section |-> R, number |-> k]
  <1>1. acc.total = T /\ acc.section = R /\ acc.number = k OBVIOUS
  <1>2. ~(c < 10) /\ c # 10000 OBVIOUS
  <1> HIDE DEF acc
  <1>3. ReadNext(acc, c) = [total |-> acc.total,
                            section |-> acc.section + c * (IF acc.number = 0 THEN 1 ELSE acc.number),
                            number |-> 0]
    BY <1>2 DEF ReadNext
  <1>4. ReadNext(acc, c) = Between(T, R + c * (IF k = 0 THEN 1 ELSE k))
    BY <1>1, <1>3, Zenon DEF Between
  <1> QED BY <1>4 DEF acc

\* Sequences of numbers put together.
LEMMA Glue ==
    ASSUME NEW s \in Seq(Nat), NEW t \in Seq(Nat)
    PROVE  /\ s \o t \in Seq(Nat)
           /\ s \o <<>> = s /\ <<>> \o s = s
  <1>1. s \o t \in Seq(Nat) BY ConcatProperties
  <1>2. s \o <<>> = s /\ <<>> \o s = s BY ConcatEmptySeq
  <1> QED BY <1>1, <1>2

LEMMA Regroup ==
    ASSUME NEW s \in Seq(Nat), NEW t \in Seq(Nat), NEW u \in Seq(Nat),
           NEW left, NEW right, left = s \o t, right = t \o u
    PROVE  left \o u = s \o right
  BY ConcatAssociative

LEMMA TensOnlyRead ==
    ASSUME NEW s \in Seq(Nat), NEW T \in Nat, NEW S \in Nat, AtEnd(s) = Between(T, S),
           NEW n \in 0..99
    PROVE  /\ s \o TensOnly(n) \in Seq(Nat)
           /\ AtEnd(s \o TensOnly(n)) = Between(T, S + 10 * (n \div 10))
  <1> DEFINE t == n \div 10
  <1>1. t \in 0..9 /\ (n < 10 <=> t = 0) /\ (n < 20 <=> t < 2) OBVIOUS
  <1>2. TensOnly(n) = IF t = 0 THEN <<>> ELSE IF t < 2 THEN <<10>> ELSE <<t, 10>>
    BY <1>1 DEF TensOnly
  <1> HIDE DEF t
  <1>3. CASE t = 0
    <2>1. S + 10 * t = S BY <1>3
    <2>2. TensOnly(n) = <<>> BY <1>2, <1>3
    <2>3. s \o <<>> = s BY Glue
    <2> QED BY <2>1, <2>2, <2>3 DEF t
  <1>4. CASE t = 1
    <2>1. S + 10 * t = S + 10 BY <1>4
    <2>2. ReadNext(Between(T, S), 10) = Between(T, S + 10)
      <3>1. ReadNext([total |-> T, section |-> S, number |-> 0], 10)
              = Between(T, S + 10 * (IF 0 = 0 THEN 1 ELSE 0)) BY UnitRead
      <3>2. S + 10 * (IF 0 = 0 THEN 1 ELSE 0) = S + 10 OBVIOUS
      <3> QED BY <3>1, <3>2 DEF Between
    <2>3. TensOnly(n) = <<10>> BY <1>2, <1>4
    <2> QED BY <2>1, <2>2, <2>3, ReadsOn DEF t
  <1>5. CASE t \in 2..9
    <2>1. TensOnly(n) = <<t, 10>> BY <1>2, <1>5
    <2>2. ReadNext([total |-> T, section |-> S, number |-> t], 10) = Between(T, S + 10 * t)
      <3>1. ReadNext([total |-> T, section |-> S, number |-> t], 10)
              = Between(T, S + 10 * (IF t = 0 THEN 1 ELSE t)) BY UnitRead
      <3>2. S + 10 * (IF t = 0 THEN 1 ELSE t) = S + 10 * t BY <1>5
      <3> QED BY <3>1, <3>2
    <2>3. ReadNext(Between(T, S), t) = [total |-> T, section |-> S, number |-> t]
      BY <1>1, DigitRead
    <2>4. t \in Nat /\ 10 \in Nat BY <1>1
    <2>5. AtEnd(s \o <<t, 10>>) = ReadNext(ReadNext(AtEnd(s), t), 10) /\ s \o <<t, 10>> \in Seq(Nat)
      BY <2>4, ReadsOn
    <2> QED BY <2>1, <2>2, <2>3, <2>5 DEF t
  <1> QED BY <1>1, <1>3, <1>4, <1>5

LEMMA TensRead ==
    ASSUME NEW s \in Seq(Nat), NEW T \in Nat, NEW S \in Nat, AtEnd(s) = Between(T, S),
           NEW n \in 0..99
    PROVE  \E R \in Nat, d \in 0..9 :
              /\ R + d = S + n
              /\ s \o Tens(n) \in Seq(Nat)
              /\ AtEnd(s \o Tens(n)) = [total |-> T, section |-> R, number |-> d]
  <1> DEFINE d == n % 10
             R == S + 10 * (n \div 10)
             r == s \o TensOnly(n)
  <1>1. d \in 0..9 /\ R \in Nat /\ R + d = S + n OBVIOUS
  <1>2. s \o Tens(n) = r \o Ones(d)
    <2>1. TensOnly(n) \in Seq(Nat)
      <3>1. n \div 10 \in Nat OBVIOUS
      <3> QED BY <3>1 DEF TensOnly
    <2>2. Ones(d) \in Seq(Nat) BY <1>1 DEF Ones
    <2> DEFINE a == TensOnly(n)
               b == Ones(d)
    <2>3. Tens(n) = a \o b BY DEF Tens
    <2>4. a \in Seq(Nat) /\ b \in Seq(Nat) /\ r = s \o a BY <2>1, <2>2
    <2> HIDE DEF a, b, d, r
    <2>5. r \o b = s \o Tens(n) BY <2>3, <2>4, Regroup
    <2> QED BY <2>5 DEF b
  <1>3. r \in Seq(Nat) /\ AtEnd(r) = Between(T, R) BY TensOnlyRead
  <1> HIDE DEF d, R, r
  <1>4. r \o Ones(d) \in Seq(Nat)
        /\ AtEnd(r \o Ones(d)) = [total |-> T, section |-> R, number |-> d]
    <2>1. d \in Nat BY <1>1
    <2>2. CASE d = 0
      <3>1. Ones(d) = <<>> BY <2>2 DEF Ones
      <3>2. r \o <<>> = r BY <1>3, Glue
      <3> QED BY <1>3, <2>2, <3>1, <3>2 DEF Between
    <2>3. CASE d # 0
      <3>1. Ones(d) = <<d>> BY <2>3 DEF Ones
      <3>2. AtEnd(r \o <<d>>) = ReadNext(Between(T, R), d) /\ r \o <<d>> \in Seq(Nat)
        BY <1>3, <2>1, ReadsOn
      <3> QED BY <1>1, <3>1, <3>2, DigitRead
    <2> QED BY <2>2, <2>3
  <1> QED BY <1>1, <1>2, <1>4

LEMMA BelowHundredType ==
    ASSUME NEW n \in 0..99
    PROVE  Zero(n) \in Seq(Nat) /\ Tens(n) \in Seq(Nat) /\ BelowHundred(n) \in Seq(Nat)
  <1>1. n \div 10 \in Nat /\ n % 10 \in Nat OBVIOUS
  <1>2. TensOnly(n) \in Seq(Nat) BY <1>1 DEF TensOnly
  <1>3. Ones(n % 10) \in Seq(Nat) BY <1>1 DEF Ones
  <1>4. Tens(n) \in Seq(Nat) BY <1>2, <1>3, Glue DEF Tens
  <1>5. Zero(n) \in Seq(Nat) BY DEF Zero
  <1> QED BY <1>4, <1>5, Glue DEF BelowHundred

LEMMA NumeralType == ASSUME NEW n \in 1..999 PROVE Numeral(n) \in Seq(Nat)
  <1>1. CASE n < 100
    <2>1. n \in 0..99 BY <1>1
    <2> QED BY <1>1, <2>1, BelowHundredType DEF Numeral
  <1>2. CASE n >= 100
    <2> DEFINE a == HundredsOnly(n)
               b == BelowHundred(n % 100)
    <2>1. a \in Seq(Nat)
      <3>1. n \div 100 \in Nat OBVIOUS
      <3> QED BY <3>1 DEF HundredsOnly
    <2>2. b \in Seq(Nat)
      <3>1. n % 100 \in 0..99 OBVIOUS
      <3> QED BY <3>1, BelowHundredType
    <2>3. Numeral(n) = a \o b BY <1>2 DEF Numeral, Hundreds
    <2> HIDE DEF a, b
    <2> QED BY <2>1, <2>2, <2>3, Glue
  <1> QED BY <1>1, <1>2

LEMMA BelowHundredRead ==
    ASSUME NEW s \in Seq(Nat), NEW T \in Nat, NEW S \in Nat, AtEnd(s) = Between(T, S),
           NEW n \in 0..99
    PROVE  \E R \in Nat, d \in 0..9 :
              /\ R + d = S + n
              /\ s \o BelowHundred(n) \in Seq(Nat)
              /\ AtEnd(s \o BelowHundred(n)) = [total |-> T, section |-> R, number |-> d]
  <1> DEFINE a == Zero(n)
             b == Tens(n)
             r == s \o a
  <1>1. a \in Seq(Nat) /\ b \in Seq(Nat) BY BelowHundredType
  <1>2. BelowHundred(n) = a \o b BY DEF BelowHundred
  <1>3. r = s \o a OBVIOUS
  <1>4. r \in Seq(Nat) /\ AtEnd(r) = Between(T, S)
    <2>1. CASE n \in 1..9
      <3>1. a = <<0>> BY <2>1 DEF Zero
      <3>2. AtEnd(s \o <<0>>) = ReadNext(Between(T, S), 0) /\ s \o <<0>> \in Seq(Nat)
        BY ReadsOn
      <3>3. 0 \in 0..9 OBVIOUS
      <3> QED BY <3>1, <3>2, <3>3, DigitRead DEF Between
    <2>2. CASE n \notin 1..9
      <3>1. a = <<>> BY <2>2 DEF Zero
      <3>2. s \o <<>> = s BY Glue
      <3> QED BY <3>1, <3>2
    <2> QED BY <2>1, <2>2
  <1> HIDE DEF a, r
  <1>5. r \o b = s \o BelowHundred(n)
    <2> HIDE DEF b
    <2> QED BY <1>1, <1>2, <1>3, Regroup
  <1>6. \E R \in Nat, d \in 0..9 :
              /\ R + d = S + n
              /\ r \o b \in Seq(Nat)
              /\ AtEnd(r \o b) = [total |-> T, section |-> R, number |-> d]
    BY <1>4, TensRead
  <1> HIDE DEF b
  <1> QED BY <1>5, <1>6

LEMMA HundredsParts ==
    ASSUME NEW s \in Seq(Nat), NEW n \in 100..999
    PROVE  (s \o HundredsOnly(n)) \o BelowHundred(n % 100) = s \o Numeral(n)
  <1> DEFINE a == HundredsOnly(n)
             b == BelowHundred(n % 100)
             r == s \o a
             w == Numeral(n)
  <1>1. a \in Seq(Nat)
    <2>1. n \div 100 \in Nat OBVIOUS
    <2> QED BY <2>1 DEF HundredsOnly
  <1>2. b \in Seq(Nat)
    <2>1. n % 100 \in 0..99 OBVIOUS
    <2> QED BY <2>1, BelowHundredType
  <1>3. w = a \o b
    <2>1. ~(n < 100) OBVIOUS
    <2> QED BY <2>1, Zenon DEF Numeral, Hundreds
  <1>4. r = s \o a OBVIOUS
  <1> HIDE DEF a, b, r, w
  <1>5. r \o b = s \o w BY <1>1, <1>2, <1>3, <1>4, Regroup
  <1> QED BY <1>5 DEF a, b, r, w

LEMMA HundredsRead ==
    ASSUME NEW s \in Seq(Nat), NEW T \in Nat, AtEnd(s) = Between(T, 0), NEW n \in 1..999
    PROVE  \E R \in Nat, d \in 0..9 :
              /\ R + d = n
              /\ s \o Numeral(n) \in Seq(Nat)
              /\ AtEnd(s \o Numeral(n)) = [total |-> T, section |-> R, number |-> d]
  <1>1. CASE n < 100
    <2>1. n \in 0..99 /\ 0 \in Nat /\ 0 + n = n BY <1>1
    <2>2. Numeral(n) = Tens(n) BY <1>1 DEF Numeral
    <2>3. \E R \in Nat, d \in 0..9 :
              /\ R + d = 0 + n
              /\ s \o Tens(n) \in Seq(Nat)
              /\ AtEnd(s \o Tens(n)) = [total |-> T, section |-> R, number |-> d]
      BY <2>1, TensRead, Zenon
    <2> QED BY <2>1, <2>2, <2>3
  <1>2. CASE n >= 100
    <2> DEFINE h == n \div 100
               m == n % 100
               S == 100 * h
               a == HundredsOnly(n)
               b == BelowHundred(m)
               r == s \o a
    <2>1. h \in 1..9 /\ m \in 0..99 /\ S \in Nat /\ n = S + m BY <1>2
    <2>2. Numeral(n) = a \o b BY <1>2 DEF Numeral, Hundreds
    <2>3. a = <<h, 100>> BY DEF HundredsOnly
    <2>4. a \in Seq(Nat) /\ b \in Seq(Nat)
      <3> HIDE DEF m, h
      <3>1. <<h, 100>> \in Seq(Nat) BY <2>1
      <3>2. a \in Seq(Nat) BY <2>3, <3>1
      <3> QED BY <2>1, <3>2, BelowHundredType
    <2>5. r \in Seq(Nat) /\ AtEnd(r) = Between(T, S)
      <3> HIDE DEF h
      <3>1. S = 0 + 100 * (IF h = 0 THEN 1 ELSE h) /\ h \in 0..9 BY <2>1
      <3>2. ReadNext([total |-> T, section |-> 0, number |-> h], 100) = Between(T, S)
        <4>1. ReadNext([total |-> T, section |-> 0, number |-> h], 100)
                = Between(T, 0 + 100 * (IF h = 0 THEN 1 ELSE h)) BY UnitRead
        <4> HIDE DEF S
        <4> QED BY <3>1, <4>1
      <3>3. ReadNext(Between(T, 0), h) = [total |-> T, section |-> 0, number |-> h]
        BY <3>1, DigitRead
      <3>4. h \in Nat /\ 100 \in Nat BY <2>1
      <3>5. AtEnd(s \o <<h, 100>>) = ReadNext(ReadNext(AtEnd(s), h), 100)
            /\ s \o <<h, 100>> \in Seq(Nat)
        BY <3>4, ReadsOn
      <3> QED BY <2>3, <3>2, <3>3, <3>5
    <2>6. r \o b = s \o Numeral(n)
      <3>1. n \in 100..999 BY <1>2
      <3> QED BY <3>1, HundredsParts
    <2> HIDE DEF h, m, S, a, r
    <2>7. \E R \in Nat, d \in 0..9 :
              /\ R + d = S + m
              /\ r \o b \in Seq(Nat)
              /\ AtEnd(r \o b) = [total |-> T, section |-> R, number |-> d]
      BY <2>1, <2>5, BelowHundredRead
    <2> HIDE DEF b
    <2> QED BY <2>1, <2>6, <2>7
  <1> QED BY <1>1, <1>2

\* A number below 1000 in units of 10000, and a number of two such groups.
TenThousand == 10000
Myriads(n) == Numeral(n) \o <<TenThousand>>
TwoGroups(n, m) == Myriads(n) \o Numeral(m)

LEMMA NumeralRead ==
    ASSUME NEW n \in 1..999
    PROVE  \E R \in Nat, d \in 0..9 :
              R + d = n /\ AtEnd(Numeral(n)) = [total |-> 0, section |-> R, number |-> d]
  <1>1. <<>> \in Seq(Nat) /\ AtEnd(<<>>) = Between(0, 0) BY Ends DEF Between, Nothing
  <1>2. PICK R \in Nat, d \in 0..9 :
            /\ R + d = n
            /\ <<>> \o Numeral(n) \in Seq(Nat)
            /\ AtEnd(<<>> \o Numeral(n)) = [total |-> 0, section |-> R, number |-> d]
    <2>1. 0 \in Nat OBVIOUS
    <2> QED BY <1>1, <2>1, HundredsRead
  <1>3. <<>> \o Numeral(n) = Numeral(n) BY NumeralType, Glue
  <1> QED BY <1>2, <1>3

LEMMA MyriadsRead ==
    ASSUME NEW n \in 1..999
    PROVE  Myriads(n) \in Seq(Nat) /\ AtEnd(Myriads(n)) = Between(n * TenThousand, 0)
  <1> DEFINE w == Numeral(n)
             c == TenThousand
  <1>1. PICK R \in Nat, d \in 0..9 :
            R + d = n /\ AtEnd(w) = [total |-> 0, section |-> R, number |-> d]
    BY NumeralRead
  <1>2. w \in Seq(Nat) BY NumeralType
  <1>3. ReadNext([total |-> 0, section |-> R, number |-> d], c)
          = [total |-> 0 + (R + d) * c, section |-> 0, number |-> 0]
    BY DEF ReadNext, TenThousand
  <1>4. c \in Nat /\ 0 + (R + d) * c = n * c BY <1>1 DEF TenThousand
  <1> HIDE DEF w, c
  <1>5. w \o <<c>> \in Seq(Nat) /\ AtEnd(w \o <<c>>) = ReadNext(AtEnd(w), c)
    BY <1>2, <1>4, ReadsOn
  <1>6. w \o <<c>> \in Seq(Nat) /\ AtEnd(w \o <<c>>) = Between(n * c, 0)
    BY <1>1, <1>3, <1>4, <1>5 DEF Between
  <1> QED BY <1>6 DEF Myriads, w, c

LEMMA TwoGroupsRead ==
    ASSUME NEW n \in 1..999, NEW m \in 1..999
    PROVE  ParseNumber(TwoGroups(n, m)) = n * TenThousand + m
  <1> DEFINE r == Myriads(n)
             T == n * TenThousand
             q == r \o Numeral(m)
             f == AtEnd(q)
  <1>1. r \in Seq(Nat) /\ AtEnd(r) = Between(T, 0) /\ T \in Nat
    <2>1. T \in Nat BY DEF TenThousand
    <2>2. Myriads(n) \in Seq(Nat) /\ AtEnd(Myriads(n)) = Between(n * TenThousand, 0) BY MyriadsRead, Zenon
    <2> HIDE DEF T
    <2> QED BY <2>1, <2>2 DEF T
  <1>2. q = TwoGroups(n, m) BY DEF TwoGroups
  <1> HIDE DEF r, T
  <1>3. \E S \in Nat, e \in 0..9 :
            /\ S + e = m
            /\ r \o Numeral(m) \in Seq(Nat)
            /\ AtEnd(r \o Numeral(m)) = [total |-> T, section |-> S, number |-> e]
    BY <1>1, HundredsRead
  <1>4. PICK S \in Nat, e \in 0..9 :
            S + e = m /\ q \in Seq(Nat) /\ f = [total |-> T, section |-> S, number |-> e]
    BY <1>3
  <1> HIDE DEF q
  <1>5. ParseNumber(q) = f.total + f.section + f.number BY <1>4, Ends
  <1>6. f.total = T /\ f.section = S /\ f.number = e BY <1>4
  <1> HIDE DEF f
  <1>7. ParseNumber(q) = T + m BY <1>1, <1>4, <1>5, <1>6
  <1> QED BY <1>2, <1>7 DEF T

\* The parser of the ordinals in a message (_parse_candidate_number) reads back every number
\* from 1 to 999, and every number of two such groups around the unit 10000, as they are
\* written: the total, the section and the digit it carries from one character to the next
\* do not leak into one another.
THEOREM NumeralsAreRead ==
    /\ \A n \in 1..999 : ParseNumber(Numeral(n)) = n
    /\ \A n \in 1..999 : \A m \in 1..999 : ParseNumber(TwoGroups(n, m)) = n * TenThousand + m
  <1>1. ASSUME NEW n \in 1..999 PROVE ParseNumber(Numeral(n)) = n
    <2> DEFINE e == AtEnd(Numeral(n))
    <2>1. PICK R \in Nat, d \in 0..9 :
              R + d = n /\ e = [total |-> 0, section |-> R, number |-> d]
      BY NumeralRead
    <2>2. ParseNumber(Numeral(n)) = e.total + e.section + e.number BY NumeralType, Ends
    <2>3. e.total = 0 /\ e.section = R /\ e.number = d BY <2>1
    <2> HIDE DEF e
    <2> QED BY <2>1, <2>2, <2>3
  <1> QED BY <1>1, TwoGroupsRead
=============================================================================

-------------------------------- MODULE Routing --------------------------------
(***************************************************************************)
(* What a user message comes to: the choice of a candidate, the            *)
(* deterministic router, the answer of the model where no term of the      *)
(* router occurs, the checks of the decision, and its authorization.       *)
(*                                                                         *)
(* A message is what the patterns of the code find in it: a term that      *)
(* names a capability, arXiv ids, ordinals, a path.  Wording, the          *)
(* normalization of queries, prompts and questions are abstracted.         *)
(***************************************************************************)
EXTENDS Naturals, FiniteSets, SequencesExt

CONSTANTS Papers,      \* papers, whatever version of them
          NoPaper,     \* None
          MaxRefs,     \* papers of one comparison: 5 in the catalog
          MaxVisible   \* candidates that are shown to the model: 10 by default

ASSUME PapersAssumption == NoPaper \notin Papers
ASSUME LimitsAssumption == MaxRefs \in Nat /\ MaxRefs >= 2 /\ MaxVisible \in Nat

-----------------------------------------------------------------------------
\* DEFAULT_CAPABILITY_METADATA: the arguments a capability requires, those its schema
\* allows, and whether it must be confirmed.  "content" stands for terms,
\* translations and summary.
Catalog ==
    LET Entry(required, allowed, confirm) ==
            [required |-> required, allowed |-> allowed, confirm |-> confirm]
    IN  [paper_search           |-> Entry({}, {"paper"}, FALSE),
         paper_download         |-> Entry({}, {"paper"}, FALSE),
         paper_parse            |-> Entry({"path"}, {"path"}, FALSE),
         paper_glossary         |-> Entry({"path", "content"}, {"path", "content"}, FALSE),
         paper_translate        |-> Entry({"path", "content"}, {"path", "content"}, FALSE),
         paper_summary          |-> Entry({"path", "content"}, {"path", "content"}, FALSE),
         process_selected_paper |-> Entry({}, {"paper"}, TRUE),
         compare_papers         |-> Entry({"refs"}, {"refs"}, TRUE)]
Capabilities == DOMAIN Catalog

\* "../x.json" looks like an artifact path, and is not a safe one.
PathKinds == {"none", "inside", "outside"}

\* exact: the ids are written as the candidates have them, with their version.
\* number: the whole message is an ordinal.  topic: text is left as a query.
Message == [term: Capabilities \cup {"none"}, ids: Seq(Papers), exact: BOOLEAN,
            ordinals: Seq(Nat), number: Nat, path: PathKinds, topic: BOOLEAN]

\* paper: the paper the arguments name; reference: a candidate_index, 0 if none.
Decision == [matched: BOOLEAN, cap: Capabilities \cup {"none", "unknown"},
             paper: Papers \cup {NoPaper}, refs: Seq(Papers), path: PathKinds,
             content: BOOLEAN, reference: Nat,
             source: {"deterministic", "llm", "fallback"}]

NoDecision == [matched |-> FALSE, cap |-> "none", paper |-> NoPaper, refs |-> <<>>,
               path |-> "none", content |-> FALSE, reference |-> 0,
               source |-> "deterministic"]

-----------------------------------------------------------------------------
(* Ordinals.                                                               *)

\* _parse_candidate_number for Chinese numerals, digits being 0..9 and units 10,
\* 100, 1000 and 10000.
ReadNext(acc, c) ==
    CASE c < 10 -> [acc EXCEPT !.number = c]
      [] c = 10000 -> [total |-> acc.total + (acc.section + acc.number) * c,
                       section |-> 0, number |-> 0]
      [] OTHER -> [total |-> acc.total,
                   section |-> acc.section + c * (IF acc.number = 0 THEN 1 ELSE acc.number),
                   number |-> 0]
ParseNumber(chars) ==
    LET read[k \in 0..Len(chars)] ==
            IF k = 0 THEN [total |-> 0, section |-> 0, number |-> 0]
            ELSE ReadNext(read[k - 1], chars[k])
        end == read[Len(chars)]
    IN  end.total + end.section + end.number

\* _select_candidate: an ordinal, else the first candidate the message contains.
SelectedBy(msg, cands) ==
    IF msg.number \in DOMAIN cands THEN cands[msg.number]
    ELSE LET named == {k \in DOMAIN cands : msg.exact /\ cands[k] \in ToSet(msg.ids)}
         IN  IF named = {} THEN NoPaper
             ELSE cands[CHOOSE k \in named : \A j \in named : k <= j]

-----------------------------------------------------------------------------
(* DeterministicIntentRouter.                                              *)

\* What is named, in order and once; NoPaper names nothing.
Unique(s) ==
    LET seen[k \in 0..Len(s)] ==
            IF k = 0 THEN <<>>
            ELSE IF s[k] = NoPaper \/ s[k] \in ToSet(seen[k - 1]) THEN seen[k - 1]
                 ELSE Append(seen[k - 1], s[k])
    IN  seen[Len(s)]

\* _comparison_references: ids are compared without their version, candidates
\* with it, so a paper can be named once by each; an ordinal may miss the candidates.
ComparisonReferences(ids, ordinals, cands) ==
    Unique(ids)
    \o Unique([k \in DOMAIN ordinals |->
                  IF ordinals[k] \in DOMAIN cands THEN cands[ordinals[k]] ELSE NoPaper])

Named(ids) == IF ids = <<>> THEN NoPaper ELSE Head(ids)

\* The arguments that _route_capability finds in a message.
Arguments(msg, cands) ==
    [NoDecision EXCEPT
        !.cap = msg.term,
        !.path = msg.path,
        !.paper = IF msg.term \in {"paper_download", "process_selected_paper", "paper_search"}
                  THEN Named(msg.ids) ELSE NoPaper,
        !.refs = IF msg.term = "compare_papers"
                 THEN ComparisonReferences(msg.ids, msg.ordinals, cands) ELSE <<>>]

Given(d) ==
    {a \in {"paper", "path", "content", "refs"} :
        CASE a = "paper" -> d.paper # NoPaper
          [] a = "path" -> d.path # "none"
          [] a = "content" -> d.content
          [] a = "refs" -> d.refs # <<>>}

\* The required arguments that are missing; a comparison needs two references.
Missing(d) ==
    {a \in Catalog[d.cap].required : a \notin Given(d) \/ (a = "refs" /\ Len(d.refs) < 2)}

\* A paper must be named or selected, a search needs a topic.
TargetKnown(d, msg, sel) ==
    CASE d.cap \in {"paper_download", "process_selected_paper"} -> {d.paper, sel} # {NoPaper}
      [] d.cap = "paper_search" -> d.paper # NoPaper \/ msg.topic
      [] OTHER -> TRUE

\* Capability terms come before the search terms, and no term leaves it open.
Deterministic(msg, sel, cands) ==
    IF msg.term = "none" THEN NoDecision
    ELSE LET d == Arguments(msg, cands)
         IN  [d EXCEPT !.matched = Missing(d) = {} /\ TargetKnown(d, msg, sel)]

-----------------------------------------------------------------------------
(* HybridIntentRouter and the router of the model.                         *)

\* _deterministic_handled: a missing argument is asked of the user.
Handled(d) == d.cap # "none" \/ d.matched

\* The candidates in the projected context.
Visible(cands) == SubSeq(cands, 1, IF Len(cands) < MaxVisible THEN Len(cands) ELSE MaxVisible)

\* CapabilityDecisionValidator: the catalog entry and its schema.
Valid(d) ==
    \/ ~d.matched
    \/ /\ d.cap \in Capabilities
       /\ Missing(d) = {}
       /\ Given(d) \subseteq Catalog[d.cap].allowed
       /\ Len(d.refs) <= MaxRefs

Fallback == [NoDecision EXCEPT !.source = "fallback"]

\* parse_response: what is not a valid decision becomes a fallback.
ParseResponse(d) == IF Valid(d) THEN d ELSE Fallback

\* ClarificationPolicy: a match below the threshold is none.
Clarified(d, confident) ==
    IF d.matched /\ ~confident THEN [d EXCEPT !.matched = FALSE, !.source = "fallback"] ELSE d

\* The model may answer anything; it can refer to the candidates it is shown.
Answer(c) == [NoDecision EXCEPT !.matched = TRUE, !.cap = c, !.source = "llm"]
PaperAnswer(c, p, n, w) == [Answer(c) EXCEPT !.paper = p, !.reference = n, !.path = w]
ArtifactAnswer(c, w, b) == [Answer(c) EXCEPT !.path = w, !.content = b]
ComparisonAnswer(r) == [Answer("compare_papers") EXCEPT !.refs = r]

PaperAnswers(shown) ==
    {PaperAnswer(c, p, n, w) :
        c \in {"process_selected_paper", "paper_search"}, p \in Papers \cup {NoPaper},
        n \in 0..shown, w \in {"none", "outside"}}
ComparisonAnswers ==
    {ComparisonAnswer(r) : r \in UNION {[1..k -> Papers] : k \in 1..MaxRefs + 1}}
ArtifactAnswers ==
    {ArtifactAnswer(c, w, b) :
        c \in {"paper_parse", "paper_summary"}, w \in PathKinds, b \in BOOLEAN}
Answers(shown) ==
    {Answer("unknown")} \cup PaperAnswers(shown) \cup ComparisonAnswers \cup ArtifactAnswers

\* LLMIntentDecisionRouter.route and the policy after it, by the candidates shown.
Routes ==
    [shown \in 0..MaxVisible |->
        {Fallback} \cup {Clarified(ParseResponse(d), c) : d \in Answers(shown), c \in BOOLEAN}]
Routed(cands) == Routes[Len(Visible(cands))]

-----------------------------------------------------------------------------
\* CapabilityExecutionSecurityPolicy.authorize of an unconfirmed decision.
Authorize(d) ==
    IF ~d.matched \/ ~Valid(d) \/ d.path = "outside" THEN "denied"
    ELSE IF Catalog[d.cap].confirm THEN "confirm" ELSE "allowed"
=============================================================================

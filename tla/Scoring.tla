------------------------------ MODULE Scoring ------------------------------
(***************************************************************************)
(* scorers/letters.py, scorers/semantic.py and math.py: one decision after *)
(* another through one scorer and one backend.                             *)
(*                                                                         *)
(* The model behind the backend is not known in advance: what it answers   *)
(* for a token after a prompt is chosen when it is first read and stays    *)
(* the same (LlamaRuntime shows that the backend answers this way).        *)
(***************************************************************************)
EXTENDS PromptCompiler, Totals

CONSTANTS
  Requests,      \* records: state, question, ids, description
  Orders(_),     \* the orders in which a request's candidates are listed
  Backends,      \* records: tokenizer, and sharing: whether the backend has
                 \* shared-prefix scoring with hints
  Scorers,       \* subset of ScorerNames
  Answers(_, _), \* tokens, next token: logits a model may give, integers or NaN
  NaN,
  Weight(_),     \* e^d as the machine rounds it, for d <= 0
  MaxDecisions

ScorerNames == {"letter", "question_prefix", "semantic", "independent"}

ASSUME ScoringAssumption ==
  /\ Scorers \subseteq ScorerNames
  /\ NaN \notin Int
  /\ MaxDecisions \in Nat
  /\ \A r \in Requests :
       /\ IsFiniteSet(r.ids) /\ Cardinality(r.ids) >= 2
       /\ Orders(r) \subseteq SetToSeqs(r.ids)
  /\ \A r \in Requests : \A c, d \in r.ids :
       r.description[c] = r.description[d] => c = d
  /\ \A r \in Requests : \A c \in r.ids : {c, r.description[c]} \subseteq ToSet(Collation)

VARIABLES
  scorer, backend,
  pc,            \* "idle", "compile", "ask" or "conclude"
  request, order,\* the request being decided and how it lists candidates
  compiled,      \* prompts compiled so far
  call,          \* rows, tokens to read and hint given to the backend
  logits,        \* its answer, one list for every row
  model,         \* what the model is known to answer
  decisions,     \* history: outcomes of the decisions made
  hinted         \* history: prompts compiled with a reusable prefix

vars == <<scorer, backend, pc, request, order, compiled, call,
          logits, model, decisions, hinted>>
config == <<scorer, backend>>

tokenizer == backend.tokenizer

IsLetter == scorer \in {"letter", "question_prefix"}
NoCall == [rows |-> <<>>, tokens |-> <<>>, hint |-> NoHint]
Nothing == [ids |-> {}]

Init ==
  /\ scorer \in Scorers /\ backend \in Backends
  /\ pc = "idle" /\ request = Nothing /\ order = <<>>
  /\ compiled = <<>> /\ call = NoCall /\ logits = <<>>
  /\ model = <<>> /\ decisions = <<>> /\ hinted = {}

(* score() is called with the candidates in some order. *)
Present(r, o) ==
  /\ pc = "idle" /\ Len(decisions) < MaxDecisions
  /\ request' = r /\ order' = o /\ pc' = "compile"
  /\ compiled' = <<>> /\ call' = NoCall /\ logits' = <<>>
  /\ UNCHANGED <<config, model, decisions, hinted>>

Outcome(result) == [request |-> request, result |-> result]

(* A ValueError leaves score() with nothing kept. *)
Raise ==
  /\ decisions' = Append(decisions, Outcome([status |-> "raised"]))
  /\ pc' = "idle"

-----------------------------------------------------------------------------
(* Compiling: one prompt for the letters, one per candidate otherwise *)

PromptFor(r, c) ==
  CASE IsLetter -> CompileLetterChoice(tokenizer, r, scorer = "question_prefix")
    [] scorer = "semantic" -> CompileSemanticCandidate(tokenizer, r, c)
    [] scorer = "independent" -> CompileIndependentCandidate(tokenizer, r, c)

NextPrompt == PromptFor(request, order[Len(compiled) + 1])

Compiles == (IsLetter => ~TooManyOptions(request)) /\ NextPrompt.ok

CompilePrompt ==
  /\ pc = "compile" /\ Compiles
  /\ LET c == NextPrompt
     IN /\ compiled' = Append(compiled, c)
        /\ hinted' = IF c.hint = NoHint THEN hinted ELSE hinted \cup {c}
  /\ pc' = IF IsLetter \/ Len(compiled') = Len(order) THEN "ask" ELSE "compile"
  /\ UNCHANGED <<config, request, order, call, logits, model, decisions>>

RejectPrompt ==
  /\ pc = "compile" /\ ~Compiles
  /\ Raise
  /\ UNCHANGED <<config, request, order, compiled, call, logits, model, hinted>>

-----------------------------------------------------------------------------
(* Asking the backend *)

(* Faulty: reads the letters in the order of the prompt, although the       *)
(* answers are given to candidates in the order of the request.            *)
TokensInLetterOrder ==
  IF IsLetter THEN <<[k \in DOMAIN order |-> compiled[1].readout[Sorted(request.ids)[k]]]>>
  ELSE [r \in DOMAIN compiled |-> <<compiled[r].readout.yes, compiled[r].readout.no>>]

TokensToRead ==
  IF IsLetter THEN <<[k \in DOMAIN order |-> compiled[1].readout[order[k]]]>>
  ELSE [r \in DOMAIN compiled |-> <<compiled[r].readout.yes, compiled[r].readout.no>>]

(* A batch has one hint; prompts that disagree on it have none. *)
HintToGive ==
  LET hints == {compiled[r].hint : r \in DOMAIN compiled}
  IN IF backend.sharing /\ Cardinality(hints) = 1 THEN compiled[1].hint ELSE NoHint

(* What the call reads: tokens after rows.                                 *)
ReadBy(asked) ==
  UNION {{<<asked.rows[r], t>> : t \in ToSet(asked.tokens[r])} : r \in DOMAIN asked.rows}

Ask ==
  /\ pc = "ask"
  /\ call' = [rows |-> [r \in DOMAIN compiled |-> compiled[r].ids],
              tokens |-> TokensToRead, hint |-> HintToGive]
  /\ LET read == ReadBy(call')
     IN \E first \in [read \ DOMAIN model -> UNION {Answers(p[1], p[2]) : p \in read}] :
          /\ \A p \in DOMAIN first : first[p] \in Answers(p[1], p[2])
          /\ model' = [p \in DOMAIN model \cup read |->
                         IF p \in DOMAIN model THEN model[p] ELSE first[p]]
  /\ logits' = [r \in DOMAIN compiled |->
                  [k \in DOMAIN call'.tokens[r] |->
                     model'[<<call'.rows[r], call'.tokens[r][k]>>]]]
  /\ pc' = "conclude"
  /\ UNCHANGED <<config, request, order, compiled, decisions, hinted>>

-----------------------------------------------------------------------------
(* From logits to a decision *)

Finite == \A r \in DOMAIN logits : NaN \notin ToSet(logits[r])

ScoreList ==
  IF IsLetter THEN logits[1]
  ELSE [r \in DOMAIN logits |-> logits[r][1] - logits[r][2]]

ByCandidate(list) == [c \in request.ids |-> list[CHOOSE k \in DOMAIN order : order[k] = c]]

(* All weights are divided by the same total, which fsum computes exactly,  *)
(* so a weight stands for its probability.                                 *)
Softmax(list) ==
  LET top == CHOOSE x \in ToSet(list) : \A y \in ToSet(list) : y <= x
  IN [k \in DOMAIN list |-> Weight(list[k] - top)]

(* Faulty: of equally probable candidates, the one listed first. *)
FirstArgmax(dist) ==
  LET best == {c \in DOMAIN dist : \A d \in DOMAIN dist : dist[d] <= dist[c]}
  IN Head(SelectSeq(order, LAMBDA c : c \in best))

StableArgmax(dist) ==
  Head(Sorted({c \in DOMAIN dist : \A d \in DOMAIN dist : dist[d] <= dist[c]}))

PromptOf(c) ==
  IF IsLetter THEN compiled[1] ELSE compiled[CHOOSE k \in DOMAIN order : order[k] = c]

Decision ==
  LET distribution == ByCandidate(Softmax(ScoreList))
  IN [status |-> "ok", choice |-> StableArgmax(distribution),
      distribution |-> distribution, scores |-> ByCandidate(ScoreList),
      hashes |-> [c \in request.ids |-> <<PromptOf(c).version, PromptOf(c).prompt>>]]

(* What DecisionResult demands of one that is built.                       *)
ResultAccepted(r) ==
  LET total == Total(Softmax(ScoreList))
  IN /\ r.choice \in DOMAIN r.distribution
     /\ DOMAIN r.distribution = DOMAIN r.scores
     /\ \A c \in DOMAIN r.distribution : r.distribution[c] \in 0 .. total
     /\ \A c \in DOMAIN r.scores : r.scores[c] # NaN
     /\ Total([k \in DOMAIN order |-> r.distribution[order[k]]]) = total

Conclude ==
  /\ pc = "conclude" /\ Finite /\ ResultAccepted(Decision)
  /\ decisions' = Append(decisions, Outcome(Decision))
  /\ pc' = "idle"
  /\ UNCHANGED <<config, request, order, compiled, call, logits, model, hinted>>

(* math.py refuses the logits, or DecisionResult what was made of them.    *)
RefuseScores ==
  /\ pc = "conclude" /\ ~(Finite /\ ResultAccepted(Decision))
  /\ Raise
  /\ UNCHANGED <<config, request, order, compiled, call, logits, model, hinted>>

Next ==
  \/ \E r \in Requests : \E o \in Orders(r) : Present(r, o)
  \/ CompilePrompt \/ RejectPrompt \/ Ask \/ Conclude \/ RefuseScores

Spec == Init /\ [][Next]_vars

-----------------------------------------------------------------------------
(* Properties *)

(* The same request gets the same decision however its candidates are      *)
(* listed: choice, scores, distribution and prompts, or the same refusal.  *)
OrderDoesNotMatter ==
  \A i, j \in DOMAIN decisions :
    decisions[i].request = decisions[j].request =>
      decisions[i].result = decisions[j].result

(* A candidate's score is the model's answer for the letter that stands    *)
(* before its own description, or for its own candidate's prompt.          *)
OwnText(decision) ==
  LET req == decision.request
      scores == decision.result.scores
      prompt == [c \in req.ids |-> decision.result.hashes[c][2]]
      Reading(p, mark) ==
        model[<<Encode(tokenizer, p), Slot(tokenizer, p, mark)>>]
      Follows(p, a, b) == \E k \in 1 .. Len(p) - 1 : p[k] = a /\ p[k + 1] = b
  IN \A c \in req.ids :
       IF IsLetter
       THEN \E l \in ToSet(Alphabet) :
              /\ Follows(prompt[c], l, req.description[c])
              /\ scores[c] = Reading(prompt[c], l)
       ELSE /\ Follows(prompt[c], "CANDIDATE", req.description[c])
            /\ scores[c] = Reading(prompt[c], "Yes") - Reading(prompt[c], "No")

(* Every decision that was made has the scores of its own texts, although  *)
(* letters are dealt in the order of the ids and answers come in the order *)
(* of the request.                                                         *)
ScoredByOwnText ==
  \A i \in DOMAIN decisions :
    decisions[i].result.status = "ok" => OwnText(decisions[i])

(* Hints mean what the shared-prefix backend takes them for: the hint of a *)
(* call ends before each of its rows, which its fresh answers rest on, and *)
(* two decisions with the same stable text agree on all tokens that both   *)
(* their hints cover, so what one stored the other can use.                *)
HintsCanBeShared ==
  /\ call.hint # NoHint =>
       /\ call.hint > 0
       /\ \A r \in DOMAIN call.rows : call.hint < Len(call.rows[r])
  /\ \A p, q \in hinted : p.stable = q.stable /\ p.version = q.version =>
       \A k \in DOMAIN p.ids \cap DOMAIN q.ids :
         k <= p.hint /\ k <= q.hint => p.ids[k] = q.ids[k]
-----------------------------------------------------------------------------
(* Why the order does not matter: the decision on a request, from what the *)
(* model answers and without an order of the candidates.                   *)

TokensFor(r, c) ==
  LET readout == PromptFor(r, c).readout
  IN IF IsLetter THEN <<readout[c]>> ELSE <<readout.yes, readout.no>>

ReadFor(r, c) == {<<PromptFor(r, c).ids, t>> : t \in ToSet(TokensFor(r, c))}
Readings(r, c) ==
  [k \in DOMAIN TokensFor(r, c) |->
     model[<<PromptFor(r, c).ids, TokensFor(r, c)[k]>>]]
AllFinite(r) == \A c \in r.ids : NaN \notin ToSet(Readings(r, c))

ScoresOf(r) ==
  [c \in r.ids |-> IF IsLetter THEN Readings(r, c)[1]
                   ELSE Readings(r, c)[1] - Readings(r, c)[2]]
ProbabilitiesOf(r) ==
  LET scores == ScoresOf(r)
      all == {scores[c] : c \in r.ids}
      top == CHOOSE x \in all : \A y \in all : y <= x
  IN [c \in r.ids |-> Weight(scores[c] - top)]

AllCompile(r) ==
  /\ IsLetter => ~TooManyOptions(r)
  /\ \A c \in r.ids : PromptFor(r, c).ok

DecisionOn(r) ==
  LET distribution == ProbabilitiesOf(r)
      choice == StableArgmax(distribution)
  IN IF AllCompile(r) /\ AllFinite(r) /\ choice \in r.ids
     THEN [status |-> "ok", choice |-> choice, distribution |-> distribution,
           scores |-> ScoresOf(r),
           hashes |-> [c \in r.ids |-> <<PromptFor(r, c).version, PromptFor(r, c).prompt>>]]
     ELSE [status |-> "raised"]

(* The model has been asked all that a decision on the request rests on.   *)
Known(r) == AllCompile(r) => \A c \in r.ids : ReadFor(r, c) \subseteq DOMAIN model

Explained ==
  {[request |-> r, result |-> DecisionOn(r)] : r \in {q \in Requests : Known(q)}}

(* Where a decision in progress stands.                                    *)
CompiledOK ==
  /\ request \in Requests /\ order \in Orders(request)
  /\ compiled = <<>> \/ compiled \in Seq({PromptFor(request, c) : c \in request.ids})
  /\ Len(compiled) <= Len(order)
  /\ \A k \in DOMAIN compiled : compiled[k] = PromptFor(request, order[k]) /\ compiled[k].ok
AllCompiled ==
  IF IsLetter THEN Len(compiled) = 1 /\ ~TooManyOptions(request)
  ELSE Len(compiled) = Len(order)
Answered ==
  /\ logits = [r \in DOMAIN compiled |->
                 [k \in DOMAIN TokensToRead[r] |->
                    model[<<compiled[r].ids, TokensToRead[r][k]>>]]]
  /\ Known(request)

ScoringInv ==
  /\ scorer \in Scorers
  /\ model \in [DOMAIN model -> Int \cup {NaN}]
  /\ decisions \in Seq(Explained)
  /\ pc \in {"idle", "compile", "ask", "conclude"}
  /\ pc # "idle" => CompiledOK
  /\ pc = "compile" => IF IsLetter THEN compiled = <<>> ELSE Len(compiled) < Len(order)
  /\ pc \in {"ask", "conclude"} => AllCompiled
  /\ pc = "conclude" => Answered
-----------------------------------------------------------------------------
(* Why hints can be shared: all that is given to the backend was compiled, *)
(* and a hint is given for a prompt that has it.                           *)

Prompts ==
  UNION {{PromptFor(r, c) : c \in r.ids} :
         r \in {q \in Requests : IsLetter => ~TooManyOptions(q)}}

HintInv ==
  /\ backend \in Backends
  /\ \A p \in hinted : p \in Prompts /\ p.hint # NoHint
  /\ call.hint # NoHint =>
       /\ \E p \in Prompts : p.hint = call.hint
       /\ \A k \in DOMAIN call.rows :
            \E p \in Prompts : p.ids = call.rows[k] /\ p.hint = call.hint
=============================================================================

---------------------------- MODULE ScoringProofs ----------------------------
(***************************************************************************)
(* The decision on a request does not depend on the order in which its     *)
(* candidates are listed: for every set of requests with any number of     *)
(* candidates, every tokenizer, template and alphabet, every scorer, every *)
(* model and any number of decisions.                                      *)
(*                                                                         *)
(* DecisionOn says what the decision on a request is without an order.     *)
(* ScoringInv, which every step preserves, says that each decision made so *)
(* far is that one, and how far a decision in progress has come.           *)
(***************************************************************************)
EXTENDS Scoring, TotalsProofs, FiniteSetTheorems, SequenceTheorems, TLAPS

(* The logits a model may give are finite numbers or not.                  *)
AnswersAreNumbers == \A p, t : Answers(p, t) \subseteq Int \cup {NaN}

(* The exponential of a difference from the greatest is no less than zero. *)
WeightsAreNumbers == \A d \in Int : d <= 0 => Weight(d) \in Nat

-----------------------------------------------------------------------------
(* Orders and lists *)

(* An order lists every candidate once.                                    *)
LEMMA OrderFacts ==
  ASSUME NEW r \in Requests, NEW o \in Orders(r)
  PROVE  /\ o \in Seq(r.ids) /\ Len(o) >= 2
         /\ \A c \in r.ids : \E k \in DOMAIN o : o[k] = c
         /\ \A j, k \in DOMAIN o : o[j] = o[k] => j = k
<1> DEFINE n == Cardinality(r.ids)
<1>1. IsFiniteSet(r.ids) /\ n >= 2 /\ o \in SetToSeqs(r.ids)
  BY ScoringAssumption
<1>2. n \in Nat
  BY <1>1, FS_CardinalityType
<1>3. o \in [1 .. n -> r.ids] /\ \A i, j \in 1 .. n : i # j => o[i] # o[j]
  BY <1>1 DEF SetToSeqs
<1> HIDE DEF n
<1>4. DOMAIN o = 1 .. n /\ o \in Seq(r.ids) /\ Len(o) = n
  BY <1>2, <1>3
<1>5. o \in Injection(1 .. n, r.ids)
  BY <1>3 DEF Injection, IsInjective
<1>6. IsFiniteSet(1 .. n) /\ Cardinality(1 .. n) = n
  BY <1>2, FS_Interval
<1>7. o \in Surjection(1 .. n, r.ids)
  BY <1>1, <1>5, <1>6, FS_Injection DEF n
<1> QED BY <1>1, <1>3, <1>4, <1>7 DEF Surjection

(* A list in the order of the candidates, read by candidate.               *)
LEMMA ByCandidateFacts ==
  ASSUME request \in Requests, order \in Orders(request), NEW f, NEW list,
         \A k \in DOMAIN order : list[k] = f[order[k]]
  PROVE  ByCandidate(list) = [c \in request.ids |-> f[c]]
<1>1. \A c \in request.ids : list[CHOOSE k \in DOMAIN order : order[k] = c] = f[c]
  <2> TAKE c \in request.ids
  <2>1. \E k \in DOMAIN order : order[k] = c
    BY OrderFacts
  <2> DEFINE i == CHOOSE k \in DOMAIN order : order[k] = c
  <2>2. i \in DOMAIN order /\ order[i] = c
    BY <2>1
  <2> QED BY <2>2
<1> QED BY <1>1 DEF ByCandidate

(* Of finitely many numbers one is the greatest.                           *)
LEMMA Greatest ==
  ASSUME NEW a \in Seq(Int), a # <<>>
  PROVE  \E x \in ToSet(a) : \A y \in ToSet(a) : y <= x
<1> DEFINE S == {n \in Nat : n + 1 <= Len(a) =>
                   \E k \in 1 .. n + 1 : \A j \in 1 .. n + 1 : a[j] <= a[k]}
<1>1. Len(a) \in Nat /\ Len(a) >= 1 /\ DOMAIN a = 1 .. Len(a)
      /\ \A i \in 1 .. Len(a) : a[i] \in Int
  OBVIOUS
<1>2. 0 \in S
  <2>1. 1 \in 1 .. 0 + 1 /\ a[1] <= a[1] /\ \A j \in 1 .. 0 + 1 : j = 1
    BY <1>1
  <2> QED BY <2>1
<1>3. ASSUME NEW n \in Nat, n \in S PROVE n + 1 \in S
  <2> SUFFICES ASSUME (n + 1) + 1 <= Len(a)
               PROVE  \E k \in 1 .. (n + 1) + 1 : \A j \in 1 .. (n + 1) + 1 : a[j] <= a[k]
    OBVIOUS
  <2>1. n + 1 <= Len(a)
    BY <1>1
  <2>2. PICK k \in 1 .. n + 1 : \A j \in 1 .. n + 1 : a[j] <= a[k]
    BY <1>3, <2>1
  <2> DEFINE l == (n + 1) + 1
  <2>3. k \in 1 .. l /\ l \in 1 .. l /\ l \in 1 .. Len(a) /\ k \in 1 .. Len(a)
    BY <1>1, <2>1
  <2>4. a[k] \in Int /\ a[l] \in Int
    BY <1>1, <2>3
  <2>5. \A j \in 1 .. l : j = l \/ j \in 1 .. n + 1
    OBVIOUS
  <2>6. \A j \in 1 .. n + 1 : a[j] \in Int
    BY <1>1, <2>1
  <2> HIDE DEF l
  <2>7. CASE a[l] <= a[k]
    BY <2>2, <2>3, <2>5, <2>7 DEF l
  <2>8. CASE ~(a[l] <= a[k])
    <3>1. \A j \in 1 .. l : a[j] <= a[l]
      BY <2>2, <2>4, <2>5, <2>6, <2>8
    <3> QED BY <2>3, <3>1 DEF l
  <2> QED BY <2>7, <2>8
<1> HIDE DEF S
<1>4. Nat \subseteq S
  BY <1>2, <1>3, CountingUp
<1>5. Len(a) - 1 \in Nat /\ (Len(a) - 1) + 1 = Len(a)
  BY <1>1
<1>6. \E k \in 1 .. Len(a) : \A j \in 1 .. Len(a) : a[j] <= a[k]
  <2>1. PICK n \in Nat : n + 1 = Len(a) /\ n \in S
    BY <1>4, <1>5
  <2>2. n + 1 <= Len(a)
    BY <2>1, <1>1
  <2>3. \E k \in 1 .. n + 1 : \A j \in 1 .. n + 1 : a[j] <= a[k]
    BY <2>1, <2>2 DEF S
  <2> QED BY <2>1, <2>3
<1> QED BY <1>1, <1>6 DEF ToSet

(* No term of a sum of numbers that are not negative exceeds the sum.      *)
LEMMA TermWithinTotal ==
  ASSUME NEW a \in Seq(Nat), NEW k \in DOMAIN a
  PROVE  a[k] \in 0 .. Total(a)
<1>1. /\ Len(a) \in Nat /\ DOMAIN a = 1 .. Len(a) /\ \A i \in 1 .. Len(a) : a[i] \in Nat
      /\ k \in 1 .. Len(a)
  OBVIOUS
<1> DEFINE n == Len(a) - 1
           b == [i \in 1 .. n |-> IF i < k THEN a[i] ELSE a[i + 1]]
<1>2. n \in Nat
  BY <1>1
<1>3. \A i \in 1 .. n : (IF i < k THEN a[i] ELSE a[i + 1]) \in Nat
  BY <1>1
<1>4. b \in Seq(Nat) /\ Len(b) = n /\ \A i \in 1 .. n : b[i] = IF i < k THEN a[i] ELSE a[i + 1]
  <2> HIDE DEF n
  <2> QED BY <1>2, <1>3
<1> HIDE DEF b
<1>5. a \in Seq(Int) /\ b \in Seq(Int)
  BY <1>4
<1>6. Total(b) = Total(a) - a[k]
  BY <1>1, <1>4, <1>5, TotalWithout
<1>7. Total(b) \in Nat
  BY <1>4, <1>5, <1>2, TotalsOfNats, TotalsFacts
<1>8. Total(a) \in Int /\ a[k] \in Nat
  BY <1>1, <1>5, TotalsFacts
<1> QED BY <1>6, <1>7, <1>8

-----------------------------------------------------------------------------
(* What stays the same *)

(* Prompts depend on the scorer, the tokenizer and the request only.       *)
LEMMA ConfigKeeps ==
  ASSUME UNCHANGED config
  PROVE  /\ IsLetter' = IsLetter /\ scorer' = scorer /\ tokenizer' = tokenizer
         /\ \A r, c : /\ PromptFor(r, c)' = PromptFor(r, c)
                      /\ TokensFor(r, c)' = TokensFor(r, c)
                      /\ ReadFor(r, c)' = ReadFor(r, c)
         /\ \A r : AllCompile(r)' = AllCompile(r)
<1>1. IsLetter' = IsLetter /\ tokenizer' = tokenizer /\ scorer' = scorer
  BY DEF config, IsLetter, tokenizer
<1>2. \A r, c : PromptFor(r, c)' = PromptFor(r, c)
  BY <1>1 DEF PromptFor
<1>3. \A r, c : TokensFor(r, c)' = TokensFor(r, c)
  BY <1>1, <1>2 DEF TokensFor
<1>4. \A r, c : ReadFor(r, c)' = ReadFor(r, c)
  BY <1>2, <1>3 DEF ReadFor
<1>5. \A r : AllCompile(r)' = AllCompile(r)
  BY <1>1, <1>2 DEF AllCompile
<1> QED BY <1>1, <1>2, <1>3, <1>4, <1>5

(* What is known of the model is kept when more becomes known.             *)
ModelGrows ==
  DOMAIN model \subseteq DOMAIN model' /\ \A p \in DOMAIN model : model'[p] = model[p]

(* So a decision that rests on what is known stays what it is.             *)
LEMMA DecisionStays ==
  ASSUME UNCHANGED config, ModelGrows, NEW r, Known(r)
  PROVE  Known(r)' /\ DecisionOn(r)' = DecisionOn(r)
<1>1. Known(r)'
  BY ConfigKeeps DEF Known, ModelGrows
<1>2. CASE ~AllCompile(r)
  <2>1. ~AllCompile(r)'
    BY <1>2, ConfigKeeps
  <2>2. DecisionOn(r) = [status |-> "raised"]
    BY <1>2 DEF DecisionOn
  <2>3. DecisionOn(r)' = [status |-> "raised"]
    BY <2>1 DEF DecisionOn
  <2> QED BY <1>1, <2>2, <2>3
<1>3. CASE AllCompile(r)
  <2>1. \A c \in r.ids : Readings(r, c)' = Readings(r, c)
    <3> TAKE c \in r.ids
    <3>1. ReadFor(r, c) \subseteq DOMAIN model
      BY <1>3 DEF Known
    <3>2. \A k \in DOMAIN TokensFor(r, c) :
            model'[<<PromptFor(r, c).ids, TokensFor(r, c)[k]>>]
              = model[<<PromptFor(r, c).ids, TokensFor(r, c)[k]>>]
      BY <3>1 DEF ReadFor, ToSet, ModelGrows
    <3> QED BY <3>2, ConfigKeeps DEF Readings
  <2>2. AllFinite(r)' = AllFinite(r)
    BY <2>1 DEF AllFinite
  <2>3. ScoresOf(r)' = ScoresOf(r)
    BY <2>1, ConfigKeeps DEF ScoresOf
  <2>4. ProbabilitiesOf(r)' = ProbabilitiesOf(r)
    BY <2>3 DEF ProbabilitiesOf
  <2>5. DecisionOn(r)' = DecisionOn(r)
    BY <2>2, <2>3, <2>4, ConfigKeeps DEF DecisionOn
  <2> QED BY <1>1, <2>5
<1> QED BY <1>2, <1>3

(* And what explains the decisions made still does.                        *)
LEMMA ExplainedGrows ==
  ASSUME UNCHANGED config, ModelGrows
  PROVE  Explained \subseteq Explained'
<1>1. \A r \in Requests : Known(r) =>
        /\ Known(r)'
        /\ [request |-> r, result |-> DecisionOn(r)] = [request |-> r, result |-> DecisionOn(r)']
  BY DecisionStays
<1> QED BY <1>1 DEF Explained

-----------------------------------------------------------------------------
(* What has been compiled and asked *)

(* The letter scorers have one prompt for all candidates.                  *)
LEMMA OneLetterPrompt ==
  ASSUME IsLetter, NEW r, NEW c, NEW d
  PROVE  PromptFor(r, c) = PromptFor(r, d)
<1>1. scorer # "semantic" /\ scorer # "independent"
  BY DEF IsLetter
<1> QED BY <1>1 DEF PromptFor

(* Once everything is compiled, each candidate has its own prompt.         *)
LEMMA CompiledFacts ==
  ASSUME CompiledOK, AllCompiled
  PROVE  /\ order \in Seq(request.ids)
         /\ DOMAIN compiled = IF IsLetter THEN 1 .. 1 ELSE DOMAIN order
         /\ \A k \in DOMAIN order :
              /\ order[k] \in request.ids
              /\ compiled[IF IsLetter THEN 1 ELSE k] = PromptFor(request, order[k])
         /\ AllCompile(request)
<1>1. request \in Requests /\ order \in Orders(request)
  BY DEF CompiledOK
<1>2. /\ order \in Seq(request.ids) /\ Len(order) >= 2
      /\ \A c \in request.ids : \E k \in DOMAIN order : order[k] = c
  BY <1>1, OrderFacts
<1>3. /\ Len(order) \in Nat /\ DOMAIN order = 1 .. Len(order)
      /\ \A k \in DOMAIN order : order[k] \in request.ids
  BY <1>2
<1> DEFINE S == {PromptFor(request, c) : c \in request.ids}
<1>4. compiled \in Seq(S)
  <2>1. compiled = <<>> \/ compiled \in Seq(S)
    BY DEF CompiledOK
  <2> HIDE DEF S
  <2>2. <<>> \in Seq(S)
    OBVIOUS
  <2> QED BY <2>1, <2>2, Zenon
<1> HIDE DEF S
<1>5. Len(compiled) \in Nat /\ DOMAIN compiled = 1 .. Len(compiled)
  BY <1>4
<1>6. DOMAIN compiled = IF IsLetter THEN 1 .. 1 ELSE DOMAIN order
  BY <1>3, <1>5 DEF AllCompiled
<1>7. \A k \in DOMAIN compiled : compiled[k] = PromptFor(request, order[k]) /\ compiled[k].ok
  BY DEF CompiledOK
<1>8. CASE IsLetter
  <2>1. compiled[1] = PromptFor(request, order[1]) /\ compiled[1].ok
    BY <1>6, <1>7, <1>8
  <2>2. \A c : compiled[1] = PromptFor(request, c)
    BY <1>8, <2>1, OneLetterPrompt
  <2>3. AllCompile(request)
    BY <1>8, <2>1, <2>2 DEF AllCompile, AllCompiled
  <2> QED BY <1>2, <1>3, <1>6, <1>8, <2>2, <2>3
<1>9. CASE ~IsLetter
  <2>1. \A k \in DOMAIN order : compiled[k] = PromptFor(request, order[k]) /\ compiled[k].ok
    BY <1>6, <1>7, <1>9
  <2>2. AllCompile(request)
    BY <1>2, <1>9, <2>1 DEF AllCompile
  <2> QED BY <1>2, <1>3, <1>6, <1>9, <2>1, <2>2
<1> QED BY <1>8, <1>9

(* The tokens to read are those of each candidate, in the order given.     *)
LEMMA TokensFacts ==
  ASSUME CompiledOK, AllCompiled
  PROVE  /\ IsLetter => /\ TokensToRead = <<TokensToRead[1]>>
                        /\ DOMAIN TokensToRead[1] = DOMAIN order
                        /\ \A k \in DOMAIN order :
                             TokensFor(request, order[k]) = <<TokensToRead[1][k]>>
         /\ ~IsLetter => /\ DOMAIN TokensToRead = DOMAIN order
                         /\ \A k \in DOMAIN order :
                              TokensFor(request, order[k]) = TokensToRead[k]
<1>1. CASE IsLetter
  <2> DEFINE own == [k \in DOMAIN order |-> compiled[1].readout[order[k]]]
  <2>1. TokensToRead = <<own>>
    BY <1>1 DEF TokensToRead
  <2>2. \A k \in DOMAIN order : TokensFor(request, order[k]) = <<own[k]>>
    BY <1>1, CompiledFacts DEF TokensFor
  <2>3. DOMAIN own = DOMAIN order
    OBVIOUS
  <2> HIDE DEF own
  <2>4. TokensToRead[1] = own
    BY <2>1
  <2> QED BY <1>1, <2>1, <2>2, <2>3, <2>4
<1>2. CASE ~IsLetter
  <2>1. TokensToRead = [r \in DOMAIN compiled |->
                          <<compiled[r].readout.yes, compiled[r].readout.no>>]
    BY <1>2 DEF TokensToRead
  <2>2. DOMAIN compiled = DOMAIN order
        /\ \A k \in DOMAIN order : compiled[k] = PromptFor(request, order[k])
    BY <1>2, CompiledFacts
  <2>3. \A k \in DOMAIN order :
          TokensFor(request, order[k])
            = <<PromptFor(request, order[k]).readout.yes, PromptFor(request, order[k]).readout.no>>
    BY <1>2 DEF TokensFor
  <2> QED BY <1>2, <2>1, <2>2, <2>3
<1> QED BY <1>1, <1>2

(* So the call reads all that the decision rests on.                       *)
LEMMA CallReadsAll ==
  ASSUME CompiledOK, AllCompiled, NEW asked,
         asked.rows = [r \in DOMAIN compiled |-> compiled[r].ids],
         asked.tokens = TokensToRead, NEW c \in request.ids
  PROVE  ReadFor(request, c) \subseteq ReadBy(asked)
<1>1. request \in Requests /\ order \in Orders(request)
  BY DEF CompiledOK
<1>2. PICK k \in DOMAIN order : order[k] = c
  BY <1>1, OrderFacts
<1> DEFINE i == IF IsLetter THEN 1 ELSE k
<1>3. /\ i \in DOMAIN compiled /\ compiled[i] = PromptFor(request, c)
  BY <1>2, CompiledFacts
<1>4. \A t \in ToSet(TokensFor(request, c)) : t \in ToSet(asked.tokens[i])
  <2>1. CASE IsLetter
    <3>1. i = 1 /\ TokensFor(request, c) = <<TokensToRead[1][k]>> /\ k \in DOMAIN TokensToRead[1]
      BY <1>2, <2>1, TokensFacts
    <3>2. \A t \in ToSet(TokensFor(request, c)) : t = TokensToRead[1][k]
      BY <3>1 DEF ToSet
    <3> QED BY <3>1, <3>2 DEF ToSet
  <2>2. CASE ~IsLetter
    BY <1>2, <2>2, TokensFacts
  <2> QED BY <2>1, <2>2
<1> HIDE DEF i
<1>5. \A t \in ToSet(TokensFor(request, c)) :
        <<PromptFor(request, c).ids, t>> \in {<<asked.rows[i], u>> : u \in ToSet(asked.tokens[i])}
  BY <1>3, <1>4
<1> QED BY <1>3, <1>5 DEF ReadFor, ReadBy

-----------------------------------------------------------------------------
(* From logits to a decision *)

(* The answer to the call is what the decision rests on.                   *)
LEMMA LogitsFacts ==
  ASSUME CompiledOK, AllCompiled, Answered
  PROVE  /\ IsLetter => /\ DOMAIN logits = 1 .. 1 /\ DOMAIN logits[1] = DOMAIN order
                        /\ \A k \in DOMAIN order :
                             Readings(request, order[k]) = <<logits[1][k]>>
         /\ ~IsLetter => /\ DOMAIN logits = DOMAIN order
                         /\ \A k \in DOMAIN order : Readings(request, order[k]) = logits[k]
<1>1. logits = [r \in DOMAIN compiled |->
                 [k \in DOMAIN TokensToRead[r] |->
                    model[<<compiled[r].ids, TokensToRead[r][k]>>]]]
  BY DEF Answered
<1>2. \A c : Readings(request, c) = [k \in DOMAIN TokensFor(request, c) |->
               model[<<PromptFor(request, c).ids, TokensFor(request, c)[k]>>]]
  BY DEF Readings
<1>3. CASE IsLetter
  <2>1. DOMAIN compiled = 1 .. 1
        /\ \A k \in DOMAIN order : compiled[1] = PromptFor(request, order[k])
    BY <1>3, CompiledFacts
  <2>2. DOMAIN logits = 1 .. 1
        /\ logits[1] = [k \in DOMAIN order |-> model[<<compiled[1].ids, TokensToRead[1][k]>>]]
    BY <1>1, <1>3, <2>1, TokensFacts
  <2>3. \A k \in DOMAIN order : Readings(request, order[k]) = <<logits[1][k]>>
    <3> TAKE k \in DOMAIN order
    <3> DEFINE t == TokensToRead[1][k]
               p == PromptFor(request, order[k])
    <3>1. TokensFor(request, order[k]) = <<t>> /\ logits[1][k] = model[<<p.ids, t>>]
      BY <1>3, <2>1, <2>2, TokensFacts
    <3> HIDE DEF t, p
    <3>2. [j \in DOMAIN <<t>> |-> model[<<p.ids, <<t>>[j]>>]] = <<model[<<p.ids, t>>]>>
      OBVIOUS
    <3>3. Readings(request, order[k]) = [j \in DOMAIN <<t>> |-> model[<<p.ids, <<t>>[j]>>]]
      BY <1>2, <3>1 DEF p
    <3> QED BY <3>1, <3>2, <3>3
  <2> QED BY <1>3, <2>2, <2>3
<1>4. CASE ~IsLetter
  <2>1. DOMAIN compiled = DOMAIN order
        /\ \A k \in DOMAIN order : compiled[k] = PromptFor(request, order[k])
    BY <1>4, CompiledFacts
  <2>2. \A k \in DOMAIN order : TokensFor(request, order[k]) = TokensToRead[k]
    BY <1>4, TokensFacts
  <2> QED BY <1>1, <1>2, <1>4, <2>1, <2>2
<1> QED BY <1>3, <1>4

(* Softmax refuses what DecisionOn does not accept.                        *)
LEMMA FiniteFacts ==
  ASSUME CompiledOK, AllCompiled, Answered
  PROVE  Finite <=> AllFinite(request)
<1>1. request \in Requests /\ order \in Orders(request)
  BY DEF CompiledOK
<1>2. AllFinite(request) <=> \A k \in DOMAIN order : NaN \notin ToSet(Readings(request, order[k]))
  BY <1>1, OrderFacts, CompiledFacts DEF AllFinite
<1>3. CASE IsLetter
  <2>1. \A k \in DOMAIN order : ToSet(Readings(request, order[k])) = {logits[1][k]}
    BY <1>3, LogitsFacts DEF ToSet
  <2>2. ToSet(logits[1]) = {logits[1][k] : k \in DOMAIN order}
    BY <1>3, LogitsFacts DEF ToSet
  <2>3. Finite <=> NaN \notin ToSet(logits[1])
    BY <1>3, LogitsFacts DEF Finite
  <2> QED BY <1>2, <2>1, <2>2, <2>3
<1>4. CASE ~IsLetter
  BY <1>2, <1>4, LogitsFacts DEF Finite
<1> QED BY <1>3, <1>4

(* The scores, in the order of the candidates.                             *)
LEMMA ScoreFacts ==
  ASSUME CompiledOK, AllCompiled, Answered
  PROVE  /\ DOMAIN ScoreList = DOMAIN order
         /\ \A k \in DOMAIN order : ScoreList[k] = ScoresOf(request)[order[k]]
<1>1. \A k \in DOMAIN order : order[k] \in request.ids
  BY CompiledFacts
<1>2. CASE IsLetter
  <2>1. \A k \in DOMAIN order : ScoresOf(request)[order[k]] = Readings(request, order[k])[1]
    BY <1>1, <1>2 DEF ScoresOf
  <2>2. \A k \in DOMAIN order : Readings(request, order[k])[1] = logits[1][k]
    BY <1>2, LogitsFacts
  <2>3. ScoreList = logits[1]
    BY <1>2 DEF ScoreList
  <2> QED BY <1>2, <2>1, <2>2, <2>3, LogitsFacts
<1>3. CASE ~IsLetter
  <2>1. \A k \in DOMAIN order : ScoresOf(request)[order[k]]
          = Readings(request, order[k])[1] - Readings(request, order[k])[2]
    BY <1>1, <1>3 DEF ScoresOf
  <2>2. ScoreList = [r \in DOMAIN logits |-> logits[r][1] - logits[r][2]]
    BY <1>3 DEF ScoreList
  <2>3. DOMAIN logits = DOMAIN order
        /\ \A k \in DOMAIN order : Readings(request, order[k]) = logits[k]
    BY <1>3, LogitsFacts
  <2> QED BY <2>1, <2>2, <2>3
<1> QED BY <1>2, <1>3

(* Finite scores are numbers.                                              *)
LEMMA ScoresAreNumbers ==
  ASSUME model \in [DOMAIN model -> Int \cup {NaN}],
         CompiledOK, AllCompiled, Answered, Finite
  PROVE  ScoreList \in Seq(Int) /\ ScoreList # <<>> /\ Len(ScoreList) = Len(order)
<1>1. /\ \A k \in DOMAIN order : order[k] \in request.ids
      /\ AllCompile(request) /\ AllFinite(request)
      /\ Len(order) \in Nat /\ Len(order) >= 2 /\ DOMAIN order = 1 .. Len(order)
  BY CompiledFacts, FiniteFacts, OrderFacts DEF CompiledOK
<1>2. ASSUME NEW c \in request.ids, NEW k \in DOMAIN TokensFor(request, c)
      PROVE  Readings(request, c)[k] \in Int
  <2> DEFINE p == <<PromptFor(request, c).ids, TokensFor(request, c)[k]>>
  <2>1. p \in ReadFor(request, c)
    BY <1>2 DEF ReadFor, ToSet
  <2>2. p \in DOMAIN model
    BY <1>1, <1>2, <2>1 DEF Answered, Known
  <2>3. model[p] \in Int \cup {NaN}
    BY <2>2
  <2>4. Readings(request, c)[k] = model[p] /\ k \in DOMAIN Readings(request, c)
    BY <1>2 DEF Readings
  <2>5. Readings(request, c)[k] # NaN
    BY <1>1, <1>2, <2>4 DEF AllFinite, ToSet
  <2> QED BY <2>3, <2>4, <2>5
<1>3. \A k \in DOMAIN order : ScoreList[k] \in Int
  <2> TAKE k \in DOMAIN order
  <2>1. CASE IsLetter
    <3>1. ScoreList[k] = Readings(request, order[k])[1]
      BY <1>1, <2>1, ScoreFacts DEF ScoresOf
    <3>2. 1 \in DOMAIN TokensFor(request, order[k])
      BY <2>1 DEF TokensFor
    <3> QED BY <1>1, <1>2, <3>1, <3>2
  <2>2. CASE ~IsLetter
    <3>1. ScoreList[k] = Readings(request, order[k])[1] - Readings(request, order[k])[2]
      BY <1>1, <2>2, ScoreFacts DEF ScoresOf
    <3>2. 1 \in DOMAIN TokensFor(request, order[k]) /\ 2 \in DOMAIN TokensFor(request, order[k])
      BY <2>2 DEF TokensFor
    <3>3. Readings(request, order[k])[1] \in Int /\ Readings(request, order[k])[2] \in Int
      BY <1>1, <1>2, <3>2
    <3> QED BY <3>1, <3>3
  <2> QED BY <2>1, <2>2
<1>4. ScoreList = [k \in 1 .. Len(order) |-> ScoreList[k]]
  <2>1. CASE IsLetter
    <3>1. ScoreList = [k \in DOMAIN order |-> model[<<compiled[1].ids, TokensToRead[1][k]>>]]
      <4>1. ScoreList = logits[1]
        BY <2>1 DEF ScoreList
      <4>2. 1 \in DOMAIN compiled /\ DOMAIN TokensToRead[1] = DOMAIN order
        BY <2>1, CompiledFacts, TokensFacts
      <4> QED BY <4>1, <4>2 DEF Answered
    <3> QED BY <1>1, <3>1
  <2>2. CASE ~IsLetter
    BY <1>1, <2>2, LogitsFacts DEF ScoreList
  <2> QED BY <2>1, <2>2
<1> DEFINE n == Len(order)
<1>5. n \in Nat /\ n >= 2 /\ \A k \in 1 .. n : ScoreList[k] \in Int
  BY <1>1, <1>3
<1>6. ScoreList = [k \in 1 .. n |-> ScoreList[k]]
  BY <1>4
<1> HIDE DEF n
<1>7. ScoreList \in Seq(Int) /\ Len(ScoreList) = n
  BY <1>5, <1>6
<1> QED BY <1>5, <1>7 DEF n

(* The probabilities, in the order of the candidates.                      *)
LEMMA SoftmaxFacts ==
  ASSUME WeightsAreNumbers, model \in [DOMAIN model -> Int \cup {NaN}],
         CompiledOK, AllCompiled, Answered, Finite
  PROVE  /\ Softmax(ScoreList) \in Seq(Nat) /\ Softmax(ScoreList) # <<>>
         /\ DOMAIN Softmax(ScoreList) = DOMAIN order
         /\ \A k \in DOMAIN order :
              Softmax(ScoreList)[k] = ProbabilitiesOf(request)[order[k]]
<1>1. /\ \A k \in DOMAIN order : order[k] \in request.ids
      /\ \A c \in request.ids : \E k \in DOMAIN order : order[k] = c
      /\ Len(order) \in Nat /\ Len(order) >= 2 /\ DOMAIN order = 1 .. Len(order)
  BY CompiledFacts, OrderFacts DEF CompiledOK
<1>2. /\ DOMAIN ScoreList = DOMAIN order
      /\ \A k \in DOMAIN order : ScoreList[k] = ScoresOf(request)[order[k]]
  BY ScoreFacts
<1> DEFINE all == {ScoresOf(request)[c] : c \in request.ids}
           top == CHOOSE x \in all : \A y \in all : y <= x
<1>3. ToSet(ScoreList) = all
  BY <1>1, <1>2 DEF ToSet
<1>4. ScoreList \in Seq(Int) /\ ScoreList # <<>>
  BY ScoresAreNumbers
<1>5. \E x \in all : \A y \in all : y <= x
  BY <1>3, <1>4, Greatest
<1>6. top \in all /\ \A y \in all : y <= top
  BY <1>5
<1>7. Softmax(ScoreList) = [k \in DOMAIN ScoreList |-> Weight(ScoreList[k] - top)]
  BY <1>3 DEF Softmax
<1>8. ProbabilitiesOf(request) = [c \in request.ids |-> Weight(ScoresOf(request)[c] - top)]
  BY DEF ProbabilitiesOf
<1> HIDE DEF top
<1>9. \A k \in DOMAIN order : ScoreList[k] \in Int /\ ScoreList[k] \in all
  BY <1>1, <1>2, <1>4
<1>10. top \in Int
  <2> HIDE DEF all
  <2>1. top \in ToSet(ScoreList)
    BY <1>3, <1>6
  <2>2. \A k \in DOMAIN ScoreList : ScoreList[k] \in Int
    BY <1>2, <1>9
  <2> QED BY <2>1, <2>2 DEF ToSet
<1> HIDE DEF all
<1>11. \A k \in DOMAIN order : Weight(ScoreList[k] - top) \in Nat
  <2> TAKE k \in DOMAIN order
  <2>1. ScoreList[k] \in Int /\ ScoreList[k] <= top
    BY <1>6, <1>9
  <2>2. ScoreList[k] - top \in Int /\ ScoreList[k] - top <= 0
    BY <1>10, <2>1
  <2> QED BY <2>2 DEF WeightsAreNumbers
<1> DEFINE n == Len(order)
           w == [k \in 1 .. n |-> Weight(ScoreList[k] - top)]
<1>12. Softmax(ScoreList) = w /\ n \in Nat /\ n >= 2 /\ \A k \in 1 .. n : w[k] \in Nat
  BY <1>1, <1>2, <1>7, <1>11
<1>13. w \in Seq(Nat) /\ w # <<>> /\ DOMAIN w = 1 .. n
  <2> HIDE DEF n
  <2> QED BY <1>12
<1>14. \A k \in DOMAIN order :
         Softmax(ScoreList)[k] = ProbabilitiesOf(request)[order[k]]
  BY <1>1, <1>2, <1>7, <1>8
<1> HIDE DEF w
<1> QED BY <1>1, <1>12, <1>13, <1>14

(* What is decided is what DecisionOn says, and DecisionResult accepts it   *)
(* unless the choice is no candidate.                                      *)
LEMMA DecisionFacts ==
  ASSUME WeightsAreNumbers, model \in [DOMAIN model -> Int \cup {NaN}],
         CompiledOK, AllCompiled, Answered, Finite
  PROVE  /\ ResultAccepted(Decision) => Decision = DecisionOn(request)
         /\ ~ResultAccepted(Decision) => DecisionOn(request) = [status |-> "raised"]
<1>1. request \in Requests /\ order \in Orders(request)
  BY DEF CompiledOK
<1>2. /\ order \in Seq(request.ids)
      /\ \A k \in DOMAIN order : order[k] \in request.ids
      /\ \A c \in request.ids : \E k \in DOMAIN order : order[k] = c
      /\ \A j, k \in DOMAIN order : order[j] = order[k] => j = k
  BY <1>1, OrderFacts, CompiledFacts
<1> DEFINE dist == ProbabilitiesOf(request)
           scores == ScoresOf(request)
           choice == StableArgmax(dist)
           hashes == [c \in request.ids |-> <<PromptFor(request, c).version,
                                              PromptFor(request, c).prompt>>]
           result == [status |-> "ok", choice |-> choice, distribution |-> dist,
                      scores |-> scores, hashes |-> hashes]
<1>3. ByCandidate(Softmax(ScoreList)) = dist
  <2>1. ByCandidate(Softmax(ScoreList)) = [c \in request.ids |-> dist[c]]
    <3> HIDE DEF dist
    <3>1. \A k \in DOMAIN order : Softmax(ScoreList)[k] = dist[order[k]]
      BY SoftmaxFacts DEF dist
    <3> QED BY <1>1, <3>1, ByCandidateFacts
  <2>2. dist = [c \in request.ids |-> dist[c]]
    BY DEF ProbabilitiesOf
  <2> QED BY <2>1, <2>2
<1>4. ByCandidate(ScoreList) = scores
  <2>1. ByCandidate(ScoreList) = [c \in request.ids |-> scores[c]]
    <3> HIDE DEF scores
    <3>1. \A k \in DOMAIN order : ScoreList[k] = scores[order[k]]
      BY ScoreFacts DEF scores
    <3> QED BY <1>1, <3>1, ByCandidateFacts
  <2>2. scores = [c \in request.ids |-> scores[c]]
    BY DEF ScoresOf
  <2> QED BY <2>1, <2>2
<1>5. \A c \in request.ids : PromptOf(c) = PromptFor(request, c)
  <2> TAKE c \in request.ids
  <2>1. PICK k \in DOMAIN order : order[k] = c
    BY <1>2
  <2>2. k = CHOOSE j \in DOMAIN order : order[j] = c
    BY <1>2, <2>1
  <2> QED BY <2>1, <2>2, CompiledFacts DEF PromptOf
<1>6. Decision = result
  <2>1. [c \in request.ids |-> <<PromptOf(c).version, PromptOf(c).prompt>>] = hashes
    BY <1>5
  <2> QED BY <1>3, <1>4, <2>1 DEF Decision
<1>7. ResultAccepted(result) <=> choice \in request.ids
  <2> DEFINE w == Softmax(ScoreList)
  <2>1. /\ w \in Seq(Nat) /\ DOMAIN w = DOMAIN order
        /\ \A k \in DOMAIN order : w[k] = dist[order[k]]
    BY SoftmaxFacts
  <2>2. DOMAIN dist = request.ids /\ DOMAIN scores = request.ids
    BY DEF ProbabilitiesOf, ScoresOf
  <2> HIDE DEF w, dist, scores, hashes, choice
  <2>3. result.choice = choice /\ result.distribution = dist /\ result.scores = scores
    OBVIOUS
  <2>4. \A c \in request.ids : dist[c] \in 0 .. Total(w)
    BY <1>2, <2>1, TermWithinTotal
  <2>5. \A c \in request.ids : scores[c] # NaN
    <3> TAKE c \in request.ids
    <3>1. PICK k \in DOMAIN order : order[k] = c
      BY <1>2
    <3>2. ScoreList[k] = scores[c] /\ ScoreList \in Seq(Int) /\ k \in DOMAIN ScoreList
      BY <3>1, ScoreFacts, ScoresAreNumbers DEF scores
    <3>3. scores[c] \in Int
      BY <3>2
    <3> QED BY <3>3, ScoringAssumption
  <2>6. w = [k \in DOMAIN order |-> dist[order[k]]]
    <3>1. w = [k \in DOMAIN w |-> w[k]]
      BY DEF w, Softmax
    <3> QED BY <2>1, <3>1
  <2> HIDE DEF result
  <2>7. ResultAccepted(result) <=>
          /\ choice \in request.ids
          /\ \A c \in request.ids : dist[c] \in 0 .. Total(w)
          /\ \A c \in request.ids : scores[c] # NaN
          /\ Total([k \in DOMAIN order |-> dist[order[k]]]) = Total(w)
    BY <2>2, <2>3 DEF ResultAccepted, w
  <2> QED BY <2>4, <2>5, <2>6, <2>7
<1>8. AllCompile(request) /\ AllFinite(request)
  BY CompiledFacts, FiniteFacts
<1>9. DecisionOn(request) = IF choice \in request.ids THEN result ELSE [status |-> "raised"]
  BY <1>8 DEF DecisionOn
<1> HIDE DEF result, choice
<1> QED BY <1>6, <1>7, <1>9

-----------------------------------------------------------------------------
(* The invariant *)

(* The outcome of a decision is explained by what is known of the model.   *)
LEMMA OutcomeExplained ==
  ASSUME request \in Requests, Known(request), NEW result, result = DecisionOn(request)
  PROVE  Outcome(result) \in Explained
BY DEF Outcome, Explained

(* Past decisions and one more are still explained.                        *)
LEMMA OneMoreExplained ==
  ASSUME UNCHANGED config, UNCHANGED model, decisions \in Seq(Explained),
         NEW outcome \in Explained, decisions' = Append(decisions, outcome)
  PROVE  (decisions \in Seq(Explained))'
<1>1. Explained \subseteq Explained'
  BY ExplainedGrows DEF ModelGrows
<1> DEFINE S == Explained'
<1>2. decisions \in Seq(S) /\ outcome \in S
  BY <1>1
<1> HIDE DEF S
<1>3. Append(decisions, outcome) \in Seq(S)
  BY <1>2
<1> QED BY <1>3 DEF S

(* Steps that decide nothing leave the past decisions explained.           *)
LEMMA PastStaysExplained ==
  ASSUME UNCHANGED config, ModelGrows, decisions \in Seq(Explained), UNCHANGED decisions
  PROVE  (decisions \in Seq(Explained))'
BY ExplainedGrows

(* A model that is not asked knows what it knew.                           *)
LEMMA SameModel == ASSUME UNCHANGED model PROVE ModelGrows
BY DEF ModelGrows

(* Nothing has been decided at the start.                                  *)
LEMMA InitInv == ASSUME Init PROVE ScoringInv
<1>1. decisions \in Seq(Explained)
  BY DEF Init
<1>2. model \in [DOMAIN model -> Int \cup {NaN}]
  BY DEF Init
<1> QED BY <1>1, <1>2 DEF Init, ScoringInv

(* A step that ends a decision leaves no decision in progress.             *)
LEMMA BackToIdle ==
  ASSUME ScoringInv, UNCHANGED <<config, model>>, pc' = "idle",
         (decisions \in Seq(Explained))'
  PROVE  ScoringInv'
<1>1. scorer' \in Scorers /\ model' \in [DOMAIN model' -> Int \cup {NaN}]
  BY DEF ScoringInv, config
<1> QED BY <1>1 DEF ScoringInv

(* score() is called.                                                      *)
LEMMA PresentInv ==
  ASSUME ScoringInv, NEW r \in Requests, NEW o \in Orders(r), Present(r, o)
  PROVE  ScoringInv'
<1>1. /\ UNCHANGED config /\ UNCHANGED model /\ UNCHANGED decisions
      /\ request' = r /\ order' = o /\ pc' = "compile" /\ compiled' = <<>>
  BY DEF Present
<1>2. (decisions \in Seq(Explained))'
  BY <1>1, PastStaysExplained, SameModel DEF ScoringInv
<1>3. Len(o) \in Nat /\ Len(o) >= 2
  BY OrderFacts
<1>4. CompiledOK'
  BY <1>1, <1>3 DEF CompiledOK
<1>5. (IF IsLetter THEN compiled = <<>> ELSE Len(compiled) < Len(order))'
  BY <1>1, <1>3
<1>6. scorer' \in Scorers /\ model' \in [DOMAIN model' -> Int \cup {NaN}]
  BY <1>1 DEF ScoringInv, config
<1> QED BY <1>1, <1>2, <1>4, <1>5, <1>6 DEF ScoringInv

(* One more prompt is compiled.                                            *)
LEMMA CompilePromptInv ==
  ASSUME ScoringInv, CompilePrompt PROVE ScoringInv'
<1> DEFINE c == order[Len(compiled) + 1]
           p == PromptFor(request, c)
           n == Len(compiled)
<1>1. /\ pc = "compile" /\ Compiles /\ compiled' = Append(compiled, p)
      /\ pc' = IF IsLetter \/ Len(compiled') = Len(order) THEN "ask" ELSE "compile"
      /\ UNCHANGED config /\ UNCHANGED model /\ UNCHANGED decisions
      /\ request' = request /\ order' = order
  BY DEF CompilePrompt, NextPrompt
<1>2. CompiledOK /\ scorer \in Scorers /\ decisions \in Seq(Explained)
      /\ (IF IsLetter THEN compiled = <<>> ELSE Len(compiled) < Len(order))
  BY <1>1 DEF ScoringInv
<1>3. (decisions \in Seq(Explained))'
  BY <1>1, <1>2, PastStaysExplained, SameModel
<1>4. p.ok /\ (IsLetter => ~TooManyOptions(request))
  BY <1>1 DEF Compiles, NextPrompt
<1>5. request \in Requests /\ order \in Orders(request)
  BY <1>2 DEF CompiledOK
<1>6. Len(order) \in Nat /\ Len(order) >= 2 /\ DOMAIN order = 1 .. Len(order)
      /\ \A k \in DOMAIN order : order[k] \in request.ids
  BY <1>5, OrderFacts
<1> DEFINE S == {PromptFor(request, d) : d \in request.ids}
<1>7. compiled \in Seq(S)
  <2>1. compiled = <<>> \/ compiled \in Seq(S)
    BY <1>2 DEF CompiledOK
  <2> HIDE DEF S
  <2>2. <<>> \in Seq(S)
    OBVIOUS
  <2> QED BY <2>1, <2>2, Zenon
<1>8. n \in Nat /\ n < Len(order) /\ n + 1 \in DOMAIN order /\ DOMAIN compiled = 1 .. n
  <2> HIDE DEF S
  <2>1. n \in Nat /\ DOMAIN compiled = 1 .. n
    BY <1>7
  <2>2. n < Len(order)
    BY <1>2, <1>6
  <2> HIDE DEF n
  <2> QED BY <1>6, <2>1, <2>2
<1>9. p \in S
  BY <1>6, <1>8
<1> HIDE DEF p, S
<1>10. /\ Append(compiled, p) \in Seq(S) /\ Len(Append(compiled, p)) = n + 1
       /\ DOMAIN Append(compiled, p) = 1 .. n + 1 /\ Append(compiled, p)[n + 1] = p
       /\ \A k \in 1 .. n : Append(compiled, p)[k] = compiled[k]
  BY <1>7, <1>9
<1>11. \A k \in 1 .. n + 1 : k \in 1 .. n \/ k = n + 1
  BY <1>8
<1>12. \A k \in 1 .. n + 1 : /\ Append(compiled, p)[k] = PromptFor(request, order[k])
                            /\ Append(compiled, p)[k].ok
  <2>1. \A k \in 1 .. n : compiled[k] = PromptFor(request, order[k]) /\ compiled[k].ok
    BY <1>2, <1>8 DEF CompiledOK
  <2>2. p = PromptFor(request, order[n + 1])
    BY DEF p
  <2> QED BY <1>4, <1>10, <1>11, <2>1, <2>2
<1>13. CompiledOK'
  <2>1. \A r, d : PromptFor(r, d)' = PromptFor(r, d)
    BY <1>1, ConfigKeeps
  <2>2. compiled' \in Seq({PromptFor(request, d) : d \in request.ids})'
    BY <1>1, <1>10, <2>1 DEF S
  <2>3. Len(compiled') <= Len(order')
    <3>1. n + 1 <= Len(order)
      BY <1>6, <1>8
    <3> QED BY <1>1, <1>10, <3>1
  <2>4. \A k \in DOMAIN compiled' :
          compiled'[k] = PromptFor(request, order[k])' /\ compiled'[k].ok
    BY <1>1, <1>10, <1>12, <2>1
  <2> QED BY <1>1, <1>5, <2>2, <2>3, <2>4 DEF CompiledOK
<1>14. IsLetter' = IsLetter /\ TooManyOptions(request)' = TooManyOptions(request)
  BY <1>1, ConfigKeeps
<1>15. pc' = "ask" => AllCompiled'
  <2>1. IsLetter => Len(Append(compiled, p)) = 1
    <3>1. IsLetter => n = 0
      BY <1>2
    <3> QED BY <1>10, <3>1
  <2> QED BY <1>1, <1>4, <1>14, <2>1 DEF AllCompiled
<1>16. pc' = "compile" => (IF IsLetter THEN compiled = <<>> ELSE Len(compiled) < Len(order))'
  <2>1. ~IsLetter /\ n + 1 # Len(order) => n + 1 < Len(order)
    <3> HIDE DEF n
    <3>1. n \in Nat /\ n < Len(order) /\ Len(order) \in Nat
      BY <1>6, <1>8
    <3> QED BY <3>1
  <2> QED BY <1>1, <1>10, <1>14, <2>1
<1>17. scorer' \in Scorers /\ model' \in [DOMAIN model' -> Int \cup {NaN}]
  BY <1>1 DEF ScoringInv, config
<1>18. pc' \in {"compile", "ask"}
  BY <1>1
<1> QED BY <1>3, <1>13, <1>15, <1>16, <1>17, <1>18 DEF ScoringInv

(* The next candidate to compile a prompt for is one of the request.       *)
LEMMA CompilingNext ==
  ASSUME CompiledOK, IF IsLetter THEN compiled = <<>> ELSE Len(compiled) < Len(order)
  PROVE  order[Len(compiled) + 1] \in request.ids
<1>1. request \in Requests /\ order \in Orders(request)
  BY DEF CompiledOK
<1>2. Len(order) \in Nat /\ Len(order) >= 2 /\ \A k \in 1 .. Len(order) : order[k] \in request.ids
  BY <1>1, OrderFacts
<1>3. CASE compiled = <<>>
  BY <1>2, <1>3
<1>4. CASE compiled # <<>>
  <2> DEFINE S == {PromptFor(request, d) : d \in request.ids}
  <2>1. compiled \in Seq(S)
    BY <1>4 DEF CompiledOK
  <2> HIDE DEF S
  <2>2. Len(compiled) \in Nat /\ Len(compiled) < Len(order)
    BY <1>4, <2>1
  <2>3. Len(compiled) + 1 \in 1 .. Len(order)
    BY <1>2, <2>2
  <2> QED BY <1>2, <2>3
<1> QED BY <1>3, <1>4

(* Compiling fails.                                                        *)
LEMMA RejectPromptInv ==
  ASSUME ScoringInv, RejectPrompt PROVE ScoringInv'
<1> DEFINE c == order[Len(compiled) + 1]
           raised == [status |-> "raised"]
<1>1. /\ pc = "compile" /\ ~Compiles /\ decisions' = Append(decisions, Outcome(raised))
      /\ pc' = "idle" /\ UNCHANGED config /\ UNCHANGED model
  BY DEF RejectPrompt, Raise
<1>2. CompiledOK /\ decisions \in Seq(Explained)
      /\ (IF IsLetter THEN compiled = <<>> ELSE Len(compiled) < Len(order))
  BY <1>1 DEF ScoringInv
<1>3. request \in Requests /\ order \in Orders(request)
  BY <1>2 DEF CompiledOK
<1>5. c \in request.ids
  BY <1>2, CompilingNext
<1>6. ~AllCompile(request)
  BY <1>1, <1>5 DEF Compiles, NextPrompt, AllCompile
<1>7. Known(request) /\ DecisionOn(request) = raised
  BY <1>6 DEF Known, DecisionOn
<1> HIDE DEF raised
<1>8. Outcome(raised) \in Explained
  BY <1>3, <1>7, OutcomeExplained
<1>9. (decisions \in Seq(Explained))'
  BY <1>1, <1>2, <1>8, OneMoreExplained
<1> QED BY <1>1, <1>9, BackToIdle

(* The backend is asked.                                                   *)
LEMMA AskInv ==
  ASSUME AnswersAreNumbers, ScoringInv, Ask PROVE ScoringInv'
<1> DEFINE read == ReadBy(call')
<1>1. PICK first \in [read \ DOMAIN model -> UNION {Answers(p[1], p[2]) : p \in read}] :
        /\ \A p \in DOMAIN first : first[p] \in Answers(p[1], p[2])
        /\ model' = [p \in DOMAIN model \cup read |->
                      IF p \in DOMAIN model THEN model[p] ELSE first[p]]
  BY DEF Ask
<1>2. /\ pc = "ask" /\ pc' = "conclude"
      /\ call'.rows = [r \in DOMAIN compiled |-> compiled[r].ids]
      /\ call'.tokens = TokensToRead
      /\ logits' = [r \in DOMAIN compiled |->
                     [k \in DOMAIN call'.tokens[r] |->
                        model'[<<call'.rows[r], call'.tokens[r][k]>>]]]
      /\ UNCHANGED config /\ UNCHANGED <<request, order, compiled, decisions>>
  BY DEF Ask
<1>3. CompiledOK /\ AllCompiled /\ decisions \in Seq(Explained)
      /\ model \in [DOMAIN model -> Int \cup {NaN}] /\ scorer \in Scorers
  BY <1>2 DEF ScoringInv
<1> HIDE DEF read
<1>4. DOMAIN model' = DOMAIN model \cup read
      /\ \A p \in DOMAIN model \cup read :
           model'[p] = IF p \in DOMAIN model THEN model[p] ELSE first[p]
  BY <1>1
<1>5. ModelGrows
  BY <1>4 DEF ModelGrows
<1>6. model' \in [DOMAIN model' -> Int \cup {NaN}]
  <2>1. \A p \in read \ DOMAIN model : first[p] \in Int \cup {NaN}
    BY <1>1 DEF AnswersAreNumbers
  <2>2. \A p \in DOMAIN model : model[p] \in Int \cup {NaN}
    BY <1>3
  <2>3. \A p \in DOMAIN model' : model'[p] \in Int \cup {NaN}
    BY <1>4, <2>1, <2>2
  <2>4. model' = [p \in DOMAIN model' |-> model'[p]]
    BY <1>1, <1>4
  <2> QED BY <2>3, <2>4
<1>7. (decisions \in Seq(Explained))'
  BY <1>2, <1>3, <1>5, PastStaysExplained
<1>8. \A r, c : PromptFor(r, c)' = PromptFor(r, c) /\ ReadFor(r, c)' = ReadFor(r, c)
  BY <1>2, ConfigKeeps
<1>9. CompiledOK'
  BY <1>2, <1>3, <1>8 DEF CompiledOK
<1>10. AllCompiled' /\ TokensToRead' = TokensToRead
  <2>1. IsLetter' = IsLetter
    BY <1>2, ConfigKeeps
  <2> QED BY <1>2, <1>3, <2>1 DEF AllCompiled, TokensToRead
<1>11. Known(request)'
  <2>1. \A c \in request.ids : ReadFor(request, c) \subseteq DOMAIN model'
    <3> TAKE c \in request.ids
    <3>1. ReadFor(request, c) \subseteq read
      BY <1>2, <1>3, CallReadsAll DEF read
    <3> QED BY <1>4, <3>1
  <2> QED BY <1>2, <1>8, <2>1 DEF Known
<1>12. Answered'
  <2>1. logits' = [r \in DOMAIN compiled |->
                    [k \in DOMAIN TokensToRead[r] |->
                       model'[<<compiled[r].ids, TokensToRead[r][k]>>]]]
    BY <1>2
  <2> QED BY <1>2, <1>10, <1>11, <2>1 DEF Answered
<1>13. scorer' \in Scorers
  BY <1>2, <1>3 DEF config
<1> QED BY <1>2, <1>6, <1>7, <1>9, <1>10, <1>12, <1>13 DEF ScoringInv

(* A decision is made, or its scores are refused.                          *)
LEMMA ConcludeInv ==
  ASSUME WeightsAreNumbers, ScoringInv, Conclude \/ RefuseScores PROVE ScoringInv'
<1>1. pc = "conclude" /\ pc' = "idle" /\ UNCHANGED config /\ UNCHANGED model
  BY DEF Conclude, RefuseScores, Raise
<1>2. CompiledOK /\ AllCompiled /\ Answered /\ decisions \in Seq(Explained)
      /\ model \in [DOMAIN model -> Int \cup {NaN}]
  BY <1>1 DEF ScoringInv
<1>3. request \in Requests /\ Known(request)
  BY <1>2 DEF CompiledOK, Answered
<1>4. \E result : result = DecisionOn(request) /\ decisions' = Append(decisions, Outcome(result))
  <2>1. CASE Conclude
    BY <1>2, <2>1, DecisionFacts DEF Conclude
  <2>2. CASE RefuseScores
    <3>1. decisions' = Append(decisions, Outcome([status |-> "raised"]))
          /\ ~(Finite /\ ResultAccepted(Decision))
      BY <2>2 DEF RefuseScores, Raise
    <3>2. DecisionOn(request) = [status |-> "raised"]
      <4>1. CASE Finite
        BY <1>2, <3>1, <4>1, DecisionFacts
      <4>2. CASE ~Finite
        <5>1. ~AllFinite(request)
          BY <1>2, <4>2, FiniteFacts
        <5> QED BY <5>1 DEF DecisionOn
      <4> QED BY <4>1, <4>2
    <3> QED BY <3>1, <3>2
  <2> QED BY <2>1, <2>2
<1>5. PICK outcome \in Explained : decisions' = Append(decisions, outcome)
  BY <1>3, <1>4, OutcomeExplained
<1>6. (decisions \in Seq(Explained))'
  BY <1>1, <1>2, <1>5, OneMoreExplained
<1> QED BY <1>1, <1>6, BackToIdle

(* Nothing happens.                                                        *)
LEMMA StutterInv ==
  ASSUME ScoringInv, UNCHANGED vars PROVE ScoringInv'
<1>1. UNCHANGED config /\ UNCHANGED model /\ UNCHANGED decisions
      /\ UNCHANGED <<scorer, backend, pc, request, order, compiled, logits>>
  BY DEF vars, config
<1>2. (decisions \in Seq(Explained))'
  BY <1>1, PastStaysExplained, SameModel DEF ScoringInv
<1>3. /\ \A r, c : PromptFor(r, c)' = PromptFor(r, c) /\ ReadFor(r, c)' = ReadFor(r, c)
      /\ \A r : AllCompile(r)' = AllCompile(r)
      /\ IsLetter' = IsLetter
  BY <1>1, ConfigKeeps
<1>4. CompiledOK => CompiledOK'
  BY <1>1, <1>3 DEF CompiledOK
<1>5. AllCompiled => AllCompiled'
  BY <1>1, <1>3 DEF AllCompiled
<1>6. TokensToRead' = TokensToRead
  BY <1>1, <1>3 DEF TokensToRead
<1>7. Known(request) => Known(request)'
  BY <1>1, <1>3 DEF Known
<1>8. Answered => Answered'
  BY <1>1, <1>6, <1>7 DEF Answered
<1> QED BY <1>1, <1>2, <1>3, <1>4, <1>5, <1>8 DEF ScoringInv

(* Each decision made is the one DecisionOn gives for its request, and a   *)
(* decision in progress has compiled, asked and been answered as it says.  *)
THEOREM ScoringInvariance ==
  ASSUME AnswersAreNumbers, WeightsAreNumbers
  PROVE  Spec => []ScoringInv
<1>1. Init => ScoringInv
  BY InitInv
<1>2. ScoringInv /\ [Next]_vars => ScoringInv'
  <2> SUFFICES ASSUME ScoringInv, [Next]_vars PROVE ScoringInv'
    OBVIOUS
  <2>1. ASSUME NEW r \in Requests, NEW o \in Orders(r), Present(r, o) PROVE ScoringInv'
    BY <2>1, PresentInv
  <2>2. CASE CompilePrompt
    BY <2>2, CompilePromptInv
  <2>3. CASE RejectPrompt
    BY <2>3, RejectPromptInv
  <2>4. CASE Ask
    BY <2>4, AnswersAreNumbers, AskInv
  <2>5. CASE Conclude \/ RefuseScores
    BY <2>5, WeightsAreNumbers, ConcludeInv
  <2>6. CASE UNCHANGED vars
    BY <2>6, StutterInv
  <2> QED BY <2>1, <2>2, <2>3, <2>4, <2>5, <2>6 DEF Next
<1> QED BY <1>1, <1>2, PTL DEF Spec

(* The same request gets the same decision however its candidates are      *)
(* listed: the promise of the scorers and of stable_argmax's tie-break.    *)
THEOREM OrderIsIrrelevant ==
  ASSUME AnswersAreNumbers, WeightsAreNumbers
  PROVE  Spec => []OrderDoesNotMatter
<1>1. ScoringInv => OrderDoesNotMatter
  <2> SUFFICES ASSUME ScoringInv, NEW i \in DOMAIN decisions, NEW j \in DOMAIN decisions,
                      decisions[i].request = decisions[j].request
               PROVE  decisions[i].result = decisions[j].result
    BY DEF OrderDoesNotMatter
  <2> DEFINE S == Explained
  <2>1. decisions \in Seq(S)
    BY DEF ScoringInv
  <2>2. decisions[i] \in S /\ decisions[j] \in S
    <3> HIDE DEF S
    <3> QED BY <2>1
  <2>3. \A e \in S : e.result = DecisionOn(e.request)
    BY DEF Explained
  <2> QED BY <2>2, <2>3
<1> QED BY <1>1, ScoringInvariance, AnswersAreNumbers, WeightsAreNumbers, PTL
-----------------------------------------------------------------------------
(* Orders and common beginnings of texts *)

(* A set of numbers has a least one.                                       *)
LEMMA LeastNumber ==
  ASSUME NEW S, S \subseteq Nat, S # {}
  PROVE  \E x \in S : \A y \in S : x <= y
<1>1. PICK x \in S : \A y \in S : ~(<<y, x>> \in OpToRel(<, Nat))
  BY NatLessThanWellFounded, WFMin
<1>2. \A y \in S : ~(y < x)
  BY <1>1 DEF OpToRel
<1>3. \A y \in S : y \in Nat
  OBVIOUS
<1>4. \A y \in S : x <= y
  BY <1>2, <1>3
<1> QED BY <1>4

(* The longest common prefix of two texts is a prefix of both.             *)
LEMMA CommonBeginning ==
  ASSUME NEW T, NEW a \in Seq(T), NEW b \in Seq(T), NEW l, l = LongestCommonPrefix({a, b})
  PROVE  /\ l \in Seq(T) /\ Len(l) <= Len(a) /\ Len(l) <= Len(b)
         /\ \A k \in 1 .. Len(l) : l[k] = a[k] /\ l[k] = b[k]
<1> DEFINE C == CommonPrefixes({a, b})
           S == {n \in Nat : \E p \in C : Len(p) + n = Len(a)}
<1>1. Len(a) \in Nat /\ Len(b) \in Nat
  OBVIOUS
<1>2. \A p : p \in C <=> /\ \E s \in {a, b} : p \in Prefixes(s)
                         /\ IsPrefix(p, a) /\ IsPrefix(p, b)
  BY DEF CommonPrefixes
<1>3. \A s \in {a, b} : \A p \in Prefixes(s) : p \in Seq(T) /\ Len(p) \in Nat
  <2> SUFFICES ASSUME NEW s \in {a, b}, NEW n \in 0 .. Len(s)
               PROVE  SubSeq(s, 1, n) \in Seq(T)
    BY DEF Prefixes
  <2>1. s \in Seq(T) /\ n \in 0 .. Len(s)
    OBVIOUS
  <2> QED BY <2>1
<1>4. <<>> \in C
  <2>1. SubSeq(a, 1, 0) = <<>> /\ SubSeq(b, 1, 0) = <<>> /\ Len(<<>>) = 0 /\ 0 \in 0 .. Len(a)
    BY <1>1
  <2>2. SubSeq(<<>>, 1, 0) = <<>>
    OBVIOUS
  <2>3. <<>> \in Prefixes(a)
    BY <2>1 DEF Prefixes
  <2>4. IsPrefix(<<>>, a) /\ IsPrefix(<<>>, b)
    BY <1>1, <2>1, <2>2 DEF IsPrefix
  <2> QED BY <1>2, <2>3, <2>4
<1>5. \A p \in C : p \in Seq(T) /\ Len(p) \in Nat /\ Len(p) <= Len(a) /\ Len(p) <= Len(b)
  BY <1>2, <1>3 DEF IsPrefix
<1>6. PICK n \in S : \A m \in S : n <= m
  <2>1. Len(a) \in S
    <3>1. Len(<<>>) + Len(a) = Len(a)
      BY <1>1
    <3> HIDE DEF C
    <3> QED BY <1>1, <1>4, <3>1
  <2>2. S \subseteq Nat /\ S # {}
    BY <2>1
  <2> HIDE DEF S
  <2> QED BY <2>2, LeastNumber
<1> HIDE DEF C
<1>7. PICK p \in C : Len(p) + n = Len(a)
  OBVIOUS
<1>8. \A q \in C : Len(q) <= Len(p)
  <2> TAKE q \in C
  <2>1. Len(q) \in Nat /\ Len(q) <= Len(a) /\ Len(p) \in Nat /\ n \in Nat
    BY <1>5
  <2>2. PICK m \in Nat : m = Len(a) - Len(q)
    BY <1>1, <2>1
  <2>3. Len(q) + m = Len(a)
    BY <1>1, <2>1, <2>2
  <2>4. n <= m
    BY <1>6, <2>3
  <2> QED BY <1>1, <1>7, <2>1, <2>3, <2>4
<1>9. l \in C
  BY <1>8 DEF LongestCommonPrefix, C
<1>10. l \in Seq(T) /\ Len(l) <= Len(a) /\ Len(l) <= Len(b) /\ Len(l) \in Nat
  BY <1>5, <1>9
<1>11. SubSeq(l, 1, Len(l)) = SubSeq(a, 1, Len(l)) /\ SubSeq(l, 1, Len(l)) = SubSeq(b, 1, Len(l))
  BY <1>2, <1>9 DEF IsPrefix
<1>12. \A k \in 1 .. Len(l) : /\ SubSeq(l, 1, Len(l))[k] = l[k]
                              /\ SubSeq(a, 1, Len(l))[k] = a[k]
                              /\ SubSeq(b, 1, Len(l))[k] = b[k]
  BY <1>1, <1>10
<1> QED BY <1>10, <1>11, <1>12

(* Of what the collation knows, each has a rank of its own.                *)
LEMMA RankFacts ==
  ASSUME NEW x \in ToSet(Collation)
  PROVE  Rank(x) \in DOMAIN Collation /\ Rank(x) \in Nat /\ Collation[Rank(x)] = x
<1>1. \E k \in DOMAIN Collation : Collation[k] = x
  BY DEF ToSet
<1>2. Rank(x) \in DOMAIN Collation /\ Collation[Rank(x)] = x
  BY <1>1 DEF Rank
<1>3. DOMAIN Collation = 1 .. Len(Collation) /\ Len(Collation) \in Nat
  <2> DEFINE S == ToSet(Collation)
  <2>1. Collation \in Seq(S)
    BY CollationAssumption
  <2> HIDE DEF S
  <2> QED BY <2>1
<1> QED BY <1>2, <1>3

(* Sorting lists every member once.                                        *)
LEMMA SortedFacts ==
  ASSUME NEW S, S \subseteq ToSet(Collation), IsFiniteSet(S)
  PROVE  /\ Sorted(S) \in Seq(S) /\ Len(Sorted(S)) = Cardinality(S) /\ Cardinality(S) \in Nat
         /\ \A x \in S : \E n \in 1 .. Cardinality(S) : Sorted(S)[n] = x
<1> DEFINE N == Cardinality(S)
           count == [x \in S |-> Cardinality(UpTo(S, x))]
<1>1. N \in Nat
  BY FS_CardinalityType
<1>2. \A x \in S : Rank(x) \in Nat /\ Collation[Rank(x)] = x
  BY RankFacts
<1>3. \A x \in S : /\ UpTo(S, x) \subseteq S /\ IsFiniteSet(UpTo(S, x)) /\ x \in UpTo(S, x)
                   /\ count[x] = Cardinality(UpTo(S, x)) /\ count[x] \in 1 .. N
  <2> TAKE x \in S
  <2>1. UpTo(S, x) \subseteq S /\ x \in UpTo(S, x)
    BY <1>2 DEF UpTo
  <2>2. IsFiniteSet(UpTo(S, x)) /\ Cardinality(UpTo(S, x)) <= N
    BY <2>1, FS_Subset
  <2>3. Cardinality(UpTo(S, x)) \in Nat /\ Cardinality(UpTo(S, x)) # 0
    BY <2>1, <2>2, FS_CardinalityType, FS_EmptySet
  <2> HIDE DEF N
  <2>4. count[x] = Cardinality(UpTo(S, x))
    OBVIOUS
  <2> QED BY <1>1, <2>1, <2>2, <2>3, <2>4
<1>4. \A x, y \in S : Rank(x) < Rank(y) => count[x] < count[y]
  <2> SUFFICES ASSUME NEW x \in S, NEW y \in S, Rank(x) < Rank(y) PROVE count[x] < count[y]
    OBVIOUS
  <2> DEFINE D == UpTo(S, y) \ {y}
  <2>1. UpTo(S, x) \subseteq D
    <3>1. \A z \in S : Rank(z) <= Rank(x) => Rank(z) <= Rank(y) /\ z # y
      BY <1>2
    <3> QED BY <3>1 DEF UpTo
  <2>2. IsFiniteSet(UpTo(S, y)) /\ y \in UpTo(S, y)
    BY <1>3
  <2>3. IsFiniteSet(D) /\ Cardinality(D) = Cardinality(UpTo(S, y)) - 1
    BY <2>2, FS_RemoveElement
  <2>4. Cardinality(UpTo(S, x)) <= Cardinality(D)
    <3> HIDE DEF D
    <3> QED BY <2>1, <2>3, FS_Subset
  <2>5. /\ count[x] = Cardinality(UpTo(S, x)) /\ count[x] \in Nat
        /\ count[y] = Cardinality(UpTo(S, y)) /\ count[y] \in Nat
    BY <1>3
  <2> HIDE DEF D, count
  <2> QED BY <2>3, <2>4, <2>5
<1>5. \A x, y \in S : count[x] = count[y] => x = y
  <2> SUFFICES ASSUME NEW x \in S, NEW y \in S, count[x] = count[y] PROVE x = y
    OBVIOUS
  <2>1. Rank(x) \in Nat /\ Rank(y) \in Nat /\ count[x] \in Nat /\ count[y] \in Nat
    BY <1>2, <1>3
  <2>2. ~(Rank(x) < Rank(y)) /\ ~(Rank(y) < Rank(x))
    <3> HIDE DEF count
    <3> QED BY <1>4, <2>1
  <2>3. Rank(x) = Rank(y)
    BY <2>1, <2>2
  <2> QED BY <1>2, <2>3
<1>6. count \in Surjection(S, 1 .. N)
  <2> HIDE DEF N
  <2>1. count \in Injection(S, 1 .. N)
    <3>1. count \in [S -> 1 .. N]
      BY <1>3
    <3> QED BY <1>5, <3>1 DEF Injection, IsInjective
  <2>2. IsFiniteSet(1 .. N) /\ Cardinality(1 .. N) = N
    BY <1>1, FS_Interval
  <2>3. Cardinality(S) = Cardinality(1 .. N)
    BY <2>2 DEF N
  <2> HIDE DEF count
  <2> QED BY <2>1, <2>2, <2>3, FS_Injection
<1> DEFINE list == [n \in 1 .. N |-> CHOOSE x \in S : Cardinality(UpTo(S, x)) = n]
<1>7. Sorted(S) = list
  BY DEF Sorted
<1>8. \A n \in 1 .. N : list[n] \in S /\ count[list[n]] = n
  <2> TAKE n \in 1 .. N
  <2>1. PICK x \in S : count[x] = n
    BY <1>6 DEF Surjection
  <2>2. \E y \in S : Cardinality(UpTo(S, y)) = n
    BY <1>3, <2>1
  <2>3. list[n] = CHOOSE y \in S : Cardinality(UpTo(S, y)) = n
    BY DEF list
  <2>4. list[n] \in S /\ Cardinality(UpTo(S, list[n])) = n
    <3> HIDE DEF list
    <3> QED BY <2>2, <2>3
  <2> QED BY <1>3, <2>4
<1> HIDE DEF count, N
<1>9. list \in Seq(S) /\ Len(list) = N
  BY <1>1, <1>8
<1>10. \A x \in S : \E n \in 1 .. N : list[n] = x
  <2> TAKE x \in S
  <2>1. count[x] \in 1 .. N
    BY <1>3
  <2>2. list[count[x]] \in S /\ count[list[count[x]]] = count[x]
    BY <1>8, <2>1
  <2> QED BY <1>5, <2>1, <2>2
<1> HIDE DEF list
<1> QED BY <1>1, <1>7, <1>9, <1>10 DEF N

(* The n pairs of two lists.                                               *)
ArePairs(M, n, a, b, ss) ==
  /\ n \in Nat /\ n >= 1 /\ Len(ss) = n
  /\ \A k \in 1 .. n : a[k] \in M /\ b[k] \in M /\ ss[k] = <<a[k], b[k]>>

(* Written one after another, the k-th ends at place 2k.                   *)
LEMMA FlattenPairs ==
  ASSUME NEW M, NEW n, NEW a, NEW b, NEW ss, ArePairs(M, n, a, b, ss)
  PROVE  /\ FlattenSeq(ss) \in Seq(M) /\ Len(FlattenSeq(ss)) = 2 * n
         /\ \A k \in 1 .. n : /\ FlattenSeq(ss)[2 * k - 1] = a[k]
                              /\ FlattenSeq(ss)[2 * k] = b[k]
<1> DEFINE Holds(i, s) == /\ s \in Seq(M) /\ Len(s) = 2 * i
                          /\ \A k \in 1 .. i : s[2 * k - 1] = a[k] /\ s[2 * k] = b[k]
           Runs(m) == {g \in [1 .. m -> Seq(M)] :
                        /\ \A i \in 1 .. m : Holds(i, g[i])
                        /\ \A i \in 1 .. m : g[i] = IF i = 1 THEN ss[i] ELSE g[i - 1] \o ss[i]}
           S == {m \in Nat : m + 1 <= n => Runs(m + 1) # {}}
<1>0. /\ n \in Nat /\ n >= 1 /\ Len(ss) = n
      /\ \A k \in 1 .. n : a[k] \in M /\ b[k] \in M /\ ss[k] = <<a[k], b[k]>>
  BY DEF ArePairs
<1> USE <1>0
<1>1. \A k \in 1 .. n : ss[k] = <<a[k], b[k]>> /\ ss[k] \in Seq(M) /\ Len(ss[k]) = 2
  <2> TAKE k \in 1 .. n
  <2>1. a[k] \in M /\ b[k] \in M /\ ss[k] = <<a[k], b[k]>>
    OBVIOUS
  <2>2. <<a[k], b[k]>> \in Seq(M) /\ Len(<<a[k], b[k]>>) = 2
    BY <2>1
  <2> QED BY <2>1, <2>2
<1>2. Holds(1, ss[1])
  <2>1. 1 \in 1 .. n /\ ss[1] = <<a[1], b[1]>> /\ a[1] \in M /\ b[1] \in M
    OBVIOUS
  <2>2. 2 * 1 - 1 = 1 /\ 2 * 1 = 2 /\ \A k \in 1 .. 1 : k = 1
    OBVIOUS
  <2> QED BY <2>1, <2>2
<1>3. \A i \in 1 .. n : \A s : Holds(i, s) /\ i + 1 <= n => Holds(i + 1, s \o ss[i + 1])
  <2> HIDE DEF Holds
  <2> SUFFICES ASSUME NEW i \in 1 .. n, NEW s, Holds(i, s), i + 1 <= n
               PROVE  Holds(i + 1, s \o ss[i + 1])
    BY Zenon
  <2> DEFINE t == <<a[i + 1], b[i + 1]>>
  <2>1. /\ i + 1 \in 1 .. n /\ ss[i + 1] = t /\ t \in Seq(M) /\ Len(t) = 2
        /\ t[1] = a[i + 1] /\ t[2] = b[i + 1]
    OBVIOUS
  <2>2. s \in Seq(M) /\ Len(s) = 2 * i
        /\ \A k \in 1 .. i : s[2 * k - 1] = a[k] /\ s[2 * k] = b[k]
    BY Zenon DEF Holds
  <2> HIDE DEF t, Holds
  <2>3. /\ s \o t \in Seq(M) /\ Len(s \o t) = 2 * i + 2
        /\ \A j \in 1 .. 2 * i : (s \o t)[j] = s[j]
        /\ (s \o t)[2 * i + 1] = t[1] /\ (s \o t)[2 * i + 2] = t[2]
    <3>1. PICK c \in Nat : c = 2 * i
      OBVIOUS
    <3>2. s \in Seq(M) /\ t \in Seq(M) /\ Len(s) = c /\ Len(t) = 2
      BY <2>1, <2>2, <3>1
    <3>3. /\ s \o t \in Seq(M) /\ Len(s \o t) = Len(s) + Len(t)
          /\ \A j \in 1 .. Len(s) + Len(t) :
               (s \o t)[j] = IF j <= Len(s) THEN s[j] ELSE t[j - Len(s)]
      BY <3>2, ConcatProperties, Zenon
    <3>4. \A j \in 1 .. c : j \in 1 .. c + 2 /\ j <= c
      OBVIOUS
    <3>5. /\ c + 1 \in 1 .. c + 2 /\ ~(c + 1 <= c) /\ (c + 1) - c = 1
          /\ c + 2 \in 1 .. c + 2 /\ ~(c + 2 <= c) /\ (c + 2) - c = 2
      OBVIOUS
    <3> DEFINE u == s \o t
    <3> HIDE DEF u
    <3>6. u \in Seq(M) /\ Len(u) = c + 2
          /\ \A j \in 1 .. c + 2 : u[j] = IF j <= c THEN s[j] ELSE t[j - c]
      BY <3>2, <3>3 DEF u
    <3>7. (\A j \in 1 .. c : u[j] = s[j]) /\ u[c + 1] = t[1] /\ u[c + 2] = t[2]
      BY <3>4, <3>5, <3>6
    <3> QED BY <3>1, <3>6, <3>7 DEF u
  <2>4. 2 * (i + 1) = 2 * i + 2 /\ 2 * (i + 1) - 1 = 2 * i + 1
    OBVIOUS
  <2>5. \A k \in 1 .. i : 2 * k - 1 \in 1 .. 2 * i /\ 2 * k \in 1 .. 2 * i
    OBVIOUS
  <2>6. \A k \in 1 .. i + 1 : k \in 1 .. i \/ k = i + 1
    OBVIOUS
  <2>7. \A k \in 1 .. i + 1 : (s \o t)[2 * k - 1] = a[k] /\ (s \o t)[2 * k] = b[k]
    BY <2>1, <2>2, <2>3, <2>4, <2>5, <2>6
  <2>8. Holds(i + 1, s \o t)
    BY <2>3, <2>4, <2>7 DEF Holds
  <2> QED BY <2>1, <2>8
<1> HIDE DEF Holds
<1>4. 0 \in S
  <2>1. [i \in 1 .. 1 |-> ss[1]] \in Runs(0 + 1)
    <3>1. ss[1] \in Seq(M) /\ \A i \in 1 .. 1 : i = 1
      BY <1>1
    <3> QED BY <1>2, <3>1
  <2> HIDE DEF Runs
  <2> QED BY <2>1
<1>5. ASSUME NEW m \in Nat, m \in S PROVE m + 1 \in S
  <2> SUFFICES ASSUME (m + 1) + 1 <= n PROVE Runs((m + 1) + 1) # {}
    <3> HIDE DEF Runs
    <3> QED OBVIOUS
  <2>1. m + 1 <= n /\ m + 1 \in 1 .. n /\ (m + 1) + 1 \in 1 .. n
    OBVIOUS
  <2>2. PICK g \in Runs(m + 1) : TRUE
    <3> HIDE DEF Runs
    <3> QED BY <1>5, <2>1
  <2> DEFINE l == (m + 1) + 1
             h == [i \in 1 .. l |-> IF i = l THEN g[m + 1] \o ss[l] ELSE g[i]]
  <2>3. /\ g \in [1 .. m + 1 -> Seq(M)] /\ \A i \in 1 .. m + 1 : Holds(i, g[i])
        /\ \A i \in 1 .. m + 1 : g[i] = IF i = 1 THEN ss[i] ELSE g[i - 1] \o ss[i]
    BY <2>2
  <2>4. Holds(l, g[m + 1] \o ss[l])
    BY <1>3, <2>1, <2>3
  <2>5. \A i \in 1 .. l : (i = l /\ i # 1 /\ i - 1 = m + 1) \/ i \in 1 .. m + 1
    OBVIOUS
  <2>6. \A i \in 1 .. m + 1 : i \in 1 .. l /\ i # l /\ (i # 1 => i - 1 \in 1 .. m + 1)
    OBVIOUS
  <2>7. l \in 1 .. l /\ m + 1 \in 1 .. m + 1
    OBVIOUS
  <2> HIDE DEF l
  <2>8. h[l] = g[m + 1] \o ss[l] /\ \A i \in 1 .. m + 1 : h[i] = g[i]
    BY <2>6, <2>7
  <2>9. h = [i \in 1 .. l |-> h[i]]
    OBVIOUS
  <2> HIDE DEF h
  <2>10. \A i \in 1 .. l : Holds(i, h[i])
    BY <2>3, <2>4, <2>5, <2>8
  <2>11. \A i \in 1 .. l : h[i] = IF i = 1 THEN ss[i] ELSE h[i - 1] \o ss[i]
    <3> TAKE i \in 1 .. l
    <3>1. CASE i = l /\ i # 1 /\ i - 1 = m + 1
      BY <2>7, <2>8, <3>1
    <3>2. CASE i \in 1 .. m + 1
      <4>1. h[i] = g[i] /\ (i # 1 => h[i - 1] = g[i - 1])
        BY <2>6, <2>8, <3>2
      <4> QED BY <2>3, <3>2, <4>1
    <3> QED BY <2>5, <3>1, <3>2
  <2>12. \A i \in 1 .. l : h[i] \in Seq(M)
    BY <2>10 DEF Holds
  <2>13. h \in [1 .. l -> Seq(M)]
    BY <2>9, <2>12
  <2>14. h \in Runs(l)
    BY <2>10, <2>11, <2>13
  <2> HIDE DEF Runs
  <2> QED BY <2>14 DEF l
<1>6. PICK g \in Runs(n) : TRUE
  <2>1. Nat \subseteq S
    <3> HIDE DEF S
    <3> QED BY <1>4, <1>5, CountingUp
  <2>2. PICK m \in Nat : m + 1 = n
    <3>1. n - 1 \in Nat /\ (n - 1) + 1 = n
      OBVIOUS
    <3> QED BY <3>1
  <2>3. m + 1 <= n
    BY <2>2
  <2> HIDE DEF Runs
  <2>4. Runs(m + 1) # {}
    BY <2>1, <2>3
  <2> QED BY <2>2, <2>4, Zenon
<1>7. /\ \A i \in 1 .. n : Holds(i, g[i])
      /\ \A i \in 1 .. n : g[i] = IF i = 1 THEN ss[i] ELSE g[i - 1] \o ss[i]
      /\ g = [i \in 1 .. n |-> g[i]]
  BY <1>6
<1> DEFINE Step(r) == [i \in 1 .. Len(ss) |-> IF i = 1 THEN ss[i] ELSE r[i - 1] \o ss[i]]
           chosen == CHOOSE r : r = Step(r)
<1>8. Len(ss) = n /\ n # 0
  OBVIOUS
<1>9. g = Step(g)
  BY <1>7, <1>8
<1>10. chosen = Step(chosen)
  BY <1>9
<1>11. FlattenSeq(ss) = chosen[n]
  BY <1>8 DEF FlattenSeq
<1> HIDE DEF chosen
<1>12. \A i \in 1 .. n : chosen[i] = IF i = 1 THEN ss[i] ELSE chosen[i - 1] \o ss[i]
  BY <1>8, <1>10
<1> DEFINE U == {m \in Nat : m + 1 <= n => Holds(m + 1, chosen[m + 1])}
<1>13. 0 \in U
  <2>1. chosen[1] = ss[1]
    BY <1>8, <1>12
  <2> QED BY <1>2, <2>1
<1>14. ASSUME NEW m \in Nat, m \in U PROVE m + 1 \in U
  <2> SUFFICES ASSUME (m + 1) + 1 <= n PROVE Holds((m + 1) + 1, chosen[(m + 1) + 1])
    OBVIOUS
  <2>1. m + 1 <= n /\ m + 1 \in 1 .. n /\ (m + 1) + 1 \in 1 .. n /\ (m + 1) + 1 # 1
        /\ ((m + 1) + 1) - 1 = m + 1
    OBVIOUS
  <2>2. Holds(m + 1, chosen[m + 1])
    BY <1>14, <2>1
  <2>3. chosen[(m + 1) + 1] = chosen[m + 1] \o ss[(m + 1) + 1]
    BY <1>12, <2>1
  <2> QED BY <1>3, <2>1, <2>2, <2>3
<1>15. Holds(n, chosen[n])
  <2>1. Nat \subseteq U
    <3> HIDE DEF U
    <3> QED BY <1>13, <1>14, CountingUp
  <2>2. PICK m \in Nat : m + 1 = n
    <3>1. n - 1 \in Nat /\ (n - 1) + 1 = n
      OBVIOUS
    <3> QED BY <3>1
  <2>3. Holds(m + 1, chosen[m + 1])
    BY <2>1, <2>2
  <2> QED BY <2>2, <2>3
<1> QED BY <1>11, <1>15 DEF Holds

-----------------------------------------------------------------------------
(* What a prompt consists of *)

(* Two marks side by side, and, if d is 1, not the last two.               *)
Beside(d, s, x, y) == \E k \in 1 .. Len(s) - 1 - d : s[k] = x /\ s[k + 1] = y

(* They stay so when text is put before them ...                           *)
LEMMA BesideAfter ==
  ASSUME NEW M, NEW a \in Seq(M), NEW s \in Seq(M), NEW d \in Nat, NEW x, NEW y,
         Beside(d, s, x, y)
  PROVE  a \o s \in Seq(M) /\ Beside(d, a \o s, x, y)
<1> DEFINE u == a \o s
<1>1. PICK k \in 1 .. Len(s) - 1 - d : s[k] = x /\ s[k + 1] = y
  BY DEF Beside
<1>2. /\ u \in Seq(M) /\ Len(u) = Len(a) + Len(s)
      /\ \A j \in 1 .. Len(a) + Len(s) : u[j] = IF j <= Len(a) THEN a[j] ELSE s[j - Len(a)]
  BY ConcatProperties, Zenon
<1>3. Len(a) \in Nat /\ Len(s) \in Nat
  OBVIOUS
<1> HIDE DEF u
<1> DEFINE j == Len(a) + k
<1>4. /\ j \in 1 .. Len(a) + Len(s) /\ ~(j <= Len(a)) /\ j - Len(a) = k
      /\ j + 1 \in 1 .. Len(a) + Len(s) /\ ~(j + 1 <= Len(a)) /\ (j + 1) - Len(a) = k + 1
      /\ j \in 1 .. (Len(a) + Len(s)) - 1 - d
  BY <1>3
<1> HIDE DEF j
<1>5. u[j] = x /\ u[j + 1] = y
  BY <1>1, <1>2, <1>4
<1>6. Beside(d, u, x, y)
  BY <1>2, <1>4, <1>5 DEF Beside
<1> QED BY <1>2, <1>6 DEF u

(* ... or after them, and then they are not the last two.                  *)
LEMMA BesideBefore ==
  ASSUME NEW M, NEW s \in Seq(M), NEW b \in Seq(M), Len(b) >= 1, NEW x, NEW y,
         Beside(0, s, x, y)
  PROVE  s \o b \in Seq(M) /\ Beside(1, s \o b, x, y)
<1> DEFINE u == s \o b
<1>1. PICK k \in 1 .. Len(s) - 1 - 0 : s[k] = x /\ s[k + 1] = y
  BY DEF Beside
<1>2. /\ u \in Seq(M) /\ Len(u) = Len(s) + Len(b)
      /\ \A j \in 1 .. Len(s) + Len(b) : u[j] = IF j <= Len(s) THEN s[j] ELSE b[j - Len(s)]
  BY ConcatProperties, Zenon
<1>3. Len(s) \in Nat /\ Len(b) \in Nat
  OBVIOUS
<1> HIDE DEF u
<1>4. /\ k \in 1 .. Len(s) + Len(b) /\ k <= Len(s)
      /\ k + 1 \in 1 .. Len(s) + Len(b) /\ k + 1 <= Len(s)
      /\ k \in 1 .. (Len(s) + Len(b)) - 1 - 1
  BY <1>3
<1>5. u[k] = x /\ u[k + 1] = y
  BY <1>1, <1>2, <1>4
<1>6. Beside(1, u, x, y)
  BY <1>2, <1>4, <1>5 DEF Beside
<1> QED BY <1>2, <1>6 DEF u

Phrases == {"OPTIONS", "CHOOSE", "QUESTION", "EVIDENCE", "ALTERNATIVES", "CANDIDATE",
            "BEST?", "CORRECT?"}
Versions == {"letter-question-prefix", "letter-baseline", "semantic-comparative",
             "semantic-binary"}

(* Texts are sequences of marks, and the tokenizer and the template of     *)
(* each backend take them and give sequences.                              *)
TextsAre(Mark, Token) ==
  /\ Phrases \subseteq Mark /\ Alphabet \in Seq(Mark)
  /\ \A r \in Requests : /\ r.state \in Mark /\ r.question \in Mark
                         /\ \A c \in r.ids : r.description[c] \in Mark
  /\ \A b \in Backends : \A x \in Seq(Mark) :
       /\ Encode(b.tokenizer, x) \in Seq(Token)
       /\ \A v \in Versions : ChatPrompt(b.tokenizer, v, x) \in Seq(Mark)

(* A message to the model begins with one of the phrases.                  *)
Messages(Mark) == {x \in Seq(Mark) : x # <<>> /\ x[1] \in Phrases}

(* The mark that stands before the description of a candidate.             *)
Marker(r, c) == IF IsLetter THEN Letters(r)[c] ELSE "CANDIDATE"

(* A request's message for a candidate is made of a stable text, a varying *)
(* one that is not empty, and what is to be read after them; in it the     *)
(* description of the candidate follows its marker.                        *)
Shape(M, r, c, v, stable, varying, readout) ==
  /\ v \in Versions /\ stable \in Seq(M) /\ varying \in Seq(M) /\ Len(varying) >= 1
  /\ stable \o varying \in Messages(M)
  /\ PromptFor(r, c) = Compile(tokenizer, v, stable, varying, readout)
  /\ Beside(1, stable \o varying, Marker(r, c), r.description[c])
  /\ readout = IF IsLetter THEN Letters(r) ELSE YesNo

(* It does so if its first part does.                                      *)
LEMMA MessageBegins ==
  ASSUME NEW M, NEW a \in Seq(M), a # <<>>, a[1] \in Phrases, NEW s \in Seq(M)
  PROVE  a \o s \in Messages(M)
<1> DEFINE u == a \o s
<1>1. /\ u \in Seq(M) /\ Len(u) = Len(a) + Len(s)
      /\ \A j \in 1 .. Len(a) + Len(s) : u[j] = IF j <= Len(a) THEN a[j] ELSE s[j - Len(a)]
  BY ConcatProperties, Zenon
<1>2. Len(a) \in Nat /\ Len(a) >= 1 /\ Len(s) \in Nat
  OBVIOUS
<1>3. 1 \in 1 .. Len(a) + Len(s) /\ 1 <= Len(a) /\ Len(a) + Len(s) # 0
  BY <1>2
<1> HIDE DEF u
<1>4. Len(u) # 0 /\ u[1] = a[1]
  BY <1>1, <1>3
<1>5. u \in Messages(M)
  BY <1>1, <1>4 DEF Messages
<1> QED BY <1>5 DEF u

(* The candidates are finitely many and the collation knows them.          *)
LEMMA RequestFacts ==
  ASSUME NEW r \in Requests
  PROVE  /\ IsFiniteSet(r.ids) /\ Cardinality(r.ids) \in Nat /\ Cardinality(r.ids) >= 2
         /\ r.ids \subseteq ToSet(Collation)
         /\ \A c \in r.ids : r.description[c] \in ToSet(Collation)
<1>1. IsFiniteSet(r.ids) /\ Cardinality(r.ids) >= 2
      /\ \A c \in r.ids : {c, r.description[c]} \subseteq ToSet(Collation)
  BY ScoringAssumption
<1>2. Cardinality(r.ids) \in Nat
  BY <1>1, FS_CardinalityType
<1> QED BY <1>1, <1>2

(* The options of a letter prompt: each candidate's letter stands before   *)
(* its description.                                                        *)
LEMMA OptionsFacts ==
  ASSUME NEW M, NEW r \in Requests, NEW c \in r.ids, Alphabet \in Seq(M),
         \A d \in r.ids : r.description[d] \in M, ~TooManyOptions(r)
  PROVE  /\ Options(r) \in Seq(M)
         /\ Beside(0, Options(r), Letters(r)[c], r.description[c])
         /\ Letters(r)[c] \in ToSet(Alphabet)
<1> DEFINE n == Cardinality(r.ids)
           canonical == Sorted(r.ids)
           named == [k \in 1 .. n |-> r.description[canonical[k]]]
<1>1. n \in Nat /\ n >= 2 /\ IsFiniteSet(r.ids) /\ r.ids \subseteq ToSet(Collation)
  BY RequestFacts
<1>2. /\ canonical \in Seq(r.ids) /\ Len(canonical) = n
      /\ \A d \in r.ids : \E k \in 1 .. n : canonical[k] = d
  BY <1>1, SortedFacts
<1>3. Len(Alphabet) \in Nat /\ n <= Len(Alphabet) /\ DOMAIN Alphabet = 1 .. Len(Alphabet)
      /\ \A k \in 1 .. Len(Alphabet) : Alphabet[k] \in M
  BY <1>1 DEF TooManyOptions
<1> HIDE DEF n, canonical
<1>4. DOMAIN canonical = 1 .. n /\ \A k \in 1 .. n : canonical[k] \in r.ids
  BY <1>1, <1>2
<1>5. \A k \in 1 .. n : Alphabet[k] \in M /\ named[k] \in M
  BY <1>1, <1>3, <1>4
<1> DEFINE ss == [k \in 1 .. n |-> <<Alphabet[k], named[k]>>]
           f == FlattenSeq(ss)
<1>6. Options(r) = f
  <2>1. Options(r) = FlattenSeq([k \in DOMAIN canonical |->
                                   <<Alphabet[k], r.description[canonical[k]]>>])
    BY DEF Options, canonical
  <2>2. [k \in DOMAIN canonical |-> <<Alphabet[k], r.description[canonical[k]]>>] = ss
    BY <1>4
  <2> QED BY <2>1, <2>2
<1>7. /\ f \in Seq(M) /\ Len(f) = 2 * n
      /\ \A k \in 1 .. n : f[2 * k - 1] = Alphabet[k] /\ f[2 * k] = named[k]
  <2> HIDE DEF named
  <2>1. Len(ss) = n /\ n >= 1 /\ \A k \in 1 .. n : ss[k] = <<Alphabet[k], named[k]>>
    BY <1>1
  <2>2. n \in Nat /\ n >= 1 /\ \A k \in 1 .. n : Alphabet[k] \in M /\ named[k] \in M
    BY <1>1, <1>5
  <2> HIDE DEF ss
  <2>3. ArePairs(M, n, Alphabet, named, ss)
    BY <2>1, <2>2 DEF ArePairs
  <2> QED BY <2>3, FlattenPairs
<1> HIDE DEF f, named
<1> DEFINE k == CHOOSE k \in DOMAIN canonical : canonical[k] = c
<1>8. k \in 1 .. n /\ canonical[k] = c
  BY <1>2, <1>4
<1>9. Letters(r)[c] = Alphabet[k]
  BY DEF Letters, canonical
<1> HIDE DEF k
<1>10. Letters(r)[c] \in ToSet(Alphabet)
  BY <1>1, <1>3, <1>8, <1>9 DEF ToSet
<1>11. Beside(0, f, Letters(r)[c], r.description[c])
  <2>1. named[k] = r.description[c]
    BY <1>8 DEF named
  <2> DEFINE j == 2 * k - 1
  <2>2. j \in 1 .. 2 * n - 1 - 0 /\ j + 1 = 2 * k
    BY <1>1, <1>8
  <2>3. f[j] = Letters(r)[c] /\ f[j + 1] = r.description[c]
    BY <1>7, <1>8, <1>9, <2>1, <2>2
  <2> HIDE DEF j
  <2> QED BY <1>7, <2>2, <2>3 DEF Beside
<1> QED BY <1>6, <1>7, <1>10, <1>11

(* A prompt of a scorer has such a shape.                                  *)
LEMMA PromptShape ==
  ASSUME NEW M, NEW Token, TextsAre(M, Token), scorer \in Scorers,
         NEW r \in Requests, NEW c \in r.ids, IsLetter => ~TooManyOptions(r)
  PROVE  \E v, stable, varying, readout : Shape(M, r, c, v, stable, varying, readout)
<1>1. /\ r.state \in M /\ r.question \in M /\ Phrases \subseteq M /\ Alphabet \in Seq(M)
      /\ \A d \in r.ids : r.description[d] \in M
  BY DEF TextsAre
<1>2. /\ "OPTIONS" \in M /\ "CHOOSE" \in M /\ "QUESTION" \in M /\ "EVIDENCE" \in M
      /\ "ALTERNATIVES" \in M /\ "CANDIDATE" \in M /\ "BEST?" \in M /\ "CORRECT?" \in M
  BY <1>1 DEF Phrases
<1> DEFINE desc == r.description[c]
<1>3. desc \in M
  BY <1>1
<1>4. scorer \in {"letter", "question_prefix", "semantic", "independent"}
  BY ScoringAssumption DEF ScorerNames
<1>5. CASE IsLetter
  <2> DEFINE l == Letters(r)[c]
             options == <<"OPTIONS">> \o Options(r) \o <<"CHOOSE">>
  <2>1. Options(r) \in Seq(M) /\ Beside(0, Options(r), l, desc)
    BY <1>1, <1>5, OptionsFacts
  <2> HIDE DEF l, desc
  <2>2. /\ <<"OPTIONS">> \o Options(r) \in Seq(M)
        /\ Beside(0, <<"OPTIONS">> \o Options(r), l, desc)
    <3>1. <<"OPTIONS">> \in Seq(M) /\ 0 \in Nat
      BY <1>2
    <3> QED BY <2>1, <3>1, BesideAfter
  <2>3. options \in Seq(M) /\ Beside(1, options, l, desc)
    <3>1. <<"CHOOSE">> \in Seq(M) /\ Len(<<"CHOOSE">>) >= 1
      BY <1>2
    <3> QED BY <2>2, <3>1, BesideBefore
  <2> HIDE DEF options
  <2>4. Marker(r, c) = l
    BY <1>5 DEF Marker, l
  <2>5. CASE scorer = "question_prefix"
    <3> DEFINE stable == <<"QUESTION", r.question, "EVIDENCE">>
               varying == <<r.state>> \o options
    <3>1. stable \in Seq(M) /\ <<r.state>> \in Seq(M) /\ Len(<<r.state>>) = 1 /\ 1 \in Nat
      BY <1>1, <1>2
    <3>2. varying \in Seq(M) /\ Beside(1, varying, l, desc)
      BY <2>3, <3>1, BesideAfter
    <3>3. Len(varying) >= 1
      <4>1. Len(options) \in Nat /\ Len(varying) = 1 + Len(options)
        BY <2>3, <3>1
      <4> QED BY <4>1
    <3>4. PromptFor(r, c) = Compile(tokenizer, "letter-question-prefix", stable, varying, Letters(r))
      BY <1>5, <2>5 DEF PromptFor, CompileLetterChoice, options
    <3>5. stable # <<>> /\ stable[1] \in Phrases
      BY DEF Phrases
    <3> HIDE DEF stable, varying
    <3>6. Beside(1, stable \o varying, l, desc) /\ stable \o varying \in Messages(M)
      BY <3>1, <3>2, <3>5, BesideAfter, MessageBegins
    <3>7. Shape(M, r, c, "letter-question-prefix", stable, varying, Letters(r))
      BY <1>5, <2>4, <3>1, <3>2, <3>3, <3>4, <3>6 DEF Shape, Versions, desc
    <3> QED BY <3>7
  <2>6. CASE scorer # "question_prefix"
    <3> DEFINE stable == <<>>
               head == <<"EVIDENCE", r.state, "QUESTION", r.question>>
               varying == head \o options
    <3>1. head \in Seq(M) /\ Len(head) = 4 /\ 1 \in Nat
      BY <1>1, <1>2
    <3>2. stable \in Seq(M) /\ head # <<>> /\ head[1] \in Phrases
      BY DEF Phrases
    <3> HIDE DEF head
    <3>3. varying \in Seq(M) /\ Beside(1, varying, l, desc)
      BY <2>3, <3>1, BesideAfter
    <3>4. Len(varying) >= 1
      <4>1. Len(options) \in Nat
        BY <2>3
      <4>2. Len(varying) = Len(head) + Len(options)
        BY <2>3, <3>1, ConcatProperties, Zenon
      <4> QED BY <3>1, <4>1, <4>2
    <3>5. PromptFor(r, c) = Compile(tokenizer, "letter-baseline", stable, varying, Letters(r))
      <4>1. PromptFor(r, c) = CompileLetterChoice(tokenizer, r, FALSE)
        <5>1. (scorer = "question_prefix") = FALSE /\ scorer # "semantic" /\ scorer # "independent"
          BY <1>5, <2>6 DEF IsLetter
        <5> QED BY <1>5, <5>1 DEF PromptFor
      <4> QED BY <4>1 DEF CompileLetterChoice, options, head
    <3>6. stable \o varying \in Messages(M)
      <4>1. varying \in Messages(M)
        BY <2>3, <3>1, <3>2, MessageBegins
      <4> HIDE DEF varying
      <4>2. stable \o varying = varying
        BY <3>3
      <4> QED BY <4>1, <4>2
    <3> HIDE DEF stable, varying
    <3>7. Beside(1, stable \o varying, l, desc)
      BY <3>1, <3>2, <3>3, BesideAfter
    <3>8. Shape(M, r, c, "letter-baseline", stable, varying, Letters(r))
      BY <1>5, <2>4, <3>2, <3>3, <3>4, <3>5, <3>6, <3>7 DEF Shape, Versions, desc
    <3> QED BY <3>8
  <2> QED BY <2>5, <2>6
<1>6. CASE ~IsLetter
  <2>1. Marker(r, c) = "CANDIDATE"
    BY <1>6 DEF Marker
  <2> DEFINE stable == <<"EVIDENCE", r.state, "QUESTION">>
  <2>2. /\ stable \in Seq(M) /\ 1 \in Nat
        /\ stable # <<>> /\ stable[1] \in Phrases
    BY <1>1, <1>2 DEF Phrases
  <2> HIDE DEF desc
  <2>3. CASE scorer = "semantic"
    <3> DEFINE others == Sorted({r.description[d] : d \in r.ids})
               head == <<r.question, "ALTERNATIVES">>
               end == <<"CANDIDATE", desc, "BEST?">>
               varying == head \o others \o end
    <3>1. others \in Seq(M)
      <4> DEFINE D == {r.description[d] : d \in r.ids}
                 f == [d \in r.ids |-> r.description[d]]
      <4>1. f \in Surjection(r.ids, D)
        BY DEF Surjection
      <4>2. IsFiniteSet(D)
        <5> HIDE DEF f, D
        <5> QED BY <4>1, RequestFacts, FS_Surjection
      <4>3. D \subseteq ToSet(Collation) /\ D \subseteq M
        BY <1>1, RequestFacts
      <4> HIDE DEF D
      <4>4. Sorted(D) \in Seq(D)
        BY <4>2, <4>3, SortedFacts
      <4>5. Sorted(D) \in Seq(M)
        BY <4>3, <4>4
      <4> QED BY <4>5 DEF D
    <3>2. head \in Seq(M) /\ end \in Seq(M) /\ Len(end) = 3
      BY <1>1, <1>2, <1>3
    <3>3. Beside(1, end, "CANDIDATE", desc)
      <4>1. end[1] = "CANDIDATE" /\ end[1 + 1] = desc /\ 1 \in 1 .. 3 - 1 - 1
        OBVIOUS
      <4> HIDE DEF end
      <4> QED BY <3>2, <4>1 DEF Beside
    <3> HIDE DEF head, others, end
    <3>4. head \o others \in Seq(M)
      BY <3>1, <3>2
    <3>5. varying \in Seq(M) /\ Beside(1, varying, "CANDIDATE", desc)
      BY <2>2, <3>2, <3>3, <3>4, BesideAfter
    <3>6. Len(varying) >= 1
      <4>1. Len(head \o others) \in Nat /\ Len(varying) = Len(head \o others) + 3
        <5> DEFINE s == head \o others
        <5> HIDE DEF s
        <5>1. s \in Seq(M)
          BY <3>4 DEF s
        <5>2. Len(s \o end) = Len(s) + Len(end)
          BY <3>2, <5>1, ConcatProperties, Zenon
        <5>3. Len(s) \in Nat
          BY <5>1
        <5> QED BY <3>2, <5>2, <5>3 DEF s
      <4> QED BY <4>1
    <3>7. PromptFor(r, c) = Compile(tokenizer, "semantic-comparative", stable, varying, YesNo)
      BY <1>6, <2>3 DEF PromptFor, CompileSemanticCandidate, head, others, end, desc
    <3> HIDE DEF stable, varying
    <3>8. Beside(1, stable \o varying, "CANDIDATE", desc) /\ stable \o varying \in Messages(M)
      BY <2>2, <3>5, BesideAfter, MessageBegins
    <3>9. Shape(M, r, c, "semantic-comparative", stable, varying, YesNo)
      BY <1>6, <2>1, <2>2, <3>5, <3>6, <3>7, <3>8 DEF Shape, Versions, desc
    <3> QED BY <3>9
  <2>4. CASE scorer = "independent"
    <3> DEFINE varying == <<r.question, "CANDIDATE", desc, "CORRECT?">>
    <3>1. varying \in Seq(M) /\ Len(varying) = 4
      BY <1>1, <1>2, <1>3
    <3>2. Beside(1, varying, "CANDIDATE", desc)
      <4>1. varying[2] = "CANDIDATE" /\ varying[2 + 1] = desc /\ 2 \in 1 .. 4 - 1 - 1
        OBVIOUS
      <4> HIDE DEF varying
      <4> QED BY <3>1, <4>1 DEF Beside
    <3>3. PromptFor(r, c) = Compile(tokenizer, "semantic-binary", stable, varying, YesNo)
      BY <1>6, <2>4 DEF PromptFor, CompileIndependentCandidate, desc
    <3> HIDE DEF stable, varying
    <3>4. Beside(1, stable \o varying, "CANDIDATE", desc) /\ stable \o varying \in Messages(M)
      BY <2>2, <3>1, <3>2, BesideAfter, MessageBegins
    <3>5. Shape(M, r, c, "semantic-binary", stable, varying, YesNo)
      BY <1>6, <2>1, <2>2, <3>1, <3>3, <3>4 DEF Shape, Versions, desc
    <3> QED BY <3>5
  <2>5. scorer = "semantic" \/ scorer = "independent"
    BY <1>4, <1>6 DEF IsLetter
  <2> QED BY <2>3, <2>4, <2>5
<1> QED BY <1>5, <1>6

-----------------------------------------------------------------------------
(* Hints *)

(* The tokens of a text never begin those of a shorter beginning of it:    *)
(* what the tokens stand for is the text, and cannot be part of itself.    *)
TokensShowLength(Mark) ==
  \A b \in Backends : \A x \in Seq(Mark) : \A n \in 0 .. Len(x) - 1 :
    ~IsPrefix(Encode(b.tokenizer, x), Encode(b.tokenizer, SubSeq(x, 1, n)))

(* A template that shows a message once and unchanged writes before it     *)
(* what depends on the version only.                                       *)
HeadsAreFixed(Mark) ==
  \A b \in Backends : \A v \in Versions : \A x, y \in Messages(Mark) : \A i, j \in Nat :
    LET p == ChatPrompt(b.tokenizer, v, x)
        q == ChatPrompt(b.tokenizer, v, y)
    IN Occurrences(p, x) = {i} /\ Occurrences(q, y) = {j} =>
         SubSeq(p, 1, i - 1) = SubSeq(q, 1, j - 1)

(* What has one occurrence occurs at one place.                            *)
LEMMA OneOccurrence ==
  ASSUME NEW M, NEW text \in Seq(M), NEW part \in Seq(M),
         Cardinality(Occurrences(text, part)) = 1
  PROVE  \E i \in Nat : Occurrences(text, part) = {i}
<1> DEFINE O == Occurrences(text, part)
           n == Len(text) - Len(part) + 1
<1>1. O \subseteq 1 .. n /\ n \in Int
  BY DEF Occurrences
<1>2. IsFiniteSet(1 .. n)
  <2> HIDE DEF n
  <2> QED BY <1>1, FS_Interval
<1>3. IsFiniteSet(O)
  <2> HIDE DEF O
  <2> QED BY <1>1, <1>2, FS_Subset
<1>4. \E i : O = {i}
  <2> HIDE DEF O
  <2>1. Cardinality(O) = 1
    BY DEF O
  <2> QED BY <1>3, <2>1, FS_Singleton
<1> HIDE DEF O
<1>5. PICK i : O = {i}
  BY <1>4
<1>6. i \in Nat
  BY <1>1, <1>5
<1> QED BY <1>5, <1>6 DEF O

(* The text rendered up to the end of the stable text is a beginning of    *)
(* the prompt, and not all of it.                                          *)
LEMMA RenderedBeginning ==
  ASSUME NEW M, NEW prompt \in Seq(M), NEW stable \in Seq(M), NEW varying \in Seq(M),
         Len(varying) >= 1, NEW user, user = stable \o varying,
         NEW start \in Occurrences(prompt, user)
  PROVE  \E n \in 0 .. Len(prompt) - 1 :
           SubSeq(prompt, 1, start - 1) \o stable = SubSeq(prompt, 1, n)
<1> DEFINE ls == Len(stable)
           lu == Len(user)
           lp == Len(prompt)
           head == SubSeq(prompt, 1, start - 1)
           n == start - 1 + ls
<1>1. /\ user \in Seq(M) /\ lu = ls + Len(varying)
      /\ \A j \in 1 .. ls + Len(varying) :
           user[j] = IF j <= ls THEN stable[j] ELSE varying[j - ls]
  <2> DEFINE u == stable \o varying
  <2>1. /\ u \in Seq(M) /\ Len(u) = Len(stable) + Len(varying)
        /\ \A j \in 1 .. Len(stable) + Len(varying) :
             u[j] = IF j <= Len(stable) THEN stable[j] ELSE varying[j - Len(stable)]
    BY ConcatProperties, Zenon
  <2>2. user = u
    OBVIOUS
  <2> HIDE DEF u
  <2> QED BY <2>1, <2>2
<1>2. start \in 1 .. lp - lu + 1 /\ SubSeq(prompt, start, start + lu - 1) = user
  BY DEF Occurrences
<1>3. ls \in Nat /\ Len(varying) \in Nat /\ lp \in Nat
  OBVIOUS
<1> HIDE DEF ls, lu, lp
<1>4. /\ lu \in Nat /\ lu > ls /\ start \in Nat /\ start >= 1 /\ start <= lp - lu + 1
      /\ n \in Nat /\ n <= lp - 1
  BY <1>1, <1>2, <1>3
<1>5. \A j \in 1 .. lu : SubSeq(prompt, start, start + lu - 1)[j] = prompt[start + j - 1]
  BY <1>4 DEF lp
<1>6. \A j \in 1 .. ls : stable[j] = prompt[start + j - 1]
  <2> TAKE j \in 1 .. ls
  <2>1. j \in 1 .. ls + Len(varying) /\ j <= ls /\ j \in 1 .. lu
    BY <1>1, <1>3, <1>4
  <2> QED BY <1>1, <1>2, <1>5, <2>1
<1>7. /\ head \in Seq(M) /\ Len(head) = start - 1
      /\ \A j \in 1 .. start - 1 : head[j] = prompt[j]
  BY <1>3, <1>4 DEF lp
<1>8. /\ SubSeq(prompt, 1, n) \in Seq(M) /\ Len(SubSeq(prompt, 1, n)) = n
      /\ \A j \in 1 .. n : SubSeq(prompt, 1, n)[j] = prompt[j]
  <2> HIDE DEF n
  <2> QED BY <1>3, <1>4 DEF lp
<1> HIDE DEF head
<1>9. /\ head \o stable \in Seq(M) /\ Len(head \o stable) = (start - 1) + ls
      /\ \A j \in 1 .. (start - 1) + ls :
           (head \o stable)[j] = IF j <= start - 1 THEN head[j] ELSE stable[j - (start - 1)]
  <2> DEFINE u == head \o stable
  <2>1. /\ u \in Seq(M) /\ Len(u) = Len(head) + Len(stable)
        /\ \A j \in 1 .. Len(head) + Len(stable) :
             u[j] = IF j <= Len(head) THEN head[j] ELSE stable[j - Len(head)]
    BY <1>7, ConcatProperties, Zenon
  <2> HIDE DEF u
  <2>2. Len(head) = start - 1 /\ Len(stable) = ls
    BY <1>7 DEF ls
  <2>3. /\ u \in Seq(M) /\ Len(u) = (start - 1) + ls
        /\ \A j \in 1 .. (start - 1) + ls :
             u[j] = IF j <= start - 1 THEN head[j] ELSE stable[j - (start - 1)]
    BY <2>1, <2>2
  <2> QED BY <2>3 DEF u
<1>10. \A j \in 1 .. n : (head \o stable)[j] = prompt[j]
  <2> TAKE j \in 1 .. n
  <2>1. CASE j <= start - 1
    <3>1. j \in 1 .. start - 1
      BY <1>4, <2>1
    <3> QED BY <1>4, <1>7, <1>9, <2>1, <3>1
  <2>2. CASE ~(j <= start - 1)
    <3> DEFINE i == j - (start - 1)
    <3>1. i \in 1 .. ls /\ start + i - 1 = j
      BY <1>3, <1>4, <2>2
    <3>2. (head \o stable)[j] = stable[i]
      BY <1>9, <2>2
    <3> HIDE DEF i
    <3> QED BY <1>6, <3>1, <3>2
  <2> QED BY <2>1, <2>2
<1>11. head \o stable = SubSeq(prompt, 1, n)
  <2> DEFINE t == head \o stable
             u == SubSeq(prompt, 1, n)
  <2>1. t \in Seq(M) /\ u \in Seq(M) /\ Len(t) = Len(u) /\ \A j \in 1 .. Len(t) : t[j] = u[j]
    BY <1>8, <1>9, <1>10
  <2> HIDE DEF t, u
  <2>2. t = u
    BY <2>1, SeqEqual
  <2> QED BY <2>2 DEF t, u
<1>12. n \in 0 .. lp - 1
  BY <1>3, <1>4
<1> QED BY <1>11, <1>12 DEF head, lp

(* Where a prompt's hint comes from: its message stands in it once, and    *)
(* its first tokens are those of what is rendered before the varying text. *)
HintFrom(M, p, user, start) ==
  /\ user \in Messages(M) /\ p.version \in Versions /\ start \in Nat
  /\ p.prompt = ChatPrompt(tokenizer, p.version, user)
  /\ Occurrences(p.prompt, user) = {start}
  /\ \A k \in 1 .. p.hint :
       p.ids[k] = Encode(tokenizer, SubSeq(p.prompt, 1, start - 1) \o p.stable)[k]

(* A hint is not zero and ends before the prompt does.                     *)
LEMMA HintFacts ==
  ASSUME NEW M, NEW Token, TextsAre(M, Token), TokensShowLength(M),
         scorer \in Scorers, backend \in Backends, NEW p \in Prompts, p.hint # NoHint
  PROVE  /\ p.ids \in Seq(Token) /\ p.hint \in Nat /\ p.hint > 0 /\ p.hint < Len(p.ids)
         /\ \E user, start : HintFrom(M, p, user, start)
<1>1. PICK r \in Requests : \E c \in r.ids : (IsLetter => ~TooManyOptions(r)) /\ p = PromptFor(r, c)
  BY DEF Prompts
<1>2. PICK c \in r.ids : (IsLetter => ~TooManyOptions(r)) /\ p = PromptFor(r, c)
  BY <1>1
<1>3. \E v, stable, varying, readout : Shape(M, r, c, v, stable, varying, readout)
  BY <1>2, PromptShape
<1>4. PICK v, stable, varying, readout : Shape(M, r, c, v, stable, varying, readout)
  BY <1>3
<1> DEFINE user == stable \o varying
           prompt == ChatPrompt(tokenizer, v, user)
           ids == Encode(tokenizer, prompt)
<1>5. /\ v \in Versions /\ stable \in Seq(M) /\ varying \in Seq(M) /\ Len(varying) >= 1
      /\ p = Compile(tokenizer, v, stable, varying, readout)
      /\ user \in Messages(M)
  BY <1>2, <1>4 DEF Shape
<1>6. /\ p.version = v /\ p.stable = stable /\ p.prompt = prompt /\ p.ids = ids
      /\ p.hint = SafeReusablePrefixLen(tokenizer, prompt, user, stable)
  BY <1>5 DEF Compile
<1>7. user \in Seq(M)
  BY <1>5
<1> HIDE DEF user
<1>8. prompt \in Seq(M)
  BY <1>5, <1>7 DEF TextsAre, tokenizer
<1> HIDE DEF prompt
<1>9. ids \in Seq(Token)
  BY <1>8 DEF TextsAre, tokenizer
<1>10. stable # <<>> /\ Cardinality(Occurrences(prompt, user)) = 1
  BY <1>6 DEF SafeReusablePrefixLen
<1>11. PICK start \in Nat : Occurrences(prompt, user) = {start}
  BY <1>7, <1>8, <1>10, OneOccurrence
<1> DEFINE rendered == SubSeq(prompt, 1, start - 1) \o stable
           shared == Encode(tokenizer, rendered)
           l == LongestCommonPrefix({shared, ids})
<1>12. PICK n \in 0 .. Len(prompt) - 1 : rendered = SubSeq(prompt, 1, n)
  <2>1. start \in Occurrences(prompt, user) /\ user = stable \o varying
    BY <1>11 DEF user
  <2> QED BY <1>5, <1>8, <2>1, RenderedBeginning
<1>13. rendered \in Seq(M)
  <2>1. SubSeq(prompt, 1, n) \in Seq(M)
    BY <1>8
  <2> QED BY <1>12, <2>1
<1>14. p.hint = IF Len(l) = 0 THEN NoHint ELSE Len(l)
  <2>1. (CHOOSE i \in Occurrences(prompt, user) : TRUE) = start
    BY <1>11
  <2> QED BY <1>6, <1>10, <2>1 DEF SafeReusablePrefixLen
<1> HIDE DEF ids, rendered
<1>15. shared \in Seq(Token)
  BY <1>13 DEF TextsAre, tokenizer
<1> HIDE DEF shared
<1>16. /\ l \in Seq(Token) /\ Len(l) <= Len(shared) /\ Len(l) <= Len(ids)
       /\ \A k \in 1 .. Len(l) : l[k] = shared[k] /\ l[k] = ids[k]
  BY <1>9, <1>15, CommonBeginning
<1> HIDE DEF l
<1>17. Len(l) \in Nat /\ Len(ids) \in Nat /\ Len(shared) \in Nat
  BY <1>9, <1>15, <1>16
<1>18. p.hint = Len(l) /\ Len(l) # 0
  BY <1>14
<1>19. Len(l) # Len(ids)
  <2> SUFFICES ASSUME Len(l) = Len(ids) PROVE FALSE
    OBVIOUS
  <2>1. Len(ids) <= Len(shared) /\ \A k \in 1 .. Len(ids) : ids[k] = shared[k]
    BY <1>16
  <2> DEFINE m == Len(ids)
             a == SubSeq(ids, 1, m)
             b == SubSeq(shared, 1, m)
  <2>2. m \in Nat /\ m <= Len(ids) /\ m <= Len(shared)
    BY <1>17, <2>1
  <2> HIDE DEF m
  <2>3. /\ a \in Seq(Token) /\ b \in Seq(Token) /\ Len(a) = m /\ Len(b) = m
        /\ \A k \in 1 .. m : a[k] = ids[k] /\ b[k] = shared[k]
    BY <1>9, <1>15, <2>2
  <2>4. a = b
    <3>1. Len(a) = Len(b) /\ \A k \in 1 .. Len(a) : a[k] = b[k]
      BY <2>1, <2>3 DEF m
    <3> HIDE DEF a, b
    <3> QED BY <2>3, <3>1, SeqEqual
  <2>5. IsPrefix(ids, shared)
    BY <2>1, <2>4 DEF IsPrefix, m
  <2>6. ~IsPrefix(Encode(tokenizer, prompt), Encode(tokenizer, SubSeq(prompt, 1, n)))
    BY <1>8, <1>12 DEF TokensShowLength, tokenizer
  <2> QED BY <1>12, <2>5, <2>6 DEF ids, shared
<1>20. HintFrom(M, p, user, start)
  <2>1. \A k \in 1 .. p.hint : p.ids[k] = shared[k]
    BY <1>6, <1>16, <1>18
  <2>2. shared = Encode(tokenizer, SubSeq(p.prompt, 1, start - 1) \o p.stable)
    BY <1>6 DEF shared, rendered
  <2>3. p.prompt = ChatPrompt(tokenizer, p.version, user)
    BY <1>6 DEF prompt
  <2> QED BY <1>5, <1>6, <1>11, <2>1, <2>2, <2>3 DEF HintFrom
<1> QED BY <1>6, <1>9, <1>16, <1>17, <1>18, <1>19, <1>20

(* Two prompts of one version with the same stable text agree on all       *)
(* tokens that both their hints cover.                                     *)
LEMMA HintsAgree ==
  ASSUME NEW M, NEW Token, TextsAre(M, Token), TokensShowLength(M), HeadsAreFixed(M),
         scorer \in Scorers, backend \in Backends, NEW p \in Prompts, NEW q \in Prompts,
         p.hint # NoHint, q.hint # NoHint, p.stable = q.stable, p.version = q.version,
         NEW k \in DOMAIN p.ids, k <= p.hint, k <= q.hint
  PROVE  p.ids[k] = q.ids[k]
<1>1. p.ids \in Seq(Token) /\ p.hint \in Nat /\ q.hint \in Nat
  BY HintFacts
<1>2. \E user, start : HintFrom(M, p, user, start)
  BY HintFacts
<1>3. \E user, start : HintFrom(M, q, user, start)
  BY HintFacts
<1>4. PICK x, i : HintFrom(M, p, x, i)
  BY <1>2
<1>5. PICK y, j : HintFrom(M, q, y, j)
  BY <1>3
<1>6. SubSeq(p.prompt, 1, i - 1) = SubSeq(q.prompt, 1, j - 1)
  BY <1>4, <1>5 DEF HintFrom, HeadsAreFixed, tokenizer
<1>7. k \in Nat /\ k >= 1
  BY <1>1
<1>8. k \in 1 .. p.hint /\ k \in 1 .. q.hint
  BY <1>1, <1>7
<1>9. p.ids[k] = Encode(tokenizer, SubSeq(p.prompt, 1, i - 1) \o p.stable)[k]
  BY <1>4, <1>8 DEF HintFrom
<1>10. q.ids[k] = Encode(tokenizer, SubSeq(q.prompt, 1, j - 1) \o q.stable)[k]
  BY <1>5, <1>8 DEF HintFrom
<1> QED BY <1>6, <1>9, <1>10

(* Prompts depend on nothing that changes.                                 *)
LEMMA PromptsKeep == ASSUME UNCHANGED config PROVE Prompts' = Prompts
<1>1. IsLetter' = IsLetter /\ \A r, c : PromptFor(r, c)' = PromptFor(r, c)
  BY ConfigKeeps
<1>2. \A r : TooManyOptions(r)' = TooManyOptions(r)
  BY DEF TooManyOptions
<1> QED BY <1>1, <1>2 DEF Prompts

(* Steps that compile nothing and ask nothing.                             *)
LEMMA HintsKeep ==
  ASSUME HintInv, UNCHANGED config, UNCHANGED <<call, hinted>> PROVE HintInv'
<1>1. Prompts' = Prompts /\ call' = call /\ hinted' = hinted /\ backend' = backend
  BY PromptsKeep DEF config
<1> QED BY <1>1 DEF HintInv

(* What is compiled is one of the prompts.                                 *)
LEMMA CompiledArePrompts ==
  ASSUME CompiledOK, AllCompiled
  PROVE  /\ DOMAIN compiled # {} /\ \A k \in DOMAIN compiled : compiled[k] \in Prompts
<1>1. request \in Requests /\ order \in Orders(request)
  BY DEF CompiledOK
<1>2. /\ DOMAIN compiled = IF IsLetter THEN 1 .. 1 ELSE DOMAIN order
      /\ \A k \in DOMAIN order : /\ order[k] \in request.ids
                                 /\ compiled[IF IsLetter THEN 1 ELSE k] = PromptFor(request, order[k])
  BY CompiledFacts
<1>3. 1 \in DOMAIN order
  <2>1. order \in Seq(request.ids) /\ Len(order) >= 2
    BY <1>1, OrderFacts
  <2> QED BY <2>1
<1>4. IsLetter => ~TooManyOptions(request)
  BY DEF AllCompiled
<1>5. \A k \in DOMAIN order : PromptFor(request, order[k]) \in Prompts
  BY <1>1, <1>2, <1>4 DEF Prompts
<1>6. \A k \in DOMAIN compiled : compiled[k] \in Prompts
  <2>1. CASE IsLetter
    <3>1. compiled[1] \in Prompts
      BY <1>2, <1>3, <1>5, <2>1
    <3> QED BY <1>2, <2>1, <3>1
  <2>2. CASE ~IsLetter
    BY <1>2, <1>5, <2>2
  <2> QED BY <2>1, <2>2
<1>7. 1 \in DOMAIN compiled
  BY <1>2, <1>3
<1> QED BY <1>6, <1>7

(* A hint is given only if all prompts of the call have it.                *)
LEMMA HintIsOfAll ==
  ASSUME CompiledOK, AllCompiled, HintToGive # NoHint
  PROVE  \A k \in DOMAIN compiled : compiled[k].hint = HintToGive
<1> DEFINE hints == {compiled[k].hint : k \in DOMAIN compiled}
<1>1. Cardinality(hints) = 1 /\ HintToGive = compiled[1].hint
  BY DEF HintToGive
<1>2. order \in Seq(request.ids) /\ Len(order) >= 2
  <2>1. request \in Requests /\ order \in Orders(request)
    BY DEF CompiledOK
  <2> QED BY <2>1, OrderFacts
<1>3. DOMAIN compiled = IF IsLetter THEN 1 .. 1 ELSE DOMAIN order
  BY CompiledFacts
<1>4. PICK n \in Nat : DOMAIN compiled = 1 .. n /\ n >= 1
  <2>1. Len(order) \in Nat /\ DOMAIN order = 1 .. Len(order)
    BY <1>2
  <2>2. CASE IsLetter
    BY <1>3, <2>2
  <2>3. CASE ~IsLetter
    <3> DEFINE m == Len(order)
    <3>1. m \in Nat /\ m >= 1 /\ DOMAIN compiled = 1 .. m
      BY <1>2, <1>3, <2>1, <2>3
    <3> HIDE DEF m
    <3> QED BY <3>1
  <2> QED BY <2>2, <2>3
<1>5. IsFiniteSet(1 .. n)
  BY <1>4, FS_Interval
<1> DEFINE f == [k \in 1 .. n |-> compiled[k].hint]
<1>6. f \in Surjection(1 .. n, hints)
  BY <1>4 DEF Surjection
<1>7. \E h : hints = {h}
  <2> HIDE DEF f, hints
  <2>1. IsFiniteSet(hints)
    BY <1>5, <1>6, FS_Surjection
  <2> QED BY <1>1, <2>1, FS_Singleton
<1>8. 1 \in DOMAIN compiled
  BY <1>4
<1> QED BY <1>1, <1>7, <1>8

(* Compiling records a prompt that has a hint.                             *)
LEMMA CompilePromptHints ==
  ASSUME ScoringInv, HintInv, CompilePrompt PROVE HintInv'
<1> DEFINE c == order[Len(compiled) + 1]
           p == PromptFor(request, c)
<1>1. /\ pc = "compile" /\ Compiles /\ call' = call /\ UNCHANGED config
      /\ hinted' = IF p.hint = NoHint THEN hinted ELSE hinted \cup {p}
  BY DEF CompilePrompt, NextPrompt
<1>2. CompiledOK /\ (IF IsLetter THEN compiled = <<>> ELSE Len(compiled) < Len(order))
  BY <1>1 DEF ScoringInv
<1>3. request \in Requests /\ order \in Orders(request)
  BY <1>2 DEF CompiledOK
<1>4. c \in request.ids
  BY <1>2, CompilingNext
<1>5. p \in Prompts
  <2>1. IsLetter => ~TooManyOptions(request)
    BY <1>1 DEF Compiles
  <2> QED BY <1>3, <1>4, <2>1 DEF Prompts
<1>6. Prompts' = Prompts /\ backend' = backend
  BY <1>1, PromptsKeep DEF config
<1> HIDE DEF p
<1>7. \A q \in hinted' : q \in Prompts /\ q.hint # NoHint
  BY <1>1, <1>5 DEF HintInv
<1> QED BY <1>1, <1>6, <1>7 DEF HintInv

(* A call has the hint of all its rows.                                    *)
LEMMA AskHints ==
  ASSUME ScoringInv, HintInv, Ask PROVE HintInv'
<1>1. /\ pc = "ask" /\ UNCHANGED config /\ hinted' = hinted
      /\ call'.rows = [k \in DOMAIN compiled |-> compiled[k].ids] /\ call'.hint = HintToGive
  BY DEF Ask
<1>2. CompiledOK /\ AllCompiled
  BY <1>1 DEF ScoringInv
<1>3. Prompts' = Prompts /\ backend' = backend
  BY <1>1, PromptsKeep DEF config
<1>4. DOMAIN compiled # {} /\ \A k \in DOMAIN compiled : compiled[k] \in Prompts
  BY <1>2, CompiledArePrompts
<1>5. HintToGive # NoHint => \A k \in DOMAIN compiled : compiled[k].hint = HintToGive
  BY <1>2, HintIsOfAll
<1>6. call'.hint # NoHint =>
        /\ \E p \in Prompts : p.hint = call'.hint
        /\ \A k \in DOMAIN call'.rows :
             \E p \in Prompts : p.ids = call'.rows[k] /\ p.hint = call'.hint
  BY <1>1, <1>4, <1>5
<1> QED BY <1>1, <1>3, <1>6 DEF HintInv

(* Only prompts of the scorer are compiled and asked, with hints they have. *)
THEOREM HintInvariance ==
  ASSUME AnswersAreNumbers, WeightsAreNumbers
  PROVE  Spec => []HintInv
<1>1. Init => HintInv
  BY DEF Init, HintInv, NoCall
<1>2. ScoringInv /\ HintInv /\ [Next]_vars => HintInv'
  <2> SUFFICES ASSUME ScoringInv, HintInv, [Next]_vars PROVE HintInv'
    OBVIOUS
  <2>1. ASSUME NEW r \in Requests, NEW o \in Orders(r), Present(r, o) PROVE HintInv'
    <3>1. call' = NoCall /\ hinted' = hinted /\ UNCHANGED config
      BY <2>1 DEF Present
    <3>2. Prompts' = Prompts /\ backend' = backend /\ call'.hint = NoHint
      BY <3>1, PromptsKeep DEF config, NoCall
    <3> QED BY <3>1, <3>2 DEF HintInv
  <2>2. CASE CompilePrompt
    BY <2>2, CompilePromptHints
  <2>3. CASE Ask
    BY <2>3, AskHints
  <2>4. CASE RejectPrompt \/ Conclude \/ RefuseScores
    <3>1. UNCHANGED config /\ UNCHANGED <<call, hinted>>
      BY <2>4 DEF RejectPrompt, Conclude, RefuseScores
    <3> QED BY <3>1, HintsKeep
  <2>5. CASE UNCHANGED vars
    <3>1. UNCHANGED config /\ UNCHANGED <<call, hinted>>
      BY <2>5 DEF vars, config
    <3> QED BY <3>1, HintsKeep
  <2> QED BY <2>1, <2>2, <2>3, <2>4, <2>5 DEF Next
<1> QED BY <1>1, <1>2, AnswersAreNumbers, WeightsAreNumbers, ScoringInvariance, PTL DEF Spec

(* A hint ends before every row of its call, which the fresh answers of    *)
(* the runtime rest on (HintsStrict), and prompts of the same stable text  *)
(* agree on the tokens that are stored and found again.                    *)
THEOREM HintsAreShared ==
  ASSUME AnswersAreNumbers, WeightsAreNumbers,
         NEW Mark, NEW Token, TextsAre(Mark, Token), TokensShowLength(Mark), HeadsAreFixed(Mark)
  PROVE  Spec => []HintsCanBeShared
<1>1. ScoringInv /\ HintInv => HintsCanBeShared
  <2> SUFFICES ASSUME ScoringInv, HintInv PROVE HintsCanBeShared
    OBVIOUS
  <2>1. scorer \in Scorers /\ backend \in Backends
    BY DEF ScoringInv, HintInv
  <2>2. ASSUME call.hint # NoHint
        PROVE  call.hint > 0 /\ \A k \in DOMAIN call.rows : call.hint < Len(call.rows[k])
    <3>1. \A p \in Prompts : p.hint # NoHint => p.hint > 0 /\ p.hint < Len(p.ids)
      BY <2>1, HintFacts
    <3> QED BY <2>2, <3>1 DEF HintInv
  <2>3. ASSUME NEW p \in hinted, NEW q \in hinted, p.stable = q.stable, p.version = q.version,
               NEW k \in DOMAIN p.ids \cap DOMAIN q.ids, k <= p.hint, k <= q.hint
        PROVE  p.ids[k] = q.ids[k]
    <3>1. /\ p \in Prompts /\ q \in Prompts /\ p.hint # NoHint /\ q.hint # NoHint
      BY DEF HintInv
    <3> QED BY <2>1, <2>3, <3>1, HintsAgree
  <2> QED BY <2>2, <2>3 DEF HintsCanBeShared
<1> QED BY <1>1, AnswersAreNumbers, WeightsAreNumbers, ScoringInvariance, HintInvariance, PTL

-----------------------------------------------------------------------------
(* Own texts *)

(* However a template shows a message, two marks that stand side by side   *)
(* in it and are not its last two stand so in what is shown.               *)
MessageIsShown(Mark) ==
  \A b \in Backends : \A v \in Versions : \A m \in Messages(Mark) : \A x, y \in Mark :
    Beside(1, m, x, y) => Beside(0, ChatPrompt(b.tokenizer, v, m), x, y)

(* What a prompt shows and what is read after it.                          *)
LEMMA PromptReads ==
  ASSUME NEW M, NEW Token, TextsAre(M, Token), MessageIsShown(M),
         scorer \in Scorers, backend \in Backends,
         NEW r \in Requests, NEW c \in r.ids, IsLetter => ~TooManyOptions(r)
  PROVE  LET p == PromptFor(r, c)
         IN /\ p.ids = Encode(tokenizer, p.prompt)
            /\ p.readout = IF IsLetter
                           THEN [d \in r.ids |-> Slot(tokenizer, p.prompt, Letters(r)[d])]
                           ELSE [n \in {"yes", "no"} |-> Slot(tokenizer, p.prompt, YesNo[n])]
            /\ Beside(0, p.prompt, Marker(r, c), r.description[c])
            /\ IsLetter => Letters(r)[c] \in ToSet(Alphabet)
<1>1. \E v, stable, varying, readout : Shape(M, r, c, v, stable, varying, readout)
  BY PromptShape
<1>2. PICK v, stable, varying, readout : Shape(M, r, c, v, stable, varying, readout)
  BY <1>1
<1> DEFINE p == PromptFor(r, c)
           user == stable \o varying
           prompt == ChatPrompt(tokenizer, v, user)
<1>3. /\ v \in Versions /\ stable \in Seq(M) /\ varying \in Seq(M) /\ Len(varying) >= 1
      /\ p = Compile(tokenizer, v, stable, varying, readout)
      /\ Beside(1, user, Marker(r, c), r.description[c])
      /\ readout = IF IsLetter THEN Letters(r) ELSE YesNo
      /\ user \in Messages(M)
  BY <1>2 DEF Shape
<1>4. /\ p.prompt = prompt /\ p.ids = Encode(tokenizer, prompt)
      /\ p.readout = [n \in DOMAIN readout |-> Slot(tokenizer, prompt, readout[n])]
  BY <1>3 DEF Compile
<1>5. Marker(r, c) \in M /\ r.description[c] \in M /\ (IsLetter => Letters(r)[c] \in ToSet(Alphabet))
  <2>1. /\ \A d \in r.ids : r.description[d] \in M
        /\ Alphabet \in Seq(M) /\ "CANDIDATE" \in M
    BY DEF TextsAre, Phrases
  <2>2. ToSet(Alphabet) \subseteq M
    BY <2>1 DEF ToSet
  <2>3. IsLetter => Letters(r)[c] \in ToSet(Alphabet)
    BY <2>1, OptionsFacts
  <2> QED BY <2>1, <2>2, <2>3 DEF Marker
<1> HIDE DEF user
<1>6. Beside(0, prompt, Marker(r, c), r.description[c])
  BY <1>3, <1>5 DEF MessageIsShown, tokenizer
<1> HIDE DEF prompt
<1>7. p.readout = IF IsLetter
                  THEN [d \in r.ids |-> Slot(tokenizer, prompt, Letters(r)[d])]
                  ELSE [n \in {"yes", "no"} |-> Slot(tokenizer, prompt, YesNo[n])]
  <2>1. CASE IsLetter
    <3>1. readout = Letters(r) /\ DOMAIN Letters(r) = r.ids
      BY <1>3, <2>1 DEF Letters
    <3> QED BY <1>4, <2>1, <3>1
  <2>2. CASE ~IsLetter
    <3>1. readout = YesNo /\ DOMAIN YesNo = {"yes", "no"}
      BY <1>3, <2>2 DEF YesNo
    <3> QED BY <1>4, <2>2, <3>1
  <2> QED BY <2>1, <2>2
<1> QED BY <1>4, <1>5, <1>6, <1>7

(* The scores that a request's readings give belong to its texts.          *)
LEMMA OwnTextOf ==
  ASSUME NEW M, NEW Token, TextsAre(M, Token), MessageIsShown(M),
         scorer \in Scorers, backend \in Backends,
         NEW r \in Requests, IsLetter => ~TooManyOptions(r),
         NEW d, d.request = r, d.result.scores = ScoresOf(r),
         d.result.hashes = [c \in r.ids |-> <<PromptFor(r, c).version, PromptFor(r, c).prompt>>]
  PROVE  OwnText(d)
<1> DEFINE Text(c) == PromptFor(r, c).prompt
           Read(c, mark) == model[<<Encode(tokenizer, Text(c)), Slot(tokenizer, Text(c), mark)>>]
           prompt == [c \in r.ids |-> d.result.hashes[c][2]]
<1>1. \A c \in r.ids : prompt[c] = Text(c)
  OBVIOUS
<1>2. ASSUME NEW c \in r.ids
      PROVE  /\ PromptFor(r, c).ids = Encode(tokenizer, Text(c))
             /\ PromptFor(r, c).readout =
                  IF IsLetter THEN [e \in r.ids |-> Slot(tokenizer, Text(c), Letters(r)[e])]
                  ELSE [n \in {"yes", "no"} |-> Slot(tokenizer, Text(c), YesNo[n])]
             /\ Beside(0, Text(c), Marker(r, c), r.description[c])
             /\ IsLetter => Letters(r)[c] \in ToSet(Alphabet)
  BY PromptReads
<1>3. ASSUME NEW c \in r.ids
      PROVE  ScoresOf(r)[c] = IF IsLetter THEN Read(c, Letters(r)[c])
                              ELSE Read(c, "Yes") - Read(c, "No")
  <2> DEFINE ids == PromptFor(r, c).ids
             readout == PromptFor(r, c).readout
  <2>1. CASE IsLetter
    <3>1. readout[c] = Slot(tokenizer, Text(c), Letters(r)[c])
      BY <1>2, <2>1
    <3>2. TokensFor(r, c) = <<readout[c]>>
      BY <2>1 DEF TokensFor
    <3>3. ids = Encode(tokenizer, Text(c))
      BY <1>2
    <3> HIDE DEF readout, ids, Text
    <3>4. Readings(r, c)[1] = model[<<ids, readout[c]>>]
      BY <3>2 DEF Readings, ids
    <3> QED BY <2>1, <3>1, <3>3, <3>4 DEF ScoresOf
  <2>2. CASE ~IsLetter
    <3>1. /\ readout.yes = Slot(tokenizer, Text(c), "Yes")
          /\ readout.no = Slot(tokenizer, Text(c), "No")
      BY <1>2, <2>2 DEF YesNo
    <3>2. TokensFor(r, c) = <<readout.yes, readout.no>>
      BY <2>2 DEF TokensFor
    <3>3. ids = Encode(tokenizer, Text(c))
      BY <1>2
    <3> HIDE DEF readout, ids, Text
    <3>4. /\ Readings(r, c)[1] = model[<<ids, readout.yes>>]
          /\ Readings(r, c)[2] = model[<<ids, readout.no>>]
      BY <3>2 DEF Readings, ids
    <3> QED BY <2>2, <3>1, <3>3, <3>4 DEF ScoresOf
  <2> QED BY <2>1, <2>2
<1> DEFINE Follows(p, a, b) == \E k \in 1 .. Len(p) - 1 : p[k] = a /\ p[k + 1] = b
           Reading(p, mark) == model[<<Encode(tokenizer, p), Slot(tokenizer, p, mark)>>]
           scores == ScoresOf(r)
           Own(c) == IF IsLetter
                     THEN \E l \in ToSet(Alphabet) :
                            /\ Follows(prompt[c], l, r.description[c])
                            /\ scores[c] = Reading(prompt[c], l)
                     ELSE /\ Follows(prompt[c], "CANDIDATE", r.description[c])
                          /\ scores[c] = Reading(prompt[c], "Yes") - Reading(prompt[c], "No")
<1>4. SUFFICES ASSUME NEW c \in r.ids PROVE Own(c)
  <2> DEFINE own == \A c \in r.ids : Own(c)
  <2>1. OwnText(d) = own
    <3> HIDE DEF scores
    <3>1. d.request = r /\ d.result.scores = scores
      BY DEF scores
    <3> QED BY ONLY <3>1 DEF OwnText
  <2> QED BY <2>1
<1>5. Read(c, "Yes") = Reading(prompt[c], "Yes") /\ Read(c, "No") = Reading(prompt[c], "No")
      /\ \A l : Read(c, l) = Reading(prompt[c], l)
  BY <1>1
<1>6. Follows(prompt[c], Marker(r, c), r.description[c])
  <2>1. Beside(0, prompt[c], Marker(r, c), r.description[c])
    BY <1>1, <1>2
  <2> HIDE DEF prompt
  <2>2. PICK k \in 1 .. Len(prompt[c]) - 1 - 0 :
          prompt[c][k] = Marker(r, c) /\ prompt[c][k + 1] = r.description[c]
    BY <2>1, Zenon DEF Beside
  <2>3. k \in 1 .. Len(prompt[c]) - 1
    BY <2>2
  <2> QED BY <2>2, <2>3
<1> HIDE DEF Read, Reading, Follows, scores, prompt, Text
<1>7. CASE IsLetter
  <2>1. Letters(r)[c] \in ToSet(Alphabet) /\ Marker(r, c) = Letters(r)[c]
    BY <1>2, <1>7 DEF Marker
  <2>2. scores[c] = Reading(prompt[c], Letters(r)[c])
    BY <1>3, <1>5, <1>7 DEF scores
  <2> QED BY <1>6, <1>7, <2>1, <2>2
<1>8. CASE ~IsLetter
  <2>1. Marker(r, c) = "CANDIDATE"
    BY <1>8 DEF Marker
  <2>2. scores[c] = Reading(prompt[c], "Yes") - Reading(prompt[c], "No")
    BY <1>3, <1>5, <1>8 DEF scores
  <2> QED BY <1>6, <1>8, <2>1, <2>2
<1> QED BY <1>7, <1>8

(* A candidate's score is what the model answered for the letter before    *)
(* its own description, or for the prompt with its own description.        *)
THEOREM ScoresAreOwn ==
  ASSUME AnswersAreNumbers, WeightsAreNumbers,
         NEW Mark, NEW Token, TextsAre(Mark, Token), MessageIsShown(Mark)
  PROVE  Spec => []ScoredByOwnText
<1>1. ScoringInv /\ HintInv => ScoredByOwnText
  <2> SUFFICES ASSUME ScoringInv, HintInv,
                      NEW i \in DOMAIN decisions, decisions[i].result.status = "ok"
               PROVE  OwnText(decisions[i])
    BY DEF ScoredByOwnText
  <2>1. scorer \in Scorers /\ backend \in Backends /\ decisions \in Seq(Explained)
    BY DEF ScoringInv, HintInv
  <2>2. decisions[i] \in Explained
    BY <2>1
  <2>3. PICK r \in Requests : decisions[i] = [request |-> r, result |-> DecisionOn(r)]
    BY <2>2 DEF Explained
  <2>4. /\ IsLetter => ~TooManyOptions(r)
        /\ decisions[i].result.scores = ScoresOf(r)
        /\ decisions[i].result.hashes =
             [c \in r.ids |-> <<PromptFor(r, c).version, PromptFor(r, c).prompt>>]
    BY <2>3 DEF DecisionOn, AllCompile
  <2> QED BY <2>1, <2>3, <2>4, OwnTextOf
<1> QED BY <1>1, AnswersAreNumbers, WeightsAreNumbers, ScoringInvariance, HintInvariance, PTL
=============================================================================

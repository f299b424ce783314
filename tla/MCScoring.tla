----------------------------- MODULE MCScoring -----------------------------
(* Small instances of Scoring.                                             *)
EXTENDS Scoring

MCCollation == <<"c1", "c2", "c3", "c4", "d1", "d2", "d3", "d4">>
MCAlphabet == <<"A", "B", "C">>

(* Greedy tokenization with the longest piece that fits; a single mark is  *)
(* always a token, and unknown marks all become the same one.              *)
MCEncode(tok, text) ==
  LET n == Len(text)
      Ends(i) == {i} \cup {j \in i .. n : SubSeq(text, i, j) \in tok.pieces}
      Furthest(i) == CHOOSE j \in Ends(i) : \A k \in Ends(i) : k <= j
      Token(i, j) == IF i = j /\ text[i] \in tok.unknown THEN <<"?">> ELSE SubSeq(text, i, j)
      cut[i \in 1 .. n + 1] ==
        IF i > n THEN <<>> ELSE <<Token(i, Furthest(i))>> \o cut[Furthest(i) + 1]
  IN cut[1]

MCChatPrompt(tok, system, user) ==
  LET seen == IF tok.template = "trims" THEN Front(user) ELSE user
      again == IF tok.template = "repeats" THEN user ELSE <<>>
  IN <<system>> \o seen \o again \o <<"ASSISTANT">>

Tok(template, pieces, unknown) ==
  [template |-> template, pieces |-> pieces, unknown |-> unknown]

MCBackends ==
  {[sharing |-> s, tokenizer |-> Tok("plain", {}, {})] : s \in BOOLEAN} \cup
  {[sharing |-> TRUE, tokenizer |-> t] : t \in
     {Tok("plain", {<<"QUESTION", "q1">>, <<"EVIDENCE", "s1">>, <<"OPTIONS", "A">>}, {}),
      Tok("plain", {<<"QUESTION", "q1", "CANDIDATE", "d1">>}, {}),
      Tok("plain", {<<"ASSISTANT", "B">>, <<"ASSISTANT", "No">>}, {}),
      Tok("plain", {}, {"A", "B", "Yes", "No", "d1", "d2"}),
      Tok("repeats", {}, {}),
      Tok("trims", {}, {})}}

Describe(ids) ==
  [c \in ids |-> CASE c = "c1" -> "d2" [] c = "c2" -> "d1" [] c = "c3" -> "d3" [] c = "c4" -> "d4"]
Request(s, q, ids) ==
  [state |-> s, question |-> q, ids |-> ids, description |-> Describe(ids)]

MCRequests ==
  {Request("s2", "q1", {"c1", "c2"}),
   Request("s1", "q2", {"c1", "c3"}),
   Request("s1", "q1", {"c1", "c2", "c3"}),
   Request("s2", "q2", {"c1", "c2", "c3", "c4"})}

(* Every order of up to three candidates. *)
MCOrders(r) ==
  IF Cardinality(r.ids) <= 3 THEN SetToSeqs(r.ids)
  ELSE {<<"c1", "c2", "c3", "c4">>, <<"c3", "c1", "c4", "c2">>}

MCWeight(d) == IF d >= -1 THEN 2 ELSE IF d >= -3 THEN 1 ELSE 0
(* The request with too many options for letters matters only there. *)
MCAnswers(ids, token) ==
  CASE token = <<"Yes">> /\ <<"d4">> \notin ToSet(ids) -> {0, 1}
    [] token = <<"No">> /\ IsSuffix(<<<<"d1">>, <<"BEST?">>, <<"ASSISTANT">>>>, ids) -> {0, 3}
    [] token = <<"A">> -> {0, 1, 4, NaN}
    [] token \in {<<"B">>, <<"C">>} -> {0, 1, 4}
    [] OTHER -> {0}
=============================================================================

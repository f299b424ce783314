---------------------------- MODULE MCComparison ----------------------------
(* Small instances of Comparison: a five-row input that one scorer answers *)
(* in all ways; a two-row input that all scorers answer differently; inputs *)
(* that are edited while they are compared; and inputs that are refused.   *)
EXTENDS Comparison

MCStrip == [s \in {"", " ", "a", " a", "b", "q", "x", "y", "z", "row-2"} |->
              CASE s = " " -> "" [] s = " a" -> "a" [] OTHER -> s]

Option(id, description) == [id |-> id, description |-> description]
TwoOptions == <<Option("a", "a"), Option("b", "b")>>
Line(id, label, family) ==
  [id |-> id, state |-> "s", question |-> "q", candidates |-> TwoOptions,
   label |-> label, family |-> family]

Five == [i \in 1 .. 5 |-> Line(NoId, IF i <= 3 THEN "a" ELSE "b", IF i = 2 THEN "f" ELSE "g")]
Two == <<Line("x", "a", "f"), Line("y", "b", "g")>>
TwoEdited == <<Line("x", "b", "f"), Line("y", "b", "f")>>
TwoOthers == <<Line("x", "a", "f"), Line("z", "b", "g")>>
One == <<Line("z", "a", "f")>>

Refused ==
  {<<>>, <<Line("x", "a", "f"), NotJson>>, <<Line("x", NoLabel, "f")>>,
   <<Line("x", "a", "f"), Line("x", "b", "f")>>, <<Line("row-2", "a", "f"), Line(NoId, "a", "f")>>,
   <<[One[1] EXCEPT !.question = " "]>>, <<[One[1] EXCEPT !.state = NaN]>>,
   <<[One[1] EXCEPT !.id = ""]>>,
   <<[One[1] EXCEPT !.candidates = <<TwoOptions[1]>>]>>,
   <<[One[1] EXCEPT !.candidates = <<Option("a", "a"), Option("a", "b")>>]>>,
   <<[One[1] EXCEPT !.candidates = <<Option("a", "a"), Option("b", " a")>>]>>}

MCInputs == {Five, Two, TwoEdited, TwoOthers, One} \cup Refused
MCRevisions(content) ==
  CASE content = Two -> {TwoEdited, TwoOthers}
    [] content = One -> {<<[One[1] EXCEPT !.question = " "]>>, <<>>}
    [] OTHER -> {}

Replies == {NotJson, NotAnObject, [choice |-> "b"], [choice |-> "c"], [answer |-> "b"],
            [choice |-> "b", why |-> "a"]}

MCPicks(key, row, reversed) ==
  LET ids == {row.candidates[i].id : i \in DOMAIN row.candidates}
  IN CASE row.id = NoId ->
            IF key = "semantic" /\ ~reversed THEN ids
            ELSE IF key = "generated" THEN {None} ELSE {"a"}
       [] row.id = "z" -> IF key = "letters" THEN {"a", Error} ELSE {"a"}
       [] key = "semantic" -> ids
       [] key = "letters" -> IF reversed THEN {"b"} ELSE ids
       [] key = "generated" ->
            IF row.id = "x" THEN {GeneratedChoice(r, ids) : r \in Replies} ELSE {"b"}
       [] OTHER -> {"a"}

MCDurations(key) == IF key = "letters" THEN {1, 3} ELSE {2}
MCRounds == {<<0, 0>>, <<1, 0>>, <<1, 2>>, <<3, 4>>}

(* The second comparison, and the timed ones, on one row only.             *)
Bounded ==
  /\ launches = 2 \/ edits > 0 => \A i \in DOMAIN rows : rows[i].id # NoId
  /\ launches = 2 => Len(rows) <= 1 /\ input = One
  /\ rounds[2] > 0 => input # Five /\ Two # input
=============================================================================

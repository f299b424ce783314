------------------------------ MODULE SnakeGame ------------------------------
(***************************************************************************)
(* examples/snake/game.py and the controller choose_move of play.py.       *)
(*                                                                         *)
(* The rules of a move are written twice in the code: once to foretell     *)
(* what a move would do (_failure_reason_for, _body_after, _safe_after),   *)
(* once to do it (step).  They are written twice here too, each from its   *)
(* own lines, and the properties say that they agree.                      *)
(***************************************************************************)
EXTENDS Integers, Sequences, FiniteSets, SequencesExt

CONSTANTS Width, Height,
          RecentLimit,   \* RECENT_HEAD_LIMIT
          Controllers,   \* subset of ControllerNames
          NoFood

(* "scripted" is a caller of step() that brings its own directions, as the  *)
(* controller benchmark and the tests do.                                  *)
ControllerNames == {"model", "adjacent-food", "scripted"}

ASSUME SnakeAssumption ==
  /\ Width \in Nat /\ Height \in Nat /\ Width >= 5 /\ Height >= 5
  /\ RecentLimit \in Nat \ {0}
  /\ Controllers \subseteq ControllerNames

Cells == (0 .. Width - 1) \X (0 .. Height - 1)

ASSUME NoFoodAssumption == NoFood \notin Cells

Directions == {"up", "right", "down", "left"}
Opposite == [up |-> "down", down |-> "up", left |-> "right", right |-> "left"]
Delta == [up |-> <<0, -1>>, right |-> <<1, 0>>, down |-> <<0, 1>>, left |-> <<-1, 0>>]
Ahead(cell, d) == <<cell[1] + Delta[d][1], cell[2] + Delta[d][2]>>

VARIABLES
  controller,
  snake,      \* cells, head first
  direction, food, alive, score,
  recent,     \* _recent_heads, newest last
  mode        \* how the last move was decided

vars == <<controller, snake, direction, food, alive, score, recent, mode>>

SpawnFood(body) ==
  IF Cells \subseteq ToSet(body) THEN {NoFood} ELSE Cells \ ToSet(body)

Start ==
  LET cx == Width \div 2  cy == Height \div 2
  IN <<<<cx, cy>>, <<cx - 1, cy>>, <<cx - 2, cy>>>>

Init ==
  /\ controller \in Controllers
  /\ snake = Start /\ direction = "right" /\ alive = TRUE /\ score = 0
  /\ recent = <<Head(Start)>> /\ food \in SpawnFood(Start)
  /\ mode = "start"

-----------------------------------------------------------------------------
(* Foretelling a move *)

(* Faulty: does not see that the tail moves out of the way.                *)
FailsOnTail(body, facing, d, meal) ==
  LET newHead == Ahead(Head(body), d)
  IN \/ d = Opposite[facing]
     \/ newHead \notin Cells
     \/ newHead \in ToSet(body)

Fails(body, facing, d, meal) ==
  LET newHead == Ahead(Head(body), d)
  IN \/ d = Opposite[facing]
     \/ newHead \notin Cells
     \/ newHead \in ToSet(IF newHead = meal THEN body ELSE Front(body))

SafeFrom(body, facing, meal) == {d \in Directions : ~Fails(body, facing, d, meal)}
SafeDirections == SafeFrom(snake, direction, food)

EatsFood(d) == Ahead(Head(snake), d) = food

BodyAfter(d) ==
  <<Ahead(Head(snake), d)>> \o (IF EatsFood(d) THEN snake ELSE Front(snake))

(* Faulty: looks ahead from the direction the snake faces now.             *)
SafeAfterFacingNow(d) ==
  SafeFrom(BodyAfter(d), direction, IF EatsFood(d) THEN NoFood ELSE food)

(* safe_directions_after of a safe direction; new food is not known yet.   *)
SafeAfter(d) == SafeFrom(BodyAfter(d), d, IF EatsFood(d) THEN NoFood ELSE food)

-----------------------------------------------------------------------------
(* Making a move *)

OffBoard(x, y) == ~(0 <= x /\ x < Width /\ 0 <= y /\ y < Height)

Die ==
  /\ alive' = FALSE
  /\ UNCHANGED <<snake, food, score, recent>>

(* Faulty: new food is placed before the snake has grown. *)
EatAndGrowLater(newHead) ==
  /\ snake' = <<newHead>> \o snake
  /\ score' = score + 1
  /\ recent' = <<newHead>>
  /\ food' \in SpawnFood(snake)

Eat(newHead) ==
  /\ snake' = <<newHead>> \o snake
  /\ score' = score + 1
  /\ recent' = <<newHead>>
  /\ food' \in SpawnFood(snake')

Remember(newHead) ==
  LET all == Append(recent, newHead)
  IN IF Len(all) > RecentLimit THEN Tail(all) ELSE all

Slide(newHead) ==
  /\ snake' = <<newHead>> \o Front(snake)
  /\ recent' = Remember(newHead)
  /\ UNCHANGED <<food, score>>

(* step(): direct reversal raises, and no caller asks for one.             *)
Step(d) ==
  LET newHead == Ahead(Head(snake), d)
      eats == newHead = food
  IN /\ d # Opposite[direction]
     /\ direction' = d
     /\ \/ OffBoard(newHead[1], newHead[2]) /\ Die
        \/ /\ ~OffBoard(newHead[1], newHead[2])
           /\ newHead \in ToSet(IF eats THEN snake ELSE Front(snake))
           /\ Die
        \/ /\ ~OffBoard(newHead[1], newHead[2])
           /\ newHead \notin ToSet(IF eats THEN snake ELSE Front(snake))
           /\ IF eats THEN Eat(newHead) ELSE Slide(newHead)
           /\ alive' = (food' # NoFood)

-----------------------------------------------------------------------------
(* choose_move: the model is asked only when there is something to choose  *)

(* Faulty: food is taken even into a dead end. *)
AnyFoodMove == {d \in SafeDirections : EatsFood(d)}

(* There is one food, so at most one direction. *)
FoodMoves == {d \in SafeDirections : EatsFood(d) /\ SafeAfter(d) # {}}

PolicyApplies ==
  controller = "adjacent-food" /\ Cardinality(SafeDirections) >= 2 /\ FoodMoves # {}

Play(m, d) == alive /\ Step(d) /\ mode' = m /\ UNCHANGED controller

Chosen(m, d) == controller # "scripted" /\ Play(m, d)

PolicyMove == PolicyApplies /\ \E d \in FoodMoves : Chosen("policy", d)

ModelMove ==
  /\ Cardinality(SafeDirections) >= 2 /\ ~PolicyApplies
  /\ \E d \in SafeDirections : Chosen("model", d)

SingleSafeMove ==
  /\ Cardinality(SafeDirections) = 1
  /\ \E d \in SafeDirections : Chosen("single", d)

(* The direction faced is always one of the legal ones. *)
NoSafeMove == SafeDirections = {} /\ Chosen("none", direction)

ScriptedMove == controller = "scripted" /\ \E d \in Directions : Play("scripted", d)

Next == PolicyMove \/ ModelMove \/ SingleSafeMove \/ NoSafeMove \/ ScriptedMove

Spec == Init /\ [][Next]_vars

-----------------------------------------------------------------------------
(* Properties *)

Adjacent(a, b) == \E d \in Directions : b = Ahead(a, d)

(* The snake is one path that never crosses itself, as long as its score   *)
(* says; food is never under it, and there is none only when it fills the  *)
(* board, which ends the game.                                             *)
BodyWellFormed ==
  /\ IsInjective(snake) /\ Len(snake) = 3 + score
  /\ \A k \in 1 .. Len(snake) - 1 : Adjacent(snake[k], snake[k + 1])
  /\ food \notin ToSet(snake)
  /\ food = NoFood <=> ToSet(snake) = Cells
  /\ alive => food # NoFood /\ Head(snake) = Ahead(snake[2], direction)

(* The filter that foretells deaths and the move that makes them agree: a  *)
(* direction it offers never kills, one it withholds always would.         *)
FilterIsExact ==
  [][ direction' \in SafeDirections <=> (alive' \/ food' = NoFood) ]_vars

(* What the sensors say of a move is what the next decision finds: the     *)
(* meal, and the safe directions left.                                     *)
SensorsForetell ==
  [][ direction' \in SafeDirections =>
        /\ score' = score + (IF EatsFood(direction') THEN 1 ELSE 0)
        /\ SafeDirections' = SafeAfter(direction') ]_vars

(* The adjacent-food policy eats and never into an immediate dead end: if   *)
(* that meal does not fill the board, a safe direction is left.            *)
PolicyLeavesExit ==
  [][ mode' = "policy" =>
        /\ alive' \/ food' = NoFood
        /\ score' = score + 1 /\ SafeDirections' # {} ]_vars
=============================================================================

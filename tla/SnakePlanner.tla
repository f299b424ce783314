---------------------------- MODULE SnakePlanner ----------------------------
(***************************************************************************)
(* examples/snake/planner.py: the bounded search that judges the moves of  *)
(* a position, and has the rules of the game written a third time.         *)
(*                                                                         *)
(* A run of evaluate() on a position of SnakeGame, which it never changes. *)
(* The properties say what the verdicts mean in SnakeGame's own rules.     *)
(***************************************************************************)
EXTENDS SnakeGame, FiniteSetsExt, TLC

CONSTANTS
  Positions,        \* records: snake, direction, food of games to judge
  MaxNodes, MaxDepth,
  EscapeHorizon,    \* post_food_escape_horizon
  SurvivalHorizon   \* projected_survival_horizon

(* A position that a game which goes on may be in.                         *)
Judgeable(body, facing, meal) ==
  /\ body \in Seq(Cells) /\ Len(body) >= 3 /\ IsInjective(body)
  /\ facing \in Directions
  /\ meal \in Cells \ ToSet(body)

ASSUME PlannerAssumption ==
  /\ {MaxNodes, MaxDepth, EscapeHorizon, SurvivalHorizon} \subseteq Nat \ {0}
  /\ \A p \in Positions : Judgeable(p.snake, p.direction, p.food)

VARIABLES
  at,        \* "evaluate", "search" or "ranked"
  todo,      \* safe directions not yet evaluated
  actions,   \* plans of those evaluated
  queue, visited, nodes,
  bounded,   \* a bound cut the search
  trapping,  \* saw_trapping_food
  expanded,  \* the search state being expanded and the moves left to try
  ranks

search == <<queue, visited, nodes, bounded, trapping, expanded>>
planner == <<at, todo, actions, search, ranks>>
position == vars

-----------------------------------------------------------------------------
(* The moving body *)

InOrder(moves) ==
  LET One(d) == IF d \in moves THEN <<d>> ELSE <<>>
  IN One("up") \o One("right") \o One("down") \o One("left")

Node(body, facing) == [body |-> body, facing |-> facing]

Kills(s, d, meal) ==
  LET newHead == Ahead(Head(s.body), d)
  IN \/ d = Opposite[s.facing]
     \/ OffBoard(newHead[1], newHead[2])
     \/ newHead \in ToSet(IF newHead = meal THEN s.body ELSE Front(s.body))

SafeMoves(s, meal) == InOrder({d \in Directions : ~Kills(s, d, meal)})

AteFood(s, d, meal) == Ahead(Head(s.body), d) = meal

Advance(s, d, meal) ==
  Node(<<Ahead(Head(s.body), d)>> \o (IF AteFood(s, d, meal) THEN s.body ELSE Front(s.body)), d)

Frontier(s, horizon) ==
  LET after[k \in 0 .. horizon] ==
        IF k = 0 THEN {s}
        ELSE UNION {{Advance(t, d, NoFood) : d \in ToSet(SafeMoves(t, NoFood))} : t \in after[k - 1]}
  IN after

SurvivalDepth(s, horizon) ==
  LET frontier == Frontier(s, horizon) IN Max({k \in 0 .. horizon : frontier[k] # {}})

Seen(s, rounds) ==
  LET free == Cells \ ToSet(Tail(s.body))
      Wider(known) == known \cup ({Ahead(c, d) : c \in known, d \in Directions} \cap free)
      seen[k \in 0 .. rounds] == IF k = 0 THEN {Head(s.body)} ELSE Wider(seen[k - 1])
  IN seen

ReachableCells(s) ==
  LET rounds == Cardinality(Cells \ ToSet(Tail(s.body))) IN Cardinality(Seen(s, rounds)[rounds])

-----------------------------------------------------------------------------
(* Search for food after a first move *)

Filled(s) == Len(s.body) = Width * Height
SafeMeal(s) == Filled(s) \/ SurvivalDepth(s, EscapeHorizon) >= EscapeHorizon

Base == Node(snake, direction)
First == Advance(Base, Head(todo), food)

Abs(n) == IF n < 0 THEN -n ELSE n
FoodDistance(cell) == Abs(cell[1] - food[1]) + Abs(cell[2] - food[2])

(* What evaluate() records of a first move besides its verdict.            *)
Planned(status, goal, steps) ==
  LET safe == status = "proven_safe_food"
  IN [status |-> status, steps |-> steps,
      escape |-> IF safe /\ ~Filled(goal) THEN SurvivalDepth(goal, EscapeHorizon) ELSE 0,
      room |-> IF ~safe THEN 0 ELSE IF Filled(goal) THEN 1 ELSE ReachableCells(goal),
      survival |-> SurvivalDepth(First, SurvivalHorizon),
      cells |-> ReachableCells(First),
      moves |-> Cardinality(SafeAfter(Head(todo))),
      distance |-> FoodDistance(Head(First.body)),
      nodes |-> nodes]

NothingExpanded == [node |-> Node(<<>>, "up"), steps |-> 0, moves |-> <<>>]

FreshSearch ==
  /\ queue' = <<>> /\ visited' = {} /\ nodes' = 0
  /\ bounded' = FALSE /\ trapping' = FALSE /\ expanded' = NothingExpanded

Return(plan) ==
  /\ actions' = [d \in DOMAIN actions \cup {Head(todo)} |->
                   IF d = Head(todo) THEN plan ELSE actions[d]]
  /\ todo' = Tail(todo) /\ at' = "evaluate"
  /\ FreshSearch
  /\ UNCHANGED <<ranks, position>>

(* A first move that eats is judged at once. *)
EatFirst ==
  /\ at = "evaluate" /\ todo # <<>> /\ AteFood(Base, Head(todo), food)
  /\ IF SafeMeal(First) THEN Return(Planned("proven_safe_food", First, 1))
     ELSE Return(Planned("trapping_food", First, 0))

StartSearch ==
  /\ at = "evaluate" /\ todo # <<>> /\ ~AteFood(Base, Head(todo), food)
  /\ at' = "search"
  /\ queue' = <<[node |-> First, steps |-> 1]>> /\ visited' = {First}
  /\ UNCHANGED <<todo, actions, nodes, bounded, trapping, expanded, ranks, position>>

Trying == at = "search" /\ expanded.moves # <<>>

TakeNode ==
  /\ at = "search" /\ expanded.moves = <<>> /\ queue # <<>>
  /\ queue' = Tail(queue)
  /\ IF Head(queue).steps >= MaxDepth
     THEN bounded' = TRUE /\ UNCHANGED expanded
     ELSE /\ expanded' = [node |-> Head(queue).node, steps |-> Head(queue).steps,
                          moves |-> SafeMoves(Head(queue).node, food)]
          /\ UNCHANGED bounded
  /\ UNCHANGED <<at, todo, actions, visited, nodes, trapping, ranks, position>>

(* No node may be added: the search is over.                               *)
RunOutOfNodes ==
  /\ Trying /\ nodes >= MaxNodes
  /\ bounded' = TRUE /\ queue' = <<>> /\ expanded' = NothingExpanded
  /\ UNCHANGED <<at, todo, actions, visited, nodes, trapping, ranks, position>>

NextNode == Advance(expanded.node, Head(expanded.moves), food)
Eats == AteFood(expanded.node, Head(expanded.moves), food)

FindFood ==
  /\ Trying /\ nodes < MaxNodes /\ Eats /\ SafeMeal(NextNode)
  /\ Return([Planned("proven_safe_food", NextNode, expanded.steps + 1)
               EXCEPT !.nodes = nodes + 1])

TryMove ==
  /\ Trying /\ nodes < MaxNodes /\ ~(Eats /\ SafeMeal(NextNode))
  /\ nodes' = nodes + 1
  /\ trapping' = (trapping \/ Eats)
  /\ IF Eats \/ NextNode \in visited
     THEN UNCHANGED <<queue, visited>>
     ELSE /\ visited' = visited \cup {NextNode}
          /\ queue' = Append(queue, [node |-> NextNode, steps |-> expanded.steps + 1])
  /\ expanded' = [expanded EXCEPT !.moves = Tail(@)]
  /\ UNCHANGED <<at, todo, actions, bounded, ranks, position>>

(* Faulty: a trap seen before the search was cut decides.                 *)
FalseVerdict ==
  IF trapping THEN "trapping_food" ELSE IF bounded THEN "bounded_unknown"
  ELSE "proven_no_safe_food"

Verdict ==
  IF bounded THEN "bounded_unknown" ELSE IF trapping THEN "trapping_food"
  ELSE "proven_no_safe_food"

GiveUp ==
  /\ at = "search" /\ expanded.moves = <<>> /\ queue = <<>>
  /\ Return(Planned(Verdict, First, 0))

-----------------------------------------------------------------------------
(* Ranking *)

(* Faulty: prefers the longer of two proven paths.                         *)
RankKeyOfLongest(plan) ==
  IF plan.status = "proven_safe_food"
  THEN <<3, plan.steps, plan.escape, plan.room, plan.survival, plan.cells>>
  ELSE <<IF plan.status = "bounded_unknown" THEN 2 ELSE 1,
         plan.survival, plan.cells, plan.moves, -plan.distance, 0>>

RankKey(plan) ==
  IF plan.status = "proven_safe_food"
  THEN <<3, -plan.steps, plan.escape, plan.room, plan.survival, plan.cells>>
  ELSE <<IF plan.status = "bounded_unknown" THEN 2 ELSE 1,
         plan.survival, plan.cells, plan.moves, -plan.distance, 0>>

Exceeds(a, b) ==
  \E i \in DOMAIN a : a[i] > b[i] /\ \A j \in 1 .. i - 1 : a[j] = b[j]

Rank ==
  /\ at = "evaluate" /\ todo = <<>>
  /\ LET keys == {RankKey(actions[d]) : d \in DOMAIN actions}
     IN ranks' = [d \in DOMAIN actions |->
                    1 + Cardinality({k \in keys : Exceeds(k, RankKey(actions[d]))})]
  /\ at' = "ranked"
  /\ UNCHANGED <<todo, actions, search, position>>

Complete == \A d \in DOMAIN actions : actions[d].status # "bounded_unknown"
BestActions == {d \in DOMAIN ranks : ranks[d] = 1}

-----------------------------------------------------------------------------

PlannerInit ==
  /\ \E p \in Positions : snake = p.snake /\ direction = p.direction /\ food = p.food
  /\ controller = "scripted" /\ mode = "start" /\ alive = TRUE
  /\ score = Len(snake) - 3 /\ recent = <<Head(snake)>>
  /\ at = "evaluate" /\ todo = InOrder(SafeDirections)
  /\ actions = <<>> /\ ranks = <<>>
  /\ queue = <<>> /\ visited = {} /\ nodes = 0
  /\ bounded = FALSE /\ trapping = FALSE /\ expanded = NothingExpanded

PlannerNext ==
  EatFirst \/ StartSearch \/ TakeNode \/ RunOutOfNodes \/ FindFood \/ TryMove \/ GiveUp \/ Rank

PlannerSpec == PlannerInit /\ [][PlannerNext]_<<planner, position>>

-----------------------------------------------------------------------------
(* Properties *)

Moved(s, d) == Node(<<Ahead(Head(s.body), d)>> \o Front(s.body), d)
Grown(s, d) == Node(<<Ahead(Head(s.body), d)>> \o s.body, d)
Allowed(s, meal) == SafeFrom(s.body, s.facing, meal)

(* Plays of the game after first move d: where the snake can be after      *)
(* exactly n moves without a meal, and having its first meal on move n.    *)
Horizon == MaxDepth + 2
Going(states, meal) == UNION {{Moved(t, e) : e \in Allowed(t, meal)} : t \in states}
Hungry(d) ==
  LET hungry[n \in 1 .. Horizon] ==
        IF n = 1 THEN IF EatsFood(d) THEN {} ELSE {Moved(Base, d)}
        ELSE {s \in Going(hungry[n - 1], food) : Head(s.body) # food}
  IN hungry

Eating(t) == {Grown(t, e) : e \in {e \in Allowed(t, food) : Ahead(Head(t.body), e) = food}}
Meals(d) ==
  LET hungry == Hungry(d)
  IN [n \in 1 .. Horizon |->
        IF n > 1 THEN UNION {Eating(t) : t \in hungry[n - 1]}
        ELSE IF EatsFood(d) THEN {Grown(Base, d)} ELSE {}]

(* The snake can go on for so many moves, new food left aside.             *)
Living(s, moves) ==
  LET living[k \in 0 .. moves] == IF k = 0 THEN {s} ELSE Going(living[k - 1], NoFood)
  IN living
Lives(s, moves) == Living(s, moves)[moves] # {}

Good(s) == ToSet(s.body) = Cells \/ Lives(s, EscapeHorizon)
GoodMoves(d) == {n \in 1 .. Horizon : \E s \in Meals(d)[n] : Good(s)}

VerdictHolds(d, plan) ==
  LET good == GoodMoves(d)
  IN CASE plan.status = "proven_safe_food" -> good # {} /\ plan.steps = Min(good)
       [] plan.status = "trapping_food" -> good = {} /\ \E n \in 1 .. Horizon : Meals(d)[n] # {}
       [] plan.status = "proven_no_safe_food" -> \A n \in 1 .. Horizon : Meals(d)[n] = {}
       [] plan.status = "bounded_unknown" ->
            plan.nodes = MaxNodes \/ \A n \in good : n > MaxDepth

(* A verdict of the search is what SnakeGame's own rules say: the earliest *)
(* meal that leaves a way on; or that all meals trap; or that there is     *)
(* none, even past the depth bound.  A search that was cut says so, and    *)
(* only claims not to have seen what lies within the depth bound.          *)
VerdictsHold == at = "ranked" => \A d \in DOMAIN actions : VerdictHolds(d, actions[d])

(* When every move is resolved, the moves called best are those with the   *)
(* shortest safe way to food, if any has one; and every safe move of the   *)
(* game is ranked.                                                         *)
BestMovesAreBest ==
  at = "ranked" =>
    /\ DOMAIN actions = SafeDirections
    /\ SafeDirections # {} => BestActions # {}
    /\ Complete => \A b \in BestActions, d \in SafeDirections :
         GoodMoves(d) # {} => GoodMoves(b) # {} /\ Min(GoodMoves(b)) <= Min(GoodMoves(d))
=============================================================================

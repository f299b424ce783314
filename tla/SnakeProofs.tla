----------------------------- MODULE SnakeProofs -----------------------------
(***************************************************************************)
(* What SnakeGame promises on every board and for every window of          *)
(* remembered heads; what SnakeEpisode promises of episodes of any length  *)
(* and videos of any of their traces; and what the verdicts and the ranks  *)
(* of SnakePlanner mean, on every board, from every position, within any   *)
(* bounds.                                                                 *)
(***************************************************************************)
EXTENDS SnakePlanner, SnakeEpisode, TotalsProofs, FiniteSetTheorems, SequenceTheorems

-----------------------------------------------------------------------------
(* SnakeGame *)

(* A living game has a head on the board, and food to look for.            *)
Playable ==
  /\ snake \in Seq(Cells) /\ snake # <<>>
  /\ direction \in Directions /\ alive \in BOOLEAN
  /\ food \in Cells \cup {NoFood}
  /\ alive => food # NoFood
  /\ score \in Nat

(* Food appears on the board, or nowhere.                                 *)
LEMMA SpawnedFood == ASSUME NEW body PROVE SpawnFood(body) \subseteq Cells \cup {NoFood}
BY DEF SpawnFood

(* Whether a cell is on the board is asked in two forms.                   *)
LEMMA OffBoardIsOutside ==
  ASSUME NEW cell \in Cells, NEW d \in Directions
  PROVE  LET to == Ahead(cell, d)
         IN /\ OffBoard(to[1], to[2]) <=> to \notin Cells
            /\ to \in Int \X Int
<1>1. cell[1] \in Int /\ cell[2] \in Int
  BY SnakeAssumption DEF Cells
<1>2. Delta[d][1] \in Int /\ Delta[d][2] \in Int
  BY DEF Directions, Delta
<1> QED
  BY <1>1, <1>2, SnakeAssumption DEF Ahead, OffBoard, Cells

(* A new game is playable: its snake fits, and food finds a cell.         *)
LEMMA StartPlayable == Init => Playable
<1> SUFFICES ASSUME Init PROVE Playable
  OBVIOUS
<1>1. Width \div 2 \in 2 .. Width - 1 /\ Height \div 2 \in 0 .. Height - 1
  BY SnakeAssumption
<1>2. Start \in Seq(Cells) /\ Start # <<>>
  BY <1>1, SnakeAssumption DEF Start, Cells
<1>3. ToSet(Start) # Cells /\ ~(Cells \subseteq ToSet(Start))
  <2>1. <<Width - 1, 0>> \in Cells
    BY SnakeAssumption DEF Cells
  <2>2. <<Width - 1, 0>> \notin ToSet(Start)
    BY <1>1, SnakeAssumption DEF Start, ToSet
  <2> QED BY <2>1, <2>2
<1>4. food \in Cells
  BY <1>3 DEF Init, SpawnFood
<1> QED
  BY <1>2, <1>4, NoFoodAssumption DEF Init, Playable, Directions

(* What a move does to the game, and why the filter foretold it.           *)
LEMMA StepKeeps ==
  ASSUME Playable, alive, NEW d \in Directions, Step(d)
  PROVE  Playable' /\ (d \in SafeDirections <=> (alive' \/ food' = NoFood))
<1> DEFINE to == Ahead(Head(snake), d)
<1>1. Head(snake) \in Cells
  BY DEF Playable
<1>2. OffBoard(to[1], to[2]) <=> to \notin Cells
  BY <1>1, OffBoardIsOutside
<1>3. d \in SafeDirections <=>
        /\ to \in Cells
        /\ to \notin ToSet(IF to = food THEN snake ELSE Front(snake))
  BY DEF SafeDirections, SafeFrom, Fails, Step
<1>4. direction' = d
  BY DEF Step
<1>5. CASE Die
  <2>1. d \notin SafeDirections
    <3>1. OffBoard(to[1], to[2])
          \/ to \in ToSet(IF to = food THEN snake ELSE Front(snake))
      <4>1. ASSUME ~OffBoard(to[1], to[2]),
                   to \notin ToSet(IF to = food THEN snake ELSE Front(snake))
            PROVE  FALSE
        <5>1. alive' = (food' # NoFood)
          BY <4>1 DEF Step
        <5>2. alive' = FALSE /\ food' = food
          BY <1>5 DEF Die
        <5> QED BY <5>1, <5>2 DEF Playable
      <4> QED BY <4>1
    <3> QED BY <1>2, <1>3, <3>1
  <2>2. Playable'
    BY <1>4, <1>5 DEF Die, Playable
  <2>3. ~alive' /\ food' # NoFood
    BY <1>5 DEF Die, Playable
  <2> QED BY <2>1, <2>2, <2>3
<1>6. CASE ~Die
  <2>1. /\ ~OffBoard(to[1], to[2])
        /\ to \notin ToSet(IF to = food THEN snake ELSE Front(snake))
        /\ IF to = food THEN Eat(to) ELSE Slide(to)
        /\ alive' = (food' # NoFood)
    BY <1>6 DEF Step
  <2>2. d \in SafeDirections
    BY <1>2, <1>3, <2>1
  <2>3. to \in Cells
    BY <1>2, <2>1
  <2>4. food' \in Cells \cup {NoFood}
    BY <2>1, SpawnedFood DEF Eat, Slide, Playable
  <2>5. snake' \in Seq(Cells) /\ snake' # <<>>
    <3>1. CASE to = food
      <4>1. snake' = <<to>> \o snake
        BY <2>1, <3>1 DEF Eat
      <4>2. <<to>> \in Seq(Cells) /\ Len(<<to>>) = 1
        BY <2>3
      <4> HIDE DEF to
      <4> QED BY <4>1, <4>2 DEF Playable
    <3>2. CASE to # food
      <4>1. Front(snake) \in Seq(Cells)
        BY DEF Front, Playable
      <4> QED BY <2>1, <2>3, <3>2, <4>1 DEF Slide
    <3> QED BY <3>1, <3>2
  <2>6. score' \in Nat
    BY <2>1 DEF Eat, Slide, Playable
  <2>7. Playable'
    BY <1>4, <2>1, <2>4, <2>5, <2>6 DEF Playable
  <2> QED BY <2>1, <2>2, <2>7
<1> QED BY <1>5, <1>6

(* Every way to decide a move is one step in some direction.               *)
LEMMA MoveIsStep ==
  ASSUME Next
  PROVE  alive /\ \E d \in Directions \cup {direction} : Step(d)
BY DEF Next, PolicyMove, ModelMove, SingleSafeMove, NoSafeMove, ScriptedMove,
       Chosen, Play, FoodMoves, SafeDirections, SafeFrom

(* No move, whoever decides it, makes a game unplayable.                  *)
LEMMA NextKeeps == ASSUME Playable, [Next]_vars PROVE Playable'
<1>1. CASE Next
  BY <1>1, MoveIsStep, StepKeeps DEF Playable
<1>2. CASE UNCHANGED vars
  BY <1>2 DEF vars, Playable
<1> QED BY <1>1, <1>2

(* A living game always has its head on the board and food to look for.    *)
THEOREM AlwaysPlayable == Spec => []Playable
<1>1. Init => Playable
  BY StartPlayable
<1>2. Playable /\ [Next]_vars => Playable'
  BY NextKeeps
<1> QED BY <1>1, <1>2, PTL DEF Spec

(* A direction the filter offers never kills, one it withholds always      *)
(* would, on every board and whoever chooses.                              *)
THEOREM FilterExact == Spec => FilterIsExact
<1>1. Playable /\ [Next]_vars =>
        [ direction' \in SafeDirections <=> (alive' \/ food' = NoFood) ]_vars
  <2> SUFFICES ASSUME Playable, Next
               PROVE  direction' \in SafeDirections <=> (alive' \/ food' = NoFood)
    OBVIOUS
  <2>1. PICK d \in Directions : alive /\ Step(d)
    BY MoveIsStep DEF Playable
  <2>2. direction' = d
    BY <2>1 DEF Step
  <2> QED BY <2>1, <2>2, StepKeeps
<1> QED BY <1>1, AlwaysPlayable, PTL DEF Spec, FilterIsExact

-----------------------------------------------------------------------------
(* Foresight *)

(* The cells of a body without its tail are cells of the body.            *)
LEMMA FrontIsPart ==
  ASSUME NEW body \in Seq(Cells), body # <<>>
  PROVE  ToSet(Front(body)) \subseteq ToSet(body)
<1>1. Len(body) \in Nat \ {0} /\ DOMAIN body = 1 .. Len(body)
  OBVIOUS
<1>2. Front(body) = SubSeq(body, 1, Len(body) - 1)
  BY DEF Front
<1>3. DOMAIN Front(body) = 1 .. Len(body) - 1
  BY <1>1, <1>2
<1>4. \A k \in DOMAIN Front(body) : k \in DOMAIN body /\ Front(body)[k] = body[k]
  BY <1>1, <1>2, <1>3
<1> QED BY <1>4 DEF ToSet

(* Food the snake does not cover makes no direction safer or less safe.    *)
LEMMA UncoveredFoodIsIrrelevant ==
  ASSUME NEW body \in Seq(Cells), body # <<>>, NEW facing \in Directions,
         NEW meal \in SpawnFood(body)
  PROVE  SafeFrom(body, facing, meal) = SafeFrom(body, facing, NoFood)
<1>1. meal = NoFood \/ meal \notin ToSet(body)
  BY DEF SpawnFood
<1>2. ToSet(Front(body)) \subseteq ToSet(body)
  BY FrontIsPart
<1>3. ASSUME NEW d \in Directions
      PROVE  Fails(body, facing, d, meal) <=> Fails(body, facing, d, NoFood)
  <2> DEFINE to == Ahead(Head(body), d)
  <2>1. CASE to \notin Cells
    BY <2>1 DEF Fails
  <2>2. CASE to \in Cells
    <3>1. to # NoFood
      BY <2>2, NoFoodAssumption
    <3>2. CASE to = meal
      <4>1. to \notin ToSet(body) /\ to \notin ToSet(Front(body))
        BY <1>1, <1>2, <3>1, <3>2
      <4> QED BY <3>1, <3>2, <4>1 DEF Fails
    <3>3. CASE to # meal
      BY <3>1, <3>3 DEF Fails
    <3> QED BY <3>2, <3>3
  <2> QED BY <2>1, <2>2
<1> QED BY <1>3 DEF SafeFrom

(* A step in a safe direction does what the projection of it says.        *)
LEMMA ForetoldStep ==
  ASSUME Playable, alive, NEW d \in Directions, Step(d), d \in SafeDirections
  PROVE  /\ score' = score + (IF EatsFood(d) THEN 1 ELSE 0)
         /\ SafeDirections' = SafeAfter(d)
<1> DEFINE to == Ahead(Head(snake), d)
<1>1. Playable' /\ (alive' \/ food' = NoFood) /\ direction' = d
  BY StepKeeps DEF Step
<1>2. IF to = food THEN Eat(to) ELSE Slide(to)
  <2>1. Head(snake) \in Cells
    BY DEF Playable
  <2>2. /\ ~OffBoard(to[1], to[2])
        /\ to \notin ToSet(IF to = food THEN snake ELSE Front(snake))
    BY <2>1, OffBoardIsOutside DEF SafeDirections, SafeFrom, Fails
  <2> QED BY <2>2 DEF Step
<1>3. CASE EatsFood(d)
  <2>1. snake' = BodyAfter(d) /\ food' \in SpawnFood(snake') /\ score' = score + 1
    BY <1>2, <1>3 DEF Eat, EatsFood, BodyAfter
  <2>2. SafeDirections' = SafeFrom(snake', d, food')
    BY <1>1 DEF SafeDirections
  <2>3. SafeFrom(snake', d, food') = SafeFrom(snake', d, NoFood)
    BY <1>1, <2>1, UncoveredFoodIsIrrelevant DEF Playable
  <2>4. SafeAfter(d) = SafeFrom(BodyAfter(d), d, NoFood)
    BY <1>3 DEF SafeAfter
  <2> QED BY <1>3, <2>1, <2>2, <2>3, <2>4
<1>4. CASE ~EatsFood(d)
  <2>1. snake' = BodyAfter(d) /\ food' = food /\ score' = score
    BY <1>2, <1>4 DEF Slide, EatsFood, BodyAfter
  <2>2. SafeDirections' = SafeFrom(snake', d, food')
    BY <1>1 DEF SafeDirections
  <2>3. SafeAfter(d) = SafeFrom(BodyAfter(d), d, food)
    BY <1>4 DEF SafeAfter
  <2>4. score' = score + 0
    BY <2>1 DEF Playable
  <2> QED BY <1>4, <2>1, <2>2, <2>3, <2>4
<1> QED BY <1>3, <1>4

(* What the sensors say of a direction offered is what the next decision   *)
(* finds, on every board.                                                  *)
THEOREM SensorsForetellAlways == Spec => SensorsForetell
<1>1. Playable /\ [Next]_vars =>
        [ direction' \in SafeDirections =>
            /\ score' = score + (IF EatsFood(direction') THEN 1 ELSE 0)
            /\ SafeDirections' = SafeAfter(direction') ]_vars
  <2> SUFFICES ASSUME Playable, Next, direction' \in SafeDirections
               PROVE  /\ score' = score + (IF EatsFood(direction') THEN 1 ELSE 0)
                      /\ SafeDirections' = SafeAfter(direction')
    OBVIOUS
  <2>1. PICK d \in Directions : alive /\ Step(d)
    BY MoveIsStep DEF Playable
  <2>2. direction' = d
    BY <2>1 DEF Step
  <2> QED BY <2>1, <2>2, ForetoldStep
<1> QED BY <1>1, AlwaysPlayable, PTL DEF Spec, SensorsForetell

(* The adjacent-food policy never eats into a dead end, on every board.     *)
THEOREM PolicyAlwaysLeavesExit == Spec => PolicyLeavesExit
<1>1. Playable /\ [Next]_vars =>
        [ mode' = "policy" =>
            /\ alive' \/ food' = NoFood
            /\ score' = score + 1 /\ SafeDirections' # {} ]_vars
  <2> SUFFICES ASSUME Playable, Next, mode' = "policy"
               PROVE  /\ alive' \/ food' = NoFood
                      /\ score' = score + 1 /\ SafeDirections' # {}
    OBVIOUS
  <2>1. PICK d \in FoodMoves : alive /\ Step(d)
    BY DEF Next, PolicyMove, ModelMove, SingleSafeMove, NoSafeMove, ScriptedMove,
           Chosen, Play
  <2>2. d \in SafeDirections /\ d \in Directions /\ EatsFood(d) /\ SafeAfter(d) # {}
    BY DEF FoodMoves, SafeDirections, SafeFrom
  <2> QED BY <2>1, <2>2, StepKeeps, ForetoldStep
<1> QED BY <1>1, AlwaysPlayable, PTL DEF Spec, PolicyLeavesExit

-----------------------------------------------------------------------------
(* The body *)

(* A path of cells that never meets itself.                                *)
Path(body) ==
  /\ body \in Seq(Cells) /\ body # <<>> /\ IsInjective(body)
  /\ \A k \in 1 .. Len(body) - 1 : Adjacent(body[k], body[k + 1])

(* The cell a step leaves is next to the one it reaches.                  *)
LEMMA StepBack ==
  ASSUME NEW cell \in Cells, NEW d \in Directions
  PROVE  Adjacent(Ahead(cell, d), cell)
<1>1. cell[1] \in Int /\ cell[2] \in Int /\ cell = <<cell[1], cell[2]>>
  BY SnakeAssumption DEF Cells
<1>2. Opposite[d] \in Directions /\ cell = Ahead(Ahead(cell, d), Opposite[d])
  BY <1>1 DEF Directions, Opposite, Ahead, Delta
<1> QED BY <1>2 DEF Adjacent

(* A new head in front of a path, on a cell the path does not cover.       *)
LEMMA LongerPath ==
  ASSUME NEW body, Path(body), NEW to \in Cells, to \notin ToSet(body),
         Adjacent(to, Head(body))
  PROVE  LET longer == <<to>> \o body
         IN /\ Path(longer) /\ Len(longer) = Len(body) + 1
            /\ longer[1] = to /\ longer[2] = Head(body)
            /\ ToSet(longer) = ToSet(body) \cup {to}
<1> DEFINE longer == <<to>> \o body
<1>1. /\ body \in Seq(Cells) /\ body # <<>> /\ Len(body) \in Nat \ {0}
      /\ DOMAIN body = 1 .. Len(body) /\ Head(body) = body[1]
  BY DEF Path
<1>2. /\ longer \in Seq(Cells) /\ longer # <<>> /\ Len(longer) = Len(body) + 1
      /\ DOMAIN longer = 1 .. Len(body) + 1
  BY <1>1
<1>3. /\ longer[1] = to
      /\ \A k \in 1 .. Len(body) : longer[k + 1] = body[k]
      /\ \A k \in 2 .. Len(body) + 1 : longer[k] = body[k - 1]
  BY <1>1
<1> HIDE DEF longer
<1>4. ToSet(longer) = ToSet(body) \cup {to}
  <2>1. ToSet(longer) \subseteq ToSet(body) \cup {to}
    <3> SUFFICES ASSUME NEW k \in 1 .. Len(body) + 1
                 PROVE  longer[k] \in ToSet(body) \cup {to}
      BY <1>2 DEF ToSet
    <3>1. k = 1 \/ (k \in 2 .. Len(body) + 1 /\ k - 1 \in 1 .. Len(body))
      BY <1>1
    <3> QED BY <1>1, <1>3, <3>1 DEF ToSet
  <2>2. to \in ToSet(longer)
    BY <1>1, <1>2, <1>3 DEF ToSet
  <2>3. ToSet(body) \subseteq ToSet(longer)
    <3> SUFFICES ASSUME NEW k \in 1 .. Len(body) PROVE body[k] \in ToSet(longer)
      BY <1>1 DEF ToSet
    <3>1. k + 1 \in 1 .. Len(body) + 1
      BY <1>1
    <3> QED BY <1>2, <1>3, <3>1 DEF ToSet
  <2> QED BY <2>1, <2>2, <2>3
<1>5. IsInjective(longer)
  <2> SUFFICES ASSUME NEW j \in 1 .. Len(body) + 1, NEW k \in 1 .. Len(body) + 1,
                      longer[j] = longer[k]
               PROVE  j = k
    BY <1>2 DEF IsInjective
  <2>1. ASSUME NEW i \in 2 .. Len(body) + 1
        PROVE  i - 1 \in 1 .. Len(body) /\ longer[i] = body[i - 1] /\ longer[i] # to
    <3>1. i - 1 \in 1 .. Len(body) /\ longer[i] = body[i - 1]
      BY <1>1, <1>3
    <3> QED BY <1>1, <3>1 DEF ToSet
  <2>2. CASE j = 1 \/ k = 1
    BY <1>1, <1>3, <2>1, <2>2
  <2>3. CASE j # 1 /\ k # 1
    <3>1. j \in 2 .. Len(body) + 1 /\ k \in 2 .. Len(body) + 1
      BY <1>1, <2>3
    <3>2. body[j - 1] = body[k - 1] /\ j - 1 \in DOMAIN body /\ k - 1 \in DOMAIN body
      BY <1>1, <2>1, <3>1
    <3>3. j - 1 = k - 1
      BY <3>2 DEF Path, IsInjective
    <3> QED BY <3>3
  <2> QED BY <2>2, <2>3
<1>6. ASSUME NEW k \in 1 .. Len(longer) - 1 PROVE Adjacent(longer[k], longer[k + 1])
  <2>1. k \in 1 .. Len(body) /\ longer[k + 1] = body[k]
    BY <1>1, <1>2, <1>3
  <2>2. CASE k = 1
    BY <1>1, <1>3, <2>1, <2>2
  <2>3. CASE k # 1
    <3>1. k - 1 \in 1 .. Len(body) - 1 /\ longer[k] = body[k - 1] /\ k = (k - 1) + 1
      BY <1>1, <1>3, <2>1, <2>3
    <3> QED BY <2>1, <3>1 DEF Path
  <2> QED BY <2>2, <2>3
<1>7. longer[2] = Head(body)
  BY <1>1, <1>3
<1> QED BY <1>2, <1>3, <1>4, <1>5, <1>6, <1>7 DEF Path, longer

(* A path without its last cell is a path with the same head.             *)
LEMMA FrontIsPath ==
  ASSUME NEW body, Path(body), Len(body) > 1
  PROVE  /\ Path(Front(body)) /\ Len(Front(body)) = Len(body) - 1
         /\ Head(Front(body)) = Head(body)
<1>1. /\ body \in Seq(Cells) /\ Len(body) \in Nat /\ Len(body) > 1
      /\ DOMAIN body = 1 .. Len(body) /\ Head(body) = body[1]
  BY DEF Path
<1>2. Front(body) = SubSeq(body, 1, Len(body) - 1)
  BY DEF Front
<1>3. /\ Front(body) \in Seq(Cells) /\ Len(Front(body)) = Len(body) - 1
      /\ DOMAIN Front(body) = 1 .. Len(body) - 1
      /\ \A k \in 1 .. Len(body) - 1 : Front(body)[k] = body[k]
  BY <1>1, <1>2
<1>4. Front(body) # <<>> /\ Head(Front(body)) = Head(body)
  BY <1>1, <1>3
<1>5. IsInjective(Front(body))
  BY <1>1, <1>3 DEF Path, IsInjective
<1>6. \A k \in 1 .. Len(Front(body)) - 1 : Adjacent(Front(body)[k], Front(body)[k + 1])
  BY <1>1, <1>3 DEF Path
<1> QED BY <1>3, <1>4, <1>5, <1>6 DEF Path

(* What AlwaysWellFormed is proved by induction on.                        *)
BodyInv == Playable /\ BodyWellFormed

(* The snake of the invariant is a path of at least three cells.          *)
LEMMA BodyIsPath ==
  ASSUME BodyInv
  PROVE  Path(snake) /\ Len(snake) >= 3 /\ Len(snake) = 3 + score
BY DEF BodyInv, Playable, BodyWellFormed, Path

(* A new game starts with a path and food beside it.                      *)
LEMMA StartBody == Init => BodyInv
<1> SUFFICES ASSUME Init PROVE BodyInv
  OBVIOUS
<1>1. Playable
  BY StartPlayable
<1> DEFINE cx == Width \div 2  cy == Height \div 2
<1>2. cx \in 2 .. Width - 1 /\ cy \in 0 .. Height - 1 /\ cx \in Int /\ cy \in Int
  BY SnakeAssumption
<1>3. snake = << <<cx, cy>>, <<cx - 1, cy>>, <<cx - 2, cy>> >> /\ score = 0
  BY DEF Init, Start
<1> HIDE DEF cx, cy
<1>4. Len(snake) = 3 + score /\ IsInjective(snake)
  BY <1>2, <1>3 DEF IsInjective
<1>5. Ahead(<<cx - 1, cy>>, "right") = <<cx, cy>>
  BY <1>2 DEF Ahead, Delta
<1>6. Adjacent(<<cx, cy>>, <<cx - 1, cy>>) /\ Adjacent(<<cx - 1, cy>>, <<cx - 2, cy>>)
  <2>1. Ahead(<<cx, cy>>, "left") = <<cx - 1, cy>>
    BY <1>2 DEF Ahead, Delta
  <2>2. Ahead(<<cx - 1, cy>>, "left") = <<cx - 2, cy>>
    BY <1>2 DEF Ahead, Delta
  <2> QED BY <2>1, <2>2 DEF Adjacent, Directions
<1>7. \A k \in 1 .. Len(snake) - 1 : Adjacent(snake[k], snake[k + 1])
  <2>1. snake[1] = <<cx, cy>> /\ snake[2] = <<cx - 1, cy>> /\ snake[3] = <<cx - 2, cy>>
    BY <1>3
  <2>2. Len(snake) = 3
    BY <1>3
  <2>3. \A k \in 1 .. Len(snake) - 1 : k = 1 \/ k = 2
    BY <2>2
  <2> QED BY <1>6, <2>1, <2>3
<1>8. food # NoFood /\ food \notin ToSet(snake) /\ food \in Cells
  <2>1. food \in SpawnFood(snake) /\ alive
    BY DEF Init
  <2>2. food # NoFood /\ food \in Cells
    BY <1>1, <2>1 DEF Playable
  <2> QED BY <2>1, <2>2 DEF SpawnFood
<1>9. Head(snake) = Ahead(snake[2], direction)
  BY <1>3, <1>5 DEF Init
<1> QED
  BY <1>1, <1>4, <1>7, <1>8, <1>9 DEF BodyInv, BodyWellFormed

(* A step that kills leaves the snake; any other makes a path of it again.*)
LEMMA StepKeepsBody ==
  ASSUME BodyInv, alive, NEW d \in Directions, Step(d)
  PROVE  BodyInv'
<1> DEFINE to == Ahead(Head(snake), d)
<1>1. Playable' /\ direction' = d
  BY StepKeeps DEF BodyInv, Step
<1>2. /\ Path(snake) /\ Len(snake) >= 3 /\ Len(snake) = 3 + score
      /\ Head(snake) \in Cells /\ score \in Nat
  BY BodyIsPath DEF BodyInv, Playable
<1>3. food # NoFood /\ food \in Cells /\ food \notin ToSet(snake)
  BY DEF BodyInv, Playable, BodyWellFormed
<1>4. CASE Die
  <2>1. snake' = snake /\ food' = food /\ score' = score /\ alive' = FALSE
    BY <1>4 DEF Die
  <2> QED BY <1>1, <2>1 DEF BodyInv, BodyWellFormed
<1>5. CASE ~Die
  <2>1. /\ ~OffBoard(to[1], to[2])
        /\ to \notin ToSet(IF to = food THEN snake ELSE Front(snake))
        /\ IF to = food THEN Eat(to) ELSE Slide(to)
        /\ alive' = (food' # NoFood)
    BY <1>5 DEF Step
  <2>2. to \in Cells
    BY <1>2, <2>1, OffBoardIsOutside
  <2>3. Adjacent(to, Head(snake))
    BY <1>2, StepBack
  <2> DEFINE rest == IF to = food THEN snake ELSE Front(snake)
  <2>4. /\ Path(rest) /\ Head(rest) = Head(snake) /\ to \notin ToSet(rest)
        /\ Len(rest) = IF to = food THEN Len(snake) ELSE Len(snake) - 1
    BY <1>2, <2>1, FrontIsPath
  <2>5. snake' = <<to>> \o rest
    BY <2>1 DEF Eat, Slide
  <2> HIDE DEF rest, to
  <2>6. /\ Path(snake') /\ Len(snake') = Len(rest) + 1
        /\ snake'[1] = to /\ snake'[2] = Head(snake)
        /\ ToSet(snake') = ToSet(rest) \cup {to}
    BY <2>2, <2>3, <2>4, <2>5, LongerPath
  <2>7. Len(snake') = 3 + score'
    <3>1. CASE to = food
      BY <1>2, <2>1, <2>4, <2>6, <3>1 DEF Eat
    <3>2. CASE to # food
      BY <1>2, <2>1, <2>4, <2>6, <3>2 DEF Slide
    <3> QED BY <3>1, <3>2
  <2>8. /\ food' \notin ToSet(snake')
        /\ food' = NoFood <=> ToSet(snake') = Cells
    <3>1. ToSet(snake') \subseteq Cells
      BY <2>6 DEF Path, ToSet
    <3>2. CASE to = food
      BY <2>1, <3>1, <3>2, NoFoodAssumption DEF Eat, SpawnFood
    <3>3. CASE to # food
      <4>1. food' = food
        BY <2>1, <3>3 DEF Slide
      <4>2. ToSet(rest) \subseteq ToSet(snake)
        BY <1>2, FrontIsPart DEF rest, Path
      <4> QED BY <1>3, <2>6, <3>3, <4>1, <4>2
    <3> QED BY <3>2, <3>3
  <2>9. Head(snake') = Ahead(snake'[2], direction')
    <3>1. Head(snake') = to
      BY <2>6 DEF Path
    <3> QED BY <1>1, <2>6, <3>1 DEF to
  <2> QED
    BY <1>1, <2>1, <2>6, <2>7, <2>8, <2>9 DEF BodyInv, BodyWellFormed, Path
<1> QED BY <1>4, <1>5

(* The snake is always one path that never meets itself, food is never     *)
(* under it, and food runs out exactly when it fills the board.            *)
THEOREM AlwaysWellFormed == Spec => []BodyWellFormed
<1>1. Init => BodyInv
  BY StartBody
<1>2. BodyInv /\ [Next]_vars => BodyInv'
  <2> SUFFICES ASSUME BodyInv, [Next]_vars PROVE BodyInv'
    OBVIOUS
  <2>1. CASE Next
    BY <2>1, MoveIsStep, StepKeepsBody DEF BodyInv, Playable
  <2>2. CASE UNCHANGED vars
    BY <2>2 DEF vars, BodyInv, Playable, BodyWellFormed
  <2> QED BY <2>1, <2>2
<1>3. BodyInv => BodyWellFormed
  BY DEF BodyInv
<1> QED BY <1>1, <1>2, <1>3, PTL DEF Spec

-----------------------------------------------------------------------------
(* SnakeEpisode: frames and records *)

(* Division, as of frames by frames for a row.                             *)
LEMMA Quotient ==
  ASSUME NEW h \in Nat \ {0}, NEW q \in Nat, NEW r \in 0 .. h - 1
  PROVE  (q * h + r) \div h = q
OBVIOUS

(* A frame is of one of the rows.                                         *)
LEMMA QuotientBelow ==
  ASSUME NEW h \in Nat \ {0}, NEW x \in Nat, NEW n \in Nat, x < h * n
  PROVE  x \div h \in Nat /\ x \div h < n
<1>1. x \div h < n
  OBVIOUS
<1>2. x \div h \in Int
  OBVIOUS
<1>3. x \div h >= 0
  OBVIOUS
<1> QED BY <1>1, <1>2, <1>3

(* The frames of row i are those from (i - 1) * hold + 1 on, up to i * hold. *)
LEMMA FramesOfRow ==
  ASSUME NEW h \in Nat \ {0}, NEW n \in Nat, NEW i \in 1 .. n,
         NEW k \in (i - 1) * h + 1 .. i * h
  PROVE  k \in 1 .. h * n /\ ((k - 1) \div h) + 1 = i
<1> DEFINE q == i - 1
           m == q * h
           r == k - 1 - m
<1>1. q \in Nat /\ m \in Nat /\ i * h = m + h /\ i * h \in Nat
  OBVIOUS
<1>2. k \in m + 1 .. m + h
  BY <1>1
<1>3. r \in 0 .. h - 1 /\ k - 1 = m + r
  <2> HIDE DEF m
  <2> QED BY <1>1, <1>2
<1>4. (k - 1) \div h = q
  <2> HIDE DEF r
  <2>1. (q * h + r) \div h = q
    BY <1>1, <1>3, Quotient
  <2> QED BY <1>3, <2>1
<1>5. i * h <= h * n
  OBVIOUS
<1>6. k \in 1 .. h * n
  <2>1. h * n \in Nat
    OBVIOUS
  <2> HIDE DEF m
  <2> QED BY <1>1, <1>2, <1>5, <2>1
<1> QED BY <1>4, <1>6

(* What is counted of records is a number.                                 *)
LEMMA RecordFacts ==
  ASSUME NEW records \in Seq(Records)
  PROVE  /\ DecisionsOf(records) \in Nat /\ TokensOf(records) \in Nat
         /\ [k \in DOMAIN records |-> records[k].tokens] \in Seq(Nat)
         /\ Len([k \in DOMAIN records |-> records[k].tokens]) = Len(records)
         /\ IsFiniteSet({k \in DOMAIN records : records[k].mode = "model"})
<1>1. /\ DOMAIN records = 1 .. Len(records) /\ Len(records) \in Nat
      /\ \A k \in 1 .. Len(records) : records[k] \in Records
  <2> HIDE DEF Records
  <2> QED OBVIOUS
<1> DEFINE a == [k \in DOMAIN records |-> records[k].tokens]
           models == {k \in DOMAIN records : records[k].mode = "model"}
<1>2. a \in Seq(Nat) /\ Len(a) = Len(records)
  <2>1. \A k \in 1 .. Len(records) : records[k].tokens \in Nat
    BY <1>1 DEF Records
  <2>2. a = [k \in 1 .. Len(records) |-> records[k].tokens]
    BY <1>1
  <2> QED BY <1>1, <2>1, <2>2
<1>3. IsFiniteSet(models)
  <2>1. models \subseteq 1 .. Len(records) /\ IsFiniteSet(1 .. Len(records))
    BY <1>1, FS_Interval
  <2> QED BY <2>1, FS_Subset
<1>4. DecisionsOf(records) \in Nat
  BY <1>3, FS_CardinalityType DEF DecisionsOf
<1>5. TokensOf(records) \in Nat
  <2> HIDE DEF a
  <2>1. Len(a) \in 0 .. Len(a) /\ a \in Seq(Int)
    BY <1>2
  <2>2. Total(a) \in Nat
    BY <1>2, <2>1, TotalsOfNats, TotalsFacts
  <2> QED BY <2>2 DEF TokensOf, a
<1> QED BY <1>2, <1>3, <1>4, <1>5

(* Of no records there is nothing to count.                                *)
LEMMA NoRecords == DecisionsOf(<<>>) = 0 /\ TokensOf(<<>>) = 0
<1>1. {k \in DOMAIN <<>> : <<>>[k].mode = "model"} = {}
  OBVIOUS
<1>2. DecisionsOf(<<>>) = 0
  BY <1>1, FS_EmptySet DEF DecisionsOf
<1> DEFINE a == [k \in DOMAIN <<>> |-> <<>>[k].tokens]
<1>3. a \in Seq(Int) /\ Len(a) = 0
  <2>1. a = <<>>
    OBVIOUS
  <2> QED BY <2>1
<1>4. Total(a) = 0
  <2> HIDE DEF a
  <2> QED BY <1>3, TotalsFacts
<1> QED BY <1>2, <1>4 DEF TokensOf

(* One record more.                                                        *)
LEMMA OneMoreRecord ==
  ASSUME NEW records \in Seq(Records), NEW r \in Records
  PROVE  /\ Append(records, r) \in Seq(Records)
         /\ Len(Append(records, r)) = Len(records) + 1
         /\ DOMAIN Append(records, r) = 1 .. Len(records) + 1
         /\ Append(records, r)[Len(records) + 1] = r
         /\ \A k \in 1 .. Len(records) : Append(records, r)[k] = records[k]
         /\ DecisionsOf(Append(records, r)) =
              DecisionsOf(records) + (IF r.mode = "model" THEN 1 ELSE 0)
         /\ TokensOf(Append(records, r)) = TokensOf(records) + r.tokens
<1> DEFINE more == Append(records, r)
           n == Len(records)
<1>1. /\ more \in Seq(Records) /\ Len(more) = n + 1 /\ DOMAIN more = 1 .. n + 1
      /\ DOMAIN records = 1 .. n /\ n \in Nat
      /\ more[n + 1] = r /\ \A k \in 1 .. n : more[k] = records[k]
  <2> HIDE DEF Records
  <2> QED OBVIOUS
<1> HIDE DEF more, n
<1> DEFINE a == [k \in DOMAIN records |-> records[k].tokens]
           b == [k \in DOMAIN more |-> more[k].tokens]
<1>2. a \in Seq(Nat) /\ Len(a) = n /\ b \in Seq(Nat) /\ Len(b) = n + 1 /\ r.tokens \in Nat
  <2>1. r.tokens \in Nat
    BY DEF Records
  <2> QED BY <1>1, <2>1, RecordFacts DEF n
<1>3. b = Append(a, r.tokens)
  <2>1. \A k \in 1 .. n : b[k] = a[k]
    BY <1>1
  <2>2. b[n + 1] = r.tokens
    BY <1>1
  <2>3. DOMAIN b = 1 .. n + 1
    BY <1>1
  <2> HIDE DEF a, b
  <2> DEFINE c == Append(a, r.tokens)
  <2>4. c \in Seq(Nat) /\ Len(c) = n + 1 /\ c[n + 1] = r.tokens
        /\ \A k \in 1 .. n : c[k] = a[k]
    BY <1>1, <1>2
  <2> HIDE DEF c
  <2>5. ASSUME NEW k \in 1 .. n + 1 PROVE b[k] = c[k]
    <3>1. CASE k = n + 1
      BY <2>2, <2>4, <3>1
    <3>2. CASE k \in 1 .. n
      BY <2>1, <2>4, <3>2
    <3> QED BY <1>1, <3>1, <3>2
  <2>6. b = c
    BY <1>1, <1>2, <2>4, <2>5, SeqEqual
  <2> QED BY <2>6 DEF c
<1>4. TokensOf(more) = TokensOf(records) + r.tokens
  <2> HIDE DEF a, b
  <2>1. a \in Seq(Int) /\ r.tokens \in Int
    BY <1>2
  <2>2. Total(b) = Total(a) + r.tokens
    BY <1>3, <2>1, TotalOfAppend
  <2> QED BY <2>2 DEF TokensOf, a, b
<1> DEFINE S == {k \in DOMAIN records : records[k].mode = "model"}
           T == {k \in DOMAIN more : more[k].mode = "model"}
<1>5. IsFiniteSet(S) /\ Cardinality(S) \in Nat /\ n + 1 \notin S
  <2>1. n + 1 \notin S
    BY <1>1
  <2> QED BY <2>1, RecordFacts, FS_CardinalityType
<1>6. T = IF r.mode = "model" THEN S \cup {n + 1} ELSE S
  BY <1>1
<1>7. Cardinality(T) = Cardinality(S) + (IF r.mode = "model" THEN 1 ELSE 0)
  <2> HIDE DEF S, T
  <2>1. CASE r.mode = "model"
    BY <1>5, <1>6, <2>1, FS_AddElement
  <2>2. CASE r.mode # "model"
    BY <1>5, <1>6, <2>2
  <2> QED BY <2>1, <2>2
<1>8. DecisionsOf(more) = DecisionsOf(records) + (IF r.mode = "model" THEN 1 ELSE 0)
  BY <1>7 DEF DecisionsOf
<1> QED BY <1>1, <1>4, <1>8 DEF more, n

-----------------------------------------------------------------------------
(* SnakeEpisode: every step keeps the invariant *)

(* The trace, as a sequence, also when there is none.                      *)
LEMMA OwnFacts ==
  ASSUME EpisodeInv
  PROVE  Own \in Seq(Records) /\ DOMAIN Own = 1 .. Len(Own) /\ Len(Own) \in Nat
<1>1. trace = Absent \/ trace \in Seq(Records)
  BY DEF EpisodeInv, EpisodeTypes
<1>2. Own \in Seq(Records)
  <2> HIDE DEF Records
  <2> QED BY <1>1 DEF Own
<1> HIDE DEF Records
<1> QED BY <1>2

(* The two programs share the trace, which only play.py writes.            *)
LEMMA VideoStays ==
  ASSUME EpisodeInv, UNCHANGED video_vars
  PROVE  VideoTypes' /\ FramesOK'
<1>1. /\ renderer' = renderer /\ rows' = rows /\ hold' = hold /\ copied' = copied
      /\ frames' = frames /\ video' = video
  BY DEF video_vars
<1>2. VideoTypes'
  BY <1>1 DEF EpisodeInv, VideoTypes
<1>3. FramesOK'
  BY <1>1, Zenon DEF EpisodeInv, FramesOK, ShowsRows, RowOf
<1> QED BY <1>2, <1>3

(* A rendering leaves the episode as it is.                                *)
LEMMA PlayerStays ==
  ASSUME EpisodeInv, UNCHANGED player_vars
  PROVE  EpisodeTypes' /\ TraceOK' /\ SumsOK' /\ SummaryOK'
<1>1. /\ trace' = trace /\ player' = player /\ game' = game /\ totals' = totals
      /\ evaluated' = evaluated /\ pending' = pending /\ summary' = summary
  BY DEF player_vars
<1>2. Own' = Own /\ MovesMade' = MovesMade
  BY <1>1, Zenon DEF Own, MovesMade
<1>3. EpisodeTypes'
  BY <1>1 DEF EpisodeInv, EpisodeTypes
<1>4. TraceOK'
  BY <1>1, <1>2, Zenon DEF EpisodeInv, TraceOK
<1>5. SumsOK'
  BY <1>1, <1>2, Zenon DEF EpisodeInv, SumsOK
<1>6. SummaryOK'
  BY <1>1, <1>2, Zenon DEF EpisodeInv, SummaryOK
<1> QED BY <1>3, <1>4, <1>5, <1>6

(* A new game begins; the trace is still that of the one before.           *)
LEMMA PlayLaunchKeeps ==
  ASSUME EpisodeInv, NEW limit \in MaxSteps, PlayLaunch(limit)
  PROVE  EpisodeInv'
<1> DEFINE g == [id |-> game.id + 1, steps |-> 0, alive |-> TRUE]
<1>1. /\ player' = "load" /\ summary' = Absent /\ trace' = trace /\ totals' = totals
      /\ evaluated' = evaluated /\ pending' = pending /\ UNCHANGED video_vars
  BY DEF PlayLaunch
<1>2. game' = g
  BY DEF PlayLaunch
<1>3. g \in [id : Nat, steps : Nat, alive : BOOLEAN] /\ g.steps = 0
  BY DEF EpisodeInv, EpisodeTypes
<1> HIDE DEF g
<1>4. Own' = Own
  BY <1>1, Zenon DEF Own
<1>5. EpisodeTypes'
  BY <1>1, <1>2, <1>3 DEF EpisodeInv, EpisodeTypes
<1>6. TraceOK'
  <2>1. \A k \in DOMAIN Own : Own[k].step = k /\ Own[k].id = Own[1].id
    BY DEF EpisodeInv, TraceOK
  <2> QED BY <1>1, <1>2, <1>3, <1>4, <2>1 DEF TraceOK
<1>7. SumsOK'
  BY <1>1 DEF SumsOK
<1>8. SummaryOK'
  BY <1>1 DEF SummaryOK
<1> QED BY <1>1, <1>5, <1>6, <1>7, <1>8, VideoStays DEF EpisodeInv

(* The old trace is given up, and nothing has been counted.                *)
LEMMA BuildScorerKeeps ==
  ASSUME EpisodeInv, BuildScorer
  PROVE  EpisodeInv'
<1>1. /\ player = "load" /\ player' = "decide" /\ trace' = Absent /\ totals' = NoTotals
      /\ evaluated' = 0 /\ game' = game /\ summary' = summary /\ UNCHANGED video_vars
  BY DEF BuildScorer
<1>2. Own' = <<>>
  BY <1>1 DEF Own
<1>3. summary = Absent /\ game.steps = 0
  BY <1>1 DEF EpisodeInv, SummaryOK, TraceOK
<1>4. EpisodeTypes'
  BY <1>1 DEF EpisodeInv, EpisodeTypes, NoTotals
<1>5. TraceOK'
  <2>1. DOMAIN <<>> = {} /\ Len(<<>>) = 0 /\ 0 = 0 + 0
    OBVIOUS
  <2>2. MovesMade' = Len(<<>>) + 0
    BY <1>1, <1>2 DEF MovesMade
  <2>3. MovesMade' = 0
    BY <2>1, <2>2
  <2>4. \A k \in DOMAIN <<>> : FALSE
    OBVIOUS
  <2>5. game'.steps = 0
    BY <1>1, <1>3
  <2> QED BY <1>1, <1>2, <2>3, <2>4, <2>5, Zenon DEF TraceOK
<1>6. SumsOK'
  <2>1. totals' = [decisions |-> DecisionsOf(<<>>), tokens |-> TokensOf(<<>>)]
    BY <1>1, NoRecords, Zenon DEF NoTotals
  <2>2. evaluated' = totals'.tokens
    BY <1>1 DEF NoTotals
  <2> QED BY <1>1, <1>2, <2>1, <2>2 DEF SumsOK
<1>7. SummaryOK'
  BY <1>1, <1>3 DEF SummaryOK
<1> QED BY <1>1, <1>4, <1>5, <1>6, <1>7, VideoStays DEF EpisodeInv

(* A decision is charged in the totals and in its record alike.            *)
LEMMA DecideFacts ==
  ASSUME EpisodeInv, Decide
  PROVE  \E p \in Records, t \in [decisions : Nat, tokens : Nat] :
           /\ pending' = p /\ totals' = t /\ evaluated' = t.tokens
           /\ p.id = game.id /\ p.step = Len(Own) + 1
           /\ t.decisions = DecisionsOf(Own) + (IF p.mode = "model" THEN 1 ELSE 0)
           /\ t.tokens = TokensOf(Own) + p.tokens
<1>1. PICK tokens \in Nat, byModel \in BOOLEAN : Charge(0, tokens, byModel)
  <2>1. Work \subseteq Nat /\ 0 \in Nat
    BY EpisodeAssumption
  <2> QED BY <2>1 DEF Decide
<1>2. charged' = tokens
  <2>1. charged' = 0 + tokens
    BY <1>1 DEF Charge
  <2>2. 0 + tokens = tokens
    OBVIOUS
  <2> QED BY <2>1, <2>2, Zenon
<1> DEFINE p == [id |-> game.id, step |-> game.steps + 1, tokens |-> tokens,
                 mode |-> IF byModel THEN "model" ELSE "deterministic"]
           t == [decisions |-> totals.decisions + (IF byModel THEN 1 ELSE 0),
                 tokens |-> totals.tokens + tokens]
<1>3. pending' = p /\ totals' = t /\ evaluated' = evaluated + tokens
  BY <1>1, <1>2, Zenon DEF Charge
<1>4. player = "decide"
  BY DEF Decide
<1>5. /\ game \in [id : Nat, steps : Nat, alive : BOOLEAN] /\ evaluated \in Nat
      /\ totals \in [decisions : Nat, tokens : Nat]
  BY DEF EpisodeInv, EpisodeTypes
<1>6. game.steps = Len(Own)
  <2>1. game.steps = MovesMade
    BY <1>4 DEF EpisodeInv, TraceOK
  <2> QED BY <1>4, <2>1, OwnFacts DEF MovesMade
<1>7. totals.decisions = DecisionsOf(Own) /\ totals.tokens = TokensOf(Own) /\ evaluated = totals.tokens
  BY <1>4 DEF EpisodeInv, SumsOK
<1>8. /\ p \in Records /\ p.id = game.id /\ p.step = Len(Own) + 1 /\ p.tokens = tokens
      /\ (p.mode = "model") = byModel
  BY <1>5, <1>6 DEF Records
<1>9. /\ t \in [decisions : Nat, tokens : Nat]
      /\ t.decisions = DecisionsOf(Own) + (IF byModel THEN 1 ELSE 0)
      /\ t.tokens = TokensOf(Own) + tokens
      /\ evaluated + tokens = t.tokens
  BY <1>5, <1>7
<1> HIDE DEF p, t
<1>10. evaluated' = t.tokens
  BY <1>3, <1>9, Zenon
<1>11. t.decisions = DecisionsOf(Own) + (IF p.mode = "model" THEN 1 ELSE 0)
  BY <1>8, <1>9
<1>12. t.tokens = TokensOf(Own) + p.tokens
  BY <1>8, <1>9
<1> QED BY <1>3, <1>8, <1>9, <1>10, <1>11, <1>12

(* A decision is made.                                                     *)
LEMMA DecideKeeps ==
  ASSUME EpisodeInv, Decide
  PROVE  EpisodeInv'
<1>1. /\ player = "decide" /\ player' = "move" /\ trace' = trace /\ game' = game
      /\ summary' = summary /\ UNCHANGED video_vars
  BY DEF Decide
<1>2. PICK p \in Records, t \in [decisions : Nat, tokens : Nat] :
        /\ pending' = p /\ totals' = t /\ evaluated' = t.tokens
        /\ p.id = game.id /\ p.step = Len(Own) + 1
        /\ t.decisions = DecisionsOf(Own) + (IF p.mode = "model" THEN 1 ELSE 0)
        /\ t.tokens = TokensOf(Own) + p.tokens
  BY DecideFacts
<1>3. Own' = Own /\ summary = Absent
  <2>1. summary = Absent
    BY <1>1 DEF EpisodeInv, SummaryOK
  <2> QED BY <1>1, <2>1, Zenon DEF Own
<1>4. MovesMade = MovesMade'
  BY <1>1, <1>3 DEF MovesMade
<1>5. EpisodeTypes'
  <2>1. t.tokens \in Nat
    BY <1>2
  <2> QED BY <1>1, <1>2, <2>1 DEF EpisodeInv, EpisodeTypes
<1>6. TraceOK'
  <2>1. /\ \A k \in DOMAIN Own : Own[k].step = k /\ Own[k].id = Own[1].id
        /\ \A k \in DOMAIN Own : Own[k].id = game.id
        /\ game.steps = MovesMade
    BY <1>1 DEF EpisodeInv, TraceOK
  <2> QED BY <1>1, <1>2, <1>3, <1>4, <2>1, Zenon DEF TraceOK
<1>7. SumsOK'
  BY <1>1, <1>2, <1>3, Zenon DEF SumsOK
<1>8. SummaryOK'
  BY <1>1, <1>3 DEF SummaryOK
<1> QED BY <1>1, <1>5, <1>6, <1>7, <1>8, VideoStays DEF EpisodeInv

(* The game is one step ahead of the trace.                                *)
LEMMA MoveKeeps ==
  ASSUME EpisodeInv, Move
  PROVE  EpisodeInv'
<1>1. /\ player = "move" /\ player' = "record" /\ trace' = trace /\ totals' = totals
      /\ evaluated' = evaluated /\ pending' = pending /\ summary' = summary
      /\ UNCHANGED video_vars
  BY DEF Move
<1>2. PICK lives \in BOOLEAN : game' = [game EXCEPT !.steps = @ + 1, !.alive = lives]
  BY DEF Move
<1> DEFINE g == [game EXCEPT !.steps = @ + 1, !.alive = lives]
<1>3. g \in [id : Nat, steps : Nat, alive : BOOLEAN] /\ g.id = game.id /\ g.steps = game.steps + 1
  <2>1. game \in [id : Nat, steps : Nat, alive : BOOLEAN]
    BY DEF EpisodeInv, EpisodeTypes
  <2>2. game.steps + 1 \in Nat
    BY <2>1
  <2>3. DOMAIN g = {"id", "steps", "alive"}
    BY <2>1
  <2>4. g.id = game.id /\ g.alive = lives
    BY <2>1
  <2>5. g.steps = game.steps + 1
    BY <2>1
  <2>6. g = [x \in {"id", "steps", "alive"} |-> g[x]]
    BY <2>1
  <2> HIDE DEF g
  <2>7. g = [id |-> g.id, steps |-> g.steps, alive |-> g.alive]
    BY <2>3, <2>6
  <2> QED BY <2>1, <2>2, <2>4, <2>5, <2>7
<1>4. Own' = Own /\ summary = Absent
  <2>1. summary = Absent
    BY <1>1 DEF EpisodeInv, SummaryOK
  <2> QED BY <1>1, <2>1, Zenon DEF Own
<1>5. g.steps = Len(Own) + 1 /\ MovesMade' = Len(Own) + 1
  <2>1. game.steps = MovesMade
    BY <1>1 DEF EpisodeInv, TraceOK
  <2>2. MovesMade = Len(Own)
    BY <1>1, OwnFacts DEF MovesMade
  <2>3. MovesMade' = Len(Own) + 1
    BY <1>1, <1>4 DEF MovesMade
  <2> QED BY <1>3, <2>1, <2>2, <2>3
<1>6. game' = g
  BY <1>2
<1> HIDE DEF g
<1>7. EpisodeTypes'
  BY <1>1, <1>3, <1>6 DEF EpisodeInv, EpisodeTypes
<1>8. TraceOK'
  <2>1. /\ \A k \in DOMAIN Own : Own[k].step = k /\ Own[k].id = Own[1].id
        /\ \A k \in DOMAIN Own : Own[k].id = game.id
        /\ pending.id = game.id /\ pending.step = Len(Own) + 1
    BY <1>1 DEF EpisodeInv, TraceOK
  <2> QED BY <1>1, <1>3, <1>4, <1>5, <1>6, <2>1, Zenon DEF TraceOK
<1>9. SumsOK'
  <2>1. /\ totals.decisions = DecisionsOf(Own) + (IF pending.mode = "model" THEN 1 ELSE 0)
        /\ totals.tokens = TokensOf(Own) + pending.tokens /\ evaluated = totals.tokens
    BY <1>1 DEF EpisodeInv, SumsOK
  <2> QED BY <1>1, <1>4, <2>1, Zenon DEF SumsOK
<1>10. SummaryOK'
  BY <1>1, <1>4 DEF SummaryOK
<1> QED BY <1>1, <1>7, <1>8, <1>9, <1>10, VideoStays DEF EpisodeInv

(* The record is appended, also when there was no trace yet.               *)
LEMMA AppendTraceKeeps ==
  ASSUME EpisodeInv, AppendTrace
  PROVE  EpisodeInv'
<1>1. /\ player = "record" /\ player' = "decide" /\ game' = game /\ totals' = totals
      /\ evaluated' = evaluated /\ summary' = summary /\ UNCHANGED video_vars
      /\ trace' = IF trace = Absent THEN <<pending>> ELSE Append(trace, pending)
  BY DEF AppendTrace
<1>2. /\ pending \in Records /\ pending.id = game.id /\ pending.step = Len(Own) + 1
      /\ summary = Absent
  BY <1>1 DEF EpisodeInv, EpisodeTypes, TraceOK, SummaryOK
<1> DEFINE more == Append(Own, pending)
<1>3. /\ Own \in Seq(Records) /\ DOMAIN Own = 1 .. Len(Own) /\ Len(Own) \in Nat
  BY OwnFacts
<1>4. /\ more \in Seq(Records) /\ Len(more) = Len(Own) + 1
      /\ DOMAIN more = 1 .. Len(Own) + 1 /\ more[Len(Own) + 1] = pending
      /\ \A k \in 1 .. Len(Own) : more[k] = Own[k]
      /\ DecisionsOf(more) = DecisionsOf(Own) + (IF pending.mode = "model" THEN 1 ELSE 0)
      /\ TokensOf(more) = TokensOf(Own) + pending.tokens
  BY <1>2, <1>3, OneMoreRecord
<1>5. trace' = more
  <2>1. CASE trace = Absent
    BY <1>1, <2>1 DEF Own
  <2>2. CASE trace # Absent
    BY <1>1, <2>2 DEF Own
  <2> QED BY <2>1, <2>2
<1> HIDE DEF more
<1>6. Own' = more
  <2>1. more # Absent
    BY <1>4, EpisodeAssumption
  <2> QED BY <1>5, <2>1 DEF Own
<1>7. EpisodeTypes'
  BY <1>1, <1>4, <1>5 DEF EpisodeInv, EpisodeTypes
<1>8. TraceOK'
  <2>1. /\ \A k \in DOMAIN Own : Own[k].step = k /\ Own[k].id = game.id
        /\ game.steps = MovesMade
    BY <1>1 DEF EpisodeInv, TraceOK
  <2>2. \A k \in DOMAIN more : more[k].step = k /\ more[k].id = game.id
    <3>1. SUFFICES ASSUME NEW k \in 1 .. Len(Own) + 1
                   PROVE  more[k].step = k /\ more[k].id = game.id
      BY <1>4
    <3>2. CASE k = Len(Own) + 1
      BY <1>2, <1>4, <3>2
    <3>3. CASE k \in 1 .. Len(Own)
      BY <1>3, <1>4, <2>1, <3>3
    <3> QED BY <1>3, <3>2, <3>3
  <2>3. 1 \in DOMAIN more
    BY <1>3, <1>4
  <2>4. \A k \in DOMAIN more : more[k].id = more[1].id
    BY <2>2, <2>3
  <2>5. game.steps = Len(more) + 0
    BY <1>1, <1>3, <1>4, <2>1 DEF MovesMade
  <2>6. MovesMade' = Len(more) + 0
    BY <1>1, <1>6 DEF MovesMade
  <2> QED BY <1>1, <1>6, <2>2, <2>4, <2>5, <2>6, Zenon DEF TraceOK
<1>9. SumsOK'
  <2>1. /\ totals.decisions = DecisionsOf(Own) + (IF pending.mode = "model" THEN 1 ELSE 0)
        /\ totals.tokens = TokensOf(Own) + pending.tokens /\ evaluated = totals.tokens
    BY <1>1 DEF EpisodeInv, SumsOK
  <2>2. totals.decisions = DecisionsOf(more) /\ totals.tokens = TokensOf(more)
    BY <1>4, <2>1
  <2>3. totals = [decisions |-> totals.decisions, tokens |-> totals.tokens]
    BY DEF EpisodeInv, EpisodeTypes
  <2>4. totals = [decisions |-> DecisionsOf(more), tokens |-> TokensOf(more)]
    BY <2>2, <2>3, Zenon
  <2> QED BY <1>1, <1>6, <2>1, <2>4, Zenon DEF SumsOK
<1>10. SummaryOK'
  BY <1>1, <1>2 DEF SummaryOK
<1> QED BY <1>1, <1>7, <1>8, <1>9, <1>10, VideoStays DEF EpisodeInv

(* The totals become the summary.                                          *)
LEMMA EndEpisodeKeeps ==
  ASSUME EpisodeInv, EndEpisode
  PROVE  EpisodeInv'
<1>1. /\ player = "decide" /\ player' = "idle" /\ trace' = trace /\ game' = game
      /\ totals' = totals /\ evaluated' = evaluated /\ UNCHANGED video_vars
      /\ summary' = [steps |-> game.steps, decisions |-> totals.decisions, tokens |-> totals.tokens]
  BY DEF EndEpisode
<1>2. Own' = Own
  BY <1>1, Zenon DEF Own
<1>3. EpisodeTypes'
  BY <1>1 DEF EpisodeInv, EpisodeTypes
<1>4. TraceOK'
  <2>1. \A k \in DOMAIN Own : Own[k].step = k /\ Own[k].id = Own[1].id
    BY DEF EpisodeInv, TraceOK
  <2> QED BY <1>1, <1>2, <2>1 DEF TraceOK
<1>5. SumsOK'
  BY <1>1 DEF SumsOK
<1>6. SummaryOK'
  <2>1. game.steps = Len(Own)
    <3>1. game.steps = MovesMade
      BY <1>1 DEF EpisodeInv, TraceOK
    <3> QED BY <1>1, <3>1, OwnFacts DEF MovesMade
  <2>2. /\ totals.decisions = DecisionsOf(Own) /\ totals.tokens = TokensOf(Own)
        /\ evaluated = totals.tokens
    BY <1>1 DEF EpisodeInv, SumsOK
  <2> QED BY <1>1, <1>2, <2>1, <2>2, Zenon DEF SummaryOK
<1> QED BY <1>1, <1>3, <1>4, <1>5, <1>6, VideoStays DEF EpisodeInv

(* The trace stays, without a summary.                                     *)
LEMMA EpisodeFailsKeeps ==
  ASSUME EpisodeInv, EpisodeFails
  PROVE  EpisodeInv'
<1>1. /\ player # "idle" /\ player' = "idle" /\ trace' = trace /\ game' = game
      /\ totals' = totals /\ evaluated' = evaluated /\ summary' = summary /\ UNCHANGED video_vars
  BY DEF EpisodeFails
<1>2. Own' = Own
  BY <1>1, Zenon DEF Own
<1>3. EpisodeTypes'
  BY <1>1 DEF EpisodeInv, EpisodeTypes
<1>4. TraceOK'
  <2>1. \A k \in DOMAIN Own : Own[k].step = k /\ Own[k].id = Own[1].id
    BY DEF EpisodeInv, TraceOK
  <2> QED BY <1>1, <1>2, <2>1 DEF TraceOK
<1>5. SumsOK'
  BY <1>1 DEF SumsOK
<1>6. SummaryOK'
  BY <1>1 DEF EpisodeInv, SummaryOK
<1> QED BY <1>1, <1>3, <1>4, <1>5, <1>6, VideoStays DEF EpisodeInv

(* A rendering begins, in a directory that may have frames.                *)
LEMMA LoadTraceKeeps ==
  ASSUME EpisodeInv, NEW n \in HoldFrames, LoadTrace(n)
  PROVE  EpisodeInv'
<1>1. /\ renderer' = [at |-> "frames", runs |-> renderer.runs + 1] /\ rows' = trace /\ hold' = n
      /\ copied' = 0 /\ frames' = frames /\ UNCHANGED player_vars /\ trace # Absent
  BY DEF LoadTrace
<1>2. trace \in Seq(Records) /\ frames \in Seq(Records) /\ n \in Nat \ {0}
  BY <1>1, EpisodeAssumption DEF EpisodeInv, EpisodeTypes, VideoTypes
<1> DEFINE next == [at |-> "frames", runs |-> renderer.runs + 1]
<1>3. next \in [at : {"idle", "frames", "encode", "done"}, runs : Nat] /\ next.at = "frames"
  BY DEF EpisodeInv, VideoTypes
<1>4. renderer' = next
  BY <1>1
<1> HIDE DEF next
<1>5. VideoTypes'
  BY <1>1, <1>2, <1>3, <1>4 DEF VideoTypes
<1>6. FramesOK'
  <2>1. 0 <= n * Len(trace) /\ 0 <= Len(frames) /\ 1 .. 0 = {}
    <3> HIDE DEF Records
    <3>1. Len(trace) \in Nat /\ Len(frames) \in Nat
      BY <1>2
    <3> QED BY <1>2, <3>1
  <2>2. ShowsRows(frames, copied)'
    BY <1>1, <2>1, Zenon DEF ShowsRows
  <2> QED BY <1>3, <1>4, <2>2 DEF FramesOK
<1> QED BY <1>1, <1>5, <1>6, PlayerStays DEF EpisodeInv

(* A frame is added, or replaces one that was there.                       *)
LEMMA CopyFrameKeeps ==
  ASSUME EpisodeInv, CopyFrame
  PROVE  EpisodeInv'
<1>1. /\ renderer.at = "frames" /\ copied < hold * Len(rows) /\ renderer' = renderer
      /\ rows' = rows /\ hold' = hold /\ copied' = copied + 1 /\ UNCHANGED player_vars
  BY DEF CopyFrame
<1>2. /\ rows \in Seq(Records) /\ frames \in Seq(Records) /\ hold \in Nat \ {0} /\ copied \in Nat
      /\ renderer \in [at : {"idle", "frames", "encode", "done"}, runs : Nat]
  BY DEF EpisodeInv, VideoTypes
<1> DEFINE picture == rows[RowOf(copied + 1)]
           made == IF copied < Len(frames) THEN [frames EXCEPT ![copied + 1] = picture]
                                           ELSE Append(frames, picture)
<1>3. /\ copied <= Len(frames) /\ \A k \in 1 .. copied : frames[k] = rows[RowOf(k)]
  BY <1>1 DEF EpisodeInv, FramesOK, ShowsRows
<1>4. frames' = made
  BY DEF CopyFrame
<1>5. picture \in Records
  <2>1. Len(rows) \in Nat /\ \A i \in 1 .. Len(rows) : rows[i] \in Records
    <3> HIDE DEF Records
    <3> QED BY <1>2
  <2>2. (copied + 1) - 1 = copied
    BY <1>2
  <2>3. copied \div hold \in Nat /\ copied \div hold < Len(rows)
    BY <1>1, <1>2, <2>1, QuotientBelow
  <2>4. RowOf(copied + 1) = (copied \div hold) + 1
    BY <2>2 DEF RowOf
  <2>5. RowOf(copied + 1) \in 1 .. Len(rows)
    BY <2>1, <2>3, <2>4
  <2> QED BY <2>1, <2>5
<1> HIDE DEF picture
<1>6. /\ made \in Seq(Records) /\ copied + 1 <= Len(made) /\ made[copied + 1] = picture
      /\ \A k \in 1 .. copied : made[k] = frames[k]
  <2> HIDE DEF Records
  <2>1. Len(frames) \in Nat
    BY <1>2
  <2>2. CASE copied < Len(frames)
    <3> DEFINE e == [frames EXCEPT ![copied + 1] = picture]
    <3>1. /\ e \in Seq(Records) /\ Len(e) = Len(frames) /\ e[copied + 1] = picture
          /\ \A k \in 1 .. copied : e[k] = frames[k]
      BY <1>2, <1>5, <2>1, <2>2
    <3>2. made = e
      BY <2>2
    <3> HIDE DEF e, made
    <3> QED BY <1>2, <2>1, <2>2, <3>1, <3>2
  <2>3. CASE ~(copied < Len(frames))
    <3>0. Len(frames) = copied
      BY <1>2, <1>3, <2>1, <2>3
    <3> DEFINE e == Append(frames, picture)
    <3>1. /\ e \in Seq(Records) /\ Len(e) = Len(frames) + 1 /\ e[Len(frames) + 1] = picture
          /\ \A k \in 1 .. Len(frames) : e[k] = frames[k]
      BY <1>2, <1>5, <2>1
    <3>2. made = e
      BY <2>3
    <3> HIDE DEF e, made
    <3> QED BY <1>2, <2>1, <3>0, <3>1, <3>2
  <2> QED BY <2>2, <2>3
<1> HIDE DEF made
<1>7. copied + 1 \in Nat /\ copied + 1 <= hold * Len(rows)
  <2>1. hold * Len(rows) \in Int
    <3> HIDE DEF Records
    <3>1. Len(rows) \in Nat
      BY <1>2
    <3> QED BY <1>2, <3>1
  <2> QED BY <1>1, <1>2, <2>1
<1>8. VideoTypes'
  <2> HIDE DEF Records
  <2> QED BY <1>1, <1>2, <1>4, <1>6, <1>7, Zenon DEF VideoTypes
<1>9. FramesOK'
  <2>1. \A k \in 1 .. copied + 1 : made[k] = rows[RowOf(k)]
    <3>1. SUFFICES ASSUME NEW k \in 1 .. copied + 1 PROVE made[k] = rows[RowOf(k)]
      OBVIOUS
    <3>2. CASE k = copied + 1
      BY <1>6, <3>2 DEF picture
    <3>3. CASE k \in 1 .. copied
      BY <1>3, <1>6, <3>3
    <3> QED BY <1>2, <3>2, <3>3
  <2>2. ShowsRows(frames, copied)'
    BY <1>1, <1>4, <1>6, <1>7, <2>1, Zenon DEF ShowsRows, RowOf
  <2> QED BY <1>1, <2>2 DEF FramesOK
<1> QED BY <1>1, <1>8, <1>9, PlayerStays DEF EpisodeInv

(* A rendering that goes on, or ends, leaves the frames as they are.       *)
LEMMA RendererKeeps ==
  ASSUME EpisodeInv, NEW next \in {"idle", "encode", "done"}, At(next),
         UNCHANGED <<player_vars, rows, hold, copied, frames>>,
         next = "encode" => renderer.at = "frames" /\ copied = hold * Len(rows),
         next = "done" => renderer.at = "encode" /\ video' = frames
  PROVE  EpisodeInv'
<1>1. /\ renderer' = [renderer EXCEPT !.at = next] /\ rows' = rows /\ hold' = hold
      /\ copied' = copied /\ frames' = frames /\ UNCHANGED player_vars
  BY DEF At
<1> DEFINE r == [renderer EXCEPT !.at = next]
<1>2. r \in [at : {"idle", "frames", "encode", "done"}, runs : Nat] /\ r.at = next
  BY DEF EpisodeInv, VideoTypes
<1>3. renderer' = r
  BY <1>1
<1> HIDE DEF r
<1>4. VideoTypes'
  BY <1>1, <1>2, <1>3 DEF EpisodeInv, VideoTypes
<1>5. FramesOK'
  <2>1. CASE next = "idle"
    BY <1>2, <1>3, <2>1 DEF FramesOK
  <2>2. CASE next = "encode"
    <3>1. ShowsRows(frames, hold * Len(rows))
      BY <2>2, Zenon DEF EpisodeInv, FramesOK
    <3>2. ShowsRows(frames, hold * Len(rows))'
      BY <1>1, <3>1, Zenon DEF ShowsRows, RowOf
    <3> QED BY <1>2, <1>3, <2>2, <3>2 DEF FramesOK
  <2>3. CASE next = "done"
    <3>1. ShowsRows(frames, hold * Len(rows))
      BY <2>3, Zenon DEF EpisodeInv, FramesOK
    <3>2. ShowsRows(video, hold * Len(rows))'
      BY <1>1, <2>3, <3>1, Zenon DEF ShowsRows, RowOf
    <3> QED BY <1>2, <1>3, <2>3, <3>2 DEF FramesOK
  <2> QED BY <2>1, <2>2, <2>3
<1> QED BY <1>1, <1>4, <1>5, PlayerStays DEF EpisodeInv

(* There is no trace and no video.                                         *)
LEMMA EpisodeInitInv == EpisodeInit => EpisodeInv
<1> SUFFICES ASSUME EpisodeInit PROVE EpisodeInv
  OBVIOUS
<1>1. /\ trace = Absent /\ player = "idle" /\ game = [id |-> 0, steps |-> 0, alive |-> FALSE]
      /\ totals = NoTotals /\ evaluated = 0 /\ summary = Absent
      /\ renderer = [at |-> "idle", runs |-> 0] /\ rows = <<>> /\ hold = 1 /\ copied = 0
      /\ frames = <<>>
  BY DEF EpisodeInit
<1>2. EpisodeTypes
  BY <1>1 DEF EpisodeTypes, NoTotals
<1>3. VideoTypes
  BY <1>1 DEF VideoTypes
<1>4. TraceOK
  BY <1>1 DEF TraceOK, Own
<1>5. SumsOK /\ SummaryOK /\ FramesOK
  BY <1>1 DEF SumsOK, SummaryOK, FramesOK
<1> QED BY <1>2, <1>3, <1>4, <1>5 DEF EpisodeInv

(* Every step of an episode or a rendering preserves the invariant.        *)
LEMMA EpisodeNextKeeps == EpisodeInv /\ [EpisodeNext]_episodeVars => EpisodeInv'
<1> SUFFICES ASSUME EpisodeInv, [EpisodeNext]_episodeVars PROVE EpisodeInv'
  OBVIOUS
<1>1. CASE \E limit \in MaxSteps : PlayLaunch(limit)
  BY <1>1, PlayLaunchKeeps
<1>2. CASE \E n \in HoldFrames : LoadTrace(n)
  BY <1>2, LoadTraceKeeps
<1>3. CASE StartEncoding
  <2>1. /\ At("encode") /\ UNCHANGED <<player_vars, rows, hold, copied, frames>>
        /\ renderer.at = "frames" /\ copied = hold * Len(rows)
    BY <1>3 DEF StartEncoding
  <2> QED BY <2>1, RendererKeeps
<1>4. CASE Encode
  <2>1. /\ At("done") /\ UNCHANGED <<player_vars, rows, hold, copied, frames>>
        /\ renderer.at = "encode" /\ video' = frames
    BY <1>4 DEF Encode
  <2> QED BY <2>1, RendererKeeps
<1>5. CASE RenderingFails
  <2>1. At("idle") /\ UNCHANGED <<player_vars, rows, hold, copied, frames>>
    BY <1>5 DEF RenderingFails
  <2> QED BY <2>1, RendererKeeps
<1>6. CASE UNCHANGED episodeVars
  BY <1>6, VideoStays, PlayerStays DEF episodeVars, EpisodeInv
<1>7. CASE BuildScorer \/ Decide \/ Move \/ AppendTrace \/ EndEpisode \/ EpisodeFails \/ CopyFrame
  BY <1>7, BuildScorerKeeps, DecideKeeps, MoveKeeps, AppendTraceKeeps, EndEpisodeKeeps,
     EpisodeFailsKeeps, CopyFrameKeeps
<1> QED BY <1>1, <1>2, <1>3, <1>4, <1>5, <1>6, <1>7 DEF EpisodeNext

(* The invariant that the two results below rest on.                       *)
THEOREM EpisodeInvariance == EpisodeSpec => []EpisodeInv
<1> QED BY EpisodeInitInv, EpisodeNextKeeps, PTL DEF EpisodeSpec

(* A trace is of one game, without a gap, and a summary is that of its     *)
(* trace, whatever episodes failed before and however long they are.       *)
THEOREM OneEpisode == EpisodeSpec => []TraceIsOneEpisode
<1>1. EpisodeInv => TraceIsOneEpisode
  <2> SUFFICES ASSUME EpisodeInv PROVE TraceIsOneEpisode
    OBVIOUS
  <2>1. \A k \in DOMAIN Own : Own[k].step = k /\ Own[k].id = Own[1].id
    BY DEF EpisodeInv, TraceOK
  <2>2. summary # Absent =>
          /\ summary = [steps |-> Len(Own), decisions |-> DecisionsOf(Own), tokens |-> TokensOf(Own)]
          /\ evaluated = TokensOf(Own)
    BY DEF EpisodeInv, SummaryOK
  <2> QED BY <2>1, <2>2 DEF TraceIsOneEpisode
<1> QED BY <1>1, EpisodeInvariance, PTL

(* A finished video begins with every row of its trace, in order, each for *)
(* as many frames as asked for, however long the trace is.                 *)
THEOREM VideoIsOfTrace == EpisodeSpec => []VideoShowsTrace
<1>1. EpisodeInv => VideoShowsTrace
  <2> SUFFICES ASSUME EpisodeInv, renderer.at = "done"
               PROVE  /\ Len(video) >= hold * Len(rows)
                      /\ \A i \in DOMAIN rows : \A k \in (i - 1) * hold + 1 .. i * hold :
                           video[k] = rows[i]
    BY DEF VideoShowsTrace
  <2>1. /\ hold * Len(rows) <= Len(video)
        /\ \A k \in 1 .. hold * Len(rows) : video[k] = rows[RowOf(k)]
    BY DEF EpisodeInv, FramesOK, ShowsRows
  <2>2. hold \in Nat \ {0} /\ Len(rows) \in Nat /\ DOMAIN rows = 1 .. Len(rows)
    <3>1. rows \in Seq(Records) /\ hold \in Nat \ {0}
      BY DEF EpisodeInv, VideoTypes
    <3> HIDE DEF Records
    <3> QED BY <3>1
  <2>3. ASSUME NEW i \in DOMAIN rows, NEW k \in (i - 1) * hold + 1 .. i * hold
        PROVE  video[k] = rows[i]
    <3>1. k \in 1 .. hold * Len(rows) /\ ((k - 1) \div hold) + 1 = i
      BY <2>2, FramesOfRow
    <3>2. RowOf(k) = i
      BY <3>1 DEF RowOf
    <3> QED BY <2>1, <3>1, <3>2
  <2>4. Len(video) >= hold * Len(rows)
    BY <2>1
  <2> QED BY <2>3, <2>4
<1> QED BY <1>1, EpisodeInvariance, PTL

-----------------------------------------------------------------------------
(* SnakePlanner *)

(* Bodies that a search can come to: no cell twice, on the board.         *)
Snakes == {s \in [body : Seq(Cells), facing : Directions] : s.body # <<>> /\ IsInjective(s.body)}

(* Two sequences one after the other have the elements of both.            *)
LEMMA ToSetOfConcat ==
  ASSUME NEW T, NEW a \in Seq(T), NEW b \in Seq(T)
  PROVE  a \o b \in Seq(T) /\ ToSet(a \o b) = ToSet(a) \cup ToSet(b)
<1>1. /\ a \o b \in Seq(T) /\ Len(a \o b) = Len(a) + Len(b)
      /\ \A i \in 1 .. Len(a) + Len(b) :
           (a \o b)[i] = IF i <= Len(a) THEN a[i] ELSE b[i - Len(a)]
  BY ConcatProperties
<1>2. /\ DOMAIN a = 1 .. Len(a) /\ DOMAIN b = 1 .. Len(b) /\ Len(a) \in Nat /\ Len(b) \in Nat
      /\ DOMAIN (a \o b) = 1 .. Len(a) + Len(b)
  BY <1>1
<1> DEFINE c == a \o b
<1> HIDE DEF c
<1>3. ASSUME NEW i \in DOMAIN c PROVE c[i] \in ToSet(a) \cup ToSet(b)
  <2>1. CASE i <= Len(a)
    BY <1>1, <1>2, <2>1 DEF c, ToSet
  <2>2. CASE i > Len(a)
    <3>1. i - Len(a) \in DOMAIN b /\ c[i] = b[i - Len(a)]
      BY <1>1, <1>2, <2>2 DEF c
    <3> QED BY <3>1 DEF ToSet
  <2> QED BY <1>2, <2>1, <2>2 DEF c
<1>4. ASSUME NEW i \in DOMAIN a PROVE a[i] \in ToSet(c)
  <2>1. i \in DOMAIN c /\ c[i] = a[i]
    BY <1>1, <1>2 DEF c
  <2> QED BY <2>1 DEF ToSet
<1>5. ASSUME NEW i \in DOMAIN b PROVE b[i] \in ToSet(c)
  <2>1. i + Len(a) \in DOMAIN c /\ c[i + Len(a)] = b[i]
    <3>1. i + Len(a) \in 1 .. Len(a) + Len(b) /\ ~(i + Len(a) <= Len(a)) /\ (i + Len(a)) - Len(a) = i
      BY <1>2
    <3> QED BY <1>1, <1>2, <3>1 DEF c
  <2> QED BY <2>1 DEF ToSet
<1>6. ToSet(c) = ToSet(a) \cup ToSet(b)
  <2>1. \A x \in ToSet(c) : x \in ToSet(a) \cup ToSet(b)
    BY <1>3 DEF ToSet
  <2>2. \A x \in ToSet(a) \cup ToSet(b) : x \in ToSet(c)
    BY <1>4, <1>5 DEF ToSet
  <2> QED BY <2>1, <2>2
<1> QED BY <1>1, <1>6 DEF c

(* The order of the directions loses none.                                *)
LEMMA InOrderFacts ==
  ASSUME NEW moves \in SUBSET Directions
  PROVE  InOrder(moves) \in Seq(Directions) /\ ToSet(InOrder(moves)) = moves
<1> DEFINE One(d) == IF d \in moves THEN <<d>> ELSE <<>>
<1>1. ASSUME NEW d \in Directions
      PROVE  One(d) \in Seq(Directions) /\ ToSet(One(d)) = moves \cap {d}
  <2>1. CASE d \in moves
    <3>1. DOMAIN <<d>> = {1} /\ <<d>>[1] = d
      OBVIOUS
    <3> QED BY <2>1, <3>1 DEF ToSet
  <2>2. CASE d \notin moves
    <3>1. DOMAIN <<>> = {}
      OBVIOUS
    <3> QED BY <2>2, <3>1 DEF ToSet
  <2> QED BY <2>1, <2>2
<1>2. /\ {"up", "right", "down", "left"} = Directions
      /\ InOrder(moves) = One("up") \o One("right") \o One("down") \o One("left")
  BY DEF Directions, InOrder
<1> HIDE DEF One
<1> DEFINE two == One("up") \o One("right")
           three == two \o One("down")
<1>3. two \in Seq(Directions) /\ ToSet(two) = moves \cap {"up", "right"}
  BY <1>1, <1>2, ToSetOfConcat
<1> HIDE DEF two
<1>4. three \in Seq(Directions) /\ ToSet(three) = moves \cap {"up", "right", "down"}
  BY <1>1, <1>2, <1>3, ToSetOfConcat
<1> HIDE DEF three
<1>5. /\ three \o One("left") \in Seq(Directions)
      /\ ToSet(three \o One("left")) = moves
  <2>1. One("left") \in Seq(Directions) /\ ToSet(One("left")) = moves \cap {"left"}
    BY <1>1, <1>2
  <2>2. /\ three \o One("left") \in Seq(Directions)
        /\ ToSet(three \o One("left")) = ToSet(three) \cup ToSet(One("left"))
    BY <1>4, <2>1, ToSetOfConcat
  <2>3. \A d \in moves : d \in {"up", "right", "down"} \/ d = "left"
    BY <1>2
  <2> QED BY <1>4, <2>1, <2>2, <2>3
<1> QED BY <1>2, <1>5 DEF two, three

(* The planner's rules of a move are those of the game.                    *)
LEMMA SafeMovesFacts ==
  ASSUME NEW s \in Snakes, NEW meal
  PROVE  SafeMoves(s, meal) \in Seq(Directions) /\ ToSet(SafeMoves(s, meal)) = Allowed(s, meal)
<1>1. Head(s.body) \in Cells
  BY DEF Snakes
<1>2. ASSUME NEW d \in Directions PROVE Kills(s, d, meal) <=> Fails(s.body, s.facing, d, meal)
  BY <1>1, OffBoardIsOutside DEF Kills, Fails
<1>3. {d \in Directions : ~Kills(s, d, meal)} = Allowed(s, meal)
  BY <1>2 DEF Allowed, SafeFrom
<1> QED BY <1>3, InOrderFacts DEF SafeMoves

(* A new head before a body that does not cover it.                        *)
LEMMA NewHead ==
  ASSUME NEW body \in Seq(Cells), IsInjective(body), NEW to \in Cells \ ToSet(body)
  PROVE  LET longer == <<to>> \o body
         IN longer \in Seq(Cells) /\ longer # <<>> /\ IsInjective(longer) /\ Head(longer) = to
<1> DEFINE longer == <<to>> \o body
<1>1. Len(body) \in Nat /\ DOMAIN body = 1 .. Len(body) /\ <<to>> \in Seq(Cells) /\ Len(<<to>>) = 1
  OBVIOUS
<1>2. /\ longer \in Seq(Cells) /\ Len(longer) = Len(body) + 1
      /\ DOMAIN longer = 1 .. Len(body) + 1
  BY <1>1
<1>3. longer[1] = to /\ \A k \in 2 .. Len(body) + 1 : longer[k] = body[k - 1] /\ k - 1 \in DOMAIN body
  BY <1>1
<1> HIDE DEF longer
<1>4. \A k \in 2 .. Len(body) + 1 : longer[k] # to
  BY <1>3 DEF ToSet
<1>5. IsInjective(longer)
  <2> SUFFICES ASSUME NEW j \in 1 .. Len(body) + 1, NEW k \in 1 .. Len(body) + 1,
                      longer[j] = longer[k]
               PROVE  j = k
    BY <1>2 DEF IsInjective
  <2>1. CASE j = 1 \/ k = 1
    BY <1>1, <1>3, <1>4, <2>1
  <2>2. CASE j # 1 /\ k # 1
    <3>1. j \in 2 .. Len(body) + 1 /\ k \in 2 .. Len(body) + 1
      BY <1>1, <2>2
    <3>2. body[j - 1] = body[k - 1] /\ j - 1 \in DOMAIN body /\ k - 1 \in DOMAIN body
      BY <1>3, <3>1
    <3>3. j - 1 = k - 1
      BY <3>2 DEF IsInjective
    <3> QED BY <3>3
  <2> QED BY <2>1, <2>2
<1>6. longer # <<>> /\ Head(longer) = to
  BY <1>1, <1>2, <1>3
<1> QED BY <1>2, <1>5, <1>6 DEF longer

(* A body without its tail is still one.                                   *)
LEMMA FrontIsInjective ==
  ASSUME NEW body \in Seq(Cells), body # <<>>, IsInjective(body)
  PROVE  Front(body) \in Seq(Cells) /\ IsInjective(Front(body))
<1>1. Len(body) \in Nat \ {0} /\ DOMAIN body = 1 .. Len(body)
  OBVIOUS
<1>2. Front(body) = SubSeq(body, 1, Len(body) - 1)
  BY DEF Front
<1>3. /\ Front(body) \in Seq(Cells) /\ DOMAIN Front(body) = 1 .. Len(body) - 1
      /\ \A k \in 1 .. Len(body) - 1 : Front(body)[k] = body[k]
  BY <1>1, <1>2
<1>4. IsInjective(Front(body))
  BY <1>1, <1>3 DEF IsInjective
<1> QED BY <1>3, <1>4

(* A move that the rules allow leads to another of these bodies, grown by  *)
(* a cell if there was a meal, and it is the one the planner goes on from. *)
LEMMA AllowedMove ==
  ASSUME NEW s \in Snakes, NEW meal, NEW d \in Allowed(s, meal)
  PROVE  LET to == Ahead(Head(s.body), d)
         IN /\ d \in Directions /\ to \in Cells
            /\ to = meal => /\ Grown(s, d) \in Snakes /\ Head(Grown(s, d).body) = to
                            /\ Advance(s, d, meal) = Grown(s, d)
            /\ to # meal => /\ Moved(s, d) \in Snakes /\ Head(Moved(s, d).body) = to
                            /\ Advance(s, d, meal) = Moved(s, d)
<1> DEFINE to == Ahead(Head(s.body), d)
<1>1. d \in Directions /\ to \in Cells /\ to \notin ToSet(IF to = meal THEN s.body ELSE Front(s.body))
  BY DEF Allowed, SafeFrom, Fails
<1>2. s.body \in Seq(Cells) /\ s.body # <<>> /\ IsInjective(s.body)
  BY DEF Snakes
<1>3. CASE to = meal
  <2>1. <<to>> \o s.body \in Seq(Cells) /\ <<to>> \o s.body # <<>> /\ IsInjective(<<to>> \o s.body)
        /\ Head(<<to>> \o s.body) = to
    BY <1>1, <1>2, <1>3, NewHead
  <2>2. Advance(s, d, meal) = Grown(s, d)
    BY <1>3 DEF Advance, AteFood, Grown
  <2> QED BY <1>1, <1>3, <2>1, <2>2 DEF Grown, Node, Snakes
<1>4. CASE to # meal
  <2> DEFINE front == Front(s.body)
  <2>1. front \in Seq(Cells) /\ IsInjective(front)
    BY <1>2, FrontIsInjective
  <2>2. <<to>> \o front \in Seq(Cells) /\ <<to>> \o front # <<>> /\ IsInjective(<<to>> \o front)
        /\ Head(<<to>> \o front) = to
    BY <1>1, <1>4, <2>1, NewHead
  <2>3. Advance(s, d, meal) = Moved(s, d)
    BY <1>4 DEF Advance, AteFood, Moved
  <2> QED BY <1>1, <1>4, <2>2, <2>3 DEF Moved, Node, Snakes
<1> QED BY <1>3, <1>4

(* Sets of things of S, each of which follows from the one before.         *)
Follows(F, S) == F \in [SUBSET S -> SUBSET S]
IsLevels(g, S, F, first, lo, hi) ==
  /\ g \in [lo .. hi -> SUBSET S]
  /\ \A k \in lo .. hi : g[k] = IF k = lo THEN first ELSE F[g[k - 1]]
Obeys(f, S, F, first, lo, hi) ==
  /\ f[lo] = first
  /\ \A k \in lo .. hi : k # lo /\ f[k - 1] \in SUBSET S => f[k] = F[f[k - 1]]

(* They exist.                                                             *)
LEMMA LevelsExist ==
  ASSUME NEW S, NEW F, Follows(F, S), NEW first \in SUBSET S,
         NEW lo \in Nat, NEW hi \in Nat, lo <= hi
  PROVE  \E g : IsLevels(g, S, F, first, lo, hi)
<1>0. F \in [SUBSET S -> SUBSET S]
  BY DEF Follows
<1> DEFINE Levels(n) ==
      {g \in [lo .. lo + n -> SUBSET S] :
         \A k \in lo .. lo + n : g[k] = IF k = lo THEN first ELSE F[g[k - 1]]}
    N == {n \in Nat : Levels(n) # {}}
<1>1. 0 \in N
  <2>1. [k \in lo .. lo + 0 |-> first] \in Levels(0)
    OBVIOUS
  <2> QED BY <2>1
<1>2. ASSUME NEW n \in Nat, n \in N PROVE n + 1 \in N
  <2>1. PICK g \in [lo .. lo + n -> SUBSET S] :
          \A k \in lo .. lo + n : g[k] = IF k = lo THEN first ELSE F[g[k - 1]]
    BY <1>2
  <2> DEFINE last == lo + n + 1
             h == [k \in lo .. lo + (n + 1) |-> IF k = last THEN F[g[lo + n]] ELSE g[k]]
  <2>2. lo + n \in lo .. lo + n /\ g[lo + n] \in SUBSET S /\ F[g[lo + n]] \in SUBSET S
    <3>1. lo + n \in lo .. lo + n
      OBVIOUS
    <3> QED BY <1>0, <2>1, <3>1
  <2>3. h \in [lo .. lo + (n + 1) -> SUBSET S]
    <3> SUFFICES ASSUME NEW k \in lo .. lo + (n + 1) PROVE h[k] \in SUBSET S
      OBVIOUS
    <3>1. CASE k = last
      BY <2>2, <3>1
    <3>2. CASE k # last
      <4>1. k \in lo .. lo + n
        BY <3>2
      <4> QED BY <2>1, <3>2, <4>1
    <3> QED BY <3>1, <3>2
  <2>4. ASSUME NEW k \in lo .. lo + (n + 1)
        PROVE  h[k] = IF k = lo THEN first ELSE F[h[k - 1]]
    <3>1. CASE k = last
      <4>1. k # lo /\ k - 1 = lo + n /\ k - 1 # last /\ k - 1 \in lo .. lo + (n + 1)
        BY <3>1
      <4>2. h[k] = F[g[lo + n]] /\ h[k - 1] = g[lo + n]
        BY <3>1, <4>1
      <4> QED BY <4>1, <4>2
    <3>2. CASE k # last
      <4>1. k \in lo .. lo + n
        BY <3>2
      <4>2. h[k] = g[k] /\ (k # lo => h[k - 1] = g[k - 1])
        BY <3>2, <4>1
      <4>3. g[k] = IF k = lo THEN first ELSE F[g[k - 1]]
        BY <2>1, <4>1
      <4> HIDE DEF h
      <4> QED BY <4>2, <4>3
    <3> QED BY <3>1, <3>2
  <2> HIDE DEF h
  <2>5. h \in Levels(n + 1)
    BY <2>3, <2>4
  <2> QED BY <2>5
<1>3. Nat \subseteq N
  <2> HIDE DEF N
  <2> QED BY <1>1, <1>2, CountingUp
<1>4. hi - lo \in N /\ lo + (hi - lo) = hi
  <2>1. hi - lo \in Nat /\ lo + (hi - lo) = hi
    OBVIOUS
  <2> HIDE DEF N
  <2> QED BY <1>3, <2>1
<1>5. PICK g \in Levels(hi - lo) : TRUE
  <2> HIDE DEF Levels
  <2> QED BY <1>4
<1> QED BY <1>4, <1>5 DEF IsLevels

(* Levels that are defined from one another are sets of the same things,   *)
(* and no others follow from one another in that way.                      *)
LEMMA LevelsFacts ==
  ASSUME NEW S, NEW F, NEW first, NEW lo \in Nat, NEW hi \in Nat, lo <= hi,
         NEW f, Obeys(f, S, F, first, lo, hi),
         NEW g, IsLevels(g, S, F, first, lo, hi)
  PROVE  \A k \in lo .. hi : f[k] = g[k]
<1>0. /\ g \in [lo .. hi -> SUBSET S]
      /\ \A k \in lo .. hi : g[k] = IF k = lo THEN first ELSE F[g[k - 1]]
  BY DEF IsLevels
<1>a. /\ f[lo] = first
      /\ \A k \in lo .. hi : k # lo /\ f[k - 1] \in SUBSET S => f[k] = F[f[k - 1]]
  BY DEF Obeys
<1> DEFINE N == {n \in Nat : lo + n <= hi => f[lo + n] = g[lo + n]}
<1>1. 0 \in N
  <2>1. lo + 0 = lo /\ lo \in lo .. hi
    OBVIOUS
  <2>2. g[lo] = first
    BY <1>0, <2>1
  <2> QED BY <1>a, <2>1, <2>2
<1>2. ASSUME NEW n \in Nat, n \in N PROVE n + 1 \in N
  <2> SUFFICES ASSUME lo + (n + 1) <= hi PROVE f[lo + (n + 1)] = g[lo + (n + 1)]
    OBVIOUS
  <2> DEFINE k == lo + (n + 1)
  <2>1. k \in lo + 1 .. hi /\ k \in lo .. hi /\ k # lo /\ k - 1 = lo + n /\ k - 1 \in lo .. hi
    OBVIOUS
  <2>2. f[k - 1] = g[k - 1] /\ g[k - 1] \in SUBSET S
    BY <1>0, <1>2, <2>1
  <2> HIDE DEF k, N
  <2>3. f[k] = F[f[k - 1]] /\ g[k] = F[g[k - 1]]
    BY <1>0, <1>a, <2>1, <2>2
  <2> QED BY <2>2, <2>3 DEF k
<1>3. Nat \subseteq N
  <2> HIDE DEF N
  <2> QED BY <1>1, <1>2, CountingUp
<1>4. ASSUME NEW k \in lo .. hi PROVE f[k] = g[k]
  <2>1. k - lo \in Nat /\ lo + (k - lo) = k /\ lo + (k - lo) <= hi
    OBVIOUS
  <2>2. k - lo \in N
    BY <1>3, <2>1
  <2> QED BY <2>1, <2>2
<1> QED BY <1>4

(* A set of numbers that are not larger than h has a largest.             *)
LEMMA LargestExists ==
  ASSUME NEW h \in Nat, NEW K \in SUBSET (0 .. h), K # {}
  PROVE  Max(K) \in K /\ \A k \in K : Max(K) >= k
<1> DEFINE N == {n \in Nat : h - n \in K => \E x \in K : \A y \in K : x >= y}
           Bounded == {n \in Nat : \/ \A y \in K : y < h - n + 1
                                   \/ \E x \in K : \A y \in K : x >= y}
<1>1. 0 \in Bounded
  OBVIOUS
<1>2. ASSUME NEW n \in Nat, n \in Bounded PROVE n + 1 \in Bounded
  <2>1. CASE \E x \in K : \A y \in K : x >= y
    BY <2>1
  <2>2. CASE \A y \in K : y < h - n + 1
    <3>1. CASE h - n \in K
      <4>1. \A y \in K : h - n >= y
        BY <2>2
      <4> QED BY <3>1, <4>1
    <3>2. CASE h - n \notin K
      <4>1. \A y \in K : y < h - (n + 1) + 1
        BY <2>2, <3>2
      <4> QED BY <4>1
    <3> QED BY <3>1, <3>2
  <2> QED BY <1>2, <2>1, <2>2
<1>3. Nat \subseteq Bounded
  <2> HIDE DEF Bounded
  <2> QED BY <1>1, <1>2, CountingUp
<1>4. \E x \in K : \A y \in K : x >= y
  <2>1. h + 1 \in Bounded /\ h - (h + 1) + 1 = 0
    <3>1. h + 1 \in Nat /\ h - (h + 1) + 1 = 0
      OBVIOUS
    <3> HIDE DEF Bounded
    <3> QED BY <1>3, <3>1
  <2>2. \E y \in K : y \in 0 .. h
    OBVIOUS
  <2>3. \E y \in K : ~(y < 0)
    BY <2>2
  <2> QED BY <2>1, <2>2
<1> QED BY <1>4 DEF Max

(* The bodies one move further, without food.                              *)
LEMMA GoingOn ==
  ASSUME NEW states \in SUBSET Snakes
  PROVE  /\ Going(states, NoFood) \in SUBSET Snakes
         /\ UNION {{Advance(t, d, NoFood) : d \in ToSet(SafeMoves(t, NoFood))} : t \in states}
              = Going(states, NoFood)
<1>1. ASSUME NEW t \in states
      PROVE  /\ ToSet(SafeMoves(t, NoFood)) = Allowed(t, NoFood)
             /\ \A e \in Allowed(t, NoFood) : Moved(t, e) \in Snakes
                                              /\ Advance(t, e, NoFood) = Moved(t, e)
  BY SafeMovesFacts, AllowedMove, NoFoodAssumption
<1>2. ASSUME NEW t \in states
      PROVE  {Advance(t, d, NoFood) : d \in ToSet(SafeMoves(t, NoFood))}
               = {Moved(t, e) : e \in Allowed(t, NoFood)}
  BY <1>1
<1> QED BY <1>1, <1>2 DEF Going

(* How far the planner sees a snake survive is how far it can go on.       *)
LEMMA SurvivalFacts ==
  ASSUME NEW s \in Snakes, NEW h \in Nat
  PROVE  /\ SurvivalDepth(s, h) \in 0 .. h
         /\ SurvivalDepth(s, h) >= h <=> Lives(s, h)
<1> DEFINE F == [states \in SUBSET Snakes |-> Going(states, NoFood)]
<1>1. Follows(F, Snakes) /\ {s} \in SUBSET Snakes /\ 0 \in Nat /\ 0 <= h
  BY GoingOn DEF Follows
<1>2a. PICK g : IsLevels(g, Snakes, F, {s}, 0, h)
  <2> HIDE DEF F
  <2> QED BY <1>1, LevelsExist
<1>2. /\ g \in [0 .. h -> SUBSET Snakes]
      /\ \A k \in 0 .. h : g[k] = IF k = 0 THEN {s} ELSE F[g[k - 1]]
  BY <1>2a DEF IsLevels
<1>3. \A k \in 0 .. h : k # 0 => g[k - 1] \in SUBSET Snakes /\ g[k] = Going(g[k - 1], NoFood)
  <2> SUFFICES ASSUME NEW k \in 0 .. h, k # 0
               PROVE  g[k - 1] \in SUBSET Snakes /\ g[k] = Going(g[k - 1], NoFood)
    OBVIOUS
  <2>1. k - 1 \in 0 .. h
    OBVIOUS
  <2>2. g[k - 1] \in SUBSET Snakes
    BY <1>2, <2>1
  <2>3. g[k] = F[g[k - 1]]
    BY <1>2
  <2> QED BY <2>2, <2>3
<1>4. \A k \in 0 .. h : Living(s, h)[k] = g[k]
  <2> DEFINE After(r) == [k \in 0 .. h |-> IF k = 0 THEN {s} ELSE Going(r[k - 1], NoFood)]
  <2>1. Living(s, h) = CHOOSE r : r = After(r)
    BY DEF Living
  <2>2. g = After(g)
    BY <1>2, <1>3
  <2>3. Living(s, h) = After(Living(s, h))
    BY <2>1, <2>2
  <2>4. ASSUME NEW f, f = After(f) PROVE \A k \in 0 .. h : f[k] = g[k]
    <3>2. 0 \in 0 .. h
      OBVIOUS
    <3>3. f[0] = {s}
      BY <2>4, <3>2
    <3>3a. ASSUME NEW k \in 0 .. h, k # 0 PROVE f[k] = Going(f[k - 1], NoFood)
      BY <2>4, <3>3a
    <3>4. \A k \in 0 .. h : k # 0 /\ f[k - 1] \in SUBSET Snakes => f[k] = F[f[k - 1]]
      BY <3>3a
    <3>5. Obeys(f, Snakes, F, {s}, 0, h)
      BY <3>3, <3>4 DEF Obeys
    <3> HIDE DEF F, After
    <3> QED BY <1>1, <1>2a, <3>5, LevelsFacts
  <2> QED BY <2>3, <2>4
<1>5. \A k \in 0 .. h : Frontier(s, h)[k] = g[k]
  <2> DEFINE Onward(states) ==
        UNION {{Advance(t, d, NoFood) : d \in ToSet(SafeMoves(t, NoFood))} : t \in states}
             After(r) == [k \in 0 .. h |-> IF k = 0 THEN {s} ELSE Onward(r[k - 1])]
  <2>1. Frontier(s, h) = CHOOSE r : r = After(r)
    BY DEF Frontier
  <2>2. \A states \in SUBSET Snakes : Onward(states) = F[states]
    BY GoingOn
  <2> HIDE DEF Onward, F
  <2>3. g = After(g)
    <3>1. \A k \in 0 .. h : k # 0 => g[k - 1] \in SUBSET Snakes
      BY <1>3
    <3> QED BY <1>2, <2>2, <3>1
  <2>4. Frontier(s, h) = After(Frontier(s, h))
    BY <2>1, <2>3
  <2>5. ASSUME NEW f, f = After(f) PROVE \A k \in 0 .. h : f[k] = g[k]
    <3>2. 0 \in 0 .. h
      OBVIOUS
    <3>3. f[0] = {s}
      BY <2>5, <3>2
    <3>3a. ASSUME NEW k \in 0 .. h, k # 0 PROVE f[k] = Onward(f[k - 1])
      BY <2>5, <3>3a
    <3>4. \A k \in 0 .. h : k # 0 /\ f[k - 1] \in SUBSET Snakes => f[k] = F[f[k - 1]]
      BY <2>2, <3>3a
    <3>5. Obeys(f, Snakes, F, {s}, 0, h)
      BY <3>3, <3>4 DEF Obeys
    <3> HIDE DEF After
    <3> QED BY <1>1, <1>2a, <3>5, LevelsFacts
  <2> QED BY <2>4, <2>5
<1> DEFINE K == {k \in 0 .. h : Frontier(s, h)[k] # {}}
<1>6. SurvivalDepth(s, h) = Max(K)
  BY DEF SurvivalDepth
<1>7. 0 \in K
  <2>1. 0 \in 0 .. h
    OBVIOUS
  <2>2. Frontier(s, h)[0] = {s}
    BY <1>2, <1>5, <2>1
  <2> QED BY <2>1, <2>2
<1>8. Max(K) \in K /\ \A k \in K : Max(K) >= k
  <2>1. K \in SUBSET (0 .. h) /\ K # {}
    BY <1>7
  <2> HIDE DEF K
  <2> QED BY <2>1, LargestExists
<1>9. h \in K <=> Lives(s, h)
  <2>1. h \in 0 .. h
    OBVIOUS
  <2> QED BY <1>4, <1>5, <2>1 DEF Lives
<1>10. Max(K) >= h <=> h \in K
  <2>1. K \in SUBSET (0 .. h)
    OBVIOUS
  <2> HIDE DEF K
  <2>2. Max(K) \in 0 .. h
    BY <1>8, <2>1
  <2>3. ASSUME Max(K) >= h PROVE Max(K) = h
    BY <2>2, <2>3
  <2> QED BY <1>8, <2>3
<1> QED BY <1>6, <1>8, <1>9, <1>10

(* The board is finite, and a body as long as the board covers it.         *)
LEMMA BoardFacts ==
  /\ IsFiniteSet(Cells) /\ Cardinality(Cells) = Width * Height
  /\ \A s \in Snakes : Filled(s) <=> ToSet(s.body) = Cells
<1> DEFINE Xs == 0 .. Width - 1  Ys == 0 .. Height - 1
<1>1. IsFiniteSet(Xs) /\ Cardinality(Xs) = Width /\ IsFiniteSet(Ys) /\ Cardinality(Ys) = Height
  <2>1. 0 \in Int /\ Width - 1 \in Int /\ Height - 1 \in Int /\ ~(0 > Width - 1) /\ ~(0 > Height - 1)
        /\ (Width - 1) - 0 + 1 = Width /\ (Height - 1) - 0 + 1 = Height
    BY SnakeAssumption
  <2> QED BY <2>1, FS_Interval
<1>2. IsFiniteSet(Cells) /\ Cardinality(Cells) = Width * Height
  <2> HIDE DEF Xs, Ys
  <2>1. IsFiniteSet(Xs \X Ys) /\ Cardinality(Xs \X Ys) = Cardinality(Xs) * Cardinality(Ys)
    BY <1>1, FS_Product
  <2> QED BY <1>1, <2>1 DEF Cells, Xs, Ys
<1>3. ASSUME NEW s \in Snakes PROVE Filled(s) <=> ToSet(s.body) = Cells
  <2> DEFINE b == s.body  I == 1 .. Len(b)
  <2>1. b \in Seq(Cells) /\ Len(b) \in Nat /\ DOMAIN b = I /\ b \in [I -> Cells] /\ IsInjective(b)
    BY DEF Snakes
  <2>2. IsFiniteSet(I) /\ Cardinality(I) = Len(b)
    <3>1. 1 \in Int /\ Len(b) \in Int /\ (IF 1 > Len(b) THEN 0 ELSE Len(b) - 1 + 1) = Len(b)
      BY <2>1
    <3> HIDE DEF b
    <3> QED BY <3>1, FS_Interval
  <2> HIDE DEF b, I
  <2>3. b \in Injection(I, Cells)
    BY <2>1 DEF Injection, IsInjective
  <2>4. Cardinality(I) = Cardinality(Cells) <=> b \in Surjection(I, Cells)
    BY <1>2, <2>2, <2>3, FS_Injection
  <2>5. b \in Surjection(I, Cells) <=> ToSet(b) = Cells
    BY <2>1 DEF Surjection, ToSet
  <2>6. Filled(s) <=> Len(b) = Width * Height
    BY DEF Filled, b
  <2> QED BY <1>2, <2>2, <2>4, <2>5, <2>6 DEF b
<1> QED BY <1>2, <1>3

(* A meal the planner takes for safe is one after which the game goes on.  *)
LEMMA SafeMealFacts == ASSUME NEW s \in Snakes PROVE SafeMeal(s) <=> Good(s)
<1>1. EscapeHorizon \in Nat
  BY PlannerAssumption
<1> QED BY <1>1, BoardFacts, SurvivalFacts DEF SafeMeal, Good

(* What can be reached from a head is counted.                             *)
LEMMA ReachableFacts == ASSUME NEW s \in Snakes PROVE ReachableCells(s) \in Nat
<1> DEFINE free == Cells \ ToSet(Tail(s.body))
           rounds == Cardinality(free)
           Wider(known) == known \cup ({Ahead(c, d) : c \in known, d \in Directions} \cap free)
           F == [known \in SUBSET Cells |-> Wider(known)]
           first == {Head(s.body)}
           After(r) == [k \in 0 .. rounds |-> IF k = 0 THEN first ELSE Wider(r[k - 1])]
<1>1. rounds \in Nat
  <2>1. free \in SUBSET Cells
    OBVIOUS
  <2> HIDE DEF free
  <2> QED BY <2>1, BoardFacts, FS_Subset, FS_CardinalityType
<1>2. first \in SUBSET Cells
  BY DEF Snakes
<1>3. Follows(F, Cells)
  BY DEF Follows
<1>4. ReachableCells(s) = Cardinality(Seen(s, rounds)[rounds])
  BY DEF ReachableCells
<1>5. Seen(s, rounds) = CHOOSE r : r = After(r)
  BY DEF Seen
<1>6. \A known \in SUBSET Cells : F[known] = Wider(known)
  OBVIOUS
<1> HIDE DEF free, rounds, first, Wider, F
<1>7. PICK g : IsLevels(g, Cells, F, first, 0, rounds)
  BY <1>1, <1>2, <1>3, LevelsExist
<1>8. /\ g \in [0 .. rounds -> SUBSET Cells]
      /\ \A k \in 0 .. rounds : g[k] = IF k = 0 THEN first ELSE F[g[k - 1]]
  BY <1>7 DEF IsLevels
<1>9. \A k \in 0 .. rounds : k # 0 => g[k - 1] \in SUBSET Cells
  <2> SUFFICES ASSUME NEW k \in 0 .. rounds, k # 0 PROVE g[k - 1] \in SUBSET Cells
    OBVIOUS
  <2>1. k - 1 \in 0 .. rounds
    BY <1>1
  <2> QED BY <1>8, <2>1
<1>10. g = After(g)
  BY <1>6, <1>8, <1>9
<1>11. Seen(s, rounds) = After(Seen(s, rounds))
  BY <1>5, <1>10
<1>12. ASSUME NEW f, f = After(f) PROVE \A k \in 0 .. rounds : f[k] = g[k]
  <2>1. f[0] = first
    BY <1>1, <1>12
  <2>2. ASSUME NEW k \in 0 .. rounds, k # 0 PROVE f[k] = Wider(f[k - 1])
    BY <1>12, <2>2
  <2>3. \A k \in 0 .. rounds : k # 0 /\ f[k - 1] \in SUBSET Cells => f[k] = F[f[k - 1]]
    BY <1>6, <2>2
  <2>4. Obeys(f, Cells, F, first, 0, rounds)
    BY <2>1, <2>3 DEF Obeys
  <2> HIDE DEF After
  <2>5. 0 \in Nat /\ 0 <= rounds
    BY <1>1
  <2> QED BY <1>1, <1>7, <2>4, <2>5, LevelsFacts
<1>13. Seen(s, rounds)[rounds] = g[rounds] /\ g[rounds] \in SUBSET Cells
  <2>1. rounds \in 0 .. rounds
    BY <1>1
  <2> HIDE DEF After
  <2> QED BY <1>8, <1>11, <1>12, <2>1
<1> QED BY <1>4, <1>13, BoardFacts, FS_Subset, FS_CardinalityType

(* The game to judge is one that has been played.                          *)
GameOK ==
  /\ Base \in Snakes
  /\ food \in Cells \ ToSet(snake)

(* The plays after a first move, one move after another.                   *)
LEMMA HungryFacts ==
  ASSUME GameOK, NEW d \in SafeDirections
  PROVE  /\ \A n \in 1 .. Horizon : Hungry(d)[n] \in SUBSET Snakes
         /\ Hungry(d)[1] = IF EatsFood(d) THEN {} ELSE {Moved(Base, d)}
         /\ \A n \in 1 .. Horizon : n # 1 =>
              Hungry(d)[n] = {s \in Going(Hungry(d)[n - 1], food) : Head(s.body) # food}
<1> DEFINE first == IF EatsFood(d) THEN {} ELSE {Moved(Base, d)}
           On(states) == {s \in Going(states, food) : Head(s.body) # food}
           F == [states \in SUBSET Snakes |-> On(states)]
           After(r) == [n \in 1 .. Horizon |-> IF n = 1 THEN first ELSE On(r[n - 1])]
<1>1. 1 \in Nat /\ Horizon \in Nat /\ 1 <= Horizon
  BY PlannerAssumption DEF Horizon
<1>2. first \in SUBSET Snakes
  <2>1. d \in Allowed(Base, food)
    BY DEF Allowed, SafeDirections, Base, Node
  <2>2. EatsFood(d) <=> Ahead(Head(Base.body), d) = food
    BY DEF EatsFood, Base, Node
  <2> QED BY <2>1, <2>2, AllowedMove DEF GameOK
<1>3. \A states \in SUBSET Snakes : On(states) \in SUBSET Snakes
  <2> SUFFICES ASSUME NEW states \in SUBSET Snakes, NEW t \in states, NEW e \in Allowed(t, food),
                      Head(Moved(t, e).body) # food
               PROVE  Moved(t, e) \in Snakes
    BY DEF Going
  <2>1. Ahead(Head(t.body), e) # food
    <3>1. Head(Moved(t, e).body) = Ahead(Head(t.body), e)
      <4>1. Front(t.body) \in Seq(Cells)
        BY FrontIsInjective DEF Snakes
      <4>2. Head(<<Ahead(Head(t.body), e)>> \o Front(t.body)) = Ahead(Head(t.body), e)
        BY <4>1
      <4> QED BY <4>2 DEF Moved, Node
    <3> QED BY <3>1
  <2> QED BY <2>1, AllowedMove
<1>4. Follows(F, Snakes)
  BY <1>3 DEF Follows
<1>5. Hungry(d) = CHOOSE r : r = After(r)
  BY DEF Hungry
<1>6. \A states \in SUBSET Snakes : F[states] = On(states)
  OBVIOUS
<1> HIDE DEF first, On, F
<1>7. PICK g : IsLevels(g, Snakes, F, first, 1, Horizon)
  BY <1>1, <1>2, <1>4, LevelsExist
<1>8. /\ g \in [1 .. Horizon -> SUBSET Snakes]
      /\ \A n \in 1 .. Horizon : g[n] = IF n = 1 THEN first ELSE F[g[n - 1]]
  BY <1>7 DEF IsLevels
<1>9. \A n \in 1 .. Horizon : n # 1 => g[n - 1] \in SUBSET Snakes
  <2> SUFFICES ASSUME NEW n \in 1 .. Horizon, n # 1 PROVE g[n - 1] \in SUBSET Snakes
    OBVIOUS
  <2>1. n - 1 \in 1 .. Horizon
    BY <1>1
  <2> QED BY <1>8, <2>1
<1>10. g = After(g)
  BY <1>6, <1>8, <1>9
<1>11. Hungry(d) = After(Hungry(d))
  BY <1>5, <1>10
<1>12. ASSUME NEW f, f = After(f)
       PROVE  /\ \A n \in 1 .. Horizon : f[n] = g[n]
              /\ f[1] = first /\ \A n \in 1 .. Horizon : n # 1 => f[n] = On(f[n - 1])
  <2>1. f[1] = first
    <3>1. 1 \in 1 .. Horizon
      BY <1>1
    <3> QED BY <1>12, <3>1
  <2>2. ASSUME NEW n \in 1 .. Horizon, n # 1 PROVE f[n] = On(f[n - 1])
    BY <1>12, <2>2
  <2>3. \A n \in 1 .. Horizon : n # 1 /\ f[n - 1] \in SUBSET Snakes => f[n] = F[f[n - 1]]
    BY <1>6, <2>2
  <2>4. Obeys(f, Snakes, F, first, 1, Horizon)
    BY <2>1, <2>3 DEF Obeys
  <2> HIDE DEF After
  <2>5. \A n \in 1 .. Horizon : f[n] = g[n]
    BY <1>1, <1>7, <2>4, LevelsFacts
  <2> QED BY <2>1, <2>2, <2>5
<1>13. /\ \A n \in 1 .. Horizon : Hungry(d)[n] = g[n]
       /\ Hungry(d)[1] = first
       /\ \A n \in 1 .. Horizon : n # 1 => Hungry(d)[n] = On(Hungry(d)[n - 1])
  <2> HIDE DEF After
  <2> QED BY <1>11, <1>12
<1> QED BY <1>8, <1>13 DEF first, On

(* What became of a move from a body that was expanded: a meal that traps  *)
(* is remembered, and where there was none the search goes on from there.  *)
Done(v, e) ==
  IF Ahead(Head(v.body), e) = food THEN trapping /\ ~Good(Grown(v, e)) ELSE Moved(v, e) \in visited
Closed(v) == \A e \in Allowed(v, food) : Done(v, e)

(* Where the snake can be after so many moves, and what was visited of it  *)
(* and cannot be reached in fewer.                                         *)
Level(n) == Hungry(Head(todo))[n]
Earliest(v, n) == v \in Level(n) /\ v \in visited /\ \A j \in 1 .. n - 1 : v \notin Level(j)

Open(v) ==
  \/ \E i \in DOMAIN queue : queue[i].node = v
  \/ expanded.moves # <<>> /\ v = expanded.node

QueueOK ==
  /\ queue \in Seq([node : Snakes, steps : 1 .. MaxDepth])
  /\ \A i \in DOMAIN queue : Earliest(queue[i].node, queue[i].steps)
  /\ \A i, j \in DOMAIN queue :
       i <= j => queue[j].steps \in {queue[i].steps, queue[i].steps + 1}

ExpandedOK ==
  /\ "moves" \in DOMAIN expanded /\ expanded.moves \in Seq(Directions)
  /\ expanded.moves # <<>> =>
       /\ expanded.node \in Snakes /\ expanded.steps \in 1 .. MaxDepth - 1
       /\ Earliest(expanded.node, expanded.steps)
       /\ ToSet(expanded.moves) \subseteq Allowed(expanded.node, food)
       /\ \A e \in Allowed(expanded.node, food) :
            e \in ToSet(expanded.moves) \/ Done(expanded.node, e)
       /\ \A i \in DOMAIN queue : queue[i].steps \in {expanded.steps, expanded.steps + 1}

(* What was visited is open, or closed, or too deep to be expanded.        *)
VisitedOK ==
  /\ Moved(Base, Head(todo)) \in visited
  /\ \A v \in visited :
       Open(v) \/ Closed(v) \/ (bounded /\ \A j \in 1 .. MaxDepth - 1 : v \notin Level(j))
  /\ trapping => \E n \in 1 .. Horizon : Meals(Head(todo))[n] # {}

CutShort == bounded /\ nodes = MaxNodes /\ queue = <<>> /\ expanded.moves = <<>>

SearchOK ==
  at = "search" =>
    /\ todo # <<>> /\ ~EatsFood(Head(todo)) /\ nodes \in 0 .. MaxNodes
    /\ bounded \in BOOLEAN /\ trapping \in BOOLEAN
    /\ CutShort \/ (QueueOK /\ ExpandedOK /\ VisitedOK)

(* A plan means what it says, and its numbers can be compared.             *)
PlanOK(d, plan) ==
  /\ plan.status \in {"proven_safe_food", "trapping_food", "proven_no_safe_food", "bounded_unknown"}
  /\ VerdictHolds(d, plan)
  /\ {plan.steps, plan.escape, plan.room, plan.survival, plan.cells, plan.moves, plan.distance}
       \subseteq Int

ActionsOK ==
  /\ todo \in Seq(SafeDirections) /\ DOMAIN actions \cup ToSet(todo) = SafeDirections
  /\ \A d \in DOMAIN actions : PlanOK(d, actions[d])

StageOK ==
  /\ at \in {"evaluate", "search", "ranked"}
  /\ at = "evaluate" =>
       nodes = 0 /\ bounded = FALSE /\ trapping = FALSE /\ expanded = NothingExpanded
  /\ at = "ranked" =>
       /\ todo = <<>>
       /\ LET keys == {RankKey(actions[d]) : d \in DOMAIN actions}
          IN ranks = [d \in DOMAIN actions |->
                        1 + Cardinality({k \in keys : Exceeds(k, RankKey(actions[d]))})]

PlannerInv == GameOK /\ StageOK /\ ActionsOK /\ SearchOK

(* A move puts the head where it leads.                                    *)
LEMMA HeadAfterMove ==
  ASSUME NEW s \in Snakes, NEW e PROVE Head(Moved(s, e).body) = Ahead(Head(s.body), e)
<1>1. Front(s.body) \in Seq(Cells)
  BY FrontIsInjective DEF Snakes
<1>2. Head(<<Ahead(Head(s.body), e)>> \o Front(s.body)) = Ahead(Head(s.body), e)
  BY <1>1
<1> QED BY <1>2 DEF Moved, Node

(* Where the snake is after the first move, and the meal it had if any.    *)
LEMMA FirstLevel ==
  ASSUME GameOK, NEW d \in SafeDirections
  PROVE  /\ Hungry(d)[1] = IF EatsFood(d) THEN {} ELSE {Moved(Base, d)}
         /\ Meals(d)[1] = IF EatsFood(d) THEN {Grown(Base, d)} ELSE {}
<1>1. 1 \in 1 .. Horizon
  BY PlannerAssumption DEF Horizon
<1>2. Meals(d)[1] = IF EatsFood(d) THEN {Grown(Base, d)} ELSE {}
  BY <1>1 DEF Meals
<1> QED BY <1>2, HungryFacts

(* Where the snake can be, and which meals it can have, one move later.    *)
LEMMA NextLevel ==
  ASSUME GameOK, NEW d \in SafeDirections, NEW n \in 1 .. Horizon - 1, NEW s
  PROVE  /\ s \in Hungry(d)[n + 1] <=>
              \E t \in Hungry(d)[n] : \E e \in Allowed(t, food) :
                Ahead(Head(t.body), e) # food /\ s = Moved(t, e)
         /\ s \in Meals(d)[n + 1] <=>
              \E t \in Hungry(d)[n] : \E e \in Allowed(t, food) :
                Ahead(Head(t.body), e) = food /\ s = Grown(t, e)
<1>1. Horizon \in Nat
  BY PlannerAssumption DEF Horizon
<1>2. n \in 1 .. Horizon /\ n + 1 \in 1 .. Horizon /\ n + 1 > 1 /\ n + 1 # 1 /\ (n + 1) - 1 = n
  BY <1>1
<1>3. Hungry(d)[n + 1] = {x \in Going(Hungry(d)[n], food) : Head(x.body) # food}
  BY <1>2, HungryFacts
<1>4. Meals(d)[n + 1] = UNION {Eating(t) : t \in Hungry(d)[n]}
  BY <1>2 DEF Meals
<1> DEFINE level == Hungry(d)[n]
<1>5. level \in SUBSET Snakes
  BY <1>2, HungryFacts
<1> HIDE DEF level
<1>6. s \in Going(level, food) <=> \E t \in level : \E e \in Allowed(t, food) : s = Moved(t, e)
  BY DEF Going
<1>7. \A t \in level : \A e : Head(Moved(t, e).body) = Ahead(Head(t.body), e)
  BY <1>5, HeadAfterMove
<1>8. s \in UNION {Eating(t) : t \in level} <=>
        \E t \in level : \E e \in Allowed(t, food) : Ahead(Head(t.body), e) = food /\ s = Grown(t, e)
  BY DEF Eating
<1> QED BY <1>3, <1>4, <1>6, <1>7, <1>8 DEF level

(* After a first move that eats there is no going on without a meal.       *)
LEMMA FirstMeal ==
  ASSUME GameOK, NEW d \in SafeDirections, EatsFood(d)
  PROVE  \A n \in 1 .. Horizon : Meals(d)[n] = IF n = 1 THEN {Grown(Base, d)} ELSE {}
<1>1. Horizon \in Nat /\ 1 <= Horizon
  BY PlannerAssumption DEF Horizon
<1> DEFINE N == {n \in Nat : n + 1 <= Horizon => Hungry(d)[n + 1] = {}}
<1>2. 0 \in N
  <2>1. Hungry(d)[1] = {}
    BY FirstLevel
  <2> QED BY <2>1
<1>3. ASSUME NEW n \in Nat, n \in N PROVE n + 1 \in N
  <2> SUFFICES ASSUME (n + 1) + 1 <= Horizon PROVE Hungry(d)[(n + 1) + 1] = {}
    OBVIOUS
  <2>1. n + 1 \in 1 .. Horizon - 1
    BY <1>1
  <2>2. Hungry(d)[n + 1] = {}
    BY <1>1, <1>3
  <2> QED BY <2>1, <2>2, NextLevel
<1>4. Nat \subseteq N
  <2> HIDE DEF N
  <2> QED BY <1>2, <1>3, CountingUp
<1>5. ASSUME NEW n \in 1 .. Horizon, n # 1 PROVE Meals(d)[n] = {}
  <2>1. n - 1 \in 1 .. Horizon - 1 /\ (n - 1) + 1 = n
    BY <1>1, <1>5
  <2>2. Hungry(d)[n - 1] = {}
    <3>1. n - 2 \in Nat /\ (n - 2) + 1 = n - 1 /\ n - 1 <= Horizon
      BY <1>1, <1>5
    <3>2. n - 2 \in N
      <4> HIDE DEF N
      <4> QED BY <1>4, <3>1
    <3> QED BY <3>1, <3>2
  <2>3. \A s : s \notin Meals(d)[(n - 1) + 1]
    BY <2>1, <2>2, NextLevel
  <2> QED BY <2>1, <2>3
<1> QED BY <1>5, FirstLevel

(* Where all that was visited in the first levels is closed, all that can  *)
(* be reached on those and the next was visited, and no meal there is good *)
(* or escaped notice.                                                      *)
LEMMA AllClosed ==
  ASSUME GameOK, Head(todo) \in SafeDirections, ~EatsFood(Head(todo)),
         Moved(Base, Head(todo)) \in visited,
         NEW m \in 0 .. Horizon - 1,
         \A v \in visited : \A j \in 1 .. m : v \in Level(j) => Closed(v)
  PROVE  \A n \in 1 .. m + 1 :
           Level(n) \subseteq visited /\ \A x \in Meals(Head(todo))[n] : trapping /\ ~Good(x)
<1>1. Horizon \in Nat /\ 1 <= Horizon
  BY PlannerAssumption DEF Horizon
<1> DEFINE d == Head(todo)
           Searched(n) == Level(n) \subseteq visited /\ \A x \in Meals(d)[n] : trapping /\ ~Good(x)
           N == {n \in Nat : n <= m => Searched(n + 1)}
<1>2. 0 \in N
  <2>1. Level(1) = {Moved(Base, d)} /\ Meals(d)[1] = {}
    BY FirstLevel DEF Level
  <2>2. Searched(1)
    BY <2>1
  <2>3. 0 + 1 = 1
    OBVIOUS
  <2> HIDE DEF Searched
  <2> QED BY <2>2, <2>3
<1>3. ASSUME NEW n \in Nat, n \in N PROVE n + 1 \in N
  <2> SUFFICES ASSUME n + 1 <= m PROVE Searched((n + 1) + 1)
    OBVIOUS
  <2>1. n + 1 \in 1 .. Horizon - 1 /\ n + 1 \in 1 .. m /\ n <= m
    BY <1>1
  <2>2. Level(n + 1) \subseteq visited
    BY <1>3, <2>1
  <2> DEFINE k == n + 1
  <2> HIDE DEF k, d
  <2>3. \A t \in Level(k) : \A e \in Allowed(t, food) : Done(t, e)
    BY <2>1, <2>2 DEF Closed, k
  <2>4. k \in 1 .. Horizon - 1 /\ Level(k) = Hungry(d)[k] /\ Level(k + 1) = Hungry(d)[k + 1]
    BY <2>1 DEF Level, k, d
  <2>5. d \in SafeDirections
    BY DEF d
  <2>6. ASSUME NEW s \in Level(k + 1) PROVE s \in visited
    <3>1. \E t \in Level(k) : \E e \in Allowed(t, food) :
            Ahead(Head(t.body), e) # food /\ s = Moved(t, e)
      <4> DEFINE next == Hungry(d)[k + 1]
      <4>1. s \in next <=>
              \E t \in Hungry(d)[k] : \E e \in Allowed(t, food) :
                Ahead(Head(t.body), e) # food /\ s = Moved(t, e)
        BY <2>4, <2>5, NextLevel
      <4> QED BY <2>4, <2>6, <4>1
    <3> QED BY <2>3, <3>1 DEF Done
  <2>7. ASSUME NEW x \in Meals(d)[k + 1] PROVE trapping /\ ~Good(x)
    <3>1. \E t \in Level(k) : \E e \in Allowed(t, food) :
            Ahead(Head(t.body), e) = food /\ x = Grown(t, e)
      <4> DEFINE next == Meals(d)[k + 1]
      <4>1. x \in next <=>
              \E t \in Hungry(d)[k] : \E e \in Allowed(t, food) :
                Ahead(Head(t.body), e) = food /\ x = Grown(t, e)
        BY <2>4, <2>5, NextLevel
      <4> QED BY <2>4, <2>7, <4>1
    <3> QED BY <2>3, <3>1 DEF Done
  <2> QED BY <2>6, <2>7 DEF k, d
<1>4. Nat \subseteq N
  <2> HIDE DEF N
  <2> QED BY <1>2, <1>3, CountingUp
<1> SUFFICES ASSUME NEW n \in 1 .. m + 1 PROVE Searched(n)
  OBVIOUS
<1>5. n - 1 \in Nat /\ (n - 1) + 1 = n /\ n - 1 <= m
  OBVIOUS
<1>6. n - 1 \in N
  <2> HIDE DEF N
  <2> QED BY <1>4, <1>5
<1> HIDE DEF Searched
<1>7. Searched((n - 1) + 1)
  BY <1>5, <1>6
<1> QED BY <1>5, <1>7

(* An entry of the queue.                                                  *)
LEMMA QueueEntry ==
  ASSUME QueueOK, NEW i \in DOMAIN queue
  PROVE  /\ queue[i].node \in Snakes /\ queue[i].steps \in 1 .. MaxDepth
         /\ Earliest(queue[i].node, queue[i].steps)
<1> DEFINE R == [node : Snakes, steps : 1 .. MaxDepth]
<1>1. queue \in Seq(R) /\ Earliest(queue[i].node, queue[i].steps)
  BY DEF QueueOK
<1> HIDE DEF R
<1>2. queue[i] \in R
  BY <1>1
<1> QED BY <1>1, <1>2 DEF R

(* What is nearer than all that is still open was searched.                *)
LEMMA NearerIsSearched ==
  ASSUME GameOK, Head(todo) \in SafeDirections, ~EatsFood(Head(todo)),
         QueueOK, ExpandedOK, VisitedOK,
         NEW k \in 1 .. MaxDepth,
         \A i \in DOMAIN queue : queue[i].steps >= k,
         expanded.moves # <<>> => expanded.steps >= k
  PROVE  \A n \in 1 .. k :
           Level(n) \subseteq visited /\ \A x \in Meals(Head(todo))[n] : trapping /\ ~Good(x)
<1>1. MaxDepth \in Nat /\ Horizon = MaxDepth + 2 /\ k \in Nat
  BY PlannerAssumption DEF Horizon
<1>2. ASSUME NEW v \in visited, NEW j \in 1 .. k - 1, v \in Level(j) PROVE Closed(v)
  <2>1. ~Open(v)
    <3>1. ASSUME NEW i \in DOMAIN queue PROVE queue[i].node # v
      <4>1. queue[i].steps >= k /\ Earliest(queue[i].node, queue[i].steps)
        BY DEF QueueOK
      <4>2. queue[i].steps \in Int
        BY <1>1, QueueEntry
      <4>3. j \in 1 .. queue[i].steps - 1
        BY <1>1, <4>1, <4>2
      <4> QED BY <1>2, <4>1, <4>3 DEF Earliest
    <3>2. ASSUME expanded.moves # <<>> PROVE expanded.node # v
      <4>1. expanded.steps >= k /\ expanded.steps \in 1 .. MaxDepth - 1
            /\ Earliest(expanded.node, expanded.steps)
        BY <3>2 DEF ExpandedOK
      <4>2. j \in 1 .. expanded.steps - 1
        BY <1>1, <4>1
      <4> QED BY <1>2, <4>1, <4>2 DEF Earliest
    <3> QED BY <3>1, <3>2 DEF Open
  <2>2. j \in 1 .. MaxDepth - 1
    BY <1>1
  <2> QED BY <1>2, <2>1, <2>2 DEF VisitedOK
<1>3. k - 1 \in 0 .. Horizon - 1 /\ (k - 1) + 1 = k
  BY <1>1
<1>4. Moved(Base, Head(todo)) \in visited
  BY DEF VisitedOK
<1>5. \A n \in 1 .. (k - 1) + 1 :
        Level(n) \subseteq visited /\ \A x \in Meals(Head(todo))[n] : trapping /\ ~Good(x)
  BY <1>2, <1>3, <1>4, AllClosed
<1> QED BY <1>3, <1>5

(* The search does not touch the game, so its plays stay what they are.    *)
LEMMA SameGame ==
  ASSUME UNCHANGED position
  PROVE  /\ GameOK' <=> GameOK
         /\ SafeDirections' = SafeDirections
         /\ \A d, plan : PlanOK(d, plan)' <=> PlanOK(d, plan)
<1>1. snake' = snake /\ direction' = direction /\ food' = food
  BY DEF position, vars
<1>2. Base' = Base /\ SafeDirections' = SafeDirections /\ (GameOK' <=> GameOK)
  BY <1>1 DEF Base, SafeDirections, GameOK
<1>3. \A d : EatsFood(d)' <=> EatsFood(d)
  BY <1>1 DEF EatsFood
<1>4. \A d : Hungry(d)' = Hungry(d)
  BY <1>1, <1>2, <1>3 DEF Hungry
<1>5. \A d : Meals(d)' = Meals(d)
  <2>1. \A t : Eating(t)' = Eating(t)
    BY <1>1 DEF Eating
  <2> QED BY <1>1, <1>2, <1>3, <1>4, <2>1 DEF Meals
<1>6. \A d : GoodMoves(d)' = GoodMoves(d)
  BY <1>5 DEF GoodMoves
<1>7. \A d, plan : VerdictHolds(d, plan)' <=> VerdictHolds(d, plan)
  BY <1>5, <1>6 DEF VerdictHolds
<1> QED BY <1>2, <1>7 DEF PlanOK

(* So does the search of a first move while it goes on.                    *)
LEMMA SameSearch ==
  ASSUME UNCHANGED <<position, todo>>
  PROVE  /\ \A n : Level(n)' = Level(n)
         /\ Meals(Head(todo))' = Meals(Head(todo))
         /\ EatsFood(Head(todo))' <=> EatsFood(Head(todo))
         /\ Moved(Base, Head(todo))' = Moved(Base, Head(todo))
         /\ food' = food
<1>1. snake' = snake /\ direction' = direction /\ food' = food /\ todo' = todo
  BY DEF position, vars
<1>2. Base' = Base
  BY <1>1 DEF Base
<1>3. EatsFood(Head(todo))' <=> EatsFood(Head(todo))
  BY <1>1 DEF EatsFood
<1>4. Hungry(Head(todo))' = Hungry(Head(todo))
  BY <1>1, <1>2, <1>3 DEF Hungry
<1>5. Meals(Head(todo))' = Meals(Head(todo))
  <2>1. \A t : Eating(t)' = Eating(t)
    BY <1>1 DEF Eating
  <2> QED BY <1>1, <1>2, <1>3, <1>4, <2>1 DEF Meals
<1>6. \A n : Level(n)' = Level(n)
  BY <1>4 DEF Level
<1> QED BY <1>1, <1>2, <1>3, <1>5, <1>6

(* What is visited or a trap stays so.                                     *)
LEMMA CarriedOn ==
  ASSUME UNCHANGED <<position, todo>>, visited \subseteq visited', trapping => trapping'
  PROVE  \A v : /\ \A n : Earliest(v, n) => Earliest(v, n)'
                /\ \A e : Done(v, e) => Done(v, e)'
                /\ Closed(v) => Closed(v)'
<1>1. food' = food /\ \A n : Level(n)' = Level(n)
  BY SameSearch
<1>2. \A v, n : Earliest(v, n) => Earliest(v, n)'
  BY <1>1 DEF Earliest
<1>3. \A v, e : Done(v, e) => Done(v, e)'
  BY <1>1 DEF Done
<1>4. \A v : Closed(v) => Closed(v)'
  BY <1>1, <1>3 DEF Closed
<1> QED BY <1>2, <1>3, <1>4

(* The first element of a sequence and the others.                         *)
LEMMA HeadAndTail ==
  ASSUME NEW T, NEW s \in Seq(T), s # <<>>
  PROVE  /\ Head(s) \in T /\ s[1] = Head(s) /\ 1 \in DOMAIN s
         /\ Tail(s) \in Seq(T) /\ DOMAIN s = 1 .. Len(s) /\ Len(s) \in Nat \ {0}
         /\ DOMAIN Tail(s) = 1 .. Len(s) - 1
         /\ \A i \in DOMAIN Tail(s) : i + 1 \in DOMAIN s /\ Tail(s)[i] = s[i + 1]
         /\ \A i \in DOMAIN s : i # 1 => i - 1 \in DOMAIN Tail(s) /\ s[i] = Tail(s)[i - 1]
         /\ ToSet(s) = {Head(s)} \cup ToSet(Tail(s))
<1>1. /\ Head(s) \in T /\ s[1] = Head(s) /\ 1 \in DOMAIN s
      /\ Tail(s) \in Seq(T) /\ DOMAIN s = 1 .. Len(s) /\ Len(s) \in Nat \ {0}
      /\ Len(Tail(s)) = Len(s) - 1 /\ DOMAIN Tail(s) = 1 .. Len(s) - 1
  OBVIOUS
<1>2. \A i \in DOMAIN Tail(s) : i + 1 \in DOMAIN s /\ Tail(s)[i] = s[i + 1]
  BY <1>1
<1> DEFINE t == Tail(s)
<1> HIDE DEF t
<1>3. ASSUME NEW i \in DOMAIN s, i # 1 PROVE i - 1 \in DOMAIN t /\ s[i] = t[i - 1]
  <2>1. i - 1 \in DOMAIN t /\ (i - 1) + 1 = i
    BY <1>1, <1>3 DEF t
  <2> QED BY <1>2, <2>1 DEF t
<1>4. \A x \in ToSet(s) : x \in {Head(s)} \cup ToSet(t)
  BY <1>1, <1>3 DEF ToSet
<1>5. \A x \in ToSet(t) : x \in ToSet(s)
  BY <1>2 DEF ToSet, t
<1>6. Head(s) \in ToSet(s)
  BY <1>1 DEF ToSet
<1> QED BY <1>1, <1>2, <1>3, <1>4, <1>5, <1>6 DEF t

(* The body after the first move.                                          *)
LEMMA FirstFacts ==
  ASSUME GameOK, Head(todo) \in SafeDirections
  PROVE  /\ First \in Snakes
         /\ AteFood(Base, Head(todo), food) <=> EatsFood(Head(todo))
         /\ First = IF EatsFood(Head(todo)) THEN Grown(Base, Head(todo)) ELSE Moved(Base, Head(todo))
<1>1. Head(todo) \in Allowed(Base, food)
  BY DEF Allowed, SafeDirections, Base, Node
<1>2. /\ EatsFood(Head(todo)) <=> Ahead(Head(Base.body), Head(todo)) = food
      /\ AteFood(Base, Head(todo), food) <=> EatsFood(Head(todo))
  BY DEF EatsFood, AteFood, Base, Node
<1> QED BY <1>1, <1>2, AllowedMove DEF GameOK, First

(* The distance between two cells is a number.                             *)
LEMMA DistanceIsNumber == ASSUME NEW c \in Cells, food \in Cells PROVE FoodDistance(c) \in Int
<1>1. Width \in Nat /\ Height \in Nat
  BY SnakeAssumption
<1>2. c[1] \in Int /\ c[2] \in Int /\ food[1] \in Int /\ food[2] \in Int
  BY <1>1 DEF Cells
<1>3. c[1] - food[1] \in Int /\ c[2] - food[2] \in Int
  BY <1>2
<1>4. \A n \in Int : Abs(n) \in Int
  BY DEF Abs
<1> QED BY <1>3, <1>4 DEF FoodDistance

(* There are four directions.                                              *)
LEMMA DirectionsAreFinite == IsFiniteSet(Directions)
<1>1. IsFiniteSet({} \cup {"up"}) /\ {} \cup {"up"} = {"up"}
  BY FS_EmptySet, FS_AddElement
<1>2. IsFiniteSet({"up"} \cup {"right"}) /\ {"up"} \cup {"right"} = {"up", "right"}
  BY <1>1, FS_AddElement
<1>3. /\ IsFiniteSet({"up", "right"} \cup {"down"})
      /\ {"up", "right"} \cup {"down"} = {"up", "right", "down"}
  BY <1>2, FS_AddElement
<1>4. /\ IsFiniteSet({"up", "right", "down"} \cup {"left"})
      /\ {"up", "right", "down"} \cup {"left"} = Directions
  BY <1>3, FS_AddElement DEF Directions
<1> QED BY <1>4

(* What is recorded of a first move can be compared.                       *)
LEMMA PlanNumbers ==
  ASSUME GameOK, Head(todo) \in SafeDirections,
         NEW status, NEW goal \in Snakes, NEW steps \in Int
  PROVE  LET plan == Planned(status, goal, steps)
         IN {plan.steps, plan.escape, plan.room, plan.survival, plan.cells, plan.moves, plan.distance}
              \subseteq Int
<1>1. EscapeHorizon \in Nat /\ SurvivalHorizon \in Nat
  BY PlannerAssumption
<1>2. First \in Snakes
  BY FirstFacts
<1>3. SurvivalDepth(goal, EscapeHorizon) \in Int /\ SurvivalDepth(First, SurvivalHorizon) \in Int
  <2>1. SurvivalDepth(goal, EscapeHorizon) \in 0 .. EscapeHorizon
    BY <1>1, SurvivalFacts
  <2>2. SurvivalDepth(First, SurvivalHorizon) \in 0 .. SurvivalHorizon
    BY <1>1, <1>2, SurvivalFacts
  <2> QED BY <1>1, <2>1, <2>2
<1>4. ReachableCells(goal) \in Int /\ ReachableCells(First) \in Int
  <2>1. ReachableCells(goal) \in Nat /\ ReachableCells(First) \in Nat
    BY <1>2, ReachableFacts
  <2> QED BY <2>1
<1>5. Cardinality(SafeAfter(Head(todo))) \in Int
  <2>1. SafeAfter(Head(todo)) \in SUBSET Directions
    BY DEF SafeAfter, SafeFrom
  <2>2. IsFiniteSet(Directions)
    BY DirectionsAreFinite
  <2>3. Cardinality(SafeAfter(Head(todo))) \in Nat
    BY <2>1, <2>2, FS_Subset, FS_CardinalityType
  <2> QED BY <2>3
<1>6. FoodDistance(Head(First.body)) \in Int
  <2>1. Head(First.body) \in Cells
    BY <1>2 DEF Snakes
  <2> QED BY <2>1, DistanceIsNumber DEF GameOK
<1> DEFINE plan == Planned(status, goal, steps)
<1>7. /\ plan.steps = steps
      /\ plan.escape = 0 \/ plan.escape = SurvivalDepth(goal, EscapeHorizon)
      /\ plan.room = 0 \/ plan.room = 1 \/ plan.room = ReachableCells(goal)
      /\ plan.survival = SurvivalDepth(First, SurvivalHorizon)
      /\ plan.cells = ReachableCells(First)
      /\ plan.moves = Cardinality(SafeAfter(Head(todo)))
      /\ plan.distance = FoodDistance(Head(First.body))
  BY DEF Planned
<1> HIDE DEF plan
<1>8. /\ plan.steps \in Int /\ plan.escape \in Int /\ plan.room \in Int /\ plan.survival \in Int
      /\ plan.cells \in Int /\ plan.moves \in Int /\ plan.distance \in Int
  BY <1>3, <1>4, <1>5, <1>6, <1>7
<1> QED BY <1>8 DEF plan

(* The least of some numbers.                                              *)
LEMMA LeastIs ==
  ASSUME NEW S \in SUBSET Int, NEW m \in S, \A n \in S : m <= n PROVE Min(S) = m
<1>1. \A x \in S : (\A y \in S : x =< y) => x = m
  BY SMT
<1> QED BY <1>1 DEF Min

(* The verdict of a path to the nearest good meal.                         *)
LEMMA NearestGood ==
  ASSUME NEW d, NEW n \in 1 .. Horizon, NEW x \in Meals(d)[n], Good(x),
         \A j \in 1 .. n - 1 : \A y \in Meals(d)[j] : ~Good(y),
         NEW plan, plan.status = "proven_safe_food", plan.steps = n
  PROVE  VerdictHolds(d, plan)
<1>1. Horizon \in Nat
  BY PlannerAssumption DEF Horizon
<1>2. GoodMoves(d) \in SUBSET Int /\ n \in GoodMoves(d)
  BY <1>1 DEF GoodMoves
<1>3. ASSUME NEW j \in GoodMoves(d) PROVE n <= j
  <2>1. j \in 1 .. Horizon /\ \E y \in Meals(d)[j] : Good(y)
    BY DEF GoodMoves
  <2>2. j \notin 1 .. n - 1
    BY <2>1
  <2> QED BY <1>1, <2>1, <2>2
<1>4. Min(GoodMoves(d)) = n
  BY <1>2, <1>3, LeastIs
<1> QED BY <1>2, <1>4 DEF VerdictHolds

(* A first move is judged: what is recorded of it is what the game says.   *)
LEMMA Returned ==
  ASSUME PlannerInv, todo # <<>>, NEW plan, PlanOK(Head(todo), plan), Return(plan)
  PROVE  PlannerInv'
<1>1. UNCHANGED position /\ todo' = Tail(todo) /\ at' = "evaluate"
      /\ DOMAIN actions' = DOMAIN actions \cup {Head(todo)}
      /\ \A d \in DOMAIN actions' : actions'[d] = IF d = Head(todo) THEN plan ELSE actions[d]
  BY DEF Return
<1>2. GameOK' /\ SafeDirections' = SafeDirections /\ \A d, p : PlanOK(d, p)' <=> PlanOK(d, p)
  BY <1>1, SameGame DEF PlannerInv
<1>3. StageOK' /\ SearchOK'
  BY <1>1 DEF StageOK, SearchOK, Return, FreshSearch
<1>4. ActionsOK'
  <2>1. todo \in Seq(SafeDirections) /\ DOMAIN actions \cup ToSet(todo) = SafeDirections
        /\ \A d \in DOMAIN actions : PlanOK(d, actions[d])
    BY DEF PlannerInv, ActionsOK
  <2>2. Tail(todo) \in Seq(SafeDirections) /\ ToSet(todo) = {Head(todo)} \cup ToSet(Tail(todo))
    BY <2>1, HeadAndTail
  <2>3. ASSUME NEW d \in DOMAIN actions' PROVE PlanOK(d, actions[d])'
    <3>1. PlanOK(d, actions'[d])
      BY <1>1, <2>1, <2>3
    <3> QED BY <1>2, <3>1
  <2>4. ToSet(todo') = ToSet(Tail(todo)) /\ ToSet(todo)' = ToSet(todo')
    BY <1>1 DEF ToSet
  <2> QED BY <1>1, <1>2, <2>1, <2>2, <2>3, <2>4 DEF ActionsOK
<1> QED BY <1>2, <1>3, <1>4 DEF PlannerInv

(* The move to be judged is one of the game's safe ones.                   *)
LEMMA ToJudge ==
  ASSUME PlannerInv, todo # <<>>
  PROVE  GameOK /\ Head(todo) \in SafeDirections /\ food \in Cells
<1>1. todo \in Seq(SafeDirections)
  BY DEF PlannerInv, ActionsOK
<1>2. Head(todo) \in SafeDirections
  BY <1>1, HeadAndTail
<1> QED BY <1>2 DEF PlannerInv, GameOK

(* What is known while a search goes on.                                   *)
LEMMA SearchGoesOn ==
  ASSUME PlannerInv, at = "search", expanded.moves # <<>> \/ queue # <<>>
  PROVE  /\ todo # <<>> /\ ~EatsFood(Head(todo)) /\ nodes \in 0 .. MaxNodes
         /\ bounded \in BOOLEAN /\ trapping \in BOOLEAN
         /\ QueueOK /\ ExpandedOK /\ VisitedOK
         /\ GameOK /\ Head(todo) \in SafeDirections /\ food \in Cells
<1>1. /\ todo # <<>> /\ ~EatsFood(Head(todo)) /\ nodes \in 0 .. MaxNodes
      /\ bounded \in BOOLEAN /\ trapping \in BOOLEAN
      /\ QueueOK /\ ExpandedOK /\ VisitedOK
  BY DEF PlannerInv, SearchOK, CutShort
<1> QED BY <1>1, ToJudge

(* A step of the search that leaves the game and the plans alone keeps the *)
(* invariant if it keeps what is said of the search.                       *)
LEMMA SearchStep ==
  ASSUME PlannerInv, UNCHANGED <<position, todo, actions, ranks>>, at' = "search", SearchOK'
  PROVE  PlannerInv'
<1>1. GameOK' /\ SafeDirections' = SafeDirections /\ \A d, p : PlanOK(d, p)' <=> PlanOK(d, p)
  BY SameGame DEF PlannerInv
<1>2. ActionsOK'
  <2>1. todo \in Seq(SafeDirections) /\ DOMAIN actions \cup ToSet(todo) = SafeDirections
        /\ \A d \in DOMAIN actions : PlanOK(d, actions[d])
    BY DEF PlannerInv, ActionsOK
  <2>2. ToSet(todo)' = ToSet(todo)
    BY DEF ToSet
  <2>3. ASSUME NEW d \in DOMAIN actions' PROVE PlanOK(d, actions[d])'
    <3>1. PlanOK(d, actions'[d])
      BY <2>1, <2>3
    <3> QED BY <1>1, <3>1
  <2> QED BY <1>1, <2>1, <2>2, <2>3 DEF ActionsOK
<1>3. StageOK'
  BY DEF StageOK
<1> QED BY <1>1, <1>2, <1>3 DEF PlannerInv

(* A first move that eats is judged by what the meal leaves.               *)
LEMMA EatFirstKeeps == ASSUME PlannerInv, EatFirst PROVE PlannerInv'
<1> DEFINE d == Head(todo)
<1>1. /\ todo # <<>> /\ AteFood(Base, d, food)
      /\ \/ SafeMeal(First) /\ Return(Planned("proven_safe_food", First, 1))
         \/ ~SafeMeal(First) /\ Return(Planned("trapping_food", First, 0))
  BY DEF EatFirst
<1>2. GameOK /\ d \in SafeDirections /\ First \in Snakes /\ EatsFood(d) /\ First = Grown(Base, d)
  BY <1>1, ToJudge, FirstFacts
<1>3. 1 \in 1 .. Horizon
  BY PlannerAssumption DEF Horizon
<1>4. /\ Meals(d)[1] = {First}
      /\ \A n \in 1 .. Horizon : n # 1 => Meals(d)[n] = {}
  BY <1>2, <1>3, FirstMeal
<1>5. SafeMeal(First) <=> Good(First)
  BY <1>2, SafeMealFacts
<1> HIDE DEF d
<1>6. CASE SafeMeal(First)
  <2>1. PICK plan : plan = Planned("proven_safe_food", First, 1)
    OBVIOUS
  <2>2. plan.status = "proven_safe_food" /\ plan.steps = 1
    BY <2>1 DEF Planned
  <2>3. VerdictHolds(d, plan)
    BY <1>3, <1>4, <1>5, <1>6, <2>2, NearestGood
  <2>4. PlanOK(d, plan)
    BY <1>2, <2>1, <2>2, <2>3, PlanNumbers DEF PlanOK, d
  <2>5. Return(plan)
    BY <1>1, <1>6, <2>1
  <2> QED BY <1>1, <2>4, <2>5, Returned DEF d
<1>7. CASE ~SafeMeal(First)
  <2>1. PICK plan : plan = Planned("trapping_food", First, 0)
    OBVIOUS
  <2>2. plan.status = "trapping_food" /\ plan.steps = 0
    BY <2>1 DEF Planned
  <2>3. GoodMoves(d) = {} /\ Meals(d)[1] # {}
    BY <1>4, <1>5, <1>7 DEF GoodMoves
  <2>4. VerdictHolds(d, plan)
    BY <1>3, <2>2, <2>3 DEF VerdictHolds
  <2>5. PlanOK(d, plan)
    BY <1>2, <2>1, <2>2, <2>4, PlanNumbers DEF PlanOK, d
  <2>6. Return(plan)
    BY <1>1, <1>7, <2>1
  <2> QED BY <1>1, <2>5, <2>6, Returned DEF d
<1> QED BY <1>6, <1>7

(* A search starts from the one body after the first move.                 *)
LEMMA StartSearchKeeps == ASSUME PlannerInv, StartSearch PROVE PlannerInv'
<1>1. /\ at = "evaluate" /\ todo # <<>> /\ ~AteFood(Base, Head(todo), food) /\ at' = "search"
      /\ queue' = <<[node |-> First, steps |-> 1]>> /\ visited' = {First}
      /\ UNCHANGED <<todo, actions, nodes, bounded, trapping, expanded, ranks, position>>
  BY DEF StartSearch
<1>2. GameOK /\ Head(todo) \in SafeDirections /\ First \in Snakes /\ ~EatsFood(Head(todo))
      /\ First = Moved(Base, Head(todo))
  BY <1>1, ToJudge, FirstFacts
<1>3. /\ nodes = 0 /\ bounded = FALSE /\ trapping = FALSE
      /\ expanded.moves = <<>> /\ "moves" \in DOMAIN expanded
  BY <1>1 DEF PlannerInv, StageOK, NothingExpanded
<1>4. Level(1) = {First}
  BY <1>2, FirstLevel DEF Level
<1>5. MaxDepth \in Nat \ {0} /\ MaxNodes \in Nat
  BY PlannerAssumption
<1> DEFINE only == [node |-> First, steps |-> 1]  R == [node : Snakes, steps : 1 .. MaxDepth]
<1>6. only \in R
  BY <1>2, <1>5
<1>7. only.node = First /\ only.steps = 1
  OBVIOUS
<1> HIDE DEF only, R
<1>8. queue' \in Seq(R) /\ DOMAIN queue' = {1} /\ queue'[1] = only
  BY <1>1, <1>6 DEF only
<1>9. PICK u : u = First
  OBVIOUS
<1>9a. Earliest(u, 1)'
  <2>1. Level(1)' = Level(1)
    BY <1>1, SameSearch
  <2> QED BY <1>1, <1>4, <1>9, <2>1 DEF Earliest
<1>10. QueueOK'
  <2>1. Earliest(queue[1].node, queue[1].steps)'
    BY <1>7, <1>8, <1>9, <1>9a
  <2> QED BY <1>7, <1>8, <2>1 DEF QueueOK, R
<1>11. ExpandedOK'
  BY <1>1, <1>3 DEF ExpandedOK
<1>12. VisitedOK'
  <2>1. Open(u)'
    BY <1>7, <1>8, <1>9 DEF Open
  <2>2. Moved(Base, Head(todo))' = u
    BY <1>1, <1>2, <1>9, SameSearch
  <2>3. visited' = {u} /\ trapping' = FALSE
    BY <1>1, <1>3, <1>9
  <2> QED BY <2>1, <2>2, <2>3 DEF VisitedOK
<1>13. ~EatsFood(Head(todo))'
  BY <1>1, <1>2, SameSearch
<1>14. SearchOK'
  <2>1. nodes' \in 0 .. MaxNodes
    BY <1>1, <1>3, <1>5
  <2>2. bounded' \in BOOLEAN /\ trapping' \in BOOLEAN /\ todo' # <<>>
    BY <1>1, <1>3
  <2> QED BY <1>10, <1>11, <1>12, <1>13, <2>1, <2>2 DEF SearchOK
<1> QED BY <1>1, <1>14, SearchStep

(* A body is taken from the queue: too deep, or open with all its moves.   *)
LEMMA TakeNodeKeeps == ASSUME PlannerInv, TakeNode PROVE PlannerInv'
<1>1. /\ at = "search" /\ expanded.moves = <<>> /\ queue # <<>> /\ queue' = Tail(queue)
      /\ UNCHANGED <<at, todo, actions, visited, nodes, trapping, ranks, position>>
  BY DEF TakeNode
<1>2. /\ todo # <<>> /\ ~EatsFood(Head(todo)) /\ nodes \in 0 .. MaxNodes
      /\ bounded \in BOOLEAN /\ trapping \in BOOLEAN
      /\ QueueOK /\ ExpandedOK /\ VisitedOK
      /\ GameOK /\ Head(todo) \in SafeDirections /\ food \in Cells
  BY <1>1, SearchGoesOn
<1> DEFINE R == [node : Snakes, steps : 1 .. MaxDepth]  v == queue[1].node  k == queue[1].steps
<1> HIDE DEF R
<1>3. /\ queue \in Seq(R) /\ Tail(queue) \in Seq(R) /\ Head(queue) = queue[1] /\ 1 \in DOMAIN queue
      /\ \A i \in DOMAIN Tail(queue) : i + 1 \in DOMAIN queue /\ Tail(queue)[i] = queue[i + 1]
      /\ \A i \in DOMAIN queue : i # 1 => i - 1 \in DOMAIN Tail(queue) /\ queue[i] = Tail(queue)[i - 1]
      /\ DOMAIN queue \in SUBSET (Nat \ {0})
      /\ DOMAIN Tail(queue) \in SUBSET (Nat \ {0})
  <2>1. queue \in Seq(R)
    BY <1>2 DEF QueueOK, R
  <2> QED BY <1>1, <2>1, HeadAndTail
<1>4. v \in Snakes /\ k \in 1 .. MaxDepth /\ Earliest(v, k)
  BY <1>2, <1>3, QueueEntry
<1>5. /\ \A n : Level(n)' = Level(n)
      /\ Meals(Head(todo))' = Meals(Head(todo))
      /\ EatsFood(Head(todo))' <=> EatsFood(Head(todo))
      /\ Moved(Base, Head(todo))' = Moved(Base, Head(todo))
      /\ food' = food
  BY <1>1, SameSearch
<1>6. \A u : /\ \A n : Earliest(u, n) => Earliest(u, n)'
             /\ \A e : Done(u, e) => Done(u, e)'
             /\ Closed(u) => Closed(u)'
  BY <1>1, CarriedOn
<1>7. QueueOK'
  <2>1. ASSUME NEW i \in DOMAIN queue' PROVE Earliest(queue[i].node, queue[i].steps)'
    <3>1. Earliest(queue[i + 1].node, queue[i + 1].steps) /\ queue'[i] = queue[i + 1]
      BY <1>1, <1>2, <1>3 DEF QueueOK
    <3>2. PICK u, n : u = queue[i + 1].node /\ n = queue[i + 1].steps
      OBVIOUS
    <3>3. Earliest(u, n)'
      BY <1>6, <3>1, <3>2
    <3> QED BY <3>1, <3>2, <3>3
  <2>2. ASSUME NEW i \in DOMAIN queue', NEW j \in DOMAIN queue', i <= j
        PROVE  queue'[j].steps \in {queue'[i].steps, queue'[i].steps + 1}
    <3>1. /\ i + 1 \in DOMAIN queue /\ queue'[i] = queue[i + 1]
          /\ j + 1 \in DOMAIN queue /\ queue'[j] = queue[j + 1]
          /\ i \in Nat /\ j \in Nat
      BY <1>1, <1>3
    <3>2. i + 1 <= j + 1
      BY <2>2, <3>1
    <3> QED BY <1>2, <3>1, <3>2 DEF QueueOK
  <2> QED BY <1>1, <1>3, <2>1, <2>2 DEF QueueOK, R
<1>8. CASE k >= MaxDepth
  <2>1. bounded' = TRUE /\ expanded' = expanded
    BY <1>1, <1>3, <1>8 DEF TakeNode
  <2>2. ExpandedOK'
    BY <1>1, <1>2, <2>1 DEF ExpandedOK
  <2>3. ASSUME NEW u \in visited
        PROVE  Open(u)' \/ Closed(u)' \/ \A j \in 1 .. MaxDepth - 1 : u \notin Level(j)
    <3>1. CASE Open(u)
      <4>1. PICK i \in DOMAIN queue : queue[i].node = u
        BY <1>1, <3>1 DEF Open
      <4>2. CASE i = 1
        <5>1. MaxDepth \in Nat /\ k = MaxDepth
          BY <1>4, <1>8, PlannerAssumption
        <5> QED BY <1>4, <4>1, <4>2, <5>1 DEF Earliest
      <4>3. CASE i # 1
        BY <1>1, <1>3, <4>1, <4>3 DEF Open
      <4> QED BY <4>2, <4>3
    <3>2. CASE Closed(u)
      BY <1>6, <3>2
    <3> QED BY <1>2, <3>1, <3>2 DEF VisitedOK
  <2>4. VisitedOK'
    <3>1. ASSUME NEW u \in visited'
          PROVE  (Open(u) \/ Closed(u) \/ (bounded /\ \A j \in 1 .. MaxDepth - 1 : u \notin Level(j)))'
      BY <1>1, <1>5, <2>1, <2>3
    <3> QED BY <1>1, <1>2, <1>5, <3>1 DEF VisitedOK
  <2>5. SearchOK'
    BY <1>1, <1>2, <1>5, <1>7, <2>1, <2>2, <2>4 DEF SearchOK
  <2> QED BY <1>1, <2>5, SearchStep
<1>9. CASE ~(k >= MaxDepth)
  <2>1. bounded' = bounded
        /\ expanded' = [node |-> v, steps |-> k, moves |-> SafeMoves(v, food)]
    BY <1>1, <1>3, <1>9 DEF TakeNode
  <2>2. /\ expanded'.node = v /\ expanded'.steps = k /\ expanded'.moves \in Seq(Directions)
        /\ ToSet(expanded'.moves) = Allowed(v, food) /\ "moves" \in DOMAIN expanded'
    BY <1>4, <2>1, SafeMovesFacts
  <2>3. ExpandedOK'
    <3>2. k \in 1 .. MaxDepth - 1
      BY <1>4, <1>9, PlannerAssumption
    <3>3. ASSUME NEW i \in DOMAIN queue' PROVE queue'[i].steps \in {k, k + 1}
      <4>1. i + 1 \in DOMAIN queue /\ queue'[i] = queue[i + 1] /\ 1 <= i + 1
        BY <1>1, <1>3
      <4> QED BY <1>2, <1>3, <4>1 DEF QueueOK
    <3>4. PICK w, n : w = v /\ n = k
      OBVIOUS
    <3>5. Earliest(expanded.node, expanded.steps)'
      <4>1. Earliest(w, n)'
        BY <1>4, <1>6, <3>4
      <4> QED BY <2>2, <3>4, <4>1
    <3>6. Allowed(expanded.node, food)' = Allowed(w, food) /\ ToSet(expanded.moves)' = Allowed(w, food)
      <4>1. Allowed(expanded.node, food)' = Allowed(expanded'.node, food')
        BY DEF Allowed, SafeFrom, Fails
      <4>2. ToSet(expanded.moves)' = ToSet(expanded'.moves)
        BY DEF ToSet
      <4> QED BY <1>5, <2>2, <3>4, <4>1, <4>2
    <3> HIDE DEF v, k
    <3> QED BY <1>4, <2>2, <3>2, <3>3, <3>5, <3>6 DEF ExpandedOK
  <2>4. ASSUME NEW u \in visited
        PROVE  Open(u)' \/ Closed(u)' \/ (bounded /\ \A j \in 1 .. MaxDepth - 1 : u \notin Level(j))
    <3>1. CASE Open(u)
      <4>1. PICK i \in DOMAIN queue : queue[i].node = u
        BY <1>1, <3>1 DEF Open
      <4>2. CASE i = 1 /\ expanded'.moves # <<>>
        BY <2>2, <4>1, <4>2 DEF Open
      <4>3. CASE i = 1 /\ expanded'.moves = <<>>
        <5>1. Allowed(u, food) = {}
          BY <2>2, <4>1, <4>3 DEF ToSet
        <5>2. Allowed(u, food)' = {}
          BY <1>5, <5>1 DEF Allowed, SafeFrom, Fails
        <5> QED BY <5>2 DEF Closed
      <4>4. CASE i # 1
        BY <1>1, <1>3, <4>1, <4>4 DEF Open
      <4> QED BY <4>2, <4>3, <4>4
    <3>2. CASE Closed(u)
      BY <1>6, <3>2
    <3> QED BY <1>2, <3>1, <3>2 DEF VisitedOK
  <2>5. VisitedOK'
    <3>1. ASSUME NEW u \in visited'
          PROVE  (Open(u) \/ Closed(u) \/ (bounded /\ \A j \in 1 .. MaxDepth - 1 : u \notin Level(j)))'
      BY <1>1, <1>5, <2>1, <2>4
    <3> QED BY <1>1, <1>2, <1>5, <3>1 DEF VisitedOK
  <2>6. SearchOK'
    BY <1>1, <1>2, <1>5, <1>7, <2>1, <2>3, <2>5 DEF SearchOK
  <2> QED BY <1>1, <2>6, SearchStep
<1> QED BY <1>8, <1>9

(* A search that may not go on ends with nothing open.                     *)
LEMMA RunOutOfNodesKeeps == ASSUME PlannerInv, RunOutOfNodes PROVE PlannerInv'
<1>1. /\ at = "search" /\ expanded.moves # <<>> /\ nodes >= MaxNodes
      /\ bounded' = TRUE /\ queue' = <<>> /\ expanded' = NothingExpanded
      /\ UNCHANGED <<at, todo, actions, visited, nodes, trapping, ranks, position>>
  BY DEF RunOutOfNodes, Trying
<1>2. /\ todo # <<>> /\ ~EatsFood(Head(todo)) /\ nodes \in 0 .. MaxNodes
      /\ trapping \in BOOLEAN
  BY <1>1, SearchGoesOn
<1>3. MaxNodes \in Nat
  BY PlannerAssumption
<1>4. nodes' = MaxNodes /\ nodes' \in 0 .. MaxNodes
  BY <1>1, <1>2, <1>3
<1>5. EatsFood(Head(todo))' <=> EatsFood(Head(todo))
  BY <1>1, SameSearch
<1>6. CutShort'
  BY <1>1, <1>4 DEF CutShort, NothingExpanded
<1>7. SearchOK'
  BY <1>1, <1>2, <1>4, <1>5, <1>6 DEF SearchOK
<1> QED BY <1>1, <1>7, SearchStep

(* The move of an expanded body that is tried next.                        *)
LEMMA NextMove ==
  ASSUME PlannerInv, at = "search", expanded.moves # <<>>
  PROVE  LET s == expanded.node  e == Head(expanded.moves)
         IN /\ e \in Allowed(s, food) /\ s \in Level(expanded.steps)
            /\ expanded.steps \in 1 .. MaxDepth - 1
            /\ NextNode \in Snakes
            /\ Eats <=> Ahead(Head(s.body), e) = food
            /\ NextNode = IF Eats THEN Grown(s, e) ELSE Moved(s, e)
            /\ SafeMeal(NextNode) <=> Good(NextNode)
            /\ \A n \in 1 .. expanded.steps :
                 Level(n) \subseteq visited /\ \A x \in Meals(Head(todo))[n] : trapping /\ ~Good(x)
            /\ Eats => NextNode \in Meals(Head(todo))[expanded.steps + 1]
            /\ ~Eats => NextNode \in Level(expanded.steps + 1)
<1> DEFINE s == expanded.node  e == Head(expanded.moves)  k == expanded.steps  d == Head(todo)
<1>1. /\ ~EatsFood(d) /\ QueueOK /\ ExpandedOK /\ VisitedOK
      /\ GameOK /\ d \in SafeDirections
  BY SearchGoesOn
<1>2. /\ s \in Snakes /\ k \in 1 .. MaxDepth - 1 /\ Earliest(s, k)
      /\ expanded.moves \in Seq(Directions) /\ ToSet(expanded.moves) \subseteq Allowed(s, food)
      /\ \A i \in DOMAIN queue : queue[i].steps \in {k, k + 1}
  BY <1>1 DEF ExpandedOK
<1>3. MaxDepth \in Nat /\ Horizon = MaxDepth + 2
  BY PlannerAssumption DEF Horizon
<1>4. e \in Allowed(s, food)
  BY <1>2, HeadAndTail
<1>5. s \in Level(k)
  BY <1>2 DEF Earliest
<1>6. Eats <=> Ahead(Head(s.body), e) = food
  BY DEF Eats, AteFood
<1>7. NextNode \in Snakes /\ NextNode = IF Eats THEN Grown(s, e) ELSE Moved(s, e)
  BY <1>2, <1>4, <1>6, AllowedMove DEF NextNode
<1>8. SafeMeal(NextNode) <=> Good(NextNode)
  BY <1>7, SafeMealFacts
<1>9. \A n \in 1 .. k :
        Level(n) \subseteq visited /\ \A x \in Meals(Head(todo))[n] : trapping /\ ~Good(x)
  <2>1. k \in 1 .. MaxDepth /\ k >= k
    BY <1>2, <1>3
  <2>2. \A i \in DOMAIN queue : queue[i].steps >= k
    BY <1>2, <2>1, <1>3
  <2> QED BY <1>1, <2>1, <2>2, NearerIsSearched
<1>10. k \in 1 .. Horizon - 1
  BY <1>2, <1>3
<1> HIDE DEF s, e, k, d
<1>11. Eats => NextNode \in Meals(d)[k + 1]
  BY <1>1, <1>4, <1>5, <1>6, <1>7, <1>10, NextLevel DEF Level, d
<1>12. ~Eats => NextNode \in Hungry(d)[k + 1]
  BY <1>1, <1>4, <1>5, <1>6, <1>7, <1>10, NextLevel DEF Level, d
<1> QED BY <1>2, <1>4, <1>5, <1>6, <1>7, <1>8, <1>9, <1>11, <1>12 DEF s, e, k, d, Level

(* The first good meal found is a nearest one.                             *)
LEMMA FindFoodKeeps == ASSUME PlannerInv, FindFood PROVE PlannerInv'
<1> DEFINE d == Head(todo)  k == expanded.steps
<1>1. /\ at = "search" /\ expanded.moves # <<>> /\ Eats /\ SafeMeal(NextNode)
      /\ Return([Planned("proven_safe_food", NextNode, k + 1) EXCEPT !.nodes = nodes + 1])
  BY DEF FindFood, Trying
<1>2. todo # <<>> /\ GameOK /\ d \in SafeDirections
  BY <1>1, SearchGoesOn
<1>3. MaxDepth \in Nat /\ Horizon = MaxDepth + 2
  BY PlannerAssumption DEF Horizon
<1>4. /\ k \in 1 .. MaxDepth - 1 /\ NextNode \in Snakes
      /\ \A n \in 1 .. k : \A x \in Meals(d)[n] : ~Good(x)
      /\ Good(NextNode) /\ NextNode \in Meals(d)[k + 1]
  BY <1>1, NextMove
<1>5. k + 1 \in 1 .. Horizon /\ (k + 1) - 1 = k /\ k + 1 \in Int
  BY <1>3, <1>4
<1>6. PICK p : p = Planned("proven_safe_food", NextNode, k + 1)
  OBVIOUS
<1>7. PICK plan : plan = [p EXCEPT !.nodes = nodes + 1]
  OBVIOUS
<1>8. /\ plan.status = "proven_safe_food" /\ plan.steps = k + 1
      /\ plan.escape = p.escape /\ plan.room = p.room /\ plan.survival = p.survival
      /\ plan.cells = p.cells /\ plan.moves = p.moves /\ plan.distance = p.distance
      /\ plan.steps = p.steps
  BY <1>6, <1>7 DEF Planned
<1>9. VerdictHolds(d, plan)
  <2>1. PICK n : n = k + 1
    OBVIOUS
  <2>2. /\ n \in 1 .. Horizon /\ NextNode \in Meals(d)[n]
        /\ \A j \in 1 .. n - 1 : \A x \in Meals(d)[j] : ~Good(x)
        /\ plan.steps = n
    BY <1>4, <1>5, <1>8, <2>1
  <2> QED BY <1>4, <1>8, <2>2, NearestGood
<1>10. {p.steps, p.escape, p.room, p.survival, p.cells, p.moves, p.distance} \subseteq Int
  <2> HIDE DEF k
  <2> QED BY <1>2, <1>4, <1>5, <1>6, PlanNumbers
<1>11. PlanOK(d, plan)
  BY <1>8, <1>9, <1>10 DEF PlanOK
<1>12. Return(plan)
  BY <1>1, <1>6, <1>7
<1> QED BY <1>2, <1>11, <1>12, Returned

(* With nothing open, the search has seen all it claims to have seen.      *)
LEMMA GiveUpKeeps == ASSUME PlannerInv, GiveUp PROVE PlannerInv'
<1> DEFINE d == Head(todo)
<1>1. /\ at = "search" /\ expanded.moves = <<>> /\ queue = <<>>
      /\ Return(Planned(Verdict, First, 0))
  BY DEF GiveUp
<1>2. /\ todo # <<>> /\ ~EatsFood(d) /\ nodes \in 0 .. MaxNodes
      /\ bounded \in BOOLEAN /\ trapping \in BOOLEAN
      /\ CutShort \/ (QueueOK /\ ExpandedOK /\ VisitedOK)
  BY <1>1 DEF PlannerInv, SearchOK
<1>3. GameOK /\ d \in SafeDirections /\ First \in Snakes
  BY <1>2, ToJudge, FirstFacts
<1>4. MaxDepth \in Nat \ {0} /\ Horizon = MaxDepth + 2
  BY PlannerAssumption DEF Horizon
<1>5. PICK plan : plan = Planned(Verdict, First, 0)
  OBVIOUS
<1>6. plan.status = Verdict /\ plan.nodes = nodes /\ plan.steps = 0
  BY <1>5 DEF Planned
<1> HIDE DEF d
<1>7. VerdictHolds(d, plan)
  <2>1. CASE CutShort
    <3>1. plan.status = "bounded_unknown" /\ plan.nodes = MaxNodes
      BY <1>6, <2>1 DEF CutShort, Verdict
    <3> QED BY <3>1 DEF VerdictHolds
  <2>2. CASE QueueOK /\ ExpandedOK /\ VisitedOK /\ bounded
    <3>1. plan.status = "bounded_unknown"
      BY <1>6, <2>2 DEF Verdict
    <3>2. MaxDepth \in 1 .. MaxDepth /\ \A i \in DOMAIN queue : queue[i].steps >= MaxDepth
      BY <1>1, <1>4
    <3>3. \A n \in 1 .. MaxDepth : \A x \in Meals(d)[n] : ~Good(x)
      BY <1>1, <1>2, <1>3, <2>2, <3>2, NearerIsSearched DEF d
    <3>4. ASSUME NEW n \in GoodMoves(d) PROVE n > MaxDepth
      <4>1. n \in 1 .. Horizon /\ n \notin 1 .. MaxDepth
        BY <3>3 DEF GoodMoves
      <4> QED BY <1>4, <4>1
    <3> QED BY <3>1, <3>4 DEF VerdictHolds
  <2>3. CASE QueueOK /\ ExpandedOK /\ VisitedOK /\ ~bounded
    <3>1. \A v \in visited : Closed(v)
      <4>1. \A v \in visited : ~Open(v)
        BY <1>1 DEF Open
      <4> QED BY <2>3, <4>1 DEF VisitedOK
    <3>2. Horizon - 1 \in 0 .. Horizon - 1 /\ (Horizon - 1) + 1 = Horizon
      BY <1>4
    <3>3. Moved(Base, d) \in visited
      BY <2>3 DEF VisitedOK, d
    <3>4. \A n \in 1 .. (Horizon - 1) + 1 : \A x \in Meals(d)[n] : trapping /\ ~Good(x)
      BY <1>2, <1>3, <3>1, <3>2, <3>3, AllClosed DEF d
    <3>5. \A n \in 1 .. Horizon : \A x \in Meals(d)[n] : trapping /\ ~Good(x)
      BY <3>2, <3>4
    <3>6. GoodMoves(d) = {}
      BY <3>5 DEF GoodMoves
    <3>7. CASE trapping
      <4>1. plan.status = "trapping_food"
        BY <1>6, <2>3, <3>7 DEF Verdict
      <4>2. \E n \in 1 .. Horizon : Meals(d)[n] # {}
        BY <2>3, <3>7 DEF VisitedOK, d
      <4> QED BY <3>6, <4>1, <4>2 DEF VerdictHolds
    <3>8. CASE ~trapping
      <4>1. plan.status = "proven_no_safe_food"
        BY <1>6, <2>3, <3>8 DEF Verdict
      <4>2. \A n \in 1 .. Horizon : Meals(d)[n] = {}
        BY <3>5, <3>8
      <4> QED BY <4>1, <4>2 DEF VerdictHolds
    <3> QED BY <3>7, <3>8
  <2> QED BY <1>2, <2>1, <2>2, <2>3
<1>8. PlanOK(d, plan)
  <2>1. plan.status \in {"proven_safe_food", "trapping_food", "proven_no_safe_food", "bounded_unknown"}
    BY <1>6 DEF Verdict
  <2>2. {plan.steps, plan.escape, plan.room, plan.survival, plan.cells, plan.moves, plan.distance}
          \subseteq Int
    BY <1>3, <1>5, PlanNumbers DEF d
  <2> QED BY <1>7, <2>1, <2>2 DEF PlanOK
<1>9. Return(plan)
  BY <1>1, <1>5
<1> QED BY <1>2, <1>8, <1>9, Returned DEF d

(* One more body to visit.                                                 *)
LEMMA AppendFacts ==
  ASSUME NEW T, NEW s \in Seq(T), NEW x \in T
  PROVE  /\ Append(s, x) \in Seq(T) /\ DOMAIN Append(s, x) = DOMAIN s \cup {Len(s) + 1}
         /\ Len(s) + 1 \notin DOMAIN s /\ Append(s, x)[Len(s) + 1] = x
         /\ \A i \in DOMAIN s : Append(s, x)[i] = s[i] /\ i <= Len(s) /\ i \in Nat
         /\ Len(s) \in Nat
<1>1. /\ Append(s, x) \in Seq(T) /\ Len(Append(s, x)) = Len(s) + 1
      /\ \A i \in 1 .. Len(s) : Append(s, x)[i] = s[i]
      /\ Append(s, x)[Len(s) + 1] = x
  BY AppendProperties
<1>2. DOMAIN s = 1 .. Len(s) /\ Len(s) \in Nat /\ DOMAIN Append(s, x) = 1 .. Len(s) + 1
  BY <1>1
<1> QED BY <1>1, <1>2

(* A move is tried: its body is visited, or was, or its meal is noted.     *)
LEMMA TryMoveKeeps == ASSUME PlannerInv, TryMove PROVE PlannerInv'
<1> DEFINE s == expanded.node  e == Head(expanded.moves)  k == expanded.steps
           new == [node |-> NextNode, steps |-> k + 1]
           R == [node : Snakes, steps : 1 .. MaxDepth]
<1>1. /\ at = "search" /\ expanded.moves # <<>> /\ nodes < MaxNodes /\ ~(Eats /\ SafeMeal(NextNode))
      /\ nodes' = nodes + 1 /\ trapping' = (trapping \/ Eats)
      /\ \/ (Eats \/ NextNode \in visited) /\ queue' = queue /\ visited' = visited
         \/ /\ ~Eats /\ NextNode \notin visited
            /\ visited' = visited \cup {NextNode} /\ queue' = Append(queue, new)
      /\ expanded' = [expanded EXCEPT !.moves = Tail(@)]
      /\ UNCHANGED <<at, todo, actions, bounded, ranks, position>>
  BY DEF TryMove, Trying
<1>2. /\ todo # <<>> /\ ~EatsFood(Head(todo)) /\ nodes \in 0 .. MaxNodes
      /\ bounded \in BOOLEAN /\ trapping \in BOOLEAN
      /\ QueueOK /\ ExpandedOK /\ VisitedOK
      /\ GameOK /\ Head(todo) \in SafeDirections /\ food \in Cells
  BY <1>1, SearchGoesOn
<1>3. /\ e \in Allowed(s, food) /\ k \in 1 .. MaxDepth - 1 /\ NextNode \in Snakes
      /\ Eats <=> Ahead(Head(s.body), e) = food
      /\ NextNode = IF Eats THEN Grown(s, e) ELSE Moved(s, e)
      /\ SafeMeal(NextNode) <=> Good(NextNode)
      /\ \A n \in 1 .. k : Level(n) \subseteq visited
      /\ Eats => NextNode \in Meals(Head(todo))[k + 1]
      /\ ~Eats => NextNode \in Level(k + 1)
  BY <1>1, <1>2, NextMove
<1>4. MaxDepth \in Nat /\ Horizon = MaxDepth + 2 /\ k + 1 \in 1 .. MaxDepth /\ k + 1 \in 1 .. Horizon
      /\ MaxNodes \in Nat /\ (k + 1) - 1 = k
  BY <1>3, PlannerAssumption DEF Horizon
<1>5. /\ \A n : Level(n)' = Level(n)
      /\ Meals(Head(todo))' = Meals(Head(todo))
      /\ EatsFood(Head(todo))' <=> EatsFood(Head(todo))
      /\ Moved(Base, Head(todo))' = Moved(Base, Head(todo))
      /\ food' = food
  BY <1>1, SameSearch
<1>6. visited \subseteq visited' /\ (trapping => trapping') /\ trapping' \in BOOLEAN
  BY <1>1, <1>2
<1>7. \A u : /\ \A n : Earliest(u, n) => Earliest(u, n)'
             /\ \A a : Done(u, a) => Done(u, a)'
             /\ Closed(u) => Closed(u)'
  BY <1>1, <1>6, CarriedOn
<1>8. /\ expanded.moves \in Seq(Directions) /\ Tail(expanded.moves) \in Seq(Directions)
      /\ ToSet(expanded.moves) = {e} \cup ToSet(Tail(expanded.moves))
      /\ s \in Snakes /\ Earliest(s, k)
      /\ ToSet(expanded.moves) \subseteq Allowed(s, food)
      /\ \A a \in Allowed(s, food) : a \in ToSet(expanded.moves) \/ Done(s, a)
      /\ \A i \in DOMAIN queue : queue[i].steps \in {k, k + 1}
  <2>1. expanded.moves \in Seq(Directions)
    BY <1>2 DEF ExpandedOK
  <2> QED BY <1>1, <1>2, <2>1, HeadAndTail DEF ExpandedOK
<1>9. /\ expanded'.node = s /\ expanded'.steps = k /\ expanded'.moves = Tail(expanded.moves)
      /\ "moves" \in DOMAIN expanded'
  <2>1. "moves" \in DOMAIN expanded
    BY <1>2 DEF ExpandedOK
  <2> QED BY <1>1, <2>1
<1>10. Allowed(s, food') = Allowed(s, food) /\ \A u : Allowed(u, food)' = Allowed(u, food)
  BY <1>5 DEF Allowed, SafeFrom, Fails
<1>11. PICK u, n, a, w : u = s /\ n = k /\ a = e /\ w = NextNode
  OBVIOUS
<1>12. Done(u, a)'
  <2>1. CASE Eats
    BY <1>1, <1>3, <1>5, <1>11, <2>1 DEF Done
  <2>2. CASE ~Eats
    <3>1. w \in visited' /\ w = Moved(u, a) /\ Ahead(Head(u.body), a) # food'
      BY <1>1, <1>3, <1>5, <1>11, <2>2
    <3> QED BY <3>1 DEF Done
  <2> QED BY <2>1, <2>2
<1>13. \A b \in Allowed(u, food) : b \in ToSet(Tail(expanded.moves)) \/ Done(u, b)'
  BY <1>7, <1>8, <1>11, <1>12
<1>14. /\ queue' \in Seq(R)
       /\ \A i \in DOMAIN queue : i \in DOMAIN queue' /\ queue'[i] = queue[i]
       /\ \/ DOMAIN queue' = DOMAIN queue /\ visited' = visited
          \/ /\ ~Eats /\ w \notin visited /\ visited' = visited \cup {w}
             /\ DOMAIN queue' = DOMAIN queue \cup {Len(queue) + 1}
             /\ Len(queue) + 1 \notin DOMAIN queue /\ Len(queue) + 1 \in DOMAIN queue'
             /\ \A i \in DOMAIN queue : i <= Len(queue) /\ i \in Nat
             /\ Len(queue) \in Nat
             /\ queue'[Len(queue) + 1].node = w /\ queue'[Len(queue) + 1].steps = n + 1
  <2>1. queue \in Seq(R) /\ new \in R /\ new.node = w /\ new.steps = n + 1
    BY <1>2, <1>3, <1>4, <1>11 DEF QueueOK
  <2> HIDE DEF R, new
  <2>2. /\ Append(queue, new) \in Seq(R)
        /\ DOMAIN Append(queue, new) = DOMAIN queue \cup {Len(queue) + 1}
        /\ Len(queue) + 1 \notin DOMAIN queue /\ Append(queue, new)[Len(queue) + 1] = new
        /\ \A i \in DOMAIN queue : Append(queue, new)[i] = queue[i] /\ i <= Len(queue) /\ i \in Nat
        /\ Len(queue) \in Nat
    BY <2>1, AppendFacts
  <2>3. CASE queue' = queue /\ visited' = visited
    BY <2>1, <2>3
  <2>4. CASE /\ ~Eats /\ NextNode \notin visited
             /\ visited' = visited \cup {NextNode} /\ queue' = Append(queue, new)
    BY <1>11, <2>1, <2>2, <2>4
  <2> QED BY <1>1, <2>3, <2>4
<1>15. QueueOK'
  <2>1. ASSUME NEW i \in DOMAIN queue' PROVE Earliest(queue[i].node, queue[i].steps)'
    <3>1. CASE i \in DOMAIN queue
      <4>1. PICK x, y : x = queue[i].node /\ y = queue[i].steps
        OBVIOUS
      <4>2. Earliest(x, y)'
        BY <1>2, <1>7, <3>1, <4>1, QueueEntry
      <4> QED BY <1>14, <3>1, <4>1, <4>2
    <3>2. CASE i \notin DOMAIN queue
      <4>1. /\ ~Eats /\ w \notin visited /\ w \in visited'
            /\ queue'[i].node = w /\ queue'[i].steps = n + 1
        BY <1>14, <3>2
      <4>2. w \in Level(n + 1) /\ \A j \in 1 .. n : w \notin Level(j)
        BY <1>3, <1>11, <4>1
      <4>3. n + 1 = k + 1 /\ (n + 1) - 1 = n
        BY <1>4, <1>11
      <4>4. PICK y : y = n + 1
        OBVIOUS
      <4>5. Earliest(w, y)'
        BY <1>5, <4>1, <4>2, <4>3, <4>4 DEF Earliest
      <4> QED BY <4>1, <4>4, <4>5
    <3> QED BY <3>1, <3>2
  <2>2. ASSUME NEW i \in DOMAIN queue', NEW j \in DOMAIN queue', i <= j
        PROVE  queue'[j].steps \in {queue'[i].steps, queue'[i].steps + 1}
    <3>1. CASE i \in DOMAIN queue /\ j \in DOMAIN queue
      BY <1>2, <1>14, <2>2, <3>1 DEF QueueOK
    <3>2. CASE i \in DOMAIN queue /\ j \notin DOMAIN queue
      BY <1>8, <1>11, <1>14, <3>2
    <3>3. CASE i \notin DOMAIN queue /\ j \in DOMAIN queue
      <4>1. i = Len(queue) + 1 /\ j <= Len(queue) /\ j \in Nat /\ Len(queue) \in Nat
        BY <1>14, <3>3
      <4> QED BY <2>2, <4>1
    <3>4. CASE i \notin DOMAIN queue /\ j \notin DOMAIN queue
      BY <1>14, <3>4
    <3> QED BY <3>1, <3>2, <3>3, <3>4
  <2> QED BY <1>14, <2>1, <2>2 DEF QueueOK
<1>16. ExpandedOK'
  <2>1. Earliest(u, n)'
    BY <1>7, <1>8, <1>11
  <2>2. Earliest(expanded.node, expanded.steps)'
    BY <1>9, <1>11, <2>1
  <2>3. ASSUME NEW i \in DOMAIN queue' PROVE queue'[i].steps \in {k, k + 1}
    <3>1. CASE i \in DOMAIN queue
      BY <1>8, <1>14, <3>1
    <3>2. CASE i \notin DOMAIN queue
      BY <1>11, <1>14, <3>2
    <3> QED BY <3>1, <3>2
  <2>4. Allowed(expanded.node, food)' = Allowed(u, food)
    <3>1. Allowed(expanded.node, food)' = Allowed(expanded'.node, food')
      BY DEF Allowed, SafeFrom, Fails
    <3> QED BY <1>9, <1>10, <1>11, <3>1
  <2>5. ToSet(expanded.moves)' = ToSet(Tail(expanded.moves))
    BY <1>9 DEF ToSet
  <2>6. ASSUME NEW b \in Allowed(u, food)
        PROVE  b \in ToSet(Tail(expanded.moves)) \/ Done(expanded.node, b)'
    BY <1>9, <1>11, <1>13
  <2>7. ToSet(Tail(expanded.moves)) \subseteq Allowed(u, food)
    BY <1>8, <1>11
  <2> HIDE DEF s, k
  <2> QED BY <1>3, <1>8, <1>9, <2>2, <2>3, <2>4, <2>5, <2>6, <2>7 DEF ExpandedOK
<1>17. VisitedOK'
  <2>1. ASSUME NEW v \in visited'
        PROVE  (Open(v) \/ Closed(v) \/ (bounded /\ \A j \in 1 .. MaxDepth - 1 : v \notin Level(j)))'
    <3>1. CASE v \notin visited
      <4>1. v = w /\ Len(queue) + 1 \in DOMAIN queue' /\ queue'[Len(queue) + 1].node = w
        BY <1>14, <3>1
      <4> QED BY <4>1 DEF Open
    <3>2. CASE \E i \in DOMAIN queue : queue[i].node = v
      BY <1>14, <3>2 DEF Open
    <3>3. CASE v = s /\ expanded'.moves # <<>>
      BY <1>9, <3>3 DEF Open
    <3>4. CASE v = s /\ expanded'.moves = <<>>
      <4>1. ToSet(Tail(expanded.moves)) = {}
        BY <1>9, <3>4 DEF ToSet
      <4>2. \A b \in Allowed(u, food)' : Done(u, b)'
        BY <1>10, <1>13, <4>1
      <4>3. Closed(u)'
        BY <4>2 DEF Closed
      <4> QED BY <1>11, <3>4, <4>3
    <3>5. CASE Closed(v)
      BY <1>7, <3>5
    <3>6. CASE bounded /\ \A j \in 1 .. MaxDepth - 1 : v \notin Level(j)
      BY <1>1, <1>5, <3>6
    <3> QED BY <1>2, <3>1, <3>2, <3>3, <3>4, <3>5, <3>6 DEF VisitedOK, Open
  <2>2. (trapping => \E i \in 1 .. Horizon : Meals(Head(todo))[i] # {})'
    <3>1. CASE trapping
      BY <1>2, <1>5, <3>1 DEF VisitedOK
    <3>2. CASE Eats
      BY <1>3, <1>4, <1>5, <3>2
    <3> QED BY <1>1, <3>1, <3>2
  <2>3. (Moved(Base, Head(todo)) \in visited)'
    BY <1>2, <1>5, <1>6 DEF VisitedOK
  <2> QED BY <2>1, <2>2, <2>3 DEF VisitedOK
<1>18. SearchOK'
  <2>1. nodes' \in 0 .. MaxNodes
    BY <1>1, <1>2, <1>4
  <2>2. bounded' \in BOOLEAN /\ todo' # <<>> /\ ~EatsFood(Head(todo))'
    BY <1>1, <1>2, <1>5
  <2> QED BY <1>6, <1>15, <1>16, <1>17, <2>1, <2>2 DEF SearchOK
<1> QED BY <1>1, <1>18, SearchStep

(* Ranking changes no plan.                                                *)
LEMMA RankKeeps == ASSUME PlannerInv, Rank PROVE PlannerInv'
<1>1. /\ todo = <<>> /\ at' = "ranked"
      /\ LET keys == {RankKey(actions[d]) : d \in DOMAIN actions}
         IN ranks' = [d \in DOMAIN actions |->
                        1 + Cardinality({k \in keys : Exceeds(k, RankKey(actions[d]))})]
      /\ UNCHANGED <<todo, actions, search, position>>
  BY DEF Rank
<1>2. GameOK' /\ SafeDirections' = SafeDirections /\ \A d, p : PlanOK(d, p)' <=> PlanOK(d, p)
  BY <1>1, SameGame DEF PlannerInv
<1>3. ActionsOK'
  <2>1. todo \in Seq(SafeDirections) /\ DOMAIN actions \cup ToSet(todo) = SafeDirections
        /\ \A d \in DOMAIN actions : PlanOK(d, actions[d])
    BY DEF PlannerInv, ActionsOK
  <2>2. ToSet(todo)' = ToSet(todo)
    BY <1>1 DEF ToSet
  <2>3. ASSUME NEW d \in DOMAIN actions' PROVE PlanOK(d, actions[d])'
    <3>1. PlanOK(d, actions'[d])
      BY <1>1, <2>1, <2>3
    <3> QED BY <1>2, <3>1
  <2> QED BY <1>1, <1>2, <2>1, <2>2, <2>3 DEF ActionsOK
<1>4. SearchOK'
  BY <1>1 DEF SearchOK
<1>5. StageOK'
  <2>1. \A p : RankKey(p)' = RankKey(p)
    BY DEF RankKey
  <2>2. ranks' = [d \in DOMAIN actions' |->
                    1 + Cardinality({k \in {RankKey(actions'[c]) : c \in DOMAIN actions'} :
                                       Exceeds(k, RankKey(actions'[d]))})]
    BY <1>1
  <2> QED BY <1>1, <2>1, <2>2 DEF StageOK
<1> QED BY <1>2, <1>3, <1>4, <1>5 DEF PlannerInv

(* A position to judge, and no move judged yet.                            *)
LEMMA PlannerInitInv == PlannerInit => PlannerInv
<1> SUFFICES ASSUME PlannerInit PROVE PlannerInv
  OBVIOUS
<1>1. /\ at = "evaluate" /\ todo = InOrder(SafeDirections) /\ actions = <<>> /\ nodes = 0
      /\ bounded = FALSE /\ trapping = FALSE /\ expanded = NothingExpanded
  BY DEF PlannerInit
<1>2. GameOK
  <2>1. PICK p \in Positions : snake = p.snake /\ direction = p.direction /\ food = p.food
    BY DEF PlannerInit
  <2>2. /\ snake \in Seq(Cells) /\ Len(snake) >= 3 /\ IsInjective(snake)
        /\ direction \in Directions /\ food \in Cells \ ToSet(snake)
    BY <2>1, PlannerAssumption DEF Judgeable
  <2>3. snake # <<>>
    BY <2>2
  <2> QED BY <2>2, <2>3 DEF GameOK, Base, Node, Snakes
<1>3. StageOK /\ SearchOK
  BY <1>1 DEF StageOK, SearchOK
<1>4. ActionsOK
  <2> DEFINE order == InOrder(SafeDirections)
  <2>1. order \in Seq(Directions) /\ ToSet(order) = SafeDirections
    <3>1. SafeDirections \in SUBSET Directions
      BY DEF SafeDirections, SafeFrom
    <3> QED BY <3>1, InOrderFacts
  <2> HIDE DEF order
  <2>2. order \in Seq(SafeDirections)
    <3>1. order \in [1 .. Len(order) -> Directions] /\ Len(order) \in Nat
          /\ DOMAIN order = 1 .. Len(order)
      BY <2>1
    <3>2. \A i \in 1 .. Len(order) : order[i] \in SafeDirections
      BY <2>1, <3>1 DEF ToSet
    <3> QED BY <3>1, <3>2
  <2>3. DOMAIN actions = {}
    BY <1>1
  <2> QED BY <1>1, <2>1, <2>2, <2>3 DEF ActionsOK, order
<1> QED BY <1>2, <1>3, <1>4 DEF PlannerInv

(* Every step of the planner keeps the invariant.                          *)
LEMMA PlannerNextKeeps == PlannerInv /\ [PlannerNext]_<<planner, position>> => PlannerInv'
<1> SUFFICES ASSUME PlannerInv, [PlannerNext]_<<planner, position>> PROVE PlannerInv'
  OBVIOUS
<1>1. CASE EatFirst
  BY <1>1, EatFirstKeeps
<1>2. CASE StartSearch
  BY <1>2, StartSearchKeeps
<1>3. CASE TakeNode
  BY <1>3, TakeNodeKeeps
<1>4. CASE RunOutOfNodes
  BY <1>4, RunOutOfNodesKeeps
<1>5. CASE FindFood
  BY <1>5, FindFoodKeeps
<1>6. CASE TryMove
  BY <1>6, TryMoveKeeps
<1>7. CASE GiveUp
  BY <1>7, GiveUpKeeps
<1>8. CASE Rank
  BY <1>8, RankKeeps
<1>9. CASE UNCHANGED <<planner, position>>
  <2>1. UNCHANGED <<at, todo, actions, queue, visited, nodes, bounded, trapping, expanded, ranks,
                    snake, direction, food>>
    BY <1>9 DEF planner, search, position, vars
  <2>2. UNCHANGED position
    BY <1>9
  <2>3. GameOK' /\ SafeDirections' = SafeDirections /\ \A d, p : PlanOK(d, p)' <=> PlanOK(d, p)
    BY <2>2, SameGame DEF PlannerInv
  <2>4. ActionsOK'
    <3>1. todo \in Seq(SafeDirections) /\ DOMAIN actions \cup ToSet(todo) = SafeDirections
          /\ \A d \in DOMAIN actions : PlanOK(d, actions[d])
      BY DEF PlannerInv, ActionsOK
    <3>2. ToSet(todo)' = ToSet(todo)
      BY <2>1 DEF ToSet
    <3>3. ASSUME NEW d \in DOMAIN actions' PROVE PlanOK(d, actions[d])'
      <4>1. PlanOK(d, actions'[d])
        BY <2>1, <3>1, <3>3
      <4> QED BY <2>3, <4>1
    <3> QED BY <2>1, <2>3, <3>1, <3>2, <3>3 DEF ActionsOK
  <2>5. StageOK'
    <3>1. \A p : RankKey(p)' = RankKey(p)
      BY DEF RankKey
    <3>2. (ranks = [d \in DOMAIN actions |->
                     1 + Cardinality({k \in {RankKey(actions[c]) : c \in DOMAIN actions} :
                                        Exceeds(k, RankKey(actions[d]))})])'
          <=> (ranks = [d \in DOMAIN actions |->
                     1 + Cardinality({k \in {RankKey(actions[c]) : c \in DOMAIN actions} :
                                        Exceeds(k, RankKey(actions[d]))})])
      BY <2>1, <3>1
    <3>3. at' = at /\ todo' = todo /\ nodes' = nodes /\ bounded' = bounded /\ trapping' = trapping
          /\ expanded' = expanded /\ NothingExpanded' = NothingExpanded
      BY <2>1 DEF NothingExpanded
    <3> QED BY <3>2, <3>3 DEF PlannerInv, StageOK
  <2>6. SearchOK'
    <3>1. /\ \A n : Level(n)' = Level(n)
          /\ Meals(Head(todo))' = Meals(Head(todo))
          /\ (EatsFood(Head(todo))' <=> EatsFood(Head(todo)))
          /\ Moved(Base, Head(todo))' = Moved(Base, Head(todo))
      BY <2>1, <2>2, SameSearch
    <3>2. \A u, n : Earliest(u, n)' <=> Earliest(u, n)
      BY <2>1, <3>1 DEF Earliest
    <3>3. \A u, e : Done(u, e)' <=> Done(u, e)
      BY <2>1 DEF Done
    <3>4. \A u : Closed(u)' <=> Closed(u)
      BY <2>1, <3>3 DEF Closed
    <3>5. \A u : Open(u)' <=> Open(u)
      BY <2>1 DEF Open
    <3>6. QueueOK => QueueOK'
      BY <2>1, <3>2 DEF QueueOK
    <3>7. ExpandedOK => ExpandedOK'
      <4>1. ToSet(expanded.moves)' = ToSet(expanded.moves)
        BY <2>1 DEF ToSet
      <4>2. Earliest(expanded.node, expanded.steps)' <=> Earliest(expanded.node, expanded.steps)
        BY <2>1, <3>2
      <4> QED BY <2>1, <3>3, <4>1, <4>2 DEF ExpandedOK
    <3>8. VisitedOK => VisitedOK'
      BY <2>1, <3>1, <3>4, <3>5 DEF VisitedOK
    <3> QED BY <2>1, <3>1, <3>6, <3>7, <3>8 DEF PlannerInv, SearchOK, CutShort
  <2> QED BY <2>3, <2>4, <2>5, <2>6 DEF PlannerInv
<1> QED BY <1>1, <1>2, <1>3, <1>4, <1>5, <1>6, <1>7, <1>8, <1>9 DEF PlannerNext

(* The search of the planner, its queue in order of depth and nothing near *)
(* lost, whatever the board, the position and the bounds.                  *)
THEOREM PlannerInvariance == PlannerSpec => []PlannerInv
<1> QED BY PlannerInitInv, PlannerNextKeeps, PTL DEF PlannerSpec

(* Every position of a game that goes on can be given to the planner: the  *)
(* assumption on its positions asks for no more than games guarantee.      *)
THEOREM GamesCanBeJudged == Spec => [](alive => Judgeable(snake, direction, food))
<1>1. Playable /\ BodyWellFormed => (alive => Judgeable(snake, direction, food))
  <2> SUFFICES ASSUME Playable, BodyWellFormed, alive PROVE Judgeable(snake, direction, food)
    OBVIOUS
  <2>1. Len(snake) >= 3 /\ IsInjective(snake)
    BY DEF Playable, BodyWellFormed
  <2>2. food \in Cells /\ food \notin ToSet(snake)
    BY DEF Playable, BodyWellFormed
  <2> QED BY <2>1, <2>2 DEF Playable, Judgeable
<1> QED BY <1>1, AlwaysPlayable, AlwaysWellFormed, PTL

(* What evaluate() says of a move is what the game's own rules say of it:  *)
(* a proven path is a shortest one to a meal that leaves a way on, and a   *)
(* verdict against food holds past the depth of the search.                *)
THEOREM VerdictsAreTrue == PlannerSpec => []VerdictsHold
<1>1. PlannerInv => VerdictsHold
  BY DEF PlannerInv, ActionsOK, PlanOK, VerdictsHold
<1> QED BY <1>1, PlannerInvariance, PTL

(* What the planner ranks moves by.                                        *)
Keys == [1 .. 6 -> Int]

(* A key is six numbers, and first among them is the kind of verdict.      *)
LEMMA KeyFacts ==
  ASSUME NEW d, NEW plan, PlanOK(d, plan)
  PROVE  /\ RankKey(plan) \in Keys
         /\ plan.status = "proven_safe_food" =>
              RankKey(plan)[1] = 3 /\ RankKey(plan)[2] = -plan.steps
         /\ plan.status \in {"trapping_food", "proven_no_safe_food"} => RankKey(plan)[1] = 1
<1>1. /\ plan.steps \in Int /\ plan.escape \in Int /\ plan.room \in Int /\ plan.survival \in Int
      /\ plan.cells \in Int /\ plan.moves \in Int /\ plan.distance \in Int
  BY DEF PlanOK
<1>2. -plan.steps \in Int /\ -plan.distance \in Int
  BY <1>1
<1>3. CASE plan.status = "proven_safe_food"
  <2>1. RankKey(plan) = <<3, -plan.steps, plan.escape, plan.room, plan.survival, plan.cells>>
    BY <1>3 DEF RankKey
  <2> QED BY <1>1, <1>2, <1>3, <2>1 DEF Keys
<1>4. CASE plan.status # "proven_safe_food"
  <2>1. RankKey(plan) = <<IF plan.status = "bounded_unknown" THEN 2 ELSE 1,
                          plan.survival, plan.cells, plan.moves, -plan.distance, 0>>
    BY <1>4 DEF RankKey
  <2> QED BY <1>1, <1>2, <1>4, <2>1 DEF Keys
<1> QED BY <1>3, <1>4

(* Their order is a strict one.                                            *)
LEMMA ExceedsIsOrder ==
  ASSUME NEW a \in Keys, NEW b \in Keys, NEW c \in Keys
  PROVE  ~Exceeds(a, a) /\ (Exceeds(a, b) /\ Exceeds(b, c) => Exceeds(a, c))
<1>1. /\ DOMAIN a = 1 .. 6 /\ DOMAIN b = 1 .. 6
      /\ \A i \in 1 .. 6 : a[i] \in Int /\ b[i] \in Int /\ c[i] \in Int
  BY DEF Keys
<1>2. ~Exceeds(a, a)
  BY <1>1 DEF Exceeds
<1>3. ASSUME Exceeds(a, b), Exceeds(b, c) PROVE Exceeds(a, c)
  <2>1. PICK i \in 1 .. 6 : a[i] > b[i] /\ \A k \in 1 .. i - 1 : a[k] = b[k]
    BY <1>1, <1>3 DEF Exceeds
  <2>2. PICK j \in 1 .. 6 : b[j] > c[j] /\ \A k \in 1 .. j - 1 : b[k] = c[k]
    BY <1>1, <1>3 DEF Exceeds
  <2>3. CASE i < j
    <3>1. i \in 1 .. j - 1 /\ \A k \in 1 .. i - 1 : k \in 1 .. j - 1
      BY <2>3
    <3>2. a[i] > c[i] /\ \A k \in 1 .. i - 1 : a[k] = c[k]
      BY <1>1, <2>1, <2>2, <3>1
    <3> QED BY <1>1, <3>2 DEF Exceeds
  <2>4. CASE j < i
    <3>1. j \in 1 .. i - 1 /\ \A k \in 1 .. j - 1 : k \in 1 .. i - 1
      BY <2>4
    <3>2. a[j] > c[j] /\ \A k \in 1 .. j - 1 : a[k] = c[k]
      BY <1>1, <2>1, <2>2, <3>1
    <3> QED BY <1>1, <3>2 DEF Exceeds
  <2>5. CASE i = j
    <3>1. a[i] > c[i] /\ \A k \in 1 .. i - 1 : a[k] = c[k]
      BY <1>1, <2>1, <2>2, <2>5
    <3> QED BY <1>1, <3>1 DEF Exceeds
  <2> QED BY <2>3, <2>4, <2>5
<1> QED BY <1>2, <1>3

(* One of a finite number of them is exceeded by none.                     *)
LEMMA TopExists ==
  ASSUME NEW K \in SUBSET Keys, IsFiniteSet(K), K # {}
  PROVE  \E m \in K : \A k \in K : ~Exceeds(k, m)
<1> DEFINE Top(S) == \E m \in S : \A k \in S : ~Exceeds(k, m)
           N == {n \in Nat : \A S \in SUBSET Keys : IsFiniteSet(S) /\ Cardinality(S) = n + 1 => Top(S)}
<1>1. 0 \in N
  <2> SUFFICES ASSUME NEW S \in SUBSET Keys, IsFiniteSet(S), Cardinality(S) = 1 PROVE Top(S)
    OBVIOUS
  <2>1. PICK x : S = {x}
    BY FS_Singleton
  <2> QED BY <2>1, ExceedsIsOrder
<1>2. ASSUME NEW n \in Nat, n \in N PROVE n + 1 \in N
  <2> SUFFICES ASSUME NEW S \in SUBSET Keys, IsFiniteSet(S), Cardinality(S) = (n + 1) + 1
               PROVE  Top(S)
    OBVIOUS
  <2>1. PICK x \in S : TRUE
    BY FS_EmptySet
  <2> DEFINE rest == S \ {x}
  <2>2. IsFiniteSet(rest) /\ Cardinality(rest) = n + 1
    BY FS_RemoveElement
  <2>3. PICK m \in rest : \A k \in rest : ~Exceeds(k, m)
    <3>1. rest \in SUBSET Keys
      OBVIOUS
    <3> HIDE DEF rest
    <3> QED BY <1>2, <2>2, <3>1
  <2>4. CASE Exceeds(x, m)
    <3>1. \A k \in S : ~Exceeds(k, x)
      BY <2>3, <2>4, ExceedsIsOrder
    <3> QED BY <3>1
  <2>5. CASE ~Exceeds(x, m)
    BY <2>3, <2>5
  <2> QED BY <2>4, <2>5
<1>3. Nat \subseteq N
  <2> HIDE DEF N
  <2> QED BY <1>1, <1>2, CountingUp
<1>4. Cardinality(K) \in Nat /\ Cardinality(K) # 0
  BY FS_CardinalityType, FS_EmptySet
<1>5. Cardinality(K) - 1 \in Nat /\ (Cardinality(K) - 1) + 1 = Cardinality(K)
  BY <1>4
<1>6. Cardinality(K) - 1 \in N
  <2> HIDE DEF N
  <2> QED BY <1>3, <1>5
<1> HIDE DEF Top
<1>7. Top(K)
  BY <1>5, <1>6
<1> QED BY <1>7 DEF Top

(* The moves called best are those whose key none exceeds, and there are   *)
(* some.                                                                   *)
LEMMA RankedFacts ==
  ASSUME PlannerInv, at = "ranked"
  PROVE  /\ DOMAIN actions = SafeDirections /\ DOMAIN ranks = SafeDirections
         /\ \A d \in SafeDirections : PlanOK(d, actions[d])
         /\ \A b \in SafeDirections :
              b \in BestActions <=>
                \A d \in SafeDirections : ~Exceeds(RankKey(actions[d]), RankKey(actions[b]))
         /\ SafeDirections # {} => BestActions # {}
<1> DEFINE keys == {RankKey(actions[d]) : d \in DOMAIN actions}
           Above(b) == {k \in keys : Exceeds(k, RankKey(actions[b]))}
<1>1. /\ DOMAIN actions = SafeDirections
      /\ \A d \in SafeDirections : PlanOK(d, actions[d])
  <2>1. todo = <<>> /\ DOMAIN actions \cup ToSet(todo) = SafeDirections
        /\ \A d \in DOMAIN actions : PlanOK(d, actions[d])
    BY DEF PlannerInv, ActionsOK, StageOK
  <2>2. ToSet(todo) = {}
    BY <2>1 DEF ToSet
  <2> QED BY <2>1, <2>2
<1>2. ranks = [d \in DOMAIN actions |-> 1 + Cardinality(Above(d))]
  BY DEF PlannerInv, StageOK
<1>3. IsFiniteSet(SafeDirections)
  <2>1. SafeDirections \in SUBSET Directions
    BY DEF SafeDirections, SafeFrom
  <2> QED BY <2>1, DirectionsAreFinite, FS_Subset
<1>4. IsFiniteSet(keys)
  <2> DEFINE f == [d \in SafeDirections |-> RankKey(actions[d])]
  <2>1. f \in Surjection(SafeDirections, keys)
    BY <1>1 DEF Surjection
  <2> HIDE DEF f, keys
  <2> QED BY <1>3, <2>1, FS_Surjection
<1>5. keys \in SUBSET Keys
  <2>1. \A d \in SafeDirections : RankKey(actions[d]) \in Keys
    BY <1>1, KeyFacts
  <2> QED BY <1>1, <2>1
<1>6. ASSUME NEW b \in SafeDirections
      PROVE  b \in BestActions <=>
               \A d \in SafeDirections : ~Exceeds(RankKey(actions[d]), RankKey(actions[b]))
  <2>1. ranks[b] = 1 + Cardinality(Above(b)) /\ b \in DOMAIN ranks
    BY <1>1, <1>2
  <2>2. IsFiniteSet(Above(b))
    <3>1. Above(b) \in SUBSET keys
      OBVIOUS
    <3> HIDE DEF keys
    <3> QED BY <1>4, <3>1, FS_Subset
  <2>3. Above(b) = {} <=> \A d \in SafeDirections : ~Exceeds(RankKey(actions[d]), RankKey(actions[b]))
    BY <1>1
  <2> HIDE DEF Above
  <2>4. Cardinality(Above(b)) \in Nat /\ (Cardinality(Above(b)) = 0 <=> Above(b) = {})
    BY <2>2, FS_CardinalityType, FS_EmptySet
  <2>5. ranks[b] = 1 <=> Above(b) = {}
    BY <2>1, <2>4
  <2> QED BY <2>1, <2>3, <2>5 DEF BestActions
<1>7. ASSUME SafeDirections # {} PROVE BestActions # {}
  <2>1. keys # {}
    BY <1>1, <1>7
  <2>2. PICK m \in keys : \A k \in keys : ~Exceeds(k, m)
    <3> HIDE DEF keys
    <3> QED BY <1>4, <1>5, <2>1, TopExists
  <2>3. PICK b \in SafeDirections : m = RankKey(actions[b])
    BY <1>1, <2>2
  <2>4. \A d \in SafeDirections : ~Exceeds(RankKey(actions[d]), RankKey(actions[b]))
    BY <1>1, <2>2, <2>3
  <2> QED BY <1>6, <2>4
<1>8. DOMAIN ranks = SafeDirections
  BY <1>1, <1>2
<1> QED BY <1>1, <1>6, <1>7, <1>8

(* evaluate() ranks each safe move, calls some best, and when it resolved  *)
(* them all no move has a shorter safe way to food than a best one.        *)
THEOREM BestIsBest == PlannerSpec => []BestMovesAreBest
<1>1. PlannerInv => BestMovesAreBest
  <2> SUFFICES ASSUME PlannerInv, at = "ranked"
               PROVE  /\ DOMAIN actions = SafeDirections
                      /\ SafeDirections # {} => BestActions # {}
                      /\ Complete => \A b \in BestActions, d \in SafeDirections :
                           GoodMoves(d) # {} =>
                             GoodMoves(b) # {} /\ Min(GoodMoves(b)) <= Min(GoodMoves(d))
    BY DEF BestMovesAreBest
  <2>1. DOMAIN actions = SafeDirections /\ (SafeDirections # {} => BestActions # {})
    BY RankedFacts
  <2>2. ASSUME Complete, NEW b \in BestActions, NEW d \in SafeDirections, GoodMoves(d) # {}
        PROVE  GoodMoves(b) # {} /\ Min(GoodMoves(b)) <= Min(GoodMoves(d))
    <3> DEFINE pb == actions[b]  pd == actions[d]
    <3>1. b \in SafeDirections
      BY RankedFacts DEF BestActions
    <3>2. PlanOK(b, pb) /\ PlanOK(d, pd) /\ ~Exceeds(RankKey(pd), RankKey(pb))
      BY <3>1, RankedFacts
    <3>3. pb.status # "bounded_unknown" /\ pd.status # "bounded_unknown"
      BY <2>1, <2>2, <3>1 DEF Complete
    <3> HIDE DEF pb, pd
    <3>4. \A c, p : /\ PlanOK(c, p) /\ p.status # "bounded_unknown"
                    => \/ p.status = "proven_safe_food" /\ GoodMoves(c) # {} /\ p.steps = Min(GoodMoves(c))
                       \/ /\ p.status \in {"trapping_food", "proven_no_safe_food"}
                          /\ GoodMoves(c) = {}
      BY DEF PlanOK, VerdictHolds, GoodMoves
    <3>5. pd.status = "proven_safe_food" /\ pd.steps = Min(GoodMoves(d))
      BY <2>2, <3>2, <3>3, <3>4
    <3>6. /\ RankKey(pd) \in Keys /\ RankKey(pd)[1] = 3 /\ RankKey(pd)[2] = -pd.steps
          /\ pd.steps \in Int /\ pb.steps \in Int
          /\ DOMAIN RankKey(pd) = 1 .. 6
      BY <3>2, <3>5, KeyFacts DEF PlanOK, Keys
    <3>7. pb.status = "proven_safe_food"
      <4> SUFFICES ASSUME pb.status # "proven_safe_food" PROVE FALSE
        OBVIOUS
      <4>1. RankKey(pb)[1] = 1
        BY <3>2, <3>3, KeyFacts DEF PlanOK
      <4>2. 1 \in 1 .. 6 /\ 1 .. 1 - 1 = {}
        OBVIOUS
      <4>3. Exceeds(RankKey(pd), RankKey(pb))
        BY <3>6, <4>1, <4>2 DEF Exceeds
      <4> QED BY <3>2, <4>3
    <3>8. GoodMoves(b) # {} /\ pb.steps = Min(GoodMoves(b))
      BY <3>2, <3>4, <3>7
    <3>9. pb.steps <= pd.steps
      <4> SUFFICES ASSUME ~(pb.steps <= pd.steps) PROVE FALSE
        OBVIOUS
      <4>1. RankKey(pb)[1] = 3 /\ RankKey(pb)[2] = -pb.steps
        BY <3>2, <3>7, KeyFacts
      <4>2. 2 \in 1 .. 6 /\ RankKey(pd)[2] > RankKey(pb)[2]
            /\ \A j \in 1 .. 2 - 1 : RankKey(pd)[j] = RankKey(pb)[j]
        BY <3>6, <4>1
      <4>3. Exceeds(RankKey(pd), RankKey(pb))
        BY <3>6, <4>2 DEF Exceeds
      <4> QED BY <3>2, <4>3
    <3> QED BY <3>5, <3>8, <3>9
  <2> QED BY <2>1, <2>2
<1> QED BY <1>1, PlannerInvariance, PTL
=============================================================================

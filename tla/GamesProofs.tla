---------------------------- MODULE GamesProofs -----------------------------
(***************************************************************************)
(* Proofs about the games: the snake for every board, the quiz for any     *)
(* number of options and answers.                                          *)
(***************************************************************************)
EXTENDS Games, SequenceTheorems, TLAPS

\* The variables have the shapes the code gives them.
SnakeTypeOK ==
    /\ snake \in Seq(Cells) /\ Len(snake) >= 3
    /\ dir \in Dirs
    /\ food \in Cells
    /\ score \in Nat

IInv == SnakeTypeOK /\ SnakeIsWhole /\ NeverIntoTheNeck

-----------------------------------------------------------------------------
(* Points *)

\* A step of turn and step: it can be taken back by a step of another
\* direction, and never by one of the same.
LEMMA PlusFacts ==
    ASSUME NEW p \in Cells, NEW d \in Dirs
    PROVE  /\ Adjacent(Plus(p, d), p)
           /\ Plus(Plus(p, d), d) # p
<1>1. PICK x \in Int, y \in Int : p = <<x, y>>
    BY BoardAssumption DEF Cells
<1>2. PICK a \in Int, b \in Int : d = <<a, b>> /\ <<-a, -b>> \in Dirs /\ (a # 0 \/ b # 0)
    BY DEF Dirs, Right
<1>3. Plus(p, d) = <<x + a, y + b>>
    BY <1>1, <1>2 DEF Plus
<1>4. Plus(Plus(p, d), <<-a, -b>>) = <<x, y>>
    BY <1>3 DEF Plus
<1>5. Plus(Plus(p, d), d) = <<x + a + a, y + b + b>>
    BY <1>2, <1>3 DEF Plus
<1>6. Adjacent(Plus(p, d), p)
    BY <1>1, <1>2, <1>4 DEF Adjacent
<1> QED
    BY <1>1, <1>2, <1>5, <1>6

\* spawnFood stays on the board, and off the snake unless there is no cell left.
LEMMA FoodFacts ==
    ASSUME NEW s, NEW f \in SpawnFood(s)
    PROVE  /\ f \in Cells
           /\ f \in Segments(s) => Cells \subseteq Segments(s)
<1>1. <<0, 0>> \in Cells
    BY BoardAssumption DEF Cells
<1> QED
    BY <1>1 DEF SpawnFood

\* A function on 1..n is a sequence of length n.
LEMMA IsSequence ==
    ASSUME NEW S, NEW n \in Nat, NEW f \in [1..n -> S]
    PROVE  f \in Seq(S) /\ Len(f) = n
<1>1. f \in Seq(S)
    BY SeqDef
<1>2. Len(f) \in Nat /\ DOMAIN f = 1..Len(f)
    BY <1>1, LenProperties
<1>3. DOMAIN f = 1..n
    OBVIOUS
<1> QED
    BY <1>1, <1>2, <1>3

-----------------------------------------------------------------------------
(* The start *)

\* What a new game is.
Begun(s, d, f, n) ==
    /\ s \in Seq(Cells) /\ Len(s) = 3
    /\ d \in Dirs /\ f \in Cells /\ n = 0
    /\ Segments(s) \subseteq Cells
    /\ \A i, j \in DOMAIN s : s[i] = s[j] => i = j
    /\ \A i \in 1..(Len(s) - 1) : Adjacent(s[i], s[i + 1])
    /\ f \in Segments(s) => Cells \subseteq Segments(s)
    /\ Plus(s[1], d) # s[2]

\* createInitialState, at the beginning and after Enter.
LEMMA FreshFacts ==
    ASSUME NEW s, NEW d, NEW f, NEW n, NEW over, Fresh(s, d, f, n, over)
    PROVE  Begun(s, d, f, n)
<1> DEFINE y == Height \div 2
<1>1. y \in 0..(Height - 1)
    BY BoardAssumption
<1>2. s = [i \in 1..3 |-> <<StartX + 1 - i, y>>] /\ d = <<1, 0>> /\ n = 0
    BY DEF Fresh, StartSnake, Right
<1> HIDE DEF y
<1>3. s[1] = <<StartX, y>> /\ s[2] = <<StartX - 1, y>> /\ s[3] = <<StartX - 2, y>>
    BY <1>2, BoardAssumption
<1>4. {s[1], s[2], s[3]} \subseteq Cells
    BY <1>1, <1>3, BoardAssumption DEF Cells
<1>5. s \in [1..3 -> Cells]
    BY <1>2, <1>3, <1>4
<1>6. s \in Seq(Cells) /\ Len(s) = 3
    BY <1>5, IsSequence
<1>7. Segments(s) \subseteq Cells
    BY <1>5 DEF Segments
<1>8. \A i, j \in DOMAIN s : s[i] = s[j] => i = j
    BY <1>2, <1>1, BoardAssumption
<1>9. Adjacent(s[1], s[2]) /\ Adjacent(s[2], s[3])
  <2>1. Plus(s[1], <<-1, 0>>) = s[2] /\ Plus(s[2], <<-1, 0>>) = s[3]
      BY <1>1, <1>3, BoardAssumption DEF Plus
  <2> QED BY <2>1 DEF Adjacent, Dirs
<1>10. \A i \in 1..(Len(s) - 1) : Adjacent(s[i], s[i + 1])
    BY <1>6, <1>9
<1>11. Plus(s[1], d) # s[2]
  <2>1. Plus(s[1], d) = <<StartX + 1, y>>
      BY <1>1, <1>2, <1>3, BoardAssumption DEF Plus
  <2> QED BY <1>1, <1>3, <2>1, BoardAssumption
<1>12. f \in Cells /\ (f \in Segments(s) => Cells \subseteq Segments(s))
    BY FoodFacts DEF Fresh
<1> QED
    BY <1>2, <1>6, <1>7, <1>8, <1>10, <1>11, <1>12 DEF Dirs, Right, Begun

LEMMA InitInv == SnakeInit => IInv
<1> SUFFICES ASSUME SnakeInit PROVE IInv
    OBVIOUS
<1>1. Fresh(snake, dir, food, score, gameOver)
    BY DEF SnakeInit
<1>2. Begun(snake, dir, food, score)
    BY <1>1, FreshFacts
<1>3. SnakeIsWhole
    BY <1>2 DEF SnakeIsWhole, Begun
<1> QED
    BY <1>2, <1>3 DEF IInv, SnakeTypeOK, NeverIntoTheNeck, Begun

LEMMA RestartInv == Restart => IInv'
<1> SUFFICES ASSUME Restart PROVE IInv'
    OBVIOUS
<1>1. Fresh(snake', dir', food', score', gameOver')
    BY DEF Restart
<1>2. Begun(snake', dir', food', score')
    BY <1>1, FreshFacts
<1>3. SnakeIsWhole'
    BY <1>2 DEF SnakeIsWhole, Begun, Segments
<1> QED
    BY <1>2, <1>3 DEF IInv, SnakeTypeOK, NeverIntoTheNeck, Begun

-----------------------------------------------------------------------------
(* A tick *)

LEMMA TickInv == IInv /\ Tick => IInv'
<1> SUFFICES ASSUME IInv, Tick PROVE IInv'
    OBVIOUS
<1> USE DEF IInv, SnakeTypeOK
<1> DEFINE next == Plus(snake[1], dir)
           ate  == next = food
           kept == IF ate THEN Len(snake) ELSE Len(snake) - 1
           lives == next \in Cells /\ \A i \in 1..kept : snake[i] # next
<1>1. CASE ~lives
    BY <1>1 DEF Tick, Move, SnakeIsWhole, NeverIntoTheNeck
<1>2. CASE lives
  <2>1. /\ snake' = Advanced(next, kept)
        /\ score' = IF ate THEN score + 1 ELSE score
        /\ food' \in IF ate THEN SpawnFood(snake') ELSE {food}
        /\ dir' = dir
      BY <1>2 DEF Tick, Move
  <2>2. Len(snake) \in Nat /\ DOMAIN snake = 1..Len(snake) /\ Len(snake) >= 3
      BY LenProperties
  <2>3. snake \in [1..Len(snake) -> Cells]
      BY LenProperties
  <2>4. kept \in 2..Len(snake) /\ kept \in Nat
      BY <2>2
  <2>5. next \in Cells /\ \A i \in 1..kept : snake[i] # next
      BY <1>2
  <2>6. Adjacent(next, snake[1]) /\ Plus(next, dir) # snake[1]
      BY <2>2, <2>3, PlusFacts
  <2>7. next # food \/ kept = Len(snake)
      OBVIOUS
  <2>8. next = food \/ kept = Len(snake) - 1
      OBVIOUS
  <2> HIDE DEF kept, lives
  <2>9. snake' = [i \in 1..(kept + 1) |-> IF i = 1 THEN next ELSE snake[i - 1]]
      BY <2>1 DEF Advanced
  <2> HIDE DEF next
  <2>10. snake' \in [1..(kept + 1) -> Cells]
      BY <2>3, <2>4, <2>5, <2>9
  <2>11. snake' \in Seq(Cells) /\ Len(snake') = kept + 1
      BY <2>4, <2>10, IsSequence
  <2>12. snake'[1] = next /\ \A i \in 2..(kept + 1) : snake'[i] = snake[i - 1]
      BY <2>4, <2>9
  <2>13. Len(snake') = 3 + score'
      BY <2>1, <2>7, <2>8, <2>11, <2>2 DEF SnakeIsWhole
  <2>14. Segments(snake)' \subseteq Cells
      BY <2>10 DEF Segments
  <2>15. ASSUME NEW i \in 1..(kept + 1), NEW j \in 1..(kept + 1), snake'[i] = snake'[j], i # j
         PROVE  FALSE
    <3>1. CASE i = 1
        BY <3>1, <2>4, <2>5, <2>12, <2>15
    <3>2. CASE j = 1
        BY <3>2, <2>4, <2>5, <2>12, <2>15
    <3>3. CASE i # 1 /\ j # 1
      <4>1. /\ i \in 2..(kept + 1) /\ i - 1 \in 1..kept
            /\ j \in 2..(kept + 1) /\ j - 1 \in 1..kept
          BY <3>3, <2>4
      <4>2. i - 1 \in DOMAIN snake /\ j - 1 \in DOMAIN snake
          BY <4>1, <2>2, <2>4
      <4>3. snake[i - 1] = snake[j - 1]
          BY <4>1, <2>12, <2>15
      <4> QED BY <4>1, <4>2, <4>3, <2>15 DEF SnakeIsWhole
    <3> QED BY <3>1, <3>2, <3>3
  <2>16. ASSUME NEW i \in 1..kept PROVE Adjacent(snake'[i], snake'[i + 1])
    <3>1. CASE i = 1
        BY <3>1, <2>4, <2>6, <2>12
    <3>2. CASE i # 1
      <4>1. snake'[i] = snake[i - 1] /\ snake'[i + 1] = snake[i]
        <5>1. i \in 2..(kept + 1) /\ i + 1 \in 2..(kept + 1) /\ (i + 1) - 1 = i
            BY <3>2, <2>4
        <5> QED BY <5>1, <2>12
      <4>2. i - 1 \in 1..(Len(snake) - 1) /\ (i - 1) + 1 = i
          BY <3>2, <2>4, <2>2
      <4>3. Adjacent(snake[i - 1], snake[(i - 1) + 1])
          BY <4>2 DEF SnakeIsWhole
      <4> QED BY <4>1, <4>2, <4>3
    <3> QED BY <3>1, <3>2
  <2>17. food' \in Cells /\ (food' \in Segments(snake)' => Cells \subseteq Segments(snake)')
    <3>1. CASE ate
      <4>1. food' \in SpawnFood(snake')
          BY <3>1, <2>1
      <4> QED BY <4>1, FoodFacts DEF Segments
    <3>2. CASE ~ate
      <4>1. food' = food /\ kept = Len(snake) - 1 /\ next # food
          BY <3>2, <2>1, <2>8
      <4>2. ASSUME food \in Segments(snake)' PROVE Cells \subseteq Segments(snake)'
        <5>1. PICK i \in 1..(kept + 1) : snake'[i] = food
            BY <4>2, <2>10 DEF Segments
        <5>2. i \in 2..(kept + 1) /\ snake[i - 1] = food
            BY <5>1, <4>1, <2>4, <2>12
        <5>3. food \in Segments(snake)
            BY <5>2, <2>2, <2>4 DEF Segments
        <5>4. Cells \subseteq Segments(snake)
            BY <5>3 DEF SnakeIsWhole
        <5>5. snake[Len(snake)] = next
          <6>1. PICK k \in 1..Len(snake) : snake[k] = next
              BY <5>4, <2>5, <2>2 DEF Segments
          <6>2. k = Len(snake)
            <7>1. ~(k \in 1..kept)
                BY <6>1, <2>5
            <7>2. \A n \in Nat : \A l \in 1..n : ~(l \in 1..(n - 1)) => l = n
                OBVIOUS
            <7> QED BY <7>1, <7>2, <2>2, <4>1
          <6> QED BY <6>1, <6>2
        <5>6. ASSUME NEW c \in Cells PROVE c \in Segments(snake)'
          <6>1. PICK k \in 1..Len(snake) : snake[k] = c
              BY <5>4, <2>2 DEF Segments
          <6>2. CASE k = Len(snake)
              BY <6>1, <6>2, <5>5, <2>4, <2>10, <2>12 DEF Segments
          <6>3. CASE k # Len(snake)
            <7>1. k + 1 \in 2..(kept + 1) /\ (k + 1) - 1 = k
                BY <6>3, <4>1, <2>2
            <7>2. snake'[k + 1] = c
                BY <6>1, <7>1, <2>12
            <7> QED BY <7>1, <7>2, <2>4, <2>10 DEF Segments
          <6> QED BY <6>2, <6>3
        <5> QED BY <5>6
      <4> QED BY <4>1, <4>2
    <3> QED BY <3>1, <3>2
  <2>18. NeverIntoTheNeck'
    <3>1. snake'[2] = snake[1]
        BY <2>4, <2>12
    <3> QED BY <3>1, <2>1, <2>6, <2>12 DEF NeverIntoTheNeck
  <2>19. DOMAIN snake' = 1..(kept + 1) /\ Len(snake') - 1 = kept
      BY <2>10, <2>11, <2>4
  <2>20. SnakeIsWhole'
      BY <2>13, <2>14, <2>15, <2>16, <2>17, <2>19 DEF SnakeIsWhole
  <2>21. score' \in Nat
      BY <2>1
  <2> QED
      BY <2>1, <2>4, <2>11, <2>17, <2>18, <2>20, <2>21
<1> QED
    BY <1>1, <1>2

-----------------------------------------------------------------------------
(* The quiz *)

\* An answered question waits for its timer, and there is no other.
QInv ==
    /\ {"answered", "feedback"} \subseteq DOMAIN quiz
    /\ OneTimerPerAnswer

LEMMA FreshQuestion ==
    ASSUME NEW q \in Questions
    PROVE  q.answered = 0 /\ q.feedback = "" /\ {"answered", "feedback"} \subseteq DOMAIN q
<1>1. PICK a \in 0..(Options - 1) :
          q = [answer |-> a, selected |-> 0, score |-> 0, streak |-> 0, answered |-> 0, feedback |-> ""]
    BY DEF Questions
<1> QED
    BY <1>1

LEMMA QuizInitInv == QuizInit => QInv
<1> SUFFICES ASSUME QuizInit PROVE QInv
    OBVIOUS
<1>1. quiz \in Questions /\ timers = 0
    BY DEF QuizInit
<1> QED
    BY <1>1, FreshQuestion DEF QInv, OneTimerPerAnswer

LEMMA QuizNextInv == QInv /\ [QuizNext]_quizVars => QInv'
<1> SUFFICES ASSUME QInv, [QuizNext]_quizVars PROVE QInv'
    OBVIOUS
<1> USE DEF QInv, OneTimerPerAnswer
<1>1. CASE Select
  <2>1. PICK step \in {1, Options - 1} :
            quiz' = [quiz EXCEPT !.selected = (@ + step) % Options]
      BY <1>1 DEF Select
  <2>2. /\ quiz'.answered = quiz.answered /\ quiz'.feedback = quiz.feedback
        /\ DOMAIN quiz' = DOMAIN quiz
      BY <2>1
  <2> QED
      BY <1>1, <2>2 DEF Select
<1>2. CASE Submit
  <2>1. PICK correct \in BOOLEAN : quiz' = Answered(correct)
      BY <1>2 DEF Submit
  <2>2. timers' = timers + 1 /\ timers = 0 /\ quiz.answered = 0
      BY <1>2, Zenon DEF Submit
  <2>3. timers' = 1
      BY ONLY <2>2
  <2>4. quiz'.answered = quiz.answered + 1
      BY <2>1, Zenon DEF Answered
  <2>5. quiz'.answered = 1
      BY ONLY <2>2, <2>4
  <2>6. quiz'.feedback # "" /\ {"answered", "feedback"} \subseteq DOMAIN quiz'
      BY <2>1, Zenon DEF Answered
  <2> QED
      BY <2>3, <2>5, <2>6
<1>3. CASE Advance
  <2>1. quiz' \in Questions /\ timers' = timers - 1 /\ timers > 0
      BY <1>3 DEF Advance
  <2>2. timers' = 0
    <3>1. timers = 0 \/ timers = 1
        OBVIOUS
    <3> QED
        BY ONLY <2>1, <3>1
  <2>3. quiz'.answered = 0 /\ quiz'.feedback = "" /\ {"answered", "feedback"} \subseteq DOMAIN quiz'
      BY <2>1, FreshQuestion
  <2> QED
      BY <2>2, <2>3
<1>4. CASE QuizCalled \/ UNCHANGED quizVars
    BY <1>4 DEF QuizCalled, quizVars
<1> QED
    BY <1>1, <1>2, <1>3, <1>4 DEF QuizNext

-----------------------------------------------------------------------------
(* The theorems *)

LEMMA NextInv == IInv /\ [SnakeNext]_snakeVars => IInv'
<1> SUFFICES ASSUME IInv, [SnakeNext]_snakeVars PROVE IInv'
    OBVIOUS
<1>1. ASSUME NEW d \in Dirs, Turn(d) PROVE IInv'
    BY <1>1 DEF IInv, SnakeTypeOK, SnakeIsWhole, NeverIntoTheNeck, Turn, Segments
<1>2. ASSUME gameVars' = gameVars PROVE IInv'
    BY <1>2 DEF IInv, SnakeTypeOK, SnakeIsWhole, NeverIntoTheNeck, gameVars, Segments
<1> QED
    BY <1>1, <1>2, TickInv, RestartInv DEF SnakeNext, Toggle, Called, snakeVars

\* A step of the games is a step of each of the two, or leaves it alone.
LEMMA GamesStep ==
    [GamesNext]_<<snakeVars, quizVars, app>> => [SnakeNext]_snakeVars /\ [QuizNext]_quizVars
BY DEF GamesNext

\* Whatever the board, the keys, the pauses and the food: the snake is a path
\* that never crosses itself, one cell longer for every point, and food lies on
\* it only when it fills the board.
THEOREM SnakeStaysWhole == GamesSpec => []SnakeIsWhole
<1>1. IInv => SnakeIsWhole
    BY DEF IInv
<1>2. GamesInit => SnakeInit
    BY DEF GamesInit
<1> QED
    BY <1>1, <1>2, InitInv, NextInv, GamesStep, PTL DEF GamesSpec

\* No sequence of keys turns the snake into its neck.
THEOREM NeckIsSafe == GamesSpec => []NeverIntoTheNeck
<1>1. IInv => NeverIntoTheNeck
    BY DEF IInv
<1>2. GamesInit => SnakeInit
    BY DEF GamesInit
<1> QED
    BY <1>1, <1>2, InitInv, NextInv, GamesStep, PTL DEF GamesSpec

\* However answers, timers and pauses interleave, every answered question has
\* one timer on its way, and an open question none.
THEOREM OneTimerEach == GamesSpec => []OneTimerPerAnswer
<1>1. QInv => OneTimerPerAnswer
    BY DEF QInv
<1>2. GamesInit => QuizInit
    BY DEF GamesInit
<1> QED
    BY <1>1, <1>2, QuizInitInv, QuizNextInv, GamesStep, PTL DEF GamesSpec
=============================================================================

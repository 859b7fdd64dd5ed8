------------------------------- MODULE Snake --------------------------------
(***************************************************************************)
(* The snake game: its rules (packages/game-snake/src/game.ts) and the     *)
(* component that runs them (App.tsx): an interval that ticks while the    *)
(* game is neither paused nor over, keys that come between ticks, and the  *)
(* activity's pause and resume callbacks at any time.                      *)
(***************************************************************************)
EXTENDS Integers, Sequences

CONSTANTS
    Width, Height,  \* of the board
    StartX          \* where the head starts

ASSUME BoardAssumption ==
    /\ Width \in Nat /\ Height \in Nat \ {0}
    /\ StartX \in 2..(Width - 1)

VARIABLES
    snake,          \* the segments, head first
    dir, food, score, gameOver,
    autoPaused, manualPaused

gameVars  == <<snake, dir, food, score, gameOver>>
snakeVars == <<gameVars, autoPaused, manualPaused>>

Cells == (0..(Width - 1)) \X (0..(Height - 1))

Right == <<1, 0>>
Dirs  == {<<0, -1>>, <<0, 1>>, <<-1, 0>>, Right}

Plus(p, d) == <<p[1] + d[1], p[2] + d[2]>>

Segments(s) == {s[i] : i \in DOMAIN s}

\* spawnFood's outcomes: a free cell, drawn or found by the scan, else (0, 0).
SpawnFood(s) ==
    IF Cells \subseteq Segments(s) THEN {<<0, 0>>} ELSE Cells \ Segments(s)

\* createInitialState
StartSnake == [i \in 1..3 |-> <<StartX + 1 - i, Height \div 2>>]

Fresh(s, d, f, n, over) ==
    /\ s = StartSnake /\ d = Right /\ n = 0 /\ over = FALSE
    /\ f \in SpawnFood(StartSnake)

SnakeInit ==
    /\ Fresh(snake, dir, food, score, gameOver)
    /\ autoPaused \in BOOLEAN /\ manualPaused = FALSE

paused == autoPaused \/ manualPaused

\* Mutant: the direction is compared with the last one, not with the neck.
TurnFromDir(d) ==
    /\ ~paused /\ ~gameOver
    /\ Plus(dir, d) # <<0, 0>>
    /\ dir' = d
    /\ UNCHANGED <<snake, food, score, gameOver, autoPaused, manualPaused>>

\* A reversal straight into the neck is ignored.
Turn(d) ==
    /\ ~paused /\ ~gameOver
    /\ Plus(snake[1], d) # snake[2]
    /\ dir' = d
    /\ UNCHANGED <<snake, food, score, gameOver, autoPaused, manualPaused>>

\* The first n segments, behind a new head.
Advanced(head, n) == [i \in 1..(n + 1) |-> IF i = 1 THEN head ELSE snake[i - 1]]

\* Mutant: food is placed beside the snake as it was before the step.
MoveOverFood(next, ate) ==
    LET kept == IF ate THEN Len(snake) ELSE Len(snake) - 1
    IN  IF next \in Cells /\ \A i \in 1..kept : snake[i] # next
        THEN /\ snake' = Advanced(next, kept)
             /\ score' = IF ate THEN score + 1 ELSE score
             /\ food'  \in IF ate THEN SpawnFood(snake) ELSE {food}
             /\ UNCHANGED gameOver
        ELSE gameOver' = TRUE /\ UNCHANGED <<snake, food, score>>

\* step: eat or pop the tail, collide or survive.
Move(next, ate) ==
    LET kept == IF ate THEN Len(snake) ELSE Len(snake) - 1
    IN  IF next \in Cells /\ \A i \in 1..kept : snake[i] # next
        THEN /\ snake' = Advanced(next, kept)
             /\ score' = IF ate THEN score + 1 ELSE score
             /\ food'  \in IF ate THEN SpawnFood(snake') ELSE {food}
             /\ UNCHANGED gameOver
        ELSE gameOver' = TRUE /\ UNCHANGED <<snake, food, score>>

Tick ==
    /\ ~paused /\ ~gameOver
    /\ LET next == Plus(snake[1], dir) IN Move(next, next = food)
    /\ UNCHANGED <<dir, autoPaused, manualPaused>>

\* Enter starts another game, paused or not.
Restart ==
    /\ gameOver
    /\ Fresh(snake', dir', food', score', gameOver')
    /\ UNCHANGED <<autoPaused, manualPaused>>

\* The p key; onPause and onResume.
Toggle == manualPaused' = ~manualPaused /\ UNCHANGED <<gameVars, autoPaused>>
Called == autoPaused' \in BOOLEAN /\ UNCHANGED <<gameVars, manualPaused>>

SnakeNext == (\E d \in Dirs : Turn(d)) \/ Tick \/ Restart \/ Toggle \/ Called

SnakeSpec == SnakeInit /\ [][SnakeNext]_snakeVars

-----------------------------------------------------------------------------
(* Properties *)

\* The snake is a path of 3 + score cells of the board that nowhere crosses
\* itself, dead or alive, and the food lies beside it, unless there is no cell
\* left.
Adjacent(p, q) == \E d \in Dirs : Plus(p, d) = q

SnakeIsWhole ==
    /\ Len(snake) = 3 + score
    /\ Segments(snake) \subseteq Cells
    /\ \A i, j \in DOMAIN snake : snake[i] = snake[j] => i = j
    /\ \A i \in 1..(Len(snake) - 1) : Adjacent(snake[i], snake[i + 1])
    /\ food \in Segments(snake) => Cells \subseteq Segments(snake)

\* game.ts: reversing straight into the neck is ignored, however many keys come
\* between two ticks: the next step never is the one back.
NeverIntoTheNeck == Plus(snake[1], dir) # snake[2]
=============================================================================

------------------------------- MODULE Games --------------------------------
(***************************************************************************)
(* The two reference activities: one of them is played.                    *)
(***************************************************************************)
EXTENDS Snake, Quiz

VARIABLE app        \* the game that is played; never changes

GamesInit == app \in {"snake", "quiz"} /\ SnakeInit /\ QuizInit

GamesNext ==
    \/ app = "snake" /\ SnakeNext /\ UNCHANGED <<quizVars, app>>
    \/ app = "quiz"  /\ QuizNext  /\ UNCHANGED <<snakeVars, app>>

\* Timers fire. Nobody has to press a key, and ticks need not come.
GamesSpec ==
    /\ GamesInit /\ [][GamesNext]_<<snakeVars, quizVars, app>>
    /\ WF_quizVars(app = "quiz" /\ Advance)
=============================================================================

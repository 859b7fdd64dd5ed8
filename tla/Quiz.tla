-------------------------------- MODULE Quiz --------------------------------
(***************************************************************************)
(* The math quiz (packages/exercise-math/src/App.tsx): keys, the timer     *)
(* that brings the next question 0.8 s after an answer, and the activity's *)
(* callbacks. A question is the place of its answer among the options.     *)
(***************************************************************************)
EXTENDS Naturals

CONSTANT Options    \* how many options a question has

ASSUME OptionsAssumption == Options \in Nat \ {0}

VARIABLES
    quiz,           \* the component's QuizState
    timers,         \* timeouts not yet run
    quizPaused

quizVars == <<quiz, timers, quizPaused>>

\* initialState, with every question that may be generated.
Questions ==
    {[answer |-> a, selected |-> 0, score |-> 0, streak |-> 0, answered |-> 0, feedback |-> ""]
        : a \in 0..(Options - 1)}

QuizInit == quiz \in Questions /\ timers = 0 /\ quizPaused \in BOOLEAN

\* The arrow keys.
Select ==
    /\ ~quizPaused /\ quiz.feedback = ""
    /\ \E step \in {1, Options - 1} : quiz' = [quiz EXCEPT !.selected = (@ + step) % Options]
    /\ UNCHANGED <<timers, quizPaused>>

Answered(correct) ==
    [quiz EXCEPT !.score = IF correct THEN @ + 1 ELSE @, !.streak = IF correct THEN @ + 1 ELSE 0,
                 !.answered = @ + 1, !.feedback = IF correct THEN "correct" ELSE "wrong"]

\* Mutant: an answered question can be answered again.
SubmitAgain ==
    /\ ~quizPaused /\ quiz.answered < 2
    /\ quiz' = Answered(quiz.selected = quiz.answer) /\ timers' = timers + 1
    /\ UNCHANGED quizPaused

Submit ==
    /\ ~quizPaused /\ quiz.feedback = ""
    /\ quiz' = Answered(quiz.selected = quiz.answer) /\ timers' = timers + 1
    /\ UNCHANGED quizPaused

\* Mutant: the timer waits for the pause to end.
AdvanceUnlessPaused ==
    /\ timers > 0 /\ ~quizPaused
    /\ timers' = timers - 1 /\ quiz' \in Questions
    /\ UNCHANGED quizPaused

\* The timer: it takes no notice of a pause, and score and streak start anew.
Advance ==
    /\ timers > 0
    /\ timers' = timers - 1 /\ quiz' \in Questions
    /\ UNCHANGED quizPaused

QuizCalled == quizPaused' \in BOOLEAN /\ UNCHANGED <<quiz, timers>>

QuizNext == Select \/ Submit \/ Advance \/ QuizCalled

-----------------------------------------------------------------------------
(* Properties *)

\* A question is answered once, and every answered question has one timer on
\* its way: none is skipped by a second timer, and none is left standing.
OneTimerPerAnswer ==
    /\ timers = (IF quiz.feedback = "" THEN 0 ELSE 1)
    /\ quiz.answered = timers

\* After an answer comes a question, even if the quiz is paused meanwhile and
\* never resumed.
NextQuestionComes == quiz.feedback # "" ~> quiz.feedback = ""
=============================================================================

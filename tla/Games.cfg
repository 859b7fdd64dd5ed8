CONSTANTS
    Width = 4
    Height = 3
    StartX = 2
    Options = 4
SPECIFICATION GamesSpec
INVARIANTS
    SnakeIsWhole
    NeverIntoTheNeck
    OneTimerPerAnswer
PROPERTIES
    NextQuestionComes
CHECK_DEADLOCK FALSE

SPECIFICATION Spec
CONSTANTS
    Keys = {k1, k2}
    Limit = 2
    Window = 3
    Horizon = 6
SYMMETRY Symmetry
INVARIANTS TypeOK AtMostLimit EntriesBounded NothingForgotten
PROPERTY AnswersAsTheLog

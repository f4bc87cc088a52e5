\* Two turns and two answers, equal or not; the repair after a restart meets the
\* second turn.
SPECIFICATION Spec
CONSTANTS
    Turns = {1, 2}
    Answers = {a1, a2}
    StreamKinds = {"answer"}
    Watched = {}
    PageLimit = 4
    MaxCloses = 0
    MaxRestarts = 1
    Orphans = FALSE
    OneDelta = TRUE
VIEW View
SYMMETRY AnswerSymmetry
INVARIANTS
    AnswerIsShown
    PhasesSettle
CHECK_DEADLOCK FALSE

\* A close by force and a restart that leaves the worker alive, with a reader.
SPECIFICATION Spec
CONSTANTS
    Turns = {1}
    Answers = {"yes"}
    StreamKinds = {"answer"}
    Watched = {1}
    PageLimit = 4
    MaxCloses = 1
    MaxRestarts = 1
    Orphans = TRUE
    OneDelta = FALSE
INVARIANTS
    TypeOK
    AnswerIsShown
    ClosedTurnIsNotCompleted
PROPERTY StreamShowsTheEnd
CONSTRAINT FollowedWhileCalm
CHECK_DEADLOCK FALSE

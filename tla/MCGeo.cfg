\* Two connections and every source, under fairness, while the clock is set back
\* and the zones are redrawn.
SPECIFICATION FairSpec
CONSTANTS
    t1 = t1
    t2 = t2
    None = None
    Thread = {t1, t2}
    Modes <- AllModes
    Place = {"here", "there"}
    ZoneLists <- Lists
    Polls = 1
    MaxTime = 1
    MaxSetBacks = 1
    MaxEvents = 3
CHECK_DEADLOCK FALSE
INVARIANTS
    TypeOK
    DwellFromAnswers
    NegativeDwellOverlaps
    AnswersAreCurrent
PROPERTY
    Answered

SPECIFICATION FairSpec
CONSTANTS
    Servers = {s1, s2}
    Calls = {c1}
    s1 = s1
    s2 = s2
    c1 = c1
INVARIANTS
    FirstAnswerWins
    CountersMatchAnswers
PROPERTIES
    PromptAnswerWins
    CallEnds
CHECK_DEADLOCK FALSE

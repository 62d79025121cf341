SPECIFICATION ApiSpec
CONSTANTS
    w1 = w1
    w2 = w2
    b1 = b1
    b2 = b2
    Workers = {w1, w2}
    Keys = {k1}
    BodyOf <- OneBodyEach
    MaxSessions = 2
    MaxTokens = 3
    MaxRestarts = 1
    Trials <- FewMishaps
    SlowCommands = FALSE
SYMMETRY Alike
CHECK_DEADLOCK FALSE
INVARIANTS
    ApiTypeOK
    RunsAlone
    AnsweredIsFinal
    AnswersMatch
    ReuseMeansLoss
    SignOutRevokes

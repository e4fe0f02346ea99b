CONSTANTS
    t1 = t1
    t2 = t2
    gemini = gemini
    fake = fake
    big = big
    question = question
    ba = ba
    bb = bb
    api = api
    Null = Null
    Positions <- MCPositions
    External = {3}
    Texts = {t1, t2}
    Models = {gemini, fake, big}
    Width <- MCWidth
    Questions = {question}
    Distance <- MCDistance
    TopK = 1
    Floor = 1
    Builders = {ba, bb}
    Askers = {}
    Jobs <- ConcurrentJobs
    BatchSize = 2
    Exclusive = FALSE
    Faults = {}
    MaxCommands = 5
SPECIFICATION Spec
INVARIANTS VectorsFit
PROPERTIES BuildEnds
CHECK_DEADLOCK FALSE

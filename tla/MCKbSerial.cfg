CONSTANTS
    t1 = t1
    t2 = t2
    gemini = gemini
    fake = fake
    big = big
    question = question
    ba = ba
    bb = bb
    api = api
    Null = Null
    Positions <- MCPositions
    External = {3}
    Texts = {t1, t2}
    Models = {gemini, fake, big}
    Width <- MCWidth
    Questions = {question}
    Distance <- MCDistance
    TopK = 1
    Floor = 1
    Builders = {ba}
    Askers = {api}
    Jobs <- SerialJobs
    BatchSize = 2
    Exclusive = TRUE
    Faults = {"stop"}
    MaxCommands = 6
SPECIFICATION Spec
INVARIANTS TypeOK VectorOfItsText BuiltMeansComplete InternalFillsUp
PROPERTIES KeepsIndex ChunkPaidOnce
CHECK_DEADLOCK FALSE

SPECIFICATION FairSpec
CONSTANTS
    Calls = {c1, c2}
    Items <- SomeItems
    BatchItems <- SomeBatchItems
    k1 = k1
    k2 = k2
    Keys = {k1, k2}
    NoKey = NoKey
    t1 = t1
    Templates = {t1}
    NoTemplate = NoTemplate
    a = a
    b = b
    x = x
    LBrace = LBrace
    RBrace = RBrace
    Chars = {a, b, x, LBrace, RBrace}
    Names <- SomeNames
    NoValue = NoValue
    Sources <- SomeSources
    Texts <- SomeTexts
    MaxLength = 2
    MaxBatchSize = 2
    MaxFaults = 1
CHECK_DEADLOCK FALSE
INVARIANTS TypeOK AllOrNothing KeyUnique ConflictIsReal ContentChecked RenderedInOneWay
PROPERTIES EveryCallAnswered

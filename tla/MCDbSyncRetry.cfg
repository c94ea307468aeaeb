CONSTANTS
    t1 = t1
    t2 = t2
    r1 = r1
    r2 = r2
    Tables = {t1, t2}
    Rows = {r1, r2}
    KeyOf <- RowKeys
    Gone = Gone
    InitSrc <- SomeSources
    InitDst <- SomeTargets
    Keyed = {t2}
    PublicSrc <- NotThere
    Configs <- PlainConfig
    NoConfig = NoConfig
    Workers = {w1, w2}
    Ready = Ready
    Exited = Exited
    MaxEdits = 0
SPECIFICATION Spec
PROPERTIES RetryHandlesFailures

CONSTANTS
    Parts = {0, 1, 999, 1000, NaN}
    MaxParts = 3
    NaN = NaN
    MaxDigits = 7
    MaxRunes = 4
    Starts <- MCStarts
    Lengths <- MCLengths
    TruncLengths = {0, 2, 3, 4}
    Signs = {FALSE, TRUE}
    IntBits = 8
    Elems <- MCElems
    MaxLen = 3
    B = 2
    Keys = {k1, k2, kbad}
    ValidKeys = {k1, k2}
    PlainBytes = {1, 2}
    MaxPlain = 3
    MaxForged = 5
    ByteVals = {0, 1, 2, 3}
    Err = Err
    Panic = Panic
    k1 = k1
    k2 = k2
    kbad = kbad
    RsaKeys = {rk1, rk2}
    EcKeys = {ek1}
    Inputs = {in1}
    NoBlock = NoBlock
    rk1 = rk1
    rk2 = rk2
    ek1 = ek1
    in1 = in1
    KeyOrder <- MCKeyOrder
    Chars = {"x"}
    MaxValue = 1
    MaxValues = 2
    DBs = {"mysql", "clickhouse", "hologres"}
    MaxFailures = 2
    Reqs = {r1, r2}
    r1 = r1
    r2 = r2
    FileTypes = {0, 3}
    Tick = 500
    MaxTime = 4000
    None = None
    JobNames <- MCJobNames
    ProducerJobs <- MCProducerJobs
    ConsumerJobs <- MCConsumerJobs
    Values <- MCExactValues
    MantissaBits = 3
    MaxBodies = 2
    HKeys = {"Content-Type", "traceparent", "X-Token"}
    HVals = {"application/json", "form", "t1", "tok"}
    Traces <- MCTraces
    OptionLists <- MCOptionLists
    QKeys = {"a", "b"}
    QVals = {"1", "2"}
    EndpointQueries <- MCEndpointQueries
    ParamMaps <- MCParamMaps
    MaxWait = 3
    ExtNames = {"", "png", "pdf"}
    UpFileTypes = {0, 1, 2, 3, 4, 5}
    Buckets = {"", "media"}
    ConfBucket = "assets"
    PartSizes = {0, 10485760}
    Envs = {"local", "prod"}
    MaxAlertWait = 12
    Contents = {"", "valid", "malformed"}
    ClientConfs <- MCClientConfs
    CallerDeadlines = {0, 1000, 5000}
    GrpcTick = 500
    MaxGrpcWait = 4000
SPECIFICATION Spec
INVARIANT VersionCompareCorrect IsNewVersionAgreesWithCompare CommasGroupThousands SubStrAsDocumented TruncateFits IntersectionCorrect UniqueCorrect MaxCorrect DecryptInvertsEncrypt PemRoundTrip EncryptStrDeterminesParams CommitNilMeansAllCommitted RollbackNilMeansNoneOpen CredentialsValidWhenIssued RoundTrip OptionHeadersWin RunsOnlyWithParsedConfig EveryRequestAnswered
CHECK_DEADLOCK FALSE

------------------------------- MODULE Library -------------------------------
(***************************************************************************)
(* The library components that share no state with each other or with the *)
(* consumer, checked together in one TLC run:                              *)
(*   - "call": one call of a pure helper of util/helper, util/encrypt or   *)
(*     util/xhttp/verify (Version, Strings, Arrays, AesModes, Rsa,         *)
(*     Md5Param) with                                                      *)
(*     arguments from the bounded sets of those modules;                   *)
(*   - "transaction": a multi-database transaction (Transaction);          *)
(*   - "token": concurrent GenerateOSSToken calls sharing the Redis copy   *)
(*     of the STS credentials (OssToken);                                  *)
(*   - "codec": producers and a consumer of the job envelope with          *)
(*     different job registries (Codec);                                   *)
(*   - "repository": request handlers sharing one DBRepository             *)
(*     (Repository);                                                       *)
(*   - "http": one call of the outbound HTTP helper (HttpClient);          *)
(*   - "upload": one Upload or UploadBinaryData call (Upload);             *)
(*   - "alert": one alert sent to the DingTalk robot (Alert);              *)
(*   - "config": the startup load of the configuration from Nacos (Nacos); *)
(*   - "request": one HTTP request through the middleware chain            *)
(*     (RequestPipeline);                                                  *)
(*   - "grpc": the gRPC client connection and one call (GrpcClient).       *)
(* The initial state picks the component; only its variables change from  *)
(* then on, so each property below is checked on every behaviour of its   *)
(* own component.                                                          *)
(***************************************************************************)
EXTENDS Integers, Sequences

CONSTANTS
    Parts, MaxParts, NaN,                               \* Version
    MaxDigits, MaxRunes, Starts, Lengths, TruncLengths,
    Signs, IntBits,                                     \* Strings
    Elems, MaxLen,                                      \* Arrays
    B, Keys, ValidKeys, PlainBytes, MaxPlain, MaxForged,
    ByteVals, Err,                                      \* AesModes
    RsaKeys, EcKeys, Inputs, NoBlock,                   \* Rsa
    KeyOrder, Chars, MaxValue, MaxValues,               \* Md5Param
    Panic,
    DBs, MaxFailures,                                   \* Transaction
    Reqs, FileTypes, Tick, MaxTime, None,               \* OssToken, Repository
    JobNames, ProducerJobs, ConsumerJobs, Values,
    MantissaBits, MaxBodies,                            \* Codec
    HKeys, HVals, Traces, OptionLists, QKeys, QVals,
    EndpointQueries, ParamMaps, MaxWait,                \* HttpClient
    ExtNames, UpFileTypes, Buckets, ConfBucket, PartSizes,  \* Upload
    Envs, MaxAlertWait,                                 \* Alert
    Contents,                                           \* Nacos
    ClientConfs, CallerDeadlines, GrpcTick, MaxGrpcWait \* GrpcClient

VARIABLES
    component,                          \* the component this behaviour runs
    call, result,                       \* the helper call and its result
    tx, loop, visited, txResult, caller, failures,     \* Transaction
    now, cache, pc, ft, issued, last,                  \* OssToken
    wire, sendLog, decoded,                            \* Codec
    repo, asked, lastQuery,                            \* Repository
    hreq, hstage, helapsed, hresult,                   \* HttpClient
    uresult,                                           \* Upload
    acaller, astage, aelapsed, aoutcome,               \* Alert
    cstage, ncache, nconf,                             \* Nacos
    rphase, rpos, rstack, rwriter, rctype, rbuf, rendered, rwire, \* RequestPipeline
    gconn, gstage, gdeadline, gelapsed, gresult        \* GrpcClient

callVars == <<call, result>>
txVars == <<tx, loop, visited, txResult, caller, failures>>
tokVars == <<now, cache, pc, ft, issued, last>>
codecVars == <<wire, sendLog, decoded>>
repoVars == <<repo, asked, lastQuery>>
httpVars == <<hreq, hstage, helapsed, hresult>>
alertVars == <<acaller, astage, aelapsed, aoutcome>>
nacosVars == <<cstage, ncache, nconf>>
pipelineVars == <<rphase, rpos, rstack, rwriter, rctype, rbuf, rendered, rwire>>
grpcVars == <<gconn, gstage, gdeadline, gelapsed, gresult>>
vars == <<component, callVars, txVars, tokVars, codecVars, repoVars, httpVars, uresult,
          alertVars, nacosVars, pipelineVars, grpcVars>>

V == INSTANCE Version
S == INSTANCE Strings
A == INSTANCE Arrays
E == INSTANCE AesModes
K == INSTANCE Rsa
M == INSTANCE Md5Param
T == INSTANCE Transaction WITH result <- txResult
O == INSTANCE OssToken
C == INSTANCE Codec
R == INSTANCE Repository WITH last <- lastQuery
H == INSTANCE HttpClient WITH Absent <- None
U == INSTANCE Upload WITH FileTypes <- UpFileTypes
N == INSTANCE Alert WITH MaxWait <- MaxAlertWait
X == INSTANCE Nacos
P == INSTANCE RequestPipeline
G == INSTANCE GrpcClient WITH Tick <- GrpcTick, MaxWait <- MaxGrpcWait

Init ==
    /\ component \in {"call", "transaction", "token", "codec", "repository", "http", "upload", "alert", "config",
                       "request", "grpc"}
    /\ call = [fn |-> "none"] /\ result = << >>
    /\ T!Init
    /\ O!Init
    /\ C!Init
    /\ R!Init
    /\ H!Init
    /\ U!Init
    /\ N!Init
    /\ X!Init
    /\ P!Init
    /\ G!Init

(* One call of one helper; that program then ends.                         *)
HelperCall == call.fn = "none" /\ (V!Next \/ S!Next \/ A!Next \/ E!Next \/ K!Next \/ M!Next)

(* A step of component c, leaving the variables of the others alone.       *)
Only(c) ==
    /\ component = c
    /\ UNCHANGED component
    /\ c # "call" => UNCHANGED callVars
    /\ c # "transaction" => UNCHANGED txVars
    /\ c # "token" => UNCHANGED tokVars
    /\ c # "codec" => UNCHANGED codecVars
    /\ c # "repository" => UNCHANGED repoVars
    /\ c # "http" => UNCHANGED httpVars
    /\ c # "upload" => UNCHANGED uresult
    /\ c # "alert" => UNCHANGED alertVars
    /\ c # "config" => UNCHANGED nacosVars
    /\ c # "request" => UNCHANGED pipelineVars
    /\ c # "grpc" => UNCHANGED grpcVars

Next ==
    \/ Only("call") /\ HelperCall
    \/ Only("transaction") /\ T!Next
    \/ Only("token") /\ O!TokNext
    \/ Only("codec") /\ C!Next
    \/ Only("repository") /\ R!RepoNext
    \/ Only("http") /\ H!Next
    \/ Only("upload") /\ U!Next
    \/ Only("alert") /\ N!Next
    \/ Only("config") /\ X!Next
    \/ Only("request") /\ P!Next
    \/ Only("grpc") /\ G!Next

Spec == Init /\ [][Next]_vars

-----------------------------------------------------------------------------
(* VersionCompare is the zero-padded numeric order on versions, panicking  *)
(* only when the parts before a non-numeric one are equal.                 *)
VersionCompareCorrect == V!VersionCompareCorrect

(* IsNewVersion agrees with VersionCompare for three parts of at most      *)
(* three digits.                                                           *)
IsNewVersionAgreesWithCompare == V!IsNewVersionAgreesWithCompare

(* FormatFloat64WithCommas groups the digits of the integer part by three. *)
CommasGroupThousands == S!CommasGroupThousands

(* SubStr returns the runes its comment describes, without panicking.     *)
SubStrAsDocumented == S!SubStrAsDocumented

(* TruncateString returns at most length bytes without panicking.         *)
TruncateFits == S!TruncateFits

(* The intersection helpers keep b's occurrences of the shared values.    *)
IntersectionCorrect == A!IntersectionCorrect

(* ArrayUnique keeps each value once, in order of first occurrence.       *)
UniqueCorrect == A!UniqueCorrect

(* Max of a non-empty list is its largest element.                        *)
MaxCorrect == A!MaxCorrect

(* Decrypt of Encrypt, same key and mode, returns the plaintext.          *)
DecryptInvertsEncrypt == E!DecryptInvertsEncrypt

(* Keys written as PEM read back as the same keys.                         *)
PemRoundTrip == K!PemRoundTrip



(* The string Md5 signs determines the signed parameters when no value    *)
(* contains "&".                                                           *)
EncryptStrDeterminesParams == M!EncryptStrDeterminesParams

(* Transaction.Commit returns nil only when every database committed.     *)
CommitNilMeansAllCommitted == T!CommitNilMeansAllCommitted

(* Transaction.Rollback returns nil only when no transaction is left open. *)
RollbackNilMeansNoneOpen == T!RollbackNilMeansNoneOpen

(* GenerateOSSToken never hands out STS credentials that have expired,    *)
(* whether they come from Redis or from AssumeRole.                        *)
CredentialsValidWhenIssued == O!CredentialsValidWhenIssued

(* A job message decodes, for a consumer that knows the job, to the job    *)
(* and payload the producer passed.                                        *)
RoundTrip == C!RoundTrip




(* Option headers override trace headers and the JSON Content-Type.       *)
OptionHeadersWin == H!OptionHeadersWin



(* A process runs only with a configuration that Nacos served and parsed. *)
RunsOnlyWithParsedConfig == X!RunsOnlyWithParsedConfig

(* Every HTTP request gets exactly the answer its handlers rendered,       *)
(* through the response buffer, the limiter's abort or a recovered panic.  *)
EveryRequestAnswered == P!EveryRequestAnswered

=============================================================================

# TLA+ models of gin-framework

TLA+ modules for the parts of this repository that have state, concurrency or
non-trivial algorithms, the TLC configurations that check them, and what the
checks show. The centre is the RocketMQ (Aliyun MQ HTTP) consumer in
`src/util/mq/rocketmq`, which has real concurrency (pool workers, a pull
loop, a flusher, several processes sharing a broker and Redis). Around it are
the components it talks to (group naming, the job envelope codec) and the
library code that request handlers share: the multi-database transaction,
the OSS upload credentials cached in Redis, the gorm repository, the
outbound HTTP helper, server-side OSS uploads, the DingTalk alert path, the
startup configuration from Nacos, one HTTP request through the router's
middleware chain, the application's gRPC client connection, and the pure helpers (version comparison, string and slice helpers, AES, RSA PEM
helpers, request signing strings).

## 1. Parts and how they interact

Producer → broker → `pullMessage` → `respChan` → `StartProcessing` →
`pool.Submit` → `processMessage` (group filter → Redis lock → Redis `Incr` →
`Check`/`UnMarshal` → `taskExecute` → `addAskBuffer` → deferred unlock) →
`askBuffer` → ticker → `sendBatchAsk` → broker. Several consumer processes
share one consumer group, the broker and Redis; workers of one process share
`askBuffer` (under a mutex) and `NotAskBuffer` (without one). Producer and
consumer agree on a message's group through `GetGroupName` /
`GetGroupNameByGroupId` (`client.go`), and on its body through
`Marshal` / `Check` / `UnMarshal` (`job_decoder.go`), possibly from builds
with different job registries.

HTTP handlers run concurrently and share: the container's `DBRepository`
per model (`internal/repository`), which `NewDB(txm)` binds to a
multi-database `Transaction` (`util/xsql/transaction`); and the Redis key
holding STS credentials that `GenerateOSSToken` (`util/xoss`) signs upload
policies with. The helpers of `util/helper`, `util/encrypt` and
`util/xhttp/verify` are pure functions.

Every HTTP request passes the global middlewares `router.Register` installs
(`OTELMiddleware`, `RecoveryMiddleware`, `RateLimiterMiddleware`, in that
order) before its controller. The OTEL middleware replaces `c.Writer` by a
`RespJsonModifier` that buffers the body and writes it back after the chain
returns; the recovery middleware turns a panic into a JSON 500 answer and
alerts (`Alert`). At startup the container builds the gRPC client
connection with `pkg/grpc.NewClient` over `pkg/transport/grpc`, whose
interceptor puts a deadline on every call.

## 2. Modules

| Module | Models | State |
|---|---|---|
| `Consumer` | `consumer.go`: pull loop, `StartProcessing`, pool workers in `processMessage`/`taskExecute`, ack buffer and flusher, with broker, Redis lock and counter, crashes | see below |
| `GroupNaming` | `client.go` group names, the producer's `groupId` property, the consumer's subscription and filter, several deployments and environments | `sent`, `outcome` |
| `Codec` | `job_decoder.go`: `Marshal`, `Check`, `UnMarshal` between builds with different registries; JSON numbers through float64 | `wire`, `sendLog`, `decoded` |
| `Transaction` | `transaction.go` `Commit`/`Rollback` over a map of `sql.Tx`, each call may fail, and the caller's begin/work/commit/rollback pattern | `tx`, `loop`, `visited`, `result`, `caller`, `failures` |
| `OssToken` | `token.go` `GenerateOSSToken`, `tst.go` `generateSTSTokenWithCache`/`generateSTSToken`: concurrent handlers, the Redis copy and its TTL, a clock | `now`, `cache`, `pc`, `ft`, `issued`, `last` |
| `Repository` | `db_repository.go` `NewDBRepository`, `NewDB`, `LockForUpdate`, `SharedLock`, `db()`, the locking clause of `QueryBuilder`; handlers sharing one repository | `repo`, `asked`, `last` |
| `Version` | `helper.go` `VersionCompare`, `IsNewVersion` | last call and result |
| `Strings` | `string.go` `FormatFloat64WithCommas`, `SubStr`, `TruncateString` (int width `IntBits`) | last call and result |
| `Arrays` | `array.go` intersection, unique, merge, membership; `func.go` `Max` | last call and result |
| `AesModes` | `aes.go` ECB/CBC with PKCS#7, CFB/OFB/CTR, on genuine, wrong-key and forged ciphertexts | last call and result |
| `Rsa` | `rsa.go` PEM encode/decode helpers, `OpensslRsaSign` | last call and result |
| `Md5Param` | `md5_param.go` `GenerateHash`, `createEncryptStr` under `Md5`, over every map iteration order | last call and result |
| `HttpClient` | `util/http/http.go` `Get`/`Post`/`Put`/`Delete`: functional options folded in order, query and header assembly, a fresh `http.Client` with the option's timeout, server answers, failures and delays | `hreq`, `hstage`, `helapsed`, `hresult` |
| `Upload` | `util/xoss/upload.go` `Upload`, `UploadBinaryData`, `uploadOption`, `getFileName`, `uploadToOss` (PutObject or multipart) | `uresult` |
| `Alert` | `robot.go` `SendText`, `dingtalk_tool.go` `SendAlarm`, and its four callers: recovery middleware, gorm logger `Trace`, MQ `ErrorNotify`, `thread.recoverLog`; the robot client's 10 s timeout | `acaller`, `astage`, `aelapsed`, `aoutcome` |
| `Nacos` | `nacos.go` `Load`/`parseAndCacheConfig` and `xconfig/config.go` `New`/`load` at process start | `cstage`, `ncache`, `nconf` |
| `RequestPipeline` | `router/api.go` middleware order, `OTELMiddleware` and `otelReport`, `RecoveryMiddleware`, `RateLimiterMiddleware`, `xhttp.RespJsonModifier`, the Demo controller; gin's `c.Next`/`Abort` and panic unwinding | `rphase`, `rpos`, `rstack`, `rwriter`, `rctype`, `rbuf`, `rendered`, `rwire` |
| `GrpcClient` | `pkg/grpc/client.go` `NewClient`, `pkg/transport/grpc/client.go` `dial` with its default options, `DialContext`'s credentials check, `unaryClientInterceptor`'s deadline | `gconn`, `gstage`, `gdeadline`, `gelapsed`, `gresult` |
| `Library` | a disjoint sum of the components above that share no state: the initial state picks one, `Only(c)` keeps the others unchanged | all of theirs |
| `MCConsumer`, `MCConsumerRuns`, `MCGroupNaming`, `MCCodec`, `MCLibrary` | model values, tables and sets the `.cfg` syntax cannot write | — |

Abstractions common to the helper modules: a string is a sequence of tokens
(a word, a separator, a rune index), never built character by character;
cryptographic primitives (AES, RSA, MD5) are ideal: a key is a model value,
a ciphertext or signature records the key and the input. Conversions the
properties depend on are modelled by what they do: float64 rounding at
`MantissaBits`, int wrap-around at `IntBits`, `strings.TrimRight`, PKCS#7
padding, the PEM label and DER format checks.

### `Consumer.tla`

State (`VARIABLES`) and where it lives in the code:

| Variable | Code |
|---|---|
| `bstate`, `handle` | broker: message visibility and the receipt handle of its latest delivery (handle n = n-th delivery) |
| `lockOwner` | Redis key `rock:<topic>:<id>` |
| `retry` | Redis counter `retryTime:<topic>:<id>` |
| `pending` | batches received on `respChan` not yet submitted (at most two: the one `StartProcessing` iterates and the one `pullMessage` blocks on) |
| `wpc`, `wdlv`, `wask`, `wtimes` | a pool worker's position in `processMessage`, its message, its `isAsk`, its `times` |
| `askBuf`, `notAsk` | `Consumer.askBuffer`, `NotAskBuffer` (per process) |
| `succeeded` | history: messages for which some `Execute` returned nil |
| `crashes` | number of process crashes so far (bounded) |

Actions: `PullMessage` (`pullMessage`), `Submit` (`StartProcessing` +
`pool.Submit`), `ProcessLock` (group filter, `mutex.Lock` won or failed),
`ProcessIncr` (`Incr`, poison append, `Check`, `UnMarshal`, the
`retryTimes == 0` append, or the final append for plain bodies),
`TaskExecute` (`taskExecute` with recover, and the final `addAskBuffer`),
`ProcessUnlock` (deferred token-checked unlock), `SendBatchAsk` (one ticker
tick, atomic as `askBufferLock` is held across the call), and the
environment: `VisibilityTimeout`, `Crash` (a process dies and restarts with
empty memory), `LockExpire` (a lock whose holder died expires).

Abstractions: a message body is one of four kinds (`job`, `badjob` that
`UnMarshal` rejects, `plain` without the queue mark, `foreign` with another
environment's group property); the outcome of `Execute` is a
nondeterministic boolean; the broker's ack of a batch acks every valid
handle and fails the call if any is invalid. A failed `AckMessage` or pull
call changes no state, so it is a stuttering step. `redsync`'s retrying Lock
is one step that wins when the key is free or fails (held, or Redis
unreachable) at any time. Lock expiry of a live holder (a handler running
past 600 s) is not modelled: the spec accepts duplicates beyond that window.
The data race on `NotAskBuffer` is abstracted as an append, since the list
is never read. `GroupMatches` is the group filter of `processMessage`.
`DuplicateDeliveryAcked` is an action property: a worker that finds the
message locked by another worker, with no crash in the step, leaves its
delivery in `askBuf`.

### `MCConsumer.tla` and `MCConsumerRuns.tla`

`MCConsumer` gives model values for processes and messages and the `Kind`
tables of the violation runs. `MCConsumerRuns` checks two deployments in one
run as a disjoint sum: the initial state picks `part` and only that
instance's variables change. "fleet" (`F`) is two processes of one worker,
`RetryTimes = 1`, a job and a plain message; "pool" (`P`, variables with a
`p` prefix) is one process with two workers, `RetryTimes = 0`, an
undecodable job and a message of another group. No symmetry: permuting
processes is not sound across the two instances.

### `GroupNaming.tla`

`GetGroupNameByGroupId` (the environment suffix outside prod, none when
`MQ.Env` is empty), `GetGroupName` (the registered queue's group, or
`GID_<topic>`), `Publish` (`SendJobMessage`, `SendMessage`: the producer's
`groupId` property) and `Receive` (a deployment subscribed under
`GetGroupNameByGroupId(queue.GroupId())` pulls a message and runs or drops it
by comparing `groupId` with `GetGroupName(topic)`). Deployments, their
`App.Env`, the `MQ.Env` values they may be configured with, the registered
and consumed queues are constants.

### `Codec.tla`

`SendJobMessage` marshals `{Job, Data}` behind `QueueMark` and the
separator, `SendMessage` publishes a raw body, `Decode` applies `Check` and
`UnMarshal` of the consumer's registry to a body on the wire. `ToFloat`
rounds an integer to the nearest float64 with `MantissaBits` significand
bits, ties to even.

### `Transaction.tla`

`NewTransaction` opens a `sql.Tx` per database; `CallCommit` and
`CallRollback` start the range loop; `LoopStep(d)` handles one database
(which may fail, up to `MaxFailures`) and returns at the first error, in any
map order; `CallerDone` ends the caller. A `sql.Tx` is done after its
Commit or Rollback, whatever the outcome.

### `OssToken.tla`

`Get(r, t)`: a handler for file type `t` reads the Redis key; a live copy is
answered at once (`Respond`), a missing or failed read goes to
`AssumeRole(r)`, which returns credentials expiring `DurationSeconds` later
or an error; `Store(r)` does the Redis `Set` with its 3500 s TTL (which may
fail unseen) and answers. `Advance` moves the clock by `Tick` up to
`MaxTime`, but not while a handler holds credentials it has not stored (that
gap is one HTTPS response, far below a `Tick`). A response records when it
was built, its credentials' expiry and its policy's expiry (`getExpire`:
1800 s for audio and video, 300 s otherwise).

### `Repository.tla`

One shared repository (`"base"`, built by `NewDBRepository`) and one
transaction repository per handler. `NewDB(r, id, hasTx)` marks the
receiver `isNew` and gives handler `r` a fresh repository bound (or not) to
a transaction for the model's connection; `Lock(r, id, l)` is
`LockForUpdate`/`SharedLock` on either repository; `Query(r, id)` records
whether the query ran on the transaction (`db()`) and which locking clause
`QueryBuilder` added; `Write(r, id)` is `Exists`, `Create`,
`CreateOrUpdate`, `Update` or `Delete`, which go straight to `db()` with no
locking clause; `Finish(r)` drops the handler's repository.

### `HttpClient.tla`

One call of the helper. `ApplyOptions` folds `ApplyOne` over the option
list (`FoldLeft`), as `applyOptions` loops over them: `WithTimeout` and
`WithTransport` overwrite a field and `WithHeaders` replaces the whole map.
`Get`/`Delete` (`GetOrDelete`) parse the URL, set each param on its query
(`SetQuery`) and set the trace headers and then the option headers
(`QueryHeaders`); `Post`/`Put` (`PostOrPut`) add `Content-Type:
application/json` between the two (`BodyHeaders`). An early error (parse,
marshal, `NewRequest`) is `FailEarly`. `Wait` advances the clock while the
server is silent and the client's timeout has not passed; `Respond` is a
transport error, a read error, a non-200 status or the 200 body; `Timeout`
is the client's deadline. Header maps are total functions with `Absent`.

### `Upload.tla`

`Upload` (an empty path or failed `os.Open` fails first) and
`UploadBinaryData` apply `UploadOption` (default bucket, `FileType` 0 as
image, the type's default suffix) and call `UploadToOss`, which may fail in
the SDK and otherwise stores under `GetFileName`: the type's directory
(`UploadFilePathPrefix`) and `KeySuffix` (the path's extension when no
suffix is set, a leading dot added, `.png` when empty). A file path is its
`path.Ext`; a suffix is a record `[dot, ext]`.

### `Alert.tla`

The callers `Recovery`, `SqlLogger`, `ErrorNotify` and `RecoverLog` either
return at once (local environment, no tool or notifier, no robot) or `Post`
a text to DingTalk. While posting, `Wait` advances the clock below the
robot client's `RobotTimeout` (10 s), `Answer` is Do returning nil or an
error and `Expire` its timeout; `Resume` is the caller going on.

### `Nacos.tla`

`Start` is `xconfig.New` without a config file: `LoadOutcome` follows
`Load`'s order of checks (environment, settings, client, fetch, empty
content), `ParseAndCacheConfig` keeps the cache nil on malformed YAML, and
`ConfAfterLoad` is `load`'s error and nil checks before the Conf is filled.

### `RequestPipeline.tla`

One request through `Handlers` (`Chain`, the middlewares in `app.Use`
order, then `demo`). `Enter` runs `Handlers[rpos]` up to its `c.Next`:
`OtelEnter` swaps in the modifier, `RecoveryEnter` defers its recover,
`LimiterEnter` either renders the limit error and aborts or goes on,
`DemoRun` renders the data or the error answer, or the service panics.
`rstack` holds the middlewares waiting in `c.Next`. `Leave` runs a
middleware's code after `c.Next`; for the OTEL middleware that is
`OtelReport`, which writes the buffer back (`WriteBack`) only when the
Content-Type is JSON and the buffer is one object (`IsObject`). `Unwind` is
a panic leaving a frame; at the recovery middleware it renders `err500`
and aborts. `Finish` returns to gin, or, for an unrecovered panic, drops
the connection. Bodies are model values, each one JSON object. The Demo
service in the tree returns an empty map; the model lets it return a
result, an error or panic, as any application service may.

### `GrpcClient.tla`

`NewClient` takes a `ClientConf` (`given`, `insecure`, `etcd`): nil without a
conf, a panic when the etcd registry or the dial fails (`DialSucceeds`:
insecure or TLS credentials; `NewClient` never passes TLS), otherwise a
ready connection with `DefaultOptions`' 2000 ms timeout. `Invoke` starts a
call with the deadline `CallDeadline` gives from the timeout and a caller
deadline from `CallerDeadlines`; `Wait` advances the clock by `Tick` while
the server is silent, `Reply` is the invoker's reply or error, `Expire`
the context's deadline passing.

### Helper modules

Each helper module's state is the last call and its result; `Next` makes
one call with arguments from small constant sets. Each property compares the
result with a reference definition written from the function's doc comment
(or from the standard it implements): `RefCompare` for versions, `Grouped`
for thousands separators, `SubStrRef`, a subsequence relation for the
intersections, first-occurrence order for `ArrayUnique`, `Plains` for AES,
the original key for PEM, map-order independence and injectivity for the
signing strings. In `Library`, the helper component makes exactly one call
and stops.

## 3. Runs

| Run | Module / cfg | Expect | Checks |
|---|---|---|---|
| consumer_runs | `MCConsumerRuns` / `MCConsumerRuns.cfg` | pass | `TypeOK`, `NoConcurrentProcessing` (both deployments), `AckImpliesHandled`: fleet = two processes of one slot, a routed and a plain message, `RetryTimes = 1`, `AckBatch = 1`; pool = one process of two slots, `RetryTimes = 0`, an undecodable routed body and a foreign-group message, `AckBatch = 2`; up to 2 deliveries each, one crash |
| poison_executed | `MCConsumer` / `MCConsumerPoison.cfg` | violation | `PoisonNeverExecuted` |
| stale_handle_blocks_ack | `MCConsumer` / `MCConsumerDrain.cfg` | violation | `AckBufferDrains` under `FairSpec` |
| duplicate_delivery_not_acked | `MCConsumer` / `MCConsumerDuplicate.cfg` | violation | `DuplicateDeliveryAcked`: two processes, one routed message redelivered while the first worker holds its lock |
| group_naming | `MCGroupNaming` / `MCGroupNaming.cfg` | pass | `EnvIsolation`, `OwnEnvironmentKept`: two prod deployments (one with `MQ.Env` set), a dev deployment with `MQ.Env` set, a registered and an unregistered queue |
| env_untagged | `MCGroupNaming` / `MCGroupNamingUntagged.cfg` | violation | `EnvIsolation` with a dev deployment whose `MQ.Env` is empty |
| unregistered_queue_filter | `MCGroupNaming` / `MCGroupNamingUnregistered.cfg` | violation | `OwnEnvironmentKept` with a deployment consuming a queue it did not register |
| codec_large_int | `MCCodec` / `MCCodecLargeInt.cfg` | violation | `RoundTrip` with a payload (9) beyond a 3-bit significand |
| transaction_leak | `Transaction` / `MCTransactionLeak.cfg` | violation | `NoTransactionLeftOpen` over three databases, two failures |
| library | `MCLibrary` / `MCLibrary.cfg` | pass | the 18 properties of `Library`, listed below |
| oss_policy_outlives_credentials | `OssToken` / `MCOssTokenPolicy.cfg` | violation | `CredentialsOutlivePolicy` |
| repository_lock_dropped | `Repository` / `MCRepositoryLock.cfg` | violation | `LockedReadInTransaction` |

Properties of the library run (each holds):

* `VersionCompareCorrect`, `IsNewVersionAgreesWithCompare`: `VersionCompare`
  is the zero-padded numeric order and panics only when the parts before a
  non-numeric part are equal; `IsNewVersion` agrees with it for parts below
  1000 (a four-digit part overflows into the next).
* `CommasGroupThousands` (non-negative numbers), `SubStrAsDocumented` (every
  start, lengths whose sum with the start fits in an int), `TruncateFits`
  (lengths of at least 3).
* `IntersectionCorrect`, `UniqueCorrect`, `MaxCorrect` (non-empty lists,
  negative values included).
* `DecryptInvertsEncrypt` for every mode and plaintext length, a full
  padding block included.
* `PemRoundTrip`: keys written as PEM read back as the same keys.
* `EncryptStrDeterminesParams`: the string `Md5` signs
  determines the signed parameters when no value contains `&`.
* `CommitNilMeansAllCommitted`, `RollbackNilMeansNoneOpen`: a nil result is
  never a lie, whatever fails and in whichever map order.
* `CredentialsValidWhenIssued`: with two handlers racing on the Redis key,
  failed `Set`s and failed `AssumeRole`s, no response carries expired
  credentials (the 100 s margin between TTL and lifetime covers it).
* `RoundTrip`: with payloads inside the significand, a job message decodes
  for a consumer that knows the job to what was sent.
* `OptionHeadersWin`: the sent headers are the option headers over the
  trace headers, and `POST`/`PUT` carry `application/json` unless the
  options set `Content-Type`.
* `EveryRequestAnswered`: every request ends with exactly the bodies the
  handlers rendered on the wire, whether the service answers, errs or
  panics or the limiter aborts; it depends on the OTEL middleware being
  outside the recovery middleware, as `router.Register` orders them.
* `RunsOnlyWithParsedConfig`: the process only starts with a Conf filled
  from YAML that parsed; empty, missing or malformed content panics.

`Upload`, `Alert` and `GrpcClient` carry no property of their own: the
bounds they could state (the robot's 10 s timeout, dial's 2000 ms default,
the dotted suffix) are single constants or assignments of the code. Their
actions still run in the library run, and the defects met in them are
listed under Findings.

### Findings

* `consumer.go:175`: a message past its retry budget is queued for ack and
  still executed (spec 4.4 step 3 says it is not).
* `consumer.go:271`: one expired receipt handle keeps its batch at the head
  of `askBuffer` forever; the spec (4.6) says failed entries are dropped.
* `client.go:24`: with `MQ.Env` empty a dev deployment resolves production
  group names and runs production messages (spec 4.5 says environments are
  isolated).
* `consumer.go:147`: a queue consumed without being registered is
  subscribed under its group id but filtered on `GID_<topic>`; its own
  messages are dropped and redelivered forever.
* `job_decoder.go:59`: integer payloads pass through float64; ids beyond
  2^53 arrive changed.
* `transaction.go:34` (and `:20`): `Rollback` returns at the first failing
  database and leaves the later transactions open.
* `tst.go:26`: the Redis copy of STS credentials is served for 3500 s of
  their 3600 s life, while the signed policy allows uploads for 300 s (1800
  s for audio and video) after the call: a token from a copy older than
  3300 s (1800 s) lets the browser upload after its security token expired.
* `consumer.go:159`: when `mutex.Lock` fails because another worker holds
  the message (a redelivery after the visibility timeout), the delivery is
  not appended to `askBuffer`; the spec (4.4 step 2, 7, 8) says a duplicate
  delivery is acknowledged without execution. The broker redelivers it
  again instead.
* `db_repository.go:33`: `NewDB` sets `isNew` on the shared receiver, not on
  the repository it returns, so `repo.NewDB(txm).LockForUpdate()` reads
  without `FOR UPDATE` inside the transaction.

Helper defects recorded as hazards without a violation run (each is a
single-call fact a unit test states): `FormatFloat64WithCommas` writes
`-,123` for negative numbers with a digit count divisible by three;
`SubStr`'s `start + length` wraps for lengths near the largest int;
`TruncateString` panics for lengths below 3; `Max` panics on no arguments;
ECB/CBC `Decrypt` panics on a forged or wrong-key ciphertext whose last byte
exceeds its length; `PEMToPrivatePKCS8Key` panics on a non-RSA PKCS#8 key
under the RSA label. Request-path and gRPC defects recorded as hazards: the
`RespJsonModifier` drops a non-JSON answer and a second write in one
request (the buffer is no longer one object), and re-marshals integers
through float64; `otelReport` compares `data["code"]` (a float64) with
the int `0`, which is always unequal, so a body with code 0 (or none)
records `http.status_code` "0" instead of the default "200"; `RateLimiterMiddleware` builds a fresh limiter per
request, so it never limits; a `ClientConf` with `Insecure` false makes
`NewClient` panic at startup, since it never passes a TLS config. Two more
were noticed in code outside the models:
`Money2Str` assigns `"--"` for zero and then overwrites it
(`money.go:10-13`), and `uploadOption` fills the file type's default
suffix (`png`, `mp3`, `mp4`) before `getFileName` could take
`path.Ext(filePath)`, so an uploaded file's own extension is never used
(`upload.go:151-152, 186-195`).

### The consumer runs in detail

* `NoConcurrentProcessing` holds across processes, redelivery, a crash with
  an orphaned lock and its expiry: the token-checked unlock means a worker
  whose lock expired cannot release another worker's lock.
* `AckImpliesHandled` holds: a failed `Execute` clears `isAsk`, so the only
  acks of a routed message that never succeeded come from the poison branch
  or from `RetryTimes = 0`. A crash loses acks but never adds one.
* Finding: a message past its retry budget is still executed (spec 4.4
  step 3 says it is not).
* Finding: one expired receipt handle keeps its batch at the head of
  `askBuffer` forever, so that entry and all after it are never acked and
  the messages are redelivered and re-executed. The spec (4.6) says failed
  entries are dropped, not requeued.
* Finding: a redelivery that finds the lock held is dropped without an ack
  (`consumer.go:159`), so the message keeps being redelivered while the
  first worker runs; the spec says a duplicate delivery is acked.

Bounds: two messages and up to two deliveries reach a redelivery
racing the first delivery, a poison delivery (`times = 2 > 1`), a crash in
any step, and an expired handle in the ack buffer. Two processes of one
slot, or one process of two slots, are the smallest that put two workers on
one message. `AckBatch` 1 or 2 and `PullBatch` 2 exercise partial batches.

Fairness (`FairSpec`): weak fairness for every pool worker's steps (each is a
goroutine that runs to completion) and for `SendBatchAsk` (the ticker fires
every 200 ms forever). The broker's timeouts, pulls and crashes are not
fair: nothing in the code forces them.

`CHECK_DEADLOCK FALSE`: the real loops never stop, but once every message is
acked or out of its delivery bound, all they do is poll an empty broker,
which changes no state.

Bounds elsewhere: `GroupNaming` uses three deployments (two prod, one dev)
and two queues, the least that puts two environments and an unregistered
queue on one topic set. `Codec` uses four jobs covering
registered/nil-queue/missing in both builds and missing only in the
consumer, and a 3-bit significand standing for Go's 53 bits (7 and 8 are
exact, 9 is not). `Transaction` uses three databases and two failures: a
failure in the middle of the loop leaves one database on each side.
`OssToken` uses two handlers, an image and an audio file type, `Tick =
500` s and `MaxTime = 4000` s, past one full 3500 s cache lifetime and into
the next. `Repository` uses two handlers, the least for one handler's calls
to reach another's. The helpers use inputs that reach every branch:
versions with 1000 and a non-numeric part, strings of up to 4 runes with
starts from -6 to 6, an 8-bit int, slices of up to 3 elements with negative
ones, AES with a 2-byte block, three parameter names including `sn`.
`HttpClient` uses six option lists: none; `WithTimeout(2)`; headers setting
`Content-Type`; a timeout, headers, then `WithTimeout(0)` (a later option
clearing the deadline); two `WithHeaders` (the second replaces the first);
a transport then `WithTimeout(1)`. With three header names and `MaxWait =
3` against timeouts 1 and 2, a deadline passes before the server answers. `Upload` takes every `FileType` 0 to 5 (0 and
5 outside the named ones), extensions `""`, `png`, `pdf`, a suffix with and
without its dot, both part sizes. `Alert` lets 12 s pass against the 10 s
timeout. `Nacos` takes every outcome of every check and all three
contents.

Fairness: `Consumer`'s `FairSpec` (above). The other modules are checked for safety only.

## 4. Not modelled

* `errorHandler` only logs (`rocketmq.go`); the text of alerts and the
  DingTalk signature are data, not control.
* HTTP and gRPC server startup (`main.go`, `server.go`), the models, the
  Mongo repository and the binder's validator: a fixed startup sequence in
  which each failure panics, and glue over gin, grpc, mongo-driver and
  validator with no state beyond the modelled components.
* Span attributes, header values and request-body rebinding in the OTEL
  middleware, and the rate limiter's token bucket (it is rebuilt per
  request): data the request property does not read.
* gRPC options `NewClient` never passes (`WithTimeout`, `WithTLSConfig`,
  interceptors, balancer) and header propagation into metadata.
* Infrastructure clients (Redis connect, ES, gorm connect, MongoDB,
  tracer, xlog): I/O wrappers over third-party SDKs run once at startup,
  each failure a panic, with no state or control of their own beyond the
  call. `initAndListenConfig` (Nacos config listening) is never
  called; the file-based config reader `xconfig` falls back to is not in
  the tree.
* The retry counter's 600 s TTL (`consumer.go:172`): redeliveries come
  every visibility timeout, well inside it, so the counter only expires
  when a message is not delivered for 600 s; the model lets it only grow.
  A lock held by a live worker never expires (`LockExpire`), and an
  `UnMarshal` of a job the consumer does not know is the `badjob` error path.
* No refinement is checked: the abstract per-message lifecycle the
  consumer promises (acks only after a success or a spent budget) is
  exactly `AckImpliesHandled`, so it was dropped in favour of that
  invariant.
* `Library` is checked for safety only: its call component's results mix
  records, tuples, numbers and strings, which TLC cannot compare in
  liveness checking.
* The repository's query builders beyond the locking clause and the
  transaction choice (`Where`, `Order`, pagination): they translate
  arguments into gorm calls; `IsMyCat` and `Name` are not copied by
  `newRepository` (`db_repository.go:29`), which only changes the SQL text.
* The distributed lock library `util/locker` is not in the tree: its Lock
  is modelled in `Consumer` from its use (acquire or fail, token-checked
  unlock, expiry).
* `Money2Str`, `Bccomp` and other formatting helpers: single-call
  conversions a unit test covers.

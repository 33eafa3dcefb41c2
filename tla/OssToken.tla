------------------------------ MODULE OssToken ------------------------------
(***************************************************************************)
(* The browser-upload credentials of util/xoss: GenerateOSSToken           *)
(* (token.go) signs an upload policy with STS credentials that             *)
(* generateSTSTokenWithCache (tst.go) takes from Redis, or obtains from    *)
(* AssumeRole and stores in Redis, when the key is absent. Several HTTP    *)
(* handlers run GenerateOSSToken at once and share the Redis key.          *)
(*                                                                         *)
(* Time is in seconds and advances in steps of Tick. A credential is the  *)
(* time it expires, which the STS server sets to its issue time plus       *)
(* DurationSeconds. A response is [at, cred, policy]: when it was built,   *)
(* the expiry of its credentials and of its policy (Expire).               *)
(***************************************************************************)
EXTENDS Integers

CONSTANTS
    Reqs,           \* concurrent GenerateOSSToken calls
    FileTypes,      \* TokenOption.filetype values passed (0 when not set)
    Tick,           \* bound: seconds between two observed clock readings
    MaxTime,        \* bound: seconds of the run
    None            \* no response, or no cached credential

(* Constants of the code.                                                  *)
DurationSeconds == 3600     \* request.DurationSeconds (tst.go:47)
CacheSeconds == 3500        \* time.Second*3500 of the Redis Set (tst.go:26)
FileTypeAudio == 3          \* upload.go:76
FileTypeVideo == 4          \* upload.go:77

VARIABLES
    now,        \* the clock
    cache,      \* Redis key sts:token:<AccessKey>:key: [cred, until] or None
    pc,         \* [Reqs -> {"idle", "miss", "issued"}]: where each call is
    ft,         \* [Reqs -> FileTypes]: the file type of each call
    issued,     \* [Reqs -> expiry of the credential AssumeRole returned]
    last        \* the last response any handler returned, or None

tokVars == <<now, cache, pc, ft, issued, last>>

-----------------------------------------------------------------------------
(* getExpire (token.go:156-161): the policy lives 1800 s for audio and     *)
(* video, 300 s otherwise.                                                 *)
GetExpire(fileType) ==
    IF fileType \in {FileTypeAudio, FileTypeVideo} THEN 1800 ELSE 300

(* The Redis Set of tst.go:26, whose error is ignored: the key expires      *)
(* CacheSeconds after the Set.                                             *)
SetCacheNoExpiry(cred) == cache' = [cred |-> cred, until |-> MaxTime + DurationSeconds]
SetCache(cred) == cache' = [cred |-> cred, until |-> now + CacheSeconds]

(* The cached credential, when the key has not expired.                    *)
Cached == cache # None /\ now < cache.until

(* The end of GenerateOSSToken (token.go:78-142): expireEnd is now plus    *)
(* getExpire of the call's file type; the credentials are those the cache  *)
(* step returned.                                                          *)
Respond(r, cred) ==
    last' = [at |-> now, cred |-> cred, policy |-> now + GetExpire(ft[r])]

Init ==
    /\ now = 0
    /\ cache = None
    /\ pc = [r \in Reqs |-> "idle"]
    /\ ft = [r \in Reqs |-> CHOOSE t \in FileTypes : TRUE]
    /\ issued = [r \in Reqs |-> 0]
    /\ last = None

(* GenerateOSSToken up to the Redis Get of generateSTSTokenWithCache       *)
(* (token.go:70-73, tst.go:14-16). A live key is unmarshalled and used at  *)
(* once (tst.go:30-36); an absent key, or a Get that fails (Val() is ""),  *)
(* goes to AssumeRole.                                                     *)
Get(r, t) ==
    /\ pc[r] = "idle"
    /\ ft' = [ft EXCEPT ![r] = t]
    /\ \/ /\ Cached
          /\ last' = [at |-> now, cred |-> cache.cred, policy |-> now + GetExpire(t)]
          /\ UNCHANGED pc
       \/ /\ pc' = [pc EXCEPT ![r] = "miss"]
          /\ UNCHANGED last
    /\ UNCHANGED <<now, cache, issued>>

(* generateSTSToken (tst.go:40-55): AssumeRole returns credentials that    *)
(* expire DurationSeconds after they are issued, or an error that          *)
(* GenerateOSSToken returns (token.go:74-76).                              *)
AssumeRole(r) ==
    /\ pc[r] = "miss"
    /\ \/ /\ issued' = [issued EXCEPT ![r] = now + DurationSeconds]
          /\ pc' = [pc EXCEPT ![r] = "issued"]
       \/ /\ pc' = [pc EXCEPT ![r] = "idle"]
          /\ UNCHANGED issued
    /\ UNCHANGED <<now, cache, ft, last>>

(* The Set of tst.go:24-27, which may fail unseen, and the response built  *)
(* from the new credentials.                                               *)
Store(r) ==
    /\ pc[r] = "issued"
    /\ \/ SetCache(issued[r])
       \/ UNCHANGED cache
    /\ pc' = [pc EXCEPT ![r] = "idle"]
    /\ Respond(r, issued[r])
    /\ UNCHANGED <<now, ft, issued>>

(* The clock. The gap between the STS server issuing a credential and the  *)
(* Set is one HTTPS response and a json.Marshal, bounded by the SDK's read *)
(* timeout (seconds), below one Tick: the clock does not pass while a      *)
(* handler holds fresh credentials it has not stored.                      *)
Advance ==
    /\ now + Tick <= MaxTime
    /\ \A r \in Reqs : pc[r] # "issued"
    /\ now' = now + Tick
    /\ UNCHANGED <<cache, pc, ft, issued, last>>

TokNext ==
    \/ \E r \in Reqs, t \in FileTypes : Get(r, t)
    \/ \E r \in Reqs : AssumeRole(r) \/ Store(r)
    \/ Advance

TokSpec == Init /\ [][TokNext]_tokVars

-----------------------------------------------------------------------------
(* Every response carries STS credentials that are still valid when it is *)
(* built: the Redis copy expires (3500 s after the Set) before the         *)
(* credentials it holds (3600 s after AssumeRole), whichever handler's     *)
(* credentials the last Set left there.                                    *)
CredentialsValidWhenIssued ==
    last # None => last.cred > last.at

(* The credentials of a response stay valid until its upload policy       *)
(* expires, so an upload the policy allows is not refused for an expired   *)
(* security token.                                                         *)
CredentialsOutlivePolicy ==
    last # None => last.cred >= last.policy
=============================================================================

-------------------------------- MODULE Codec --------------------------------
(***************************************************************************)
(* The envelope codec of util/mq/rocketmq/job_decoder.go between a producer *)
(* and a consumer that may run different builds of the job registry         *)
(* (client.Jobs). SendJobMessage encodes with Marshal and publishes; the    *)
(* consumer applies Check and UnMarshal to every body it pulls               *)
(* (consumer.go:179-182). Raw SendMessage bodies share the topic.           *)
(*                                                                         *)
(* A body is a sequence of tokens: "mark" (QueueMark), "sep" (Separate, one *)
(* byte), "text" (other characters), "env" (the JSON text of an envelope)   *)
(* and "esc" (that text escaped inside a JSON string). A payload is an      *)
(* integer: UnMarshal decodes Data into interface{}, so JSON numbers become *)
(* float64 before Data is marshalled again; MantissaBits is 53 in Go.       *)
(***************************************************************************)
EXTENDS Naturals, Sequences, FiniteSets

CONSTANTS
    JobNames,       \* job.Name() of the jobs a build may know
    ProducerJobs,   \* [JobNames -> {"queue", "nilqueue", "missing"}]: Jobs of the producer
    ConsumerJobs,   \* [JobNames -> {"queue", "nilqueue", "missing"}]: Jobs of the consumer
    Values,         \* integer payloads passed to SendJobMessage
    MantissaBits,   \* significand bits of float64
    MaxBodies       \* bound: messages published

Registry == [JobNames -> {"queue", "nilqueue", "missing"}]
ASSUME ProducerJobs \in Registry /\ ConsumerJobs \in Registry
ASSUME Values \subseteq Nat /\ MantissaBits \in Nat \ {0}

Tok(t) == [t |-> t, job |-> "", data |-> 0]
Env(j, v) == [t |-> "env", job |-> j, data |-> v]
Esc(j, v) == [t |-> "esc", job |-> j, data |-> v]

-----------------------------------------------------------------------------
(* float64(n) for n >= 0: n itself when it fits the significand, otherwise *)
(* n rounded to the nearest multiple of the unit in the last place, ties   *)
(* to an even significand (IEEE 754 round-to-nearest-even).                *)
RECURSIVE BitLen(_)
BitLen(n) == IF n = 0 THEN 0 ELSE 1 + BitLen(n \div 2)

Ulp(n) == IF BitLen(n) <= MantissaBits THEN 1 ELSE 2^(BitLen(n) - MantissaBits)

ToFloat(n) ==
    LET u == Ulp(n) q == n \div u r == n % u
    IN IF 2 * r < u \/ (2 * r = u /\ q % 2 = 0) THEN q * u ELSE (q + 1) * u

-----------------------------------------------------------------------------
(* Decoder.Check (job_decoder.go:43-45): strings.Contains(msg,             *)
(* QueueMark+Separate), anywhere in the body.                             *)
Check(b) == \E i \in 1..(Len(b) - 1) : b[i] = Tok("mark") /\ b[i + 1] = Tok("sep")

(* strings.Index(msg, Separate), 0 when absent (Go's -1 plus one).         *)
SepIndex(b) ==
    IF \E i \in DOMAIN b : b[i] = Tok("sep")
    THEN CHOOSE i \in DOMAIN b : b[i] = Tok("sep") /\ \A k \in 1..(i - 1) : b[k] # Tok("sep")
    ELSE 0

(* msg[subIndex+1:] of UnMarshal (job_decoder.go:51-52).                   *)
BodyAfterSepKeepingSep(b) == SubSeq(b, IF SepIndex(b) = 0 THEN 1 ELSE SepIndex(b), Len(b))
BodyAfterSep(b) == SubSeq(b, SepIndex(b) + 1, Len(b))

(* UnMarshal (job_decoder.go:47-74) of a non-empty body: json.Unmarshal of *)
(* the part after the first separator into MsgData, Data re-marshalled     *)
(* through float64, then the registry lookup. Jobs[name] of an unknown job *)
(* is a nil *QueueJob, so reading its Queue panics.                        *)
UnMarshal(b) ==
    LET body == BodyAfterSep(b)
    IN IF Len(body) # 1 \/ body[1].t # "env"
       THEN [status |-> "error", job |-> "", payload |-> 0]
       ELSE CASE ConsumerJobs[body[1].job] = "missing"
                   -> [status |-> "panic", job |-> "", payload |-> 0]
              [] ConsumerJobs[body[1].job] = "nilqueue"
                   -> [status |-> "error", job |-> "", payload |-> 0]
              [] OTHER
                   -> [status |-> "ok", job |-> body[1].job, payload |-> ToFloat(body[1].data)]

VARIABLES
    wire,       \* broker: published bodies in order, with the call that made them
    sendLog,    \* producer: <<job, value, "published" | "error" | "panic">> of SendJobMessage
    decoded     \* consumer: <<index, result>> of every body pulled

vars == <<wire, sendLog, decoded>>

Init == wire = << >> /\ sendLog = {} /\ decoded = {}

(* SendJobMessage (producer.go:27-35) with Marshal (job_decoder.go:19-41): *)
(* an unknown job panics on the nil *QueueJob, a nil Queue is the "queue   *)
(* is nil" error, otherwise the body QueueMark+Separate+json is published. *)
SendJobMessage(j, v) ==
    /\ Len(wire) < MaxBodies
    /\ \/ /\ ProducerJobs[j] = "missing"
          /\ sendLog' = sendLog \cup {<<j, v, "panic">>}
          /\ UNCHANGED wire
       \/ /\ ProducerJobs[j] = "nilqueue"
          /\ sendLog' = sendLog \cup {<<j, v, "error">>}
          /\ UNCHANGED wire
       \/ /\ ProducerJobs[j] = "queue"
          /\ wire' = Append(wire, [body |-> <<Tok("mark"), Tok("sep"), Env(j, v)>>,
                                   job |-> j, value |-> v])
          /\ sendLog' = sendLog \cup {<<j, v, "published">>}
    /\ UNCHANGED decoded

(* SendMessage (producer.go:48-57): a raw JSON string body, plain text or  *)
(* text that quotes an encoded job message.                                *)
SendMessage(j, v) ==
    /\ Len(wire) < MaxBodies
    /\ \E body \in {<<Tok("text")>>, <<Tok("text"), Tok("mark"), Tok("sep"), Esc(j, v), Tok("text")>>} :
          wire' = Append(wire, [body |-> body, job |-> "", value |-> 0])
    /\ UNCHANGED <<sendLog, decoded>>

(* processMessage (consumer.go:179-182): Check, then UnMarshal.            *)
Decode(i) ==
    /\ ~\E r \in decoded : r[1] = i
    /\ decoded' = decoded \cup
         {<<i, IF Check(wire[i].body) THEN UnMarshal(wire[i].body)
               ELSE [status |-> "plain", job |-> "", payload |-> 0]>>}
    /\ UNCHANGED <<wire, sendLog>>

Next ==
    \/ \E j \in JobNames, v \in Values : SendJobMessage(j, v)
    \/ \E j \in JobNames, v \in Values : SendMessage(j, v)
    \/ \E i \in 1..Len(wire) : Decode(i)

Spec == Init /\ [][Next]_vars

-----------------------------------------------------------------------------
(* Round trip (spec 8): a job message published by SendJobMessage, for a   *)
(* job the consumer's build knows, decodes to that job and to the JSON of  *)
(* the payload the producer passed.                                        *)
RoundTrip ==
    \A r \in decoded :
        LET w == wire[r[1]]
        IN w.job # "" /\ ConsumerJobs[w.job] = "queue" =>
              r[2].status = "ok" /\ r[2].job = w.job /\ r[2].payload = w.value
=============================================================================

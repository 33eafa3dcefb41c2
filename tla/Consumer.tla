------------------------------ MODULE Consumer ------------------------------
(***************************************************************************)
(* The reliable consumption pipeline of util/mq/rocketmq/consumer.go: a    *)
(* fleet of consumer processes, each with a pull loop, a bounded worker     *)
(* pool running processMessage, and a ticker that flushes the ack buffer.   *)
(* The broker (visibility timeout, receipt handles, batched ack) and the    *)
(* Redis store (dedup lock, retry counter) are modelled as shared state.    *)
(***************************************************************************)
EXTENDS Naturals, Sequences, FiniteSets, SequencesExt

CONSTANTS
    Consumers,      \* consumer processes sharing one consumer group
    Slots,          \* worker slots of one ants.Pool (WithConcurrency)
    Msgs,           \* message ids on the topic
    Kind,           \* [Msgs -> MsgKinds]: body and group property of a message
    RetryTimes,     \* WithRetryTimes; 0 when the option is not given
    PullBatch,      \* numOfMessages of ConsumeMessage (16 in the code)
    AckBatch,       \* batch cap of sendBatchAsk (16 in the code)
    MaxDeliveries,  \* bound: deliveries of one message by the broker
    MaxCrashes,     \* bound: process crashes
    None            \* model value: no lock holder, no delivery

(* "job": routed body that decodes to a registered job; "badjob": routed   *)
(* body that UnMarshal rejects; "plain": body without the queue mark;      *)
(* "foreign": properties["groupId"] of another environment.                *)
MsgKinds == {"job", "badjob", "plain", "foreign"}

ASSUME /\ Kind \in [Msgs -> MsgKinds]
       /\ RetryTimes \in Nat /\ PullBatch \in Nat \ {0} /\ AckBatch \in Nat \ {0}
       /\ MaxDeliveries \in Nat \ {0} /\ MaxCrashes \in Nat

Workers == Consumers \X Slots
Consumer(w) == w[1]

(* A delivery is a message together with the receipt handle of one pull.   *)
(* The n-th delivery of a message carries receipt handle n.                *)
Delivery == [msg : Msgs, rh : 1..MaxDeliveries]
NoDelivery == [msg |-> None, rh |-> 0]

Routed(m) == Kind[m] \in {"job", "badjob"}       \* Decoder.Check(msgBody)

VARIABLES
    bstate,     \* broker: [Msgs -> {"ready", "inflight", "acked"}]
    handle,     \* broker: number of the latest delivery of each message
    lockOwner,  \* Redis rock:<topic>:<id> key: holding worker or None
    retry,      \* Redis retryTime:<topic>:<id> counter
    pending,    \* per process: pulled batches whose messages are not yet submitted
    wpc,        \* per worker: position in processMessage
    wdlv,       \* per worker: the delivery it is processing
    wask,       \* per worker: the local isAsk
    wtimes,     \* per worker: the local times returned by Incr
    askBuf,     \* per process: Consumer.askBuffer
    notAsk,     \* per process: the package-level NotAskBuffer
    succeeded,  \* history: messages some Execute call returned nil for
    crashes     \* number of process crashes so far

vars == <<bstate, handle, lockOwner, retry, pending, wpc, wdlv, wask, wtimes,
          askBuf, notAsk, succeeded, crashes>>

PCs == {"idle", "lock", "incr", "exec", "unlock"}

TypeOK ==
    /\ bstate \in [Msgs -> {"ready", "inflight", "acked"}]
    /\ handle \in [Msgs -> 0..MaxDeliveries]
    /\ lockOwner \in [Msgs -> Workers \cup {None}]
    /\ retry \in [Msgs -> 0..MaxDeliveries]
    /\ pending \in [Consumers -> Seq(Seq(Delivery))]
    /\ wpc \in [Workers -> PCs]
    /\ wdlv \in [Workers -> Delivery \cup {NoDelivery}]
    /\ wask \in [Workers -> BOOLEAN]
    /\ wtimes \in [Workers -> 0..MaxDeliveries]
    /\ askBuf \in [Consumers -> Seq(Delivery)]
    /\ notAsk \in [Consumers -> Seq(Delivery)]
    /\ succeeded \in SUBSET Msgs
    /\ crashes \in 0..MaxCrashes

Init ==
    /\ bstate = [m \in Msgs |-> "ready"]     \* published before consumption
    /\ handle = [m \in Msgs |-> 0]
    /\ lockOwner = [m \in Msgs |-> None]
    /\ retry = [m \in Msgs |-> 0]
    /\ pending = [c \in Consumers |-> <<>>]
    /\ wpc = [w \in Workers |-> "idle"]
    /\ wdlv = [w \in Workers |-> NoDelivery]
    /\ wask = [w \in Workers |-> TRUE]
    /\ wtimes = [w \in Workers |-> 0]
    /\ askBuf = [c \in Consumers |-> <<>>]
    /\ notAsk = [c \in Consumers |-> <<>>]
    /\ succeeded = {}
    /\ crashes = 0

-----------------------------------------------------------------------------
(* The part of processMessage that touches the buffers, as one pure        *)
(* operator over the process's buffers and the worker's isAsk.             *)
BufState(c, isAsk) == [ask |-> askBuf[c], notAsk |-> notAsk[c], isAsk |-> isAsk]

(* addAskBuffer: a message not to be acked goes to NotAskBuffer; otherwise *)
(* it is appended to askBuffer under askBufferLock and isAsk is cleared.   *)
AddAskBuffer(st, d) ==
    IF ~st.isAsk
    THEN [st EXCEPT !.notAsk = Append(@, d)]
    ELSE [st EXCEPT !.ask = Append(@, d), !.isAsk = FALSE]

StoreBuf(c, st) ==
    /\ askBuf' = [askBuf EXCEPT ![c] = st.ask]
    /\ notAsk' = [notAsk EXCEPT ![c] = st.notAsk]

(* The broker hands out a message while it is visible; MaxDeliveries bounds *)
(* the redeliveries explored.                                              *)
DeliverableOffByOne(m) == bstate[m] = "ready" /\ handle[m] <= MaxDeliveries
Deliverable(m) == bstate[m] = "ready" /\ handle[m] < MaxDeliveries

(* The group filter: properties["groupId"] must equal GetGroupName of the *)
(* queue's topic; only a "foreign" message fails it.                       *)
GroupMatches(m) == Kind[m] # "foreign"

(* redsync's Lock succeeds only while the key is absent.                   *)
LockFreeIgnoringHolder(m) == TRUE
LockFree(m) == lockOwner[m] = None

(* isAsk after taskExecute: an error or a recovered panic clears it.       *)
IsAskIgnoringError(isAsk, ok) == isAsk
IsAskAfterExecute(isAsk, ok) == isAsk /\ ok

(* Incr then Expire on the retry key; a failed Incr leaves the counter.    *)
RetryAfterIncr(m, times) == IF times = 0 THEN retry ELSE [retry EXCEPT ![m] = times]

(* The poison test on the value Incr returned.                             *)
OverBudget(times) == times > RetryTimes

(* A failed mutex.Lock notifies and returns from processMessage.          *)
OnLockErrorContinuing(w) == wpc' = [wpc EXCEPT ![w] = "incr"]
OnLockError(w) == wpc' = [wpc EXCEPT ![w] = "idle"]

(* The worker holds the dedup lock of m between Lock and Unlock.           *)
Holds(w, m) == wpc[w] \in {"incr", "exec", "unlock"} /\ wdlv[w].msg = m

-----------------------------------------------------------------------------
(* pullMessage: one ConsumeMessage long poll returns up to PullBatch       *)
(* visible messages, each under a fresh receipt handle. The send on the    *)
(* unbuffered respChan blocks until StartProcessing has submitted the      *)
(* previous batch, so at most two batches are outstanding: the one being   *)
(* submitted and the one pullMessage holds. A failed or empty pull         *)
(* (MessageNotExist) changes nothing.                                      *)
PullMessage(c) ==
    /\ Len(pending[c]) < 2
    /\ \E S \in SUBSET {m \in Msgs : Deliverable(m)} :
         /\ S # {} /\ Cardinality(S) <= PullBatch
         /\ bstate' = [m \in Msgs |-> IF m \in S THEN "inflight" ELSE bstate[m]]
         /\ handle' = [m \in Msgs |-> IF m \in S THEN handle[m] + 1 ELSE handle[m]]
         /\ \E order \in SetToSeqs(S) :
              pending' = [pending EXCEPT ![c] = Append(@,
                            [i \in DOMAIN order |-> [msg |-> order[i], rh |-> handle'[order[i]]]])]
    /\ UNCHANGED <<lockOwner, retry, wpc, wdlv, wask, wtimes, askBuf, notAsk, succeeded, crashes>>

(* StartProcessing: pool.Submit hands the next message of the current     *)
(* batch to a free slot, blocking while every slot is busy.                *)
Submit(w) ==
    LET c     == Consumer(w)
        batch == Head(pending[c])
    IN
    /\ pending[c] # <<>>
    /\ wpc[w] = "idle"
    /\ wpc' = [wpc EXCEPT ![w] = "lock"]
    /\ wdlv' = [wdlv EXCEPT ![w] = Head(batch)]
    /\ pending' = [pending EXCEPT ![c] =
                     IF Len(batch) = 1 THEN Tail(@) ELSE <<Tail(batch)>> \o Tail(@)]
    /\ UNCHANGED <<bstate, handle, lockOwner, retry, wask, wtimes, askBuf, notAsk, succeeded, crashes>>

(* processMessage up to mutex.Lock: the group filter returns silently; a   *)
(* failed Lock (held elsewhere, or Redis unreachable) notifies and returns *)
(* without acking; a won Lock records this worker as holder.               *)
ProcessLock(w) ==
    LET m == wdlv[w].msg IN
    /\ wpc[w] = "lock"
    /\ \/ /\ ~GroupMatches(m)
          /\ wpc' = [wpc EXCEPT ![w] = "idle"]
          /\ UNCHANGED lockOwner
       \/ /\ GroupMatches(m)
          /\ LockFree(m)
          /\ lockOwner' = [lockOwner EXCEPT ![m] = w]
          /\ wpc' = [wpc EXCEPT ![w] = "incr"]
       \/ /\ GroupMatches(m)
          /\ OnLockError(w)
          /\ UNCHANGED lockOwner
    /\ UNCHANGED <<bstate, handle, retry, pending, wdlv, wask, wtimes, askBuf, notAsk, succeeded, crashes>>

(* From Incr to the call of taskExecute. Incr(...).Val() is 0 when the     *)
(* command fails. A message past the retry budget is appended to the ack   *)
(* buffer; a routed one with RetryTimes = 0 is added again (to NotAskBuffer *)
(* if already acked); a plain one reaches the final addAskBuffer.          *)
ProcessIncr(w) ==
    LET c == Consumer(w)
        d == wdlv[w]
        m == d.msg
    IN
    /\ wpc[w] = "incr"
    /\ \E times \in {retry[m] + 1, 0} :
         LET st0 == BufState(c, TRUE)
             st1 == IF OverBudget(times) THEN AddAskBuffer(st0, d) ELSE st0
             st2 == IF RetryTimes = 0 THEN AddAskBuffer(st1, d) ELSE st1
         IN
         /\ retry' = RetryAfterIncr(m, times)
         /\ wtimes' = [wtimes EXCEPT ![w] = times]
         /\ IF Routed(m)
            THEN /\ StoreBuf(c, st2)
                 /\ wask' = [wask EXCEPT ![w] = st2.isAsk]
                 /\ wpc' = [wpc EXCEPT ![w] = "exec"]
            ELSE LET st3 == AddAskBuffer(st1, d) IN
                 /\ StoreBuf(c, st3)
                 /\ wask' = [wask EXCEPT ![w] = st3.isAsk]
                 /\ wpc' = [wpc EXCEPT ![w] = "unlock"]
    /\ UNCHANGED <<bstate, handle, lockOwner, pending, wdlv, succeeded, crashes>>

(* taskExecute and the final addAskBuffer. A body UnMarshal rejects leaves *)
(* task nil, so Execute panics and the recover sets isError. Any error     *)
(* clears isAsk, and the message then goes to NotAskBuffer.                *)
TaskExecute(w) ==
    LET c == Consumer(w)
        d == wdlv[w]
    IN
    /\ wpc[w] = "exec"
    /\ \E ok \in IF Kind[d.msg] = "job" THEN BOOLEAN ELSE {FALSE} :
         LET st == AddAskBuffer(BufState(c, IsAskAfterExecute(wask[w], ok)), d) IN
         /\ StoreBuf(c, st)
         /\ wask' = [wask EXCEPT ![w] = st.isAsk]
         /\ succeeded' = IF ok THEN succeeded \cup {d.msg} ELSE succeeded
    /\ wpc' = [wpc EXCEPT ![w] = "unlock"]
    /\ UNCHANGED <<bstate, handle, lockOwner, retry, pending, wdlv, wtimes, crashes>>

(* The deferred mutex.Unlock: redsync deletes the key only if it still     *)
(* holds this worker's token; otherwise it reports failure.                *)
ProcessUnlock(w) ==
    LET m == wdlv[w].msg IN
    /\ wpc[w] = "unlock"
    /\ lockOwner' = IF lockOwner[m] = w THEN [lockOwner EXCEPT ![m] = None] ELSE lockOwner
    /\ wpc' = [wpc EXCEPT ![w] = "idle"]
    /\ UNCHANGED <<bstate, handle, retry, pending, wdlv, wask, wtimes, askBuf, notAsk, succeeded, crashes>>

-----------------------------------------------------------------------------
(* The broker honours a receipt handle while the message is invisible and  *)
(* the handle is that of its latest delivery.                              *)
HandleValid(d) == bstate[d.msg] = "inflight" /\ handle[d.msg] = d.rh

(* sendBatchAsk on a ticker tick, holding askBufferLock throughout: one    *)
(* AckMessage call for the first min(len, AckBatch) entries. The broker    *)
(* acks every valid handle; if any handle failed, the code notifies,       *)
(* sleeps and returns leaving the whole batch in askBuffer.                *)
SendBatchAsk(c) ==
    LET n     == IF Len(askBuf[c]) > AckBatch THEN AckBatch ELSE Len(askBuf[c])
        batch == SubSeq(askBuf[c], 1, n)
        acked == {batch[i].msg : i \in {i \in 1..n : HandleValid(batch[i])}}
    IN
    /\ n > 0
    /\ bstate' = [m \in Msgs |-> IF m \in acked THEN "acked" ELSE bstate[m]]
    /\ askBuf' = IF \A i \in 1..n : HandleValid(batch[i])
                 THEN [askBuf EXCEPT ![c] = SubSeq(@, n + 1, Len(@))]
                 ELSE askBuf
    /\ UNCHANGED <<handle, lockOwner, retry, pending, wpc, wdlv, wask, wtimes, notAsk, succeeded, crashes>>

(* The broker's visibility timeout: an unacked message becomes visible     *)
(* again, and the receipt handle of its delivery stops being valid.        *)
VisibilityTimeout(m) ==
    /\ bstate[m] = "inflight"
    /\ bstate' = [bstate EXCEPT ![m] = "ready"]
    /\ UNCHANGED <<handle, lockOwner, retry, pending, wpc, wdlv, wask, wtimes, askBuf, notAsk, succeeded, crashes>>

(* A consumer process dies and restarts: everything in its memory (pulled  *)
(* batch, workers, askBuffer, NotAskBuffer) is lost; Redis keys and the    *)
(* broker's view survive.                                                  *)
Crash(c) ==
    /\ crashes < MaxCrashes
    /\ crashes' = crashes + 1
    /\ pending' = [pending EXCEPT ![c] = <<>>]
    /\ wpc' = [w \in Workers |-> IF Consumer(w) = c THEN "idle" ELSE wpc[w]]
    /\ wdlv' = [w \in Workers |-> IF Consumer(w) = c THEN NoDelivery ELSE wdlv[w]]
    /\ wask' = [w \in Workers |-> IF Consumer(w) = c THEN TRUE ELSE wask[w]]
    /\ wtimes' = [w \in Workers |-> IF Consumer(w) = c THEN 0 ELSE wtimes[w]]
    /\ askBuf' = [askBuf EXCEPT ![c] = <<>>]
    /\ notAsk' = [notAsk EXCEPT ![c] = <<>>]
    /\ UNCHANGED <<bstate, handle, lockOwner, retry, succeeded>>

(* The 600 s expiry of a dedup lock whose holder died with its process.    *)
LockExpire(m) ==
    /\ lockOwner[m] # None
    /\ ~Holds(lockOwner[m], m)
    /\ lockOwner' = [lockOwner EXCEPT ![m] = None]
    /\ UNCHANGED <<bstate, handle, retry, pending, wpc, wdlv, wask, wtimes, askBuf, notAsk, succeeded, crashes>>

Worker(w) == Submit(w) \/ ProcessLock(w) \/ ProcessIncr(w) \/ TaskExecute(w) \/ ProcessUnlock(w)

Next ==
    \/ \E c \in Consumers : PullMessage(c) \/ SendBatchAsk(c) \/ Crash(c)
    \/ \E w \in Workers : Worker(w)
    \/ \E m \in Msgs : VisibilityTimeout(m) \/ LockExpire(m)

(* Every goroutine keeps running: pool workers, and the ticker that calls  *)
(* sendBatchAsk every 200 ms. The broker and crashes are not fair.         *)
Fairness ==
    /\ \A w \in Workers : WF_vars(Worker(w))
    /\ \A c \in Consumers : WF_vars(SendBatchAsk(c))

Spec == Init /\ [][Next]_vars
FairSpec == Spec /\ Fairness

-----------------------------------------------------------------------------
(* Mutual exclusion (spec 8): two workers, of the same or of different     *)
(* processes, never run processMessage for the same message between Lock   *)
(* and Unlock at once, across redeliveries, crashes and lock expiry.       *)
NoConcurrentProcessing ==
    \A m \in Msgs, w1, w2 \in Workers : Holds(w1, m) /\ Holds(w2, m) => w1 = w2

(* At-least-once: the broker only acknowledges a routed message after an   *)
(* Execute of it returned nil, unless its retry budget is spent or the     *)
(* consumer runs fire-and-forget (RetryTimes = 0).                         *)
AckImpliesHandled ==
    \A m \in Msgs :
        bstate[m] = "acked" =>
            \/ ~Routed(m)
            \/ m \in succeeded
            \/ retry[m] > RetryTimes
            \/ RetryTimes = 0

(* Spec 4.4 step 2 and the last scenario of spec 8: when the dedup lock   *)
(* of a message is held by another worker, the overlapping delivery is a   *)
(* DuplicateDelivery, skipped to acknowledgment without execution: the     *)
(* step that ends processMessage at a failed mutex.Lock puts the delivery  *)
(* into its process's ack buffer.                                          *)
DuplicateDeliveryAcked ==
    [][\A w \in Workers :
         (/\ wpc[w] = "lock" /\ wpc'[w] = "idle"
          /\ GroupMatches(wdlv[w].msg)
          /\ lockOwner[wdlv[w].msg] # None
          /\ crashes' = crashes)
         => \E i \in DOMAIN askBuf'[Consumer(w)] : askBuf'[Consumer(w)][i] = wdlv[w]]_vars

(* Spec 8: a message whose retry counter exceeds the maximum is never      *)
(* passed to job execution.                                                *)
PoisonNeverExecuted ==
    \A w \in Workers : wpc[w] = "exec" => wtimes[w] <= RetryTimes

(* Spec 4.6: an entry of the ack buffer stays there only until the next     *)
(* flush; sendBatchAsk runs every tick, so every entry eventually leaves.  *)
AckBufferDrains ==
    \A c \in Consumers, d \in Delivery :
        (\E i \in DOMAIN askBuf[c] : askBuf[c][i] = d)
            ~> ~(\E i \in DOMAIN askBuf[c] : askBuf[c][i] = d)
=============================================================================

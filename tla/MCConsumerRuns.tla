--------------------------- MODULE MCConsumerRuns ---------------------------
(***************************************************************************)
(* Two deployments of the consumer checked in one run: the initial state   *)
(* picks one and only its variables change from then on.                   *)
(*   - "fleet": two processes of one worker each, RetryTimes = 1, a job    *)
(*     and a plain message, one crash;                                     *)
(*   - "pool": one process with a pool of two workers, fire-and-forget     *)
(*     (RetryTimes = 0), an undecodable job and a message of another       *)
(*     environment, two deliveries each.                                   *)
(***************************************************************************)
EXTENDS Naturals, TLC

CONSTANTS c1, c2, m1, m2, None

VARIABLES
    part,
    bstate, handle, lockOwner, retry, pending, wpc, wdlv, wask, wtimes,
    askBuf, notAsk, succeeded, crashes,
    pbstate, phandle, plockOwner, pretry, ppending, pwpc, pwdlv, pwask,
    pwtimes, paskBuf, pnotAsk, psucceeded, pcrashes

fleetVars == <<bstate, handle, lockOwner, retry, pending, wpc, wdlv, wask,
               wtimes, askBuf, notAsk, succeeded, crashes>>
poolVars == <<pbstate, phandle, plockOwner, pretry, ppending, pwpc, pwdlv,
              pwask, pwtimes, paskBuf, pnotAsk, psucceeded, pcrashes>>
allVars == <<part, fleetVars, poolVars>>

F == INSTANCE Consumer WITH
    Consumers <- {c1, c2}, Slots <- {1}, Msgs <- {m1, m2},
    Kind <- (m1 :> "job") @@ (m2 :> "plain"),
    RetryTimes <- 1, PullBatch <- 2, AckBatch <- 1,
    MaxDeliveries <- 2, MaxCrashes <- 1

P == INSTANCE Consumer WITH
    Consumers <- {c1}, Slots <- {1, 2}, Msgs <- {m1, m2},
    Kind <- (m1 :> "badjob") @@ (m2 :> "foreign"),
    RetryTimes <- 0, PullBatch <- 2, AckBatch <- 2,
    MaxDeliveries <- 2, MaxCrashes <- 1,
    bstate <- pbstate, handle <- phandle, lockOwner <- plockOwner,
    retry <- pretry, pending <- ppending, wpc <- pwpc, wdlv <- pwdlv,
    wask <- pwask, wtimes <- pwtimes, askBuf <- paskBuf,
    notAsk <- pnotAsk, succeeded <- psucceeded, crashes <- pcrashes

Init == part \in {"fleet", "pool"} /\ F!Init /\ P!Init

Next ==
    \/ part = "fleet" /\ F!Next /\ UNCHANGED <<part, poolVars>>
    \/ part = "pool" /\ P!Next /\ UNCHANGED <<part, fleetVars>>

Spec == Init /\ [][Next]_allVars

(* Both deployments keep their variables within their types.              *)
TypeOK == F!TypeOK /\ P!TypeOK

(* In either deployment, no two workers hold the dedup lock of a message  *)
(* between Lock and Unlock at once.                                        *)
NoConcurrentProcessing == F!NoConcurrentProcessing /\ P!NoConcurrentProcessing

(* The fleet acks a routed message only after a successful Execute or a    *)
(* spent retry budget.                                                     *)
AckImpliesHandled == F!AckImpliesHandled

=============================================================================

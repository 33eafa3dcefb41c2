------------------------------- MODULE MCCodec -------------------------------
(* j1 is registered by both builds, j2 with a nil queue by both, j3 by     *)
(* neither, and j4 only by the producer (a job added in a newer release    *)
(* whose consumers still run the previous one).                            *)
EXTENDS Codec, TLC

MCJobNames == {"j1", "j2", "j3", "j4"}
MCProducerJobs == ("j1" :> "queue") @@ ("j2" :> "nilqueue") @@ ("j3" :> "missing") @@ ("j4" :> "queue")
MCConsumerJobs == ("j1" :> "queue") @@ ("j2" :> "nilqueue") @@ ("j3" :> "missing") @@ ("j4" :> "missing")
(* With a 3-bit significand, 7 and 8 are exact and 9 is not (it rounds to  *)
(* 8): the scaled counterparts of ids below and above 2^53.                *)
MCExactValues == {7, 8}
MCLargeValues == {7, 9}
=============================================================================

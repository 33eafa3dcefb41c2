------------------------------ MODULE MCLibrary ------------------------------
(* Inputs of the library run that TLC's configuration syntax cannot write:  *)
(* every SubStr start from past the front to past the end of a four-rune  *)
(* string, lengths negative, zero, short and long, and slice elements     *)
(* negative, zero and positive (so that Max sees all-negative lists).      *)
EXTENDS Library, TLC


(* The job registries of the codec component: j1 is registered by both     *)
(* builds, j2 with a nil queue by both, j3 by neither, and j4 only by the  *)
(* producer (a job added in a newer release whose consumers still run the  *)
(* previous one). With a 3-bit significand the payloads 7 and 8 are exact, *)
(* the scaled counterparts of ids below 2^53.                              *)
MCJobNames == {"j1", "j2", "j3", "j4"}
MCProducerJobs == ("j1" :> "queue") @@ ("j2" :> "nilqueue") @@ ("j3" :> "missing") @@ ("j4" :> "queue")
MCConsumerJobs == ("j1" :> "queue") @@ ("j2" :> "nilqueue") @@ ("j3" :> "missing") @@ ("j4" :> "missing")
MCExactValues == {7, 8}

(* The parameter names of a signed request, in sort.Strings order: two     *)
(* signed names and the excluded "sn".                                     *)
MCKeyOrder == <<"a", "b", "sn">>

(* Calls of the HTTP helper: trace context with or without traceparent;   *)
(* options none, a timeout, a Content-Type override, a timeout cancelled  *)
(* by a later WithTimeout(0), two WithHeaders of which only the last      *)
(* counts, and a transport before a timeout. Endpoints with and without a *)
(* repeated query key, params that do and do not set it.                  *)
NoHeaders == [k \in {"Content-Type", "traceparent", "X-Token"} |-> None]
Opt(kind, t, h) == [kind |-> kind, timeout |-> t, transport |-> "default", headers |-> h]
WithTimeout(t) == Opt("timeout", t, NoHeaders)
WithHeaders(h) == Opt("headers", 0, h)
WithTransport == [Opt("transport", 0, NoHeaders) EXCEPT !.transport = "custom"]
MCTraces == {NoHeaders, [NoHeaders EXCEPT !["traceparent"] = "t1"]}
MCOptionLists ==
    { << >>, <<WithTimeout(2)>>,
      <<WithHeaders([NoHeaders EXCEPT !["Content-Type"] = "form"])>>,
      <<WithTimeout(2), WithHeaders([NoHeaders EXCEPT !["X-Token"] = "tok"]), WithTimeout(0)>>,
      <<WithHeaders([NoHeaders EXCEPT !["Content-Type"] = "form"]),
        WithHeaders([NoHeaders EXCEPT !["traceparent"] = "tok"])>>,
      <<WithTransport, WithTimeout(1)>> }
MCEndpointQueries == {[a |-> << >>, b |-> << >>], [a |-> <<"1", "2">>, b |-> <<"1">>]}
MCClientConfs == [given : BOOLEAN, insecure : BOOLEAN, etcd : BOOLEAN]
MCParamMaps == {[a |-> None, b |-> None], [a |-> "2", b |-> None]}

MCStarts == -6..6
MCLengths == {-1, 0, 1, 2, 5, 127}
MCElems == {-1, 0, 2}
=============================================================================

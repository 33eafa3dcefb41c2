----------------------------- MODULE GrpcClient -----------------------------
(***************************************************************************)
(* The gRPC client connection the application builds (pkg/grpc/client.go  *)
(* NewClient over pkg/transport/grpc/client.go DialWithInsecure) and one   *)
(* unary call through it. dial applies the options over a 2000 ms default  *)
(* timeout, chains unaryClientInterceptor first, adds the discovery        *)
(* resolver, insecure credentials or TLS, and calls grpc.DialContext,      *)
(* which fails when no transport security is set. The interceptor bounds  *)
(* a call by the timeout; the caller's context may carry its own deadline. *)
(* Time is in milliseconds, advanced in steps of Tick.                     *)
(***************************************************************************)
EXTENDS Naturals

CONSTANTS
    ClientConfs,    \* rpc.ClientConf values: [given, insecure, etcd]
    CallerDeadlines,\* deadlines of the caller's ctx in ms (0: none)
    Tick,           \* ms the clock advances per step
    MaxWait         \* bound: ms one call may wait for its answer

VARIABLES
    gconn,      \* [state: "none", "nil", "panicked" or "ready", timeout: ms]
    gstage,     \* "idle", "calling" while the invoker waits, "done"
    gdeadline,  \* the call's context deadline in ms from its start (0: none)
    gelapsed,   \* ms since the call started
    gresult     \* "none", "reply", "error" or "deadline"

grpcVars == <<gconn, gstage, gdeadline, gelapsed, gresult>>

Conn(state, timeout) == [state |-> state, timeout |-> timeout]

Init == gconn = Conn("none", 0) /\ gstage = "idle" /\ gdeadline = 0 /\ gelapsed = 0 /\ gresult = "none"

-----------------------------------------------------------------------------
(* dial's clientOptions before the options: timeout 2000 ms.               *)
DefaultOptions == [timeout |-> 2000, discovery |-> FALSE, tls |-> FALSE]

(* The options NewClient passes: WithEndpoint (no field the model keeps)   *)
(* and WithDiscovery, whose value is nil without etcd hosts.               *)
WithDiscovery(o, d) == [o EXCEPT !.discovery = d]

(* dial: grpc.WithInsecure when insecure, WithTransportCredentials when a  *)
(* TLS config was given; DialContext returns errNoTransportSecurity when  *)
(* neither set credentials. Otherwise the (non-blocking) dial succeeds.    *)
DialSucceeds(insecure, o) == insecure \/ o.tls

(* unaryClientInterceptor: context.WithTimeout when timeout > 0; the       *)
(* call's deadline is the earlier of that and the caller's.                *)
CallDeadline(timeout, callerDeadline) ==
    CASE timeout = 0        -> callerDeadline
      [] callerDeadline = 0 -> timeout
      [] OTHER              -> IF timeout < callerDeadline THEN timeout ELSE callerDeadline

(* NewClient at startup (internal/container grpc.Register): nil for a nil *)
(* conf; with etcd hosts RegistryEtcd may fail (panic) and the endpoint     *)
(* becomes discovery:///<key or endpoint>; a failed dial panics.            *)
NewClient ==
    /\ gconn.state = "none"
    /\ \E c \in ClientConfs, etcdOk \in BOOLEAN :
         LET o == WithDiscovery(DefaultOptions, c.etcd) IN
         gconn' = CASE ~c.given                     -> Conn("nil", 0)
                    [] c.etcd /\ ~etcdOk            -> Conn("panicked", 0)
                    [] ~DialSucceeds(c.insecure, o) -> Conn("panicked", 0)
                    [] OTHER                        -> Conn("ready", o.timeout)
    /\ UNCHANGED <<gstage, gdeadline, gelapsed, gresult>>

(* A unary call on the connection: the interceptor builds the transport   *)
(* context and the deadline, copies the request headers into the outgoing *)
(* metadata and calls the invoker (no middleware is ever configured).      *)
Invoke ==
    /\ gconn.state = "ready" /\ gstage = "idle"
    /\ \E d \in CallerDeadlines : gdeadline' = CallDeadline(gconn.timeout, d)
    /\ gstage' = "calling" /\ gelapsed' = 0 /\ gresult' = "none"
    /\ UNCHANGED gconn

(* The server has not answered and the deadline has not passed.            *)
Wait ==
    /\ gstage = "calling"
    /\ gelapsed + Tick <= MaxWait
    /\ gdeadline = 0 \/ gelapsed + Tick <= gdeadline
    /\ gelapsed' = gelapsed + Tick
    /\ UNCHANGED <<gconn, gstage, gdeadline, gresult>>

(* The invoker returns the reply or an error.                              *)
Reply ==
    /\ gstage = "calling"
    /\ \E r \in {"reply", "error"} : gresult' = r
    /\ gstage' = "done"
    /\ UNCHANGED <<gconn, gdeadline, gelapsed>>

(* The context's deadline passes: the invoker returns DeadlineExceeded.    *)
Expire ==
    /\ gstage = "calling"
    /\ gdeadline > 0 /\ gelapsed + Tick > gdeadline
    /\ gstage' = "done" /\ gresult' = "deadline"
    /\ UNCHANGED <<gconn, gdeadline, gelapsed>>

Next == NewClient \/ Invoke \/ Wait \/ Reply \/ Expire
=============================================================================

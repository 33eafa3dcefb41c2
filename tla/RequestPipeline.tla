--------------------------- MODULE RequestPipeline ---------------------------
(***************************************************************************)
(* One HTTP request through the gin handler chain of internal/router:      *)
(* the global middlewares OTELMiddleware, RecoveryMiddleware and           *)
(* RateLimiterMiddleware, in the order router.Register passes them to Use, *)
(* then the Demo controller. OTELMiddleware swaps c.Writer for a           *)
(* RespJsonModifier that keeps every Write in a buffer; after c.Next it    *)
(* writes the buffered body to the real writer only when the Content-Type  *)
(* is JSON and the buffer parses as one JSON object.                       *)
(*                                                                         *)
(* gin's c.Next runs the handlers in turn; a middleware's code after its   *)
(* c.Next runs when the rest of the chain returns; Abort stops the chain.  *)
(* A panic unwinds the frames, running their defers, up to a recover.      *)
(* A frame on rstack is a middleware waiting in its c.Next.                *)
(* Bodies are model values: the controller's data or error answer, the     *)
(* limiter's error, the recovery's 500 answer; each is one JSON object.    *)
(* The service the controller calls is the application's (the demo stub   *)
(* returns an empty map): it may return a result, an error or panic.       *)
(***************************************************************************)
EXTENDS Naturals, Sequences

VARIABLES
    rphase,     \* "run", "panic" while unwinding, "done", or "dropped"
    rpos,       \* index of the next handler c.Next will call
    rstack,     \* middlewares inside their c.Next, innermost last
    rwriter,    \* what c.Writer is: "real" or "rm" (the RespJsonModifier)
    rctype,     \* Content-Type of the response header: "none" or "json"
    rbuf,       \* bodies written into the RespJsonModifier's buffer
    rendered,   \* history: every body the handlers rendered, in order
    rwire       \* bodies written to the client's connection

pipelineVars == <<rphase, rpos, rstack, rwriter, rctype, rbuf, rendered, rwire>>

-----------------------------------------------------------------------------
(* router.Register: the global middlewares in the order of app.Use.        *)
ChainRecoveryFirst == <<"recovery", "otel", "limiter">>
Chain == <<"otel", "recovery", "limiter">>

(* The handlers of the GET /demo route: the middlewares, then Demo.        *)
Handlers == Chain \o <<"demo">>

Init ==
    /\ rphase = "run" /\ rpos = 1 /\ rstack = << >>
    /\ rwriter = "real" /\ rctype = "none" /\ rbuf = << >>
    /\ rendered = << >> /\ rwire = << >>

(* c.JSON(200, body): the JSON Content-Type goes on the header both writers *)
(* share, the body through c.Writer (RespJsonModifier.Write buffers it).   *)
Render(body) ==
    /\ rctype' = "json"
    /\ rendered' = Append(rendered, body)
    /\ IF rwriter = "rm"
       THEN rbuf' = Append(rbuf, body) /\ UNCHANGED rwire
       ELSE rwire' = Append(rwire, body) /\ UNCHANGED rbuf

(* The buffered bytes unmarshal into a map: exactly one JSON object.       *)
IsObject(buf) == Len(buf) = 1

(* RespJsonModifier.write: c.Writer is the real writer again and gets the  *)
(* re-marshalled object.                                                   *)
WriteBack == rwriter' = "real" /\ rwire' = rwire \o rbuf

(* otelReport: under a JSON Content-Type, WriteMeta -> WriteResponse        *)
(* unmarshals the buffer, adds nothing under "meta" and calls write; span  *)
(* attributes only are recorded otherwise.                                 *)
OtelReport ==
    IF rctype = "json" /\ IsObject(rbuf) THEN WriteBack ELSE UNCHANGED <<rwriter, rwire>>

-----------------------------------------------------------------------------
(* The code of Handlers[rpos] up to its c.Next, or the whole of a handler  *)
(* that does not call c.Next.                                              *)

(* OTELMiddleware: span attributes, getRequestData (binds the body and     *)
(* puts it back), wireHeader, then c.Writer = NewRespJsonModifier(c).      *)
OtelEnter ==
    /\ rwriter' = "rm"
    /\ rstack' = Append(rstack, "otel") /\ rpos' = rpos + 1
    /\ UNCHANGED <<rphase, rctype, rbuf, rendered, rwire>>

(* RecoveryMiddleware: defers its recover, then c.Next.                    *)
RecoveryEnter ==
    /\ rstack' = Append(rstack, "recovery") /\ rpos' = rpos + 1
    /\ UNCHANGED <<rphase, rwriter, rctype, rbuf, rendered, rwire>>

(* RateLimiterMiddleware: Allow fails -> c.JSON(Error) and c.Abort;       *)
(* otherwise defer the done callback and c.Next.                           *)
LimiterEnter ==
    \/ /\ Render("limitError") /\ rpos' = Len(Handlers) + 1
       /\ UNCHANGED <<rphase, rstack, rwriter>>
    \/ /\ rstack' = Append(rstack, "limiter") /\ rpos' = rpos + 1
       /\ UNCHANGED <<rphase, rwriter, rctype, rbuf, rendered, rwire>>

(* Demo: the service's error -> c.JSON(xhttp.Error), its result ->         *)
(* c.JSON(xhttp.Data); a panic in the service unwinds.                     *)
DemoRun ==
    \/ /\ \E body \in {"data", "error"} : Render(body)
       /\ rpos' = rpos + 1 /\ UNCHANGED <<rphase, rstack, rwriter>>
    \/ /\ rphase' = "panic"
       /\ UNCHANGED <<rpos, rstack, rwriter, rctype, rbuf, rendered, rwire>>

Enter ==
    /\ rphase = "run" /\ rpos <= Len(Handlers)
    /\ CASE Handlers[rpos] = "otel"     -> OtelEnter
         [] Handlers[rpos] = "recovery" -> RecoveryEnter
         [] Handlers[rpos] = "limiter"  -> LimiterEnter
         [] Handlers[rpos] = "demo"     -> DemoRun

(* The chain below the innermost waiting middleware has returned: its code *)
(* after c.Next runs (the limiter's done callback and the recovery's      *)
(* defer do nothing, OTELMiddleware calls otelReport, then span.End).      *)
Leave ==
    /\ rphase = "run" /\ rpos > Len(Handlers) /\ rstack # << >>
    /\ rstack' = SubSeq(rstack, 1, Len(rstack) - 1)
    /\ IF rstack[Len(rstack)] = "otel"
       THEN OtelReport ELSE UNCHANGED <<rwriter, rwire>>
    /\ UNCHANGED <<rphase, rpos, rctype, rbuf, rendered>>

(* A panic leaves the innermost frame, running its defers: only            *)
(* RecoveryMiddleware's recovers: it logs, sends the DingTalk alarm (see   *)
(* Alert) and answers with AbortWithStatusJSON(200, ErrMsg 500) through    *)
(* c.Writer; OTELMiddleware's defer only ends the span.                    *)
Unwind ==
    /\ rphase = "panic" /\ rstack # << >>
    /\ rstack' = SubSeq(rstack, 1, Len(rstack) - 1)
    /\ IF rstack[Len(rstack)] = "recovery"
       THEN /\ Render("err500") /\ rphase' = "run" /\ rpos' = Len(Handlers) + 1
            /\ UNCHANGED rwriter
       ELSE UNCHANGED <<rphase, rpos, rwriter, rctype, rbuf, rendered, rwire>>

(* The chain has returned to gin's ServeHTTP, which flushes the header; a  *)
(* panic no middleware recovered reaches net/http, which logs it and       *)
(* closes the connection without an answer.                                *)
Finish ==
    /\ rstack = << >>
    /\ \/ rphase = "run" /\ rpos > Len(Handlers) /\ rphase' = "done"
       \/ rphase = "panic" /\ rphase' = "dropped"
    /\ UNCHANGED <<rpos, rstack, rwriter, rctype, rbuf, rendered, rwire>>

Next == Enter \/ Leave \/ Unwind \/ Finish

-----------------------------------------------------------------------------
(* Every request is answered, and the client receives exactly the bodies   *)
(* the handlers rendered, in order: buffering in the RespJsonModifier,     *)
(* the limiter's abort and a panic in the service recovered by             *)
(* RecoveryMiddleware all end with the rendered answer on the wire. This    *)
(* depends on the order router.Register gives the middlewares.             *)
EveryRequestAnswered ==
    rphase \in {"done", "dropped"} =>
        /\ rphase = "done"
        /\ rwire = rendered
        /\ rwire # << >>
=============================================================================

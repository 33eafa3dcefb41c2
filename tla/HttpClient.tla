----------------------------- MODULE HttpClient -----------------------------
(***************************************************************************)
(* The outbound HTTP helper of util/http/http.go. One call of Get, Post,   *)
(* Put or Delete: the functional options are applied in order, the        *)
(* request is assembled (query, trace headers, Content-Type, option       *)
(* headers), a fresh http.Client with the option's timeout sends it, and   *)
(* the call returns the body of a 200 answer or an error. The server may   *)
(* answer, fail, or keep the call waiting while time passes.               *)
(* Header maps and url.Values are total functions on small key sets, with  *)
(* Absent (resp. << >>) for a key that is not set.                         *)
(***************************************************************************)
EXTENDS Naturals, Sequences, SequencesExt

CONSTANTS
    HKeys,          \* header names, "Content-Type" among them
    HVals,          \* header values, "application/json" among them
    Traces,         \* header maps tracer.MapCarrier(ctx) may return
    OptionLists,    \* the options ... arguments a caller passes
    QKeys, QVals,   \* query keys and values
    EndpointQueries,\* url.Values of the query already in c.domain+endpoint
    ParamMaps,      \* params arguments of Get and Delete
    MaxWait,        \* bound: clock ticks one call may wait for its answer
    Absent          \* model value: header or param not set

JSON == "application/json"

VARIABLES
    hreq,       \* the request the call sent, with the client's timeout
    hstage,     \* "idle" before the call, "sent" while Do waits, "done"
    helapsed,   \* clock ticks since the request was sent
    hresult     \* what the call returned: "none", "body" or an error

httpVars == <<hreq, hstage, helapsed, hresult>>

NoReq == [method |-> "none", opts |-> << >>, headers |-> [k \in HKeys |-> Absent],
          query |-> [k \in QKeys |-> << >>], timeout |-> 0]

Init == hreq = NoReq /\ hstage = "idle" /\ helapsed = 0 /\ hresult = "none"

-----------------------------------------------------------------------------
(* req.Header.Set for every entry of a map: its entries replace those the  *)
(* request already has.                                                    *)
SetHeaders(h, m) == [k \in HKeys |-> IF m[k] # Absent THEN m[k] ELSE h[k]]

(* One functional option: WithTimeout sets the timeout, WithTransport the  *)
(* RoundTripper, WithHeaders replaces the whole header map.                *)
ApplyOne(o, opt) ==
    CASE opt.kind = "timeout"   -> [o EXCEPT !.timeout = opt.timeout]
      [] opt.kind = "transport" -> [o EXCEPT !.transport = opt.transport]
      [] opt.kind = "headers"   -> [o EXCEPT !.headers = opt.headers]

(* applyOptions: DefaultTransport, an empty map, then each option in turn. *)
ApplyOptions(opts) ==
    FoldLeft(ApplyOne, [timeout |-> 0, transport |-> "default",
                        headers |-> [k \in HKeys |-> Absent]], opts)

(* query.Set for every param, on the query parsed from the URL.            *)
SetQuery(q, params) ==
    [k \in QKeys |-> IF params[k] # Absent THEN <<params[k]>> ELSE q[k]]

(* The header phase of Post and Put: trace headers, then Content-Type,     *)
(* then the option headers.                                                *)
BodyHeadersJsonLast(trace, o) ==
    [SetHeaders(SetHeaders([k \in HKeys |-> Absent], trace), o.headers)
        EXCEPT !["Content-Type"] = JSON]
BodyHeaders(trace, o) ==
    SetHeaders([SetHeaders([k \in HKeys |-> Absent], trace)
                   EXCEPT !["Content-Type"] = JSON], o.headers)

(* The header phase of Get and Delete: trace headers, then option headers. *)
QueryHeaders(trace, o) == SetHeaders(SetHeaders([k \in HKeys |-> Absent], trace), o.headers)

(* The http.Client each call builds carries the option's timeout.          *)
ClientTimeout(o) == o.timeout

(* client.Do is reached with request r.                                    *)
Send(r) == hreq' = r /\ hstage' = "sent" /\ helapsed' = 0 /\ hresult' = "none"

(* An error returned before Do (url.Parse, json.Marshal, NewRequest).      *)
FailEarly == hreq' = NoReq /\ hstage' = "done" /\ helapsed' = 0 /\ hresult' = "error"

-----------------------------------------------------------------------------
(* Get and Delete: url.Parse(c.domain + endpoint) may fail; otherwise the  *)
(* params replace the parsed query and the request is sent.                *)
GetOrDelete(method) ==
    /\ hstage = "idle"
    /\ \E opts \in OptionLists, trace \in Traces, q \in EndpointQueries,
          params \in ParamMaps, parsed \in BOOLEAN :
         LET o == ApplyOptions(opts) IN
         IF ~parsed THEN FailEarly
         ELSE Send([method |-> method, opts |-> opts,
                    headers |-> QueryHeaders(trace, o),
                    query |-> SetQuery(q, params), timeout |-> ClientTimeout(o)])

Get == GetOrDelete("GET")
Delete == GetOrDelete("DELETE")

(* Post sends data as is; Put first json.Marshals its argument, which may  *)
(* fail. NewRequestWithContext fails on a URL that does not parse. The    *)
(* query stays the one written in the endpoint.                            *)
PostOrPut(method) ==
    /\ hstage = "idle"
    /\ \E opts \in OptionLists, trace \in Traces, q \in EndpointQueries, built \in BOOLEAN :
         LET o == ApplyOptions(opts) IN
         IF ~built THEN FailEarly
         ELSE Send([method |-> method, opts |-> opts,
                    headers |-> BodyHeaders(trace, o),
                    query |-> q, timeout |-> ClientTimeout(o)])

Post == PostOrPut("POST")
Put == PostOrPut("PUT")

(* The server has not answered yet and the client's deadline, if any, has *)
(* not passed: time goes on.                                               *)
Wait ==
    /\ hstage = "sent"
    /\ helapsed < MaxWait
    /\ hreq.timeout = 0 \/ helapsed < hreq.timeout
    /\ helapsed' = helapsed + 1
    /\ UNCHANGED <<hreq, hstage, hresult>>

(* client.Do returns: a transport error, or a response whose body ReadAll *)
(* may fail to read; only status 200 returns the body.                     *)
Respond ==
    /\ hstage = "sent"
    /\ \E outcome \in {"doError", "readError", "status500", "status200"} :
         hresult' = IF outcome = "status200" THEN "body" ELSE "error"
    /\ hstage' = "done"
    /\ UNCHANGED <<hreq, helapsed>>

(* http.Client.Timeout expires: Do (or ReadAll) returns a timeout error.  *)
Timeout ==
    /\ hstage = "sent"
    /\ hreq.timeout > 0 /\ helapsed >= hreq.timeout
    /\ hstage' = "done" /\ hresult' = "timeout"
    /\ UNCHANGED <<hreq, helapsed>>

Next == Get \/ Post \/ Put \/ Delete \/ Wait \/ Respond \/ Timeout

-----------------------------------------------------------------------------
(* The value of the last WithTimeout among the options, 0 without one.    *)
LastTimeout(opts) ==
    LET I == {i \in DOMAIN opts : opts[i].kind = "timeout"} IN
    IF I = {} THEN 0 ELSE opts[CHOOSE i \in I : \A j \in I : j <= i].timeout

(* The header map of the last WithHeaders among the options.              *)
LastHeaders(opts) ==
    LET I == {i \in DOMAIN opts : opts[i].kind = "headers"} IN
    IF I = {} THEN [k \in HKeys |-> Absent]
    ELSE opts[CHOOSE i \in I : \A j \in I : j <= i].headers

(* A header of the last WithHeaders option is sent as given, whatever the  *)
(* trace context holds; Post and Put send Content-Type application/json    *)
(* unless that option sets its own.                                        *)
OptionHeadersWin ==
    hreq.method # "none" =>
        /\ \A k \in HKeys : LastHeaders(hreq.opts)[k] # Absent =>
              hreq.headers[k] = LastHeaders(hreq.opts)[k]
        /\ hreq.method \in {"POST", "PUT"} /\ LastHeaders(hreq.opts)["Content-Type"] = Absent
              => hreq.headers["Content-Type"] = JSON
=============================================================================

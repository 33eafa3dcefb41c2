------------------------------- MODULE Md5Param -------------------------------
(***************************************************************************)
(* The request-signing strings of util/xhttp/verify/md5_param.go:          *)
(* GenerateHash over url.Values and createEncryptStr (under Md5) over a    *)
(* map. Both range over a Go map, whose order is unspecified, and sort the *)
(* keys. The MD5 applied afterwards is injective for this purpose and left *)
(* out: the state is the last call and the string it hashes.               *)
(*                                                                         *)
(* A string is a sequence of tokens: a key name, "=", "&", or a value      *)
(* character. url.Values maps a key to a non-empty list of values.         *)
(***************************************************************************)
EXTENDS Integers, Sequences, SequencesExt

CONSTANTS
    KeyOrder,   \* the parameter names in sort.Strings order
    Chars,      \* value characters other than the separators
    MaxValue,   \* bound: characters of one value
    MaxValues   \* bound: values of one url.Values key

ParamKeys == ToSet(KeyOrder)
ValueStrings == UNION {[1..n -> Chars \cup {"&"}] : n \in 0..MaxValue}
ValueLists == UNION {[1..n -> ValueStrings] : n \in 1..MaxValues}

(* The maps a handler may receive: any subset of the names, any values.    *)
Maps(V) == UNION {[D -> V] : D \in SUBSET ParamKeys}

VARIABLES call, result

vars == <<call, result>>

-----------------------------------------------------------------------------
(* The orders in which a range over the keys D may visit them.             *)
Orders(D) == {s \in [1..Cardinality(D) -> D] : IsInjective(s)}

(* sort.Strings of keys collected in map order.                            *)
SortStrings(keys) == SelectSeq(KeyOrder, LAMBDA k : k \in ToSet(keys))

(* strings.TrimRight(s, "&"): drop every trailing "&".                     *)
RECURSIVE TrimRight(_)
TrimRight(s) == IF s # << >> /\ Last(s) = "&" THEN TrimRight(Front(s)) ELSE s

(* GenerateHash (md5_param.go:12-28): collect the keys in map order, sort  *)
(* them, append key=params.Get(key)& for each (Get is the first value),    *)
(* then trim the trailing "&".                                              *)
HashString(params, keys) ==
    TrimRight(FoldLeft(LAMBDA s, k : s \o <<k, "=">> \o params[k][1] \o <<"&">>, << >>, keys))
GenerateHash(params, order) == HashString(params, SortStrings(order))

(* createEncryptStr (md5_param.go:36-53): the keys other than sn and debug *)
(* in sorted order, joined as key=value with "&" before all but the first. *)
EncryptStrFirstValue(params, order) ==
    LET key == SortStrings(SelectSeq(order, LAMBDA k : k \notin {"sn", "debug"}))
    IN FoldLeft(LAMBDA s, i : s \o (IF i = 1 THEN << >> ELSE <<"&">>) \o <<key[i], "=">> \o params[key[1]],
                << >>, [i \in 1..Len(key) |-> i])
CreateEncryptStr(params, order) ==
    LET key == SortStrings(SelectSeq(order, LAMBDA k : k \notin {"sn", "debug"}))
    IN FoldLeft(LAMBDA s, i : s \o (IF i = 1 THEN << >> ELSE <<"&">>) \o <<key[i], "=">> \o params[key[i]],
                << >>, [i \in 1..Len(key) |-> i])

Init == call = [fn |-> "none"] /\ result = << >>

(* A call of GenerateHash on url.Values, the map visited in order.         *)
CallGenerateHash(params, order) ==
    /\ call' = [fn |-> "hash", params |-> params]
    /\ result' = GenerateHash(params, order)

(* A call of Md5 on a map[string]interface{} of string values.             *)
CallMd5(params, order) ==
    /\ call' = [fn |-> "md5", params |-> params]
    /\ result' = CreateEncryptStr(params, order)

Next ==
    \/ \E params \in Maps(ValueLists) : \E order \in Orders(DOMAIN params) :
          CallGenerateHash(params, order)
    \/ \E params \in Maps(ValueStrings) : \E order \in Orders(DOMAIN params) :
          CallMd5(params, order)

Spec == Init /\ [][Next]_vars

-----------------------------------------------------------------------------
(* The string Md5 signs determines the parameters it covers (all but sn    *)
(* and debug) when no value contains "&" or "=": a request whose signed    *)
(* parameters differ never has the same signature.                         *)
Signed(params) == [k \in DOMAIN params \ {"sn", "debug"} |-> params[k]]
Plain(params) == \A k \in DOMAIN params : "&" \notin ToSet(params[k])
EncryptStrDeterminesParams ==
    call.fn = "md5" /\ Plain(call.params) =>
        \A q \in Maps(ValueStrings) :
            (Plain(q) /\ \E o \in Orders(DOMAIN q) : CreateEncryptStr(q, o) = result)
                => Signed(q) = Signed(call.params)
=============================================================================

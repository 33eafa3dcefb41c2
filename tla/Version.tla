------------------------------- MODULE Version -------------------------------
(***************************************************************************)
(* Version-string comparison of util/helper/helper.go: VersionCompare and  *)
(* IsNewVersion. A version is the sequence of its dot-separated parts;     *)
(* a part is the value strconv.Atoi gives it, or NaN when Atoi fails.      *)
(* The state is the last call and its result; a call takes two versions   *)
(* with parts from Parts, up to MaxParts parts each.                       *)
(***************************************************************************)
EXTENDS Integers, Sequences

CONSTANTS
    Parts,      \* part values of the inputs (naturals, and NaN)
    MaxParts,   \* bound: parts of one version string
    NaN,        \* a part strconv.Atoi rejects, e.g. "1.x.0"
    Panic       \* the result of a call that panics

ASSUME Parts \subseteq Nat \cup {NaN}

Versions == UNION {[1..n -> Parts] : n \in 1..MaxParts}

VARIABLES
    call,       \* [fn, a, b]: the last call and its two version arguments
    result      \* [cmp, isNew]: VersionCompare(a, b) and IsNewVersion(a, b)

vars == <<call, result>>

-----------------------------------------------------------------------------
(* Part i of a version, 0 when the version has fewer parts (the num1/num2  *)
(* defaults of the loop); NaN stands for the panic of strconv.Atoi.        *)
PartOrZero(v, i) == IF i <= Len(v) THEN v[i] ELSE 0

(* VersionCompare (helper.go:36-70): compare part by part up to the longer *)
(* length, panic on a part Atoi rejects, 1 / -1 at the first difference,   *)
(* 0 when none. Panic is returned for the panic.                           *)
RECURSIVE CompareFrom(_, _, _)
CompareFrom(a, b, i) ==
    IF i > Len(a) /\ i > Len(b) THEN 0
    ELSE LET x == PartOrZero(a, i)
             y == PartOrZero(b, i)
         IN IF x = NaN \/ y = NaN THEN Panic
            ELSE IF x > y THEN 1
            ELSE IF x < y THEN -1
            ELSE CompareFrom(a, b, i + 1)

VersionCompareFromSecond(a, b) == CompareFrom(a, b, 2)
VersionCompare(a, b) == CompareFrom(a, b, 1)

(* IsNewVersion (helper.go:74-93): FALSE unless both have three parts;     *)
(* parts Atoi rejects count as 0; then the weighted sums with weights      *)
(* 1000000, 1000, 1 are compared (miniVersion >= version).                 *)
AtoiOrZero(p) == IF p = NaN THEN 0 ELSE p
Weighted3(v, w) == AtoiOrZero(v[1]) * w * w + AtoiOrZero(v[2]) * w + AtoiOrZero(v[3])

IsNewVersionWeight100(version, miniVersion) ==
    Len(version) = 3 /\ Len(miniVersion) = 3 /\
    Weighted3(miniVersion, 100) >= Weighted3(version, 100)
IsNewVersion(version, miniVersion) ==
    Len(version) = 3 /\ Len(miniVersion) = 3 /\
    Weighted3(miniVersion, 1000) >= Weighted3(version, 1000)

Init == call = [fn |-> "none"] /\ result = [cmp |-> 0, isNew |-> FALSE]

(* A call of both functions on the same two version strings.               *)
CallVersion(a, b) ==
    /\ call' = [fn |-> "version", a |-> a, b |-> b]
    /\ result' = [cmp |-> VersionCompare(a, b), isNew |-> IsNewVersion(a, b)]

Next == \E a, b \in Versions : CallVersion(a, b)

Spec == Init /\ [][Next]_vars

-----------------------------------------------------------------------------
(* Reference: the two versions padded with zeros to the longer length;     *)
(* up to the first part Atoi rejects, the lexicographic order of the       *)
(* padded parts decides; when they agree that far, the call panics if a    *)
(* rejected part follows and returns 0 otherwise.                           *)
Numeric(v) == \A i \in DOMAIN v : v[i] # NaN
RefCompare(a, b) ==
    LET n == IF Len(a) > Len(b) THEN Len(a) ELSE Len(b)
        pa == [i \in 1..n |-> PartOrZero(a, i)]
        pb == [i \in 1..n |-> PartOrZero(b, i)]
        bad == {i \in 1..n : pa[i] = NaN \/ pb[i] = NaN}
        stop == IF bad = {} THEN n + 1 ELSE CHOOSE i \in bad : \A j \in bad : i <= j
        diff == {i \in 1..(stop - 1) : pa[i] # pb[i]}
    IN IF diff = {} THEN (IF bad = {} THEN 0 ELSE Panic)
       ELSE LET k == CHOOSE k \in diff : \A j \in diff : k <= j
            IN IF pa[k] > pb[k] THEN 1 ELSE -1

(* VersionCompare is the numeric, zero-padded, part-by-part order on       *)
(* versions ("1.0" equals "1", "1.10" is above "1.9"), and it panics on a  *)
(* part Atoi rejects only when the parts before it are all equal: a client *)
(* version "2.x" compares as newer than "1.5" without an error.            *)
VersionCompareCorrect ==
    call.fn = "version" => result.cmp = RefCompare(call.a, call.b)

(* Within the range the comment of IsNewVersion allows (three parts of at  *)
(* most three digits), IsNewVersion(version, mini) holds exactly when      *)
(* VersionCompare(mini, version) >= 0.                                     *)
IsNewVersionAgreesWithCompare ==
    LET v == call.a  m == call.b
    IN (call.fn = "version" /\ Len(v) = 3 /\ Len(m) = 3 /\ Numeric(v) /\ Numeric(m) /\
        \A i \in 1..3 : v[i] <= 999 /\ m[i] <= 999)
       => (result.isNew <=> RefCompare(m, v) >= 0)
=============================================================================

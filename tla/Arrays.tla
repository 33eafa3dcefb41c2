------------------------------- MODULE Arrays --------------------------------
(***************************************************************************)
(* Slice helpers of util/helper/array.go and func.go: the intersection,    *)
(* unique, merge and membership helpers (one definition stands for the     *)
(* string, int and uint64 copies, whose bodies are the same), and Max.     *)
(* The state is the last call and its result; every step is a new call on *)
(* slices of length up to MaxLen over Elems.                               *)
(***************************************************************************)
EXTENDS Integers, Sequences, SequencesExt

CONSTANTS
    Elems,      \* element values
    MaxLen,     \* bound: length of a slice argument
    Panic       \* the result of a call that panics

Slices == UNION {[1..n -> Elems] : n \in 0..MaxLen}

VARIABLES
    call,       \* [fn, a, b]: the helper called and its slice arguments
    result      \* its result

vars == <<call, result>>

-----------------------------------------------------------------------------
(* ArrayIntersectString / ArrayIntersectUint64 (array.go:9-42): record the *)
(* elements of a in a set, then keep the elements of b found there, in b's *)
(* order.                                                                  *)
ArrayIntersectFirstArg(a, b) == SelectSeq(a, LAMBDA v : v \in ToSet(b))
ArrayIntersect(a, b) == SelectSeq(b, LAMBDA v : v \in ToSet(a))

(* InArray* (array.go:45-92): a linear scan that returns at the first hit. *)
RECURSIVE InArray(_, _)
InArray(x, s) == IF s = << >> THEN FALSE ELSE Head(s) = x \/ InArray(x, Tail(s))

(* ArrayMerge* (array.go:148-184) of two slices.                           *)
ArrayMerge(a, b) == a \o b

(* ArrayUnique* (array.go:187-226): append an entry not yet in keys and    *)
(* record it; a dropped "keys[entry] = true" keeps duplicates.            *)
RECURSIVE UniqueLoop(_, _, _)
UniqueLoop(s, keys, list) ==
    IF s = << >> THEN list
    ELSE IF Head(s) \in keys THEN UniqueLoop(Tail(s), keys, list)
         ELSE UniqueLoop(Tail(s), keys \cup {Head(s)}, Append(list, Head(s)))
RECURSIVE UniqueLoopNoRecord(_, _, _)
UniqueLoopNoRecord(s, keys, list) ==
    IF s = << >> THEN list
    ELSE UniqueLoopNoRecord(Tail(s), keys, IF Head(s) \in keys THEN list ELSE Append(list, Head(s)))
ArrayUniqueNoRecord(s) == UniqueLoopNoRecord(s, {}, << >>)
ArrayUnique(s) == UniqueLoop(s, {}, << >>)

(* Max / MaxInt64 (func.go:11-30): start from args[0], which panics on no   *)
(* arguments, and keep the larger.                                         *)
MaxFromZero(args) == FoldLeft(LAMBDA m, v : IF v > m THEN v ELSE m, 0, args)
MaxArgs(args) ==
    IF args = << >> THEN Panic
    ELSE FoldLeft(LAMBDA m, v : IF v > m THEN v ELSE m, args[1], args)

Init == call = [fn |-> "none", a |-> << >>, b |-> << >>] /\ result = << >>

CallIntersect(a, b) ==
    call' = [fn |-> "intersect", a |-> a, b |-> b] /\ result' = ArrayIntersect(a, b)
CallInArray(x, a) ==
    call' = [fn |-> "inarray", a |-> a, b |-> <<x>>] /\ result' = InArray(x, a)
CallMerge(a, b) ==
    call' = [fn |-> "merge", a |-> a, b |-> b] /\ result' = ArrayMerge(a, b)
CallUnique(a) ==
    call' = [fn |-> "unique", a |-> a, b |-> << >>] /\ result' = ArrayUnique(a)
CallMax(a) ==
    call' = [fn |-> "max", a |-> a, b |-> << >>] /\ result' = MaxArgs(a)

Next ==
    \/ \E a, b \in Slices : CallIntersect(a, b) \/ CallMerge(a, b)
    \/ \E x \in Elems, a \in Slices : CallInArray(x, a)
    \/ \E a \in Slices : CallUnique(a) \/ CallMax(a)

Spec == Init /\ [][Next]_vars

-----------------------------------------------------------------------------
(* s is a subsequence of t: its elements occur in t in the same order.    *)
SubsequenceOf(s, t) ==
    \E f \in [1..Len(s) -> 1..Len(t)] :
        /\ \A i \in 1..Len(s) : s[i] = t[f[i]]
        /\ \A i \in 1..(Len(s) - 1) : f[i] < f[i + 1]

(* The intersection helpers return exactly the values the two slices share *)
(* (the intersection their comments promise), each with the multiplicity   *)
(* it has in b, in b's order.                                              *)
IntersectionCorrect ==
    call.fn = "intersect" =>
        /\ ToSet(result) = ToSet(call.a) \cap ToSet(call.b)
        /\ SubsequenceOf(result, call.b)
        /\ \A v \in ToSet(result) :
              Len(SelectSeq(result, LAMBDA x : x = v)) = Len(SelectSeq(call.b, LAMBDA x : x = v))

FirstIndex(s, v) == SelectInSeq(s, LAMBDA x : x = v)

(* ArrayUnique returns each value of its argument once, in the order of    *)
(* first occurrence (PHP's array_unique, which the comments name).          *)
UniqueCorrect ==
    call.fn = "unique" =>
        /\ IsInjective(result)
        /\ ToSet(result) = ToSet(call.a)
        /\ \A i, j \in 1..Len(result) :
              i < j => FirstIndex(call.a, result[i]) < FirstIndex(call.a, result[j])

(* Max of a non-empty list is its largest element, negative lists included. *)
MaxCorrect ==
    call.fn = "max" /\ call.a # << >> =>
        /\ result \in ToSet(call.a)
        /\ \A i \in DOMAIN call.a : call.a[i] <= result
=============================================================================

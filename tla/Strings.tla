------------------------------- MODULE Strings -------------------------------
(***************************************************************************)
(* String helpers of util/helper/string.go: FormatFloat64WithCommas,       *)
(* SubStr and TruncateString, each checked against the behaviour its doc   *)
(* comment promises. The state is the last call and its result; every     *)
(* step is a new call with arguments from small sets.                      *)
(*                                                                         *)
(* A digit string is a sequence of "d" (which digit does not matter to the *)
(* grouping), a rune string of length n is <<1, ..., n>>. Go's int has     *)
(* IntBits bits (64); SubStr's end := start + length wraps at that width.  *)
(***************************************************************************)
EXTENDS Integers, Sequences

CONSTANTS
    MaxDigits,  \* bound: digits of the integer part formatted
    MaxRunes,   \* bound: runes of a string passed to SubStr / TruncateString
    Starts,     \* start arguments of SubStr
    Lengths,    \* length arguments of SubStr
    TruncLengths, \* length arguments of TruncateString
    Signs,      \* signs of the numbers formatted: FALSE positive, TRUE negative
    IntBits,    \* width of Go's int
    Panic       \* the result of a call that panics

VARIABLES
    call,       \* the arguments of the last call, a record tagged with fn
    result      \* its result: a sequence, or Panic

vars == <<call, result>>

MaxInt == 2^(IntBits - 1) - 1
(* Two's-complement addition at the width of int.                          *)
AddInt(a, b) == ((a + b + MaxInt + 1) % (2 * (MaxInt + 1))) - (MaxInt + 1)

Runes(n) == [i \in 1..n |-> i]
Digits(n) == [i \in 1..n |-> "d"]

(* s[from:to] of Go: the slice, or a panic when the bounds are out of range *)
(* or reversed.                                                            *)
Slice(s, from, to) ==
    IF 0 <= from /\ from <= to /\ to <= Len(s) THEN SubSeq(s, from + 1, to) ELSE Panic

-----------------------------------------------------------------------------
(* The separator loop of FormatFloat64WithCommas (string.go:91-97) over    *)
(* intPart, the integer part strconv.FormatFloat wrote (with a leading "-" *)
(* for a negative number).                                                  *)
RECURSIVE CommaLoop(_, _)
CommaLoop(intPart, i) ==
    IF i >= Len(intPart) THEN << >>
    ELSE (IF i > 0 /\ (Len(intPart) - i) % 3 = 0 THEN <<",">> ELSE << >>)
         \o <<intPart[i + 1]>> \o CommaLoop(intPart, i + 1)

CommasFromFirst(intPart) == CommaLoop(intPart, 1)
FormatFloat64WithCommas(intPart) == CommaLoop(intPart, 0)

(* SubStr (string.go:104-133).                                             *)
SubStrNoUpperGuard(total, start, length) ==
    LET s == Runes(total)
        st == IF start < 0 THEN total + start ELSE start
        len == IF length < 0 THEN total ELSE length
        end == AddInt(st, len)
    IN IF total = 0 \/ st < 0 THEN << >>
       ELSE IF end > total THEN Slice(s, st, total) ELSE Slice(s, st, end)
SubStr(total, start, length) ==
    LET s == Runes(total)
        st == IF start < 0 THEN total + start ELSE start
        len == IF length < 0 THEN total ELSE length
        end == AddInt(st, len)
    IN IF total = 0 \/ st < 0 \/ st > total THEN << >>
       ELSE IF end > total THEN Slice(s, st, total) ELSE Slice(s, st, end)

(* TruncateString (string.go:136-141), on a string of single-byte runes.   *)
TruncateWithoutRoom(total, length) ==
    IF total > length THEN Runes(length) \o <<".", ".", ".">> ELSE Runes(total)
TruncateString(total, length) ==
    IF total > length
    THEN LET head == Slice(Runes(total), 0, length - 3)
         IN IF head = Panic THEN Panic ELSE head \o <<".", ".", ".">>
    ELSE Runes(total)

Init == call = [fn |-> "none"] /\ result = << >>

CallFormat(neg, n) ==
    LET intPart == (IF neg THEN <<"-">> ELSE << >>) \o Digits(n)
    IN /\ call' = [fn |-> "format", neg |-> neg, n |-> n]
       /\ result' = FormatFloat64WithCommas(intPart)

CallSubStr(total, start, length) ==
    /\ call' = [fn |-> "substr", total |-> total, start |-> start, length |-> length]
    /\ result' = SubStr(total, start, length)

CallTruncate(total, length) ==
    /\ call' = [fn |-> "truncate", total |-> total, length |-> length]
    /\ result' = TruncateString(total, length)

Next ==
    \/ \E neg \in Signs, n \in 1..MaxDigits : CallFormat(neg, n)
    \/ \E total \in 0..MaxRunes, start \in Starts, length \in Lengths :
          CallSubStr(total, start, length)
    \/ \E total \in 0..MaxRunes, length \in TruncLengths : CallTruncate(total, length)

Spec == Init /\ [][Next]_vars

-----------------------------------------------------------------------------
(* Reference grouping: the last three digits, preceded by the grouping of  *)
(* the rest and a comma.                                                   *)
RECURSIVE Grouped(_)
Grouped(n) == IF n <= 3 THEN Digits(n) ELSE Grouped(n - 3) \o <<",">> \o Digits(3)

(* FormatFloat64WithCommas puts a thousands separator between every group  *)
(* of three digits of the integer part of a non-negative number, and       *)
(* nowhere else. (For a negative number whose digit count is a multiple of *)
(* three the loop counts the sign as a digit and writes "-,123".)          *)
CommasGroupThousands ==
    call.fn = "format" /\ ~call.neg => result = Grouped(call.n)

(* Reference from SubStr's comment: a negative start counts from the end   *)
(* (-1 is the last rune), a negative length takes the rest, and the result *)
(* is the runes of [start, start + length) that exist.                     *)
SubStrRef(total, start, length) ==
    LET st == IF start < 0 THEN total + start ELSE start
        to == IF length < 0 \/ st + length > total THEN total ELSE st + length
    IN IF st < 0 \/ st >= total THEN << >> ELSE SubSeq(Runes(total), st + 1, to)

(* SubStr returns, without panicking, the runes its comment describes, for *)
(* every start inside or outside the string and every length whose sum    *)
(* with the start fits in an int (end := start + length wraps otherwise).  *)
SubStrAsDocumented ==
    call.fn = "substr" /\
    (call.length < 0 \/ (IF call.start < 0 THEN call.total + call.start ELSE call.start) + call.length <= MaxInt) =>
        result = SubStrRef(call.total, call.start, call.length)

(* For a length of at least 3 (the room "..." needs; str[:length-3]       *)
(* panics below that), TruncateString returns at most length bytes: the   *)
(* string itself when it fits, otherwise a prefix and "...".               *)
TruncateFits ==
    call.fn = "truncate" /\ call.length >= 3 => result # Panic /\ Len(result) <= call.length
=============================================================================

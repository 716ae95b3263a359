------------------------------ MODULE H5Strtol ------------------------------
(***************************************************************************)
(* strtol(s, &rest, 0) as H5.c uses it: on HDF5_DISABLE_VERSION_CHECK in   *)
(* H5_check_version (856-857) and on the descriptor tokens of HDF5_DEBUG   *)
(* in H5__debug_mask (718).  Both call sites first test isdigit on         *)
(* the first character, so it is a digit: there is no leading             *)
(* white space or sign to skip.  Base 0 picks the base from the prefix:    *)
(* "0x" followed by a hex digit is hexadecimal, any other leading '0' is   *)
(* octal, anything else decimal; the number is the longest run of digits   *)
(* valid in that base and rest points just after it.                       *)
(*                                                                         *)
(* A string is a sequence of one-character strings.  Only the characters  *)
(* '0'..'9' are digits here: inputs with the letters a-f after "0x" are    *)
(* not enumerated.  Values stay far below LONG_MAX, so the saturation of   *)
(* strtol and the cast of its long result to unsigned or int are the      *)
(* identity on every value enumerated.                                     *)
(***************************************************************************)
EXTENDS Integers, Sequences

DigitVal == [c \in {"0","1","2","3","4","5","6","7","8","9"} |->
                CASE c = "0" -> 0 [] c = "1" -> 1 [] c = "2" -> 2
                  [] c = "3" -> 3 [] c = "4" -> 4 [] c = "5" -> 5
                  [] c = "6" -> 6 [] c = "7" -> 7 [] c = "8" -> 8
                  [] c = "9" -> 9]

IsDigit(c) == c \in DOMAIN DigitVal

\* c is a digit of the given base
ValidIn(c, base) == IsDigit(c) /\ DigitVal[c] < base

\* length of the longest run of base-digits of s starting at position p
RunLen(s, p, base) ==
    CHOOSE n \in 0..(Len(s) - p + 1) :
        /\ \A j \in p..(p + n - 1) : ValidIn(s[j], base)
        /\ (p + n > Len(s) \/ ~ValidIn(s[p + n], base))

\* value of the n digits of s from position p, most significant first
RunValue(s, p, n, base) ==
    LET f[k \in 0..n] == IF k = 0 THEN 0
                         ELSE f[k - 1] * base + DigitVal[s[p + k - 1]]
    IN  f[n]

IsHexPrefix(s, p) ==
    /\ p + 2 <= Len(s)
    /\ s[p] = "0" /\ s[p + 1] \in {"x", "X"}
    /\ ValidIn(s[p + 2], 16)

\* strtol(s + p - 1, &rest, 0): the value and the position rest points at
Strtol0(s, p) ==
    LET base  == IF IsHexPrefix(s, p) THEN 16
                 ELSE IF s[p] = "0" THEN 8 ELSE 10
        start == IF base = 16 THEN p + 2 ELSE p
        n     == RunLen(s, start, base)
    IN  [val |-> RunValue(s, start, n, base), rest |-> start + n]

=============================================================================

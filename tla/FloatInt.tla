------------------------------- MODULE FloatInt -------------------------------
(***************************************************************************)
(* SenPhy/floatint.c: a sensor reading is an int16_t and a decimal scale;  *)
(* int_to_floatstring writes it as text, int_from_float rounds it.         *)
(*                                                                         *)
(* A string is a sequence of character codes, without its NUL.  Both       *)
(* functions are operators on a reading v and a scale s; Response calls    *)
(* the first.                                                              *)
(***************************************************************************)
EXTENDS Integers, SequencesExt

Int16 == -(2^15)..2^15 - 1
Scale == -128..127               \* int8_t

Minus == 45
Point == 46
Digit(d) == 48 + d

Abs(n) == IF n < 0 THEN -n ELSE n

(* sprintf "%d" *)
Decimal(n) ==
    LET magnitude == Abs(n)
        width == 1 + Cardinality({k \in 1..4 : magnitude >= 10^k})
    IN  (IF n < 0 THEN <<Minus>> ELSE <<>>)
          \o [k \in 1..width |-> Digit((magnitude \div 10^(width - k)) % 10)]

(* valstring[6] takes five characters and the NUL, and there must be -s of   *)
(* them: otherwise the function writes, or reads, outside of valstring.    *)
InValstring(v, s) == Len(Decimal(v)) <= 5 /\ Len(Decimal(v)) >= -s

(* buf, the caller's curr_value[10], takes nine characters and the NUL; the  *)
(* loop that appends the zeros does not know its size.                     *)
InCurrValue(v, s) == Len(Decimal(v)) + s <= 9

(* Any other call of int_to_floatstring is undefined. *)
Defined(v, s) == InValstring(v, s) /\ InCurrValue(v, s)

(* snprintf(buf, size, valstring) for a size of at least 1 *)
Cut(string, size) == SubSeq(string, 1, size - 1)

(* Mutant: the point is put one digit too far to the right. *)
IntToFloatString_OffByOne(v, s) ==
    LET valstring == Decimal(v)
        val_len == Len(valstring)
    IN  IF s < 0
        THEN Cut(valstring, val_len + s + 2) \o <<Point>>
               \o SubSeq(valstring, val_len + s + 2, val_len)
        ELSE IF s = 0 THEN Cut(valstring, val_len)
        ELSE Cut(valstring, val_len + 1) \o [k \in 1..s |-> Digit(0)]

(* A defined call: the point goes in front of the last -scale characters. *)
IntToFloatString(v, s) ==
    LET valstring == Decimal(v)
        val_len == Len(valstring)
    IN  IF s < 0
        THEN Cut(valstring, val_len + s + 1) \o <<Point>>
               \o SubSeq(valstring, val_len + s + 1, val_len)
        ELSE IF s = 0 THEN Cut(valstring, val_len)
        ELSE Cut(valstring, val_len + 1) \o [k \in 1..s |-> Digit(0)]

(* C's division and remainder truncate towards zero. *)
Quot(a, b) == IF a < 0 THEN -((-a) \div b) ELSE a \div b
Rem(a, b) == a - b * Quot(a, b)

(* 10^4 is the last power of ten an int16_t holds; with any other,           *)
(* int_from_float is undefined.                                            *)
PowerFits(s) == Abs(s) <= 4

(* Mutant: the remainder is cut off. *)
IntFromFloat_Truncates(v, s) ==
    IF s < 0 THEN Quot(v, 10^(-s)) ELSE v * 10^s

(* Cuts off the last -scale digits and adds 1 if they are half or more. *)
IntFromFloat(v, s) ==
    IF s < 0
    THEN LET val2 == Rem(v, 10^(-s))
             val1 == Quot(v - val2, 10^(-s))
         IN  IF val2 >= 10^(-s) \div 2 THEN val1 + 1 ELSE val1
    ELSE v * 10^s

-----------------------------------------------------------------------------
IsDigit(c) == c \in Digit(0)..Digit(9)

IsNegative(string) == string # <<>> /\ string[1] = Minus
Unsigned(string) == IF IsNegative(string) THEN Tail(string) ELSE string

(* A decimal number: an optional minus, then digits, one at least, with at   *)
(* most one point among them.                                              *)
IsNumber(string) ==
    LET body == Unsigned(string)
        points == {k \in DOMAIN body : body[k] = Point}
    IN  /\ \A k \in DOMAIN body : IsDigit(body[k]) \/ body[k] = Point
        /\ Cardinality(points) <= 1
        /\ \E k \in DOMAIN body : IsDigit(body[k])

Decimals(string) ==
    Cardinality({k \in DOMAIN string : \E j \in 1..k - 1 : string[j] = Point})

(* The number the digits of a string make *)
Whole(string) ==
    LET upTo[k \in 0..Len(string)] ==
            IF k = 0 THEN 0
            ELSE IF IsDigit(string[k]) THEN 10 * upTo[k - 1] + (string[k] - Digit(0))
            ELSE upTo[k - 1]
    IN  upTo[Len(string)]

(* The number a string stands for, times 10^Decimals. *)
Mantissa(string) ==
    IF IsNegative(string) THEN -Whole(Unsigned(string)) ELSE Whole(string)

(* string stands for v * 10^s *)
Reads(string, v, s) ==
    /\ IsNumber(string)
    /\ LET shift == s + Decimals(string)
       IN  IF shift >= 0 THEN Mantissa(string) = v * 10^shift
                         ELSE Mantissa(string) * 10^(-shift) = v

(* The readings int_to_floatstring writes in full: with a scale, and with as *)
(* many digits as it moves.  (For scale 0 the last digit is lost: -30      *)
(* comes out as "-3".)                                                     *)
Regular(v, s) == s # 0 /\ Defined(v, s) /\ Len(Decimal(Abs(v))) >= -s

(* n is an integer nearest to v * 10^s *)
Nearest(n, v, s) ==
    IF s < 0 THEN 2 * Abs(10^(-s) * n - v) <= 10^(-s) ELSE n = v * 10^s

=============================================================================

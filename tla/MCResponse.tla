------------------------------ MODULE MCResponse ------------------------------
(***************************************************************************)
(* Finite instance of Response for TLC: readings around the powers of ten, *)
(* and the ends of an int16_t, with every scale that moves the point       *)
(* within a reading, the last that still fit, the first that do not, and   *)
(* the ends of an int8_t (the sign, a carry into a further digit and fewer *)
(* digits than the scale are there); names below, at and above what        *)
(* dev_name[21] holds; units of no, one and several characters, and the    *)
(* percent sign.                                                           *)
(***************************************************************************)
EXTENDS Response

Around(n) == n - 1..n + 1
NonNegative == {0, 4, 5} \cup UNION {Around(n) : n \in {10, 15, 100, 9999, 32766}}
Vals == NonNegative \cup {-n : n \in NonNegative} \cup {-32768}

AllScales == {-128} \cup -6..6 \cup {8, 9, 127}

(* One value, or three of the extremes *)
AllReadings ==
    [val : {<<v>> : v \in Vals} \cup {<<v, v, v>> : v \in {-9999, 0, 9999}}, scale : AllScales]

AllNames == {0, 20, 32}
AllUnits == {<<>>, <<Percent>>, <<194, 176, 67>>, <<109, 98, 97, 114>>}
AllTokenLens == {0, 8}

=============================================================================

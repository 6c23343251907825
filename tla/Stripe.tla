-------------------------------- MODULE Stripe --------------------------------
(***************************************************************************)
(* What the LED driver promises its caller: a stripe of LEDs that takes    *)
(* over, in one step, the colours set so far.                              *)
(***************************************************************************)
EXTENDS Naturals

CONSTANTS
    Colors,      \* with a colour Dark
    Dark,
    Stock,       \* LEDs a stripe can have in the driver
    Length       \* LEDs the stripe has

VARIABLES
    count,       \* LEDs in use
    leds,        \* colours set
    strip        \* colours shown

vars == <<count, leds, strip>>

Init ==
    /\ count = 0
    /\ leds = [n \in 0..Stock - 1 |-> Dark]
    /\ strip = [n \in 0..Length - 1 |-> Dark]

Use ==
    /\ count' \in 0..Stock
    /\ UNCHANGED <<leds, strip>>

SetColor ==
    /\ \E n \in 0..count - 1, c \in Colors : leds' = [leds EXCEPT ![n] = c]
    /\ UNCHANGED <<count, strip>>

Show ==
    /\ strip' = [n \in 0..Length - 1 |-> IF n < count THEN leds[n] ELSE strip[n]]
    /\ UNCHANGED <<count, leds>>

Next == Use \/ SetColor \/ Show

Spec == Init /\ [][Next]_vars

=============================================================================

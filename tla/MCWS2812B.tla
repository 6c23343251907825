------------------------------ MODULE MCWS2812B ------------------------------
(***************************************************************************)
(* Finite instance of WS2812B for TLC: a stripe of two LEDs on a driver    *)
(* with room for three, so that frames are shorter than the stripe, as     *)
(* long, and longer.  The colours differ in the highest bits, the lowest   *)
(* ones and the order of the bytes.  The stripe has the timing the driver  *)
(* quotes, the core runs at 48 MHz, and between two pulses it needs seven  *)
(* cycles, fourteen from an LED to the next.                               *)
(***************************************************************************)
EXTENDS WS2812B

AllColors == {Dark, [r |-> 128, g |-> 1, b |-> 170], [r |-> 1, g |-> 85, b |-> 128]}

AllRests == [k \in 0..23 |-> IF k < 23 THEN 147 ELSE 294]

=============================================================================

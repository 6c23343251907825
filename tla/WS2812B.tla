------------------------------- MODULE WS2812B -------------------------------
(***************************************************************************)
(* The driver for WS2812B LED stripes (SenPhy/ws2812b_driver.c; testbed    *)
(* has the same file) and the stripe behind its pin.  ws2812b_show sends   *)
(* 24 pulses per LED, with interrupts disabled, and then waits.  The       *)
(* stripe tells a 0 from a 1 by the times a pulse is high and low, gives   *)
(* the first 24 bits to its first LED, and takes a pause for the end of    *)
(* the frame.                                                              *)
(*                                                                         *)
(* Which times it accepts is a parameter: two data sheets contradict each  *)
(* other, and the project's report says that neither timing worked         *)
(* (doc/main.tex:70-75).                                                   *)
(***************************************************************************)
EXTENDS Integers, Sequences

CONSTANTS
    MAX_LED_NUM, \* places in leds[]
    Counts,      \* led_count, as callers give it
    Colors,      \* colours callers set
    Length,      \* LEDs on the stripe
    NopNs,       \* duration of a NOP in nanoseconds
    RestNs,      \* the code between the pulse of bit k and the next one
    Timing       \* what the stripe takes for a 0 and for a 1

Color == [r : 0..255, g : 0..255, b : 0..255]
Dark == [r |-> 0, g |-> 0, b |-> 0]

(* NOPs while the pin is set, and behind that *)
SEND_ZERO == [high |-> 14, low |-> 33]
SEND_ONE == [high |-> 37, low |-> 8]

Nanoseconds(nops, k) == [high |-> NopNs * nops.high, low |-> NopNs * nops.low + RestNs[k]]

Takes(window, pulse) == pulse.high \in window.high /\ pulse.low \in window.low

(* The timing that the comments at SEND_ZERO and SEND_ONE quote *)
Quoted == [zero |-> [high |-> 250..550, low |-> 700..1000],
           one |-> [high |-> 650..950, low |-> 300..600]]

ASSUME WS2812BAssumption ==
    /\ MAX_LED_NUM \in Nat \ {0} /\ Length \in Nat
    /\ Counts \subseteq 0..MAX_LED_NUM   \* not checked by the driver
    /\ Colors \subseteq Color

(* The stripe is one the pulses were made for, and it can tell them apart.   *)
ASSUME TimingAssumption ==
    /\ NopNs \in Nat /\ RestNs \in [0..23 -> Nat]
    /\ Timing.zero.high \intersect Timing.one.high = {}
    /\ \A k \in 0..23 : /\ Takes(Timing.zero, Nanoseconds(SEND_ZERO, k))
                        /\ Takes(Timing.one, Nanoseconds(SEND_ONE, k))

VARIABLES
    led_count, leds,   \* ws2812b_stripe_t
    show,              \* where ws2812b_show stands
    i, bit,            \* the LED and the bit that are next
    irq,               \* interrupts are enabled
    irq_state,         \* they were when ws2812b_show disabled them
    line,              \* pulses since the last pause: times high and low
    strip              \* colours the stripe shows

driver == <<led_count, leds>>
vars == <<driver, show, i, bit, irq, irq_state, line, strip>>

Init ==
    /\ led_count = 0 /\ leds = [n \in 0..MAX_LED_NUM - 1 |-> Dark]  \* a global
    /\ show = "no"
    /\ i = 0 /\ bit = 0
    /\ irq = TRUE /\ irq_state = TRUE
    /\ line = <<>>
    /\ strip = [n \in 0..Length - 1 |-> Dark]

-----------------------------------------------------------------------------
(* The stripe.  What it does with any other pulse is not known. *)
BitRead(pulse) ==
    IF Takes(Timing.zero, pulse) THEN 0 ELSE IF Takes(Timing.one, pulse) THEN 1 ELSE 2

Pow2 == <<128, 64, 32, 16, 8, 4, 2, 1>>

ByteRead(first) ==
    LET Weight(k) == Pow2[k] * BitRead(line[first + k])
    IN  Weight(1) + Weight(2) + Weight(3) + Weight(4)
          + Weight(5) + Weight(6) + Weight(7) + Weight(8)

(* A pause, into which the last pulse runs: every LED that got its 24 bits   *)
(* shows them.                                                             *)
Latch ==
    /\ strip' = [n \in 0..Length - 1 |->
                   IF Len(line) < 24 * (n + 1) THEN strip[n]
                   ELSE [g |-> ByteRead(24 * n),
                         r |-> ByteRead(24 * n + 8),
                         b |-> ByteRead(24 * n + 16)]]
    /\ line' = <<>>

(* Whatever runs meanwhile takes longer than a pause. *)
Interrupt ==
    /\ irq
    /\ Latch
    /\ UNCHANGED <<driver, show, i, bit, irq, irq_state>>

-----------------------------------------------------------------------------
(* if(pixel->g & 0x80), ..., if(pixel->b & 0x01) *)
Mask(led, k) ==
    LET byte == IF k < 8 THEN led.g ELSE IF k < 16 THEN led.r ELSE led.b
    IN  (byte \div Pow2[(k % 8) + 1]) % 2 = 1

(* ws2812b_init: the pin can be initialised, or not. *)
InitStripe ==
    /\ show = "no"
    /\ led_count' \in Counts
    /\ UNCHANGED <<leds, show, i, bit, irq, irq_state, line, strip>>

(* ws2812b_set_color, with an index the stripe has *)
SetColor ==
    /\ show = "no"
    /\ \E index \in 0..MAX_LED_NUM - 1, led \in Colors :
         /\ index < led_count
         /\ leds' = [leds EXCEPT ![index] = led]
    /\ UNCHANGED <<led_count, show, i, bit, irq, irq_state, line, strip>>

(* Mutant: interrupts stay enabled. *)
Show_Interruptible ==
    /\ show = "no"
    /\ show' = "send"
    /\ i' = 0 /\ bit' = 0
    /\ irq_state' = irq
    /\ UNCHANGED <<driver, irq, line, strip>>

(* ws2812b_show: irq_disable *)
Show ==
    /\ show = "no"
    /\ show' = "send"
    /\ i' = 0 /\ bit' = 0
    /\ irq_state' = irq
    /\ irq' = FALSE
    /\ UNCHANGED <<driver, line, strip>>

Pulse(led, k) == Nanoseconds(IF Mask(led, k) THEN SEND_ONE ELSE SEND_ZERO, k)

SendBit ==
    /\ show = "send"
    /\ i < led_count
    /\ line' = Append(line, Pulse(leds[i], bit))
    /\ IF bit < 23 THEN bit' = bit + 1 /\ UNCHANGED i ELSE bit' = 0 /\ i' = i + 1
    /\ UNCHANGED <<driver, show, irq, irq_state, strip>>

(* Mutant: interrupts are not restored. *)
Sent_NoRestore ==
    /\ show = "send"
    /\ i = led_count
    /\ show' = "sleep"
    /\ UNCHANGED <<driver, i, bit, irq, irq_state, line, strip>>

(* irq_restore(irq_state) *)
Sent ==
    /\ show = "send"
    /\ i = led_count
    /\ show' = "sleep"
    /\ irq' = irq_state
    /\ UNCHANGED <<driver, i, bit, irq_state, line, strip>>

(* xtimer_usleep(50) *)
Sleep ==
    /\ show = "sleep"
    /\ show' = "no"
    /\ i' = 0 /\ bit' = 0
    /\ Latch
    /\ UNCHANGED <<driver, irq, irq_state>>

Next == InitStripe \/ SetColor \/ Show \/ SendBit \/ Sent \/ Sleep \/ Interrupt

(* With interrupts disabled the thread runs on, and a sleep ends. *)
Spec == Init /\ [][Next]_vars /\ WF_vars(SendBit) /\ WF_vars(Sent) /\ WF_vars(Sleep)

-----------------------------------------------------------------------------
Abstract == INSTANCE Stripe WITH
              Dark <- Dark, Stock <- MAX_LED_NUM, count <- led_count

(* ws2812b_show, with a stripe that accepts its pulses (TimingAssumption):   *)
(* whatever the caller does and whenever interrupts come, the stripe only  *)
(* ever changes to exactly the colours in leds[], all of them at once: the *)
(* bits come in the order green, red, blue, the highest first, no          *)
(* interrupt cuts a frame in two, and no frame is taken for the            *)
(* continuation of the one before.                                         *)
IsStripe == Abstract!Spec

(* ws2812b_show: a caller with interrupts enabled has them again, after any  *)
(* number of LEDs.                                                         *)
InterruptsComeBack == ~irq ~> irq

-----------------------------------------------------------------------------
(* What makes IsStripe inductive (WS2812BProofs). *)

Pulses == [high : Nat, low : Nat]

TypeOK ==
    /\ led_count \in 0..MAX_LED_NUM
    /\ leds \in [0..MAX_LED_NUM - 1 -> Color]
    /\ show \in {"no", "send", "sleep"}
    /\ i \in 0..led_count /\ bit \in 0..23
    /\ irq \in BOOLEAN /\ irq_state \in BOOLEAN
    /\ line \in Seq(Pulses)
    /\ strip \in [0..Length - 1 -> Color]

(* The pulses since the last pause are the first ones of a frame of leds. *)
IsFrame(length) ==
    /\ Len(line) = length
    /\ \A n \in 0..led_count - 1, k \in 0..23 :
          24 * n + k < length => line[24 * n + k + 1] = Pulse(leds[n], k)

(* Between two frames nothing is on the line, and no interrupt comes before  *)
(* a frame is complete.                                                    *)
FrameInv ==
    /\ show = "no" => line = <<>> /\ i = 0 /\ bit = 0
    /\ show = "send" => ~irq /\ IsFrame(24 * i + bit) /\ (i = led_count => bit = 0)
    /\ show = "sleep" => line = <<>> \/ IsFrame(24 * led_count)

=============================================================================

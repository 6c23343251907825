---------------------------- MODULE WS2812BProofs ----------------------------
(***************************************************************************)
(* Proofs about WS2812B for any number of LEDs in the driver and on the    *)
(* stripe, any colours, any clock and any stripe that takes the pulses.    *)
(***************************************************************************)
EXTENDS WS2812B, TLAPS

USE WS2812BAssumption

-----------------------------------------------------------------------------
(* What the stripe makes of the pulses.                                    *)

(* The stripe reads from a pulse the bit that the driver sent. *)
LEMMA PulseRead ==
    ASSUME NEW led, NEW k \in 0..23
    PROVE  /\ Pulse(led, k) \in Pulses
           /\ BitRead(Pulse(led, k)) = IF Mask(led, k) THEN 1 ELSE 0
<1>1. NopNs \in Nat /\ RestNs[k] \in Nat
  BY TimingAssumption
<1>2. CASE Mask(led, k)
  <2>1. Pulse(led, k) = Nanoseconds(SEND_ONE, k)
    BY <1>2, Zenon DEF Pulse
  <2>2. Takes(Timing.one, Pulse(led, k))
    BY <2>1, TimingAssumption, Zenon
  <2>3. ~Takes(Timing.zero, Pulse(led, k))
    BY <2>2, TimingAssumption DEF Takes
  <2>4. Pulse(led, k) \in Pulses
    BY <1>1, <2>1 DEF Nanoseconds, SEND_ONE, Pulses
  <2>. QED
    BY <1>2, <2>2, <2>3, <2>4, Zenon DEF BitRead
<1>3. CASE ~Mask(led, k)
  <2>1. Pulse(led, k) = Nanoseconds(SEND_ZERO, k)
    BY <1>3, Zenon DEF Pulse
  <2>2. Takes(Timing.zero, Pulse(led, k))
    BY <2>1, TimingAssumption, Zenon
  <2>4. Pulse(led, k) \in Pulses
    BY <1>1, <2>1 DEF Nanoseconds, SEND_ZERO, Pulses
  <2>. QED
    BY <1>3, <2>2, <2>4, Zenon DEF BitRead
<1>. QED
  BY <1>2, <1>3

(* A byte is the sum of its bits. *)
LEMMA ByteIsBits ==
    ASSUME NEW x \in 0..255
    PROVE  x = 128 * ((x \div 128) % 2) + 64 * ((x \div 64) % 2)
                 + 32 * ((x \div 32) % 2) + 16 * ((x \div 16) % 2)
                 + 8 * ((x \div 8) % 2) + 4 * ((x \div 4) % 2)
                 + 2 * ((x \div 2) % 2) + 1 * ((x \div 1) % 2)
  OBVIOUS

(* Eight pulses made of the bits of a byte, highest first, are read as it. *)
LEMMA ByteOfPulses ==
    ASSUME NEW x \in 0..255, NEW first \in Nat,
           \A k \in 1..8 : BitRead(line[first + k])
                             = IF (x \div Pow2[k]) % 2 = 1 THEN 1 ELSE 0
    PROVE  ByteRead(first) = x
<1>1. /\ Pow2[1] = 128 /\ Pow2[2] = 64 /\ Pow2[3] = 32 /\ Pow2[4] = 16
      /\ Pow2[5] = 8 /\ Pow2[6] = 4 /\ Pow2[7] = 2 /\ Pow2[8] = 1
  BY DEF Pow2
<1>2. ASSUME NEW k \in 1..8, NEW w \in {128, 64, 32, 16, 8, 4, 2, 1}, Pow2[k] = w
      PROVE  Pow2[k] * BitRead(line[first + k]) = w * ((x \div w) % 2)
  <2>1. (x \div w) % 2 \in {0, 1}
    OBVIOUS
  <2>. QED
    BY <1>2, <2>1
<1>3. ByteRead(first) = 128 * ((x \div 128) % 2) + 64 * ((x \div 64) % 2)
                          + 32 * ((x \div 32) % 2) + 16 * ((x \div 16) % 2)
                          + 8 * ((x \div 8) % 2) + 4 * ((x \div 4) % 2)
                          + 2 * ((x \div 2) % 2) + 1 * ((x \div 1) % 2)
  BY <1>1, <1>2 DEF ByteRead
<1>. QED
  BY <1>3, ByteIsBits

(* The stripe reads from the 24 pulses of an LED its colour. *)
LEMMA ColorOfPulses ==
    ASSUME NEW led \in Color, NEW n \in Nat,
           \A k \in 0..23 : line[24 * n + k + 1] = Pulse(led, k)
    PROVE  [g |-> ByteRead(24 * n),
            r |-> ByteRead(24 * n + 8),
            b |-> ByteRead(24 * n + 16)] = led
<1>0. /\ led.g \in 0..255 /\ led.r \in 0..255 /\ led.b \in 0..255
      /\ 24 * n \in Nat /\ 24 * n + 8 \in Nat /\ 24 * n + 16 \in Nat
  BY DEF Color
<1>1. \A k \in 0..23 : BitRead(line[24 * n + k + 1]) = IF Mask(led, k) THEN 1 ELSE 0
  BY PulseRead
<1>2. ByteRead(24 * n) = led.g
  <2>1. ASSUME NEW k \in 1..8
        PROVE  BitRead(line[24 * n + k]) = IF (led.g \div Pow2[k]) % 2 = 1 THEN 1 ELSE 0
    <3>1. k - 1 \in 0..23 /\ k - 1 < 8 /\ ((k - 1) % 8) + 1 = k /\ 24 * n + (k - 1) + 1 = 24 * n + k
      OBVIOUS
    <3>2. Mask(led, k - 1) <=> (led.g \div Pow2[k]) % 2 = 1
      BY <3>1 DEF Mask
    <3>. QED
      BY <1>1, <3>1, <3>2
  <2>. QED
    BY <1>0, <2>1, ByteOfPulses
<1>3. ByteRead(24 * n + 8) = led.r
  <2>1. ASSUME NEW k \in 1..8
        PROVE  BitRead(line[(24 * n + 8) + k]) = IF (led.r \div Pow2[k]) % 2 = 1 THEN 1 ELSE 0
    <3>1. /\ k + 7 \in 0..23 /\ ~(k + 7 < 8) /\ k + 7 < 16 /\ ((k + 7) % 8) + 1 = k
          /\ 24 * n + (k + 7) + 1 = (24 * n + 8) + k
      OBVIOUS
    <3>2. Mask(led, k + 7) <=> (led.r \div Pow2[k]) % 2 = 1
      BY <3>1 DEF Mask
    <3>. QED
      BY <1>1, <3>1, <3>2
  <2>. QED
    BY <1>0, <2>1, ByteOfPulses
<1>4. ByteRead(24 * n + 16) = led.b
  <2>1. ASSUME NEW k \in 1..8
        PROVE  BitRead(line[(24 * n + 16) + k]) = IF (led.b \div Pow2[k]) % 2 = 1 THEN 1 ELSE 0
    <3>1. /\ k + 15 \in 0..23 /\ ~(k + 15 < 8) /\ ~(k + 15 < 16) /\ ((k + 15) % 8) + 1 = k
          /\ 24 * n + (k + 15) + 1 = (24 * n + 16) + k
      OBVIOUS
    <3>2. Mask(led, k + 15) <=> (led.b \div Pow2[k]) % 2 = 1
      BY <3>1 DEF Mask
    <3>. QED
      BY <1>1, <3>1, <3>2
  <2>. QED
    BY <1>0, <2>1, ByteOfPulses
<1>. QED
  BY <1>2, <1>3, <1>4 DEF Color

(* A pause behind a frame of any number of LEDs makes the stripe show it. *)
LEMMA LatchShows ==
    ASSUME TypeOK, IsFrame(24 * led_count), Latch
    PROVE  strip' = [n \in 0..Length - 1 |-> IF n < led_count THEN leds[n] ELSE strip[n]]
<1>1. led_count \in Nat /\ led_count <= MAX_LED_NUM /\ Len(line) = 24 * led_count
  BY DEF TypeOK, IsFrame
<1>2. ASSUME NEW n \in 0..Length - 1, n < led_count
      PROVE  [g |-> ByteRead(24 * n),
              r |-> ByteRead(24 * n + 8),
              b |-> ByteRead(24 * n + 16)] = leds[n]
  <2>1. n \in Nat /\ n \in 0..led_count - 1 /\ n \in 0..MAX_LED_NUM - 1
    BY <1>1, <1>2
  <2>2. leds[n] \in Color
    BY <2>1 DEF TypeOK
  <2>3. \A k \in 0..23 : line[24 * n + k + 1] = Pulse(leds[n], k)
    <3>. TAKE k \in 0..23
    <3>1. 24 * n + k < 24 * led_count
      BY <1>1, <1>2, <2>1
    <3>. QED
      BY <2>1, <3>1 DEF IsFrame
  <2>. QED
    BY <2>1, <2>2, <2>3, ColorOfPulses
<1>3. \A n \in 0..Length - 1 : Len(line) < 24 * (n + 1) <=> ~(n < led_count)
  BY <1>1
<1>. QED
  BY <1>2, <1>3 DEF Latch

(* A second pause changes nothing. *)
LEMMA LatchNothing ==
    ASSUME TypeOK, line = <<>>, Latch
    PROVE  strip' = strip
<1>1. \A n \in 0..Length - 1 : Len(line) < 24 * (n + 1)
  OBVIOUS
<1>. QED
  BY <1>1 DEF Latch, TypeOK

-----------------------------------------------------------------------------
(* The invariant.                                                          *)

FrameOK == TypeOK /\ FrameInv

(* A pause leaves nothing on the line. *)
LEMMA LatchStep ==
    ASSUME FrameOK, show # "send", Latch
    PROVE  /\ \/ strip' = strip
              \/ strip' = [n \in 0..Length - 1 |-> IF n < led_count THEN leds[n] ELSE strip[n]]
           /\ strip' \in [0..Length - 1 -> Color]
           /\ line' = <<>> /\ line' \in Seq(Pulses)
<1>1. line = <<>> \/ IsFrame(24 * led_count)
  BY DEF FrameOK, FrameInv, TypeOK
<1>2. \/ strip' = strip
      \/ strip' = [n \in 0..Length - 1 |-> IF n < led_count THEN leds[n] ELSE strip[n]]
  BY <1>1, LatchShows, LatchNothing DEF FrameOK
<1>3. \A n \in 0..Length - 1 : n < led_count => leds[n] \in Color
  BY DEF FrameOK, TypeOK
<1>4. strip' \in [0..Length - 1 -> Color]
  BY <1>2, <1>3 DEF FrameOK, TypeOK
<1>5. line' = <<>>
  BY DEF Latch
<1>. QED
  BY <1>2, <1>4, <1>5

(* The next pulse is the next one of the frame. *)
LEMMA SendBitFrame ==
    ASSUME FrameOK, SendBit
    PROVE  FrameOK'
<1>1. /\ show = "send" /\ ~irq /\ IsFrame(24 * i + bit) /\ i < led_count
      /\ i \in Nat /\ bit \in 0..23 /\ led_count \in Nat /\ line \in Seq(Pulses)
  BY DEF FrameOK, FrameInv, TypeOK, SendBit
<1>2. UNCHANGED <<led_count, leds, show, irq, irq_state, strip>>
  BY DEF SendBit, driver
<1>3. line' = Append(line, Pulse(leds[i], bit)) /\ Pulse(leds[i], bit) \in Pulses
  BY <1>1, PulseRead DEF SendBit
<1>4. /\ line' \in Seq(Pulses) /\ Len(line') = Len(line) + 1
      /\ \A m \in 1..Len(line) : line'[m] = line[m]
      /\ line'[Len(line) + 1] = Pulse(leds[i], bit)
  BY <1>1, <1>3
<1>5. /\ i' \in 0..led_count /\ bit' \in 0..23 /\ 24 * i' + bit' = (24 * i + bit) + 1
      /\ i' = led_count => bit' = 0
  <2>1. CASE bit < 23
    BY <1>1, <2>1 DEF SendBit
  <2>2. CASE bit = 23
    BY <1>1, <2>2 DEF SendBit
  <2>. QED
    BY <1>1, <2>1, <2>2
<1>6. IsFrame(24 * i + bit)'
  <2>1. Len(line) = 24 * i + bit
    BY <1>1 DEF IsFrame
  <2>2. ASSUME NEW n \in 0..led_count - 1, NEW k \in 0..23, 24 * n + k < (24 * i + bit) + 1
        PROVE  line'[24 * n + k + 1] = Pulse(leds[n], k)
    <3>1. CASE 24 * n + k < 24 * i + bit
      <4>1. 24 * n + k + 1 \in 1..Len(line)
        BY <2>1, <3>1
      <4>2. line[24 * n + k + 1] = Pulse(leds[n], k)
        BY <1>1, <3>1 DEF IsFrame
      <4>. QED
        BY <1>4, <4>1, <4>2
    <3>2. CASE 24 * n + k = 24 * i + bit
      <4>1. n = i /\ k = bit
        BY <1>1, <3>2
      <4>. QED
        BY <1>4, <2>1, <4>1
    <3>. QED
      BY <1>1, <2>2, <3>1, <3>2
  <2>3. \A led, k : Pulse(led, k)' = Pulse(led, k)
    BY DEF Pulse, Mask, Nanoseconds
  <2>. QED
    BY <1>2, <1>4, <1>5, <2>1, <2>2, <2>3 DEF IsFrame
<1>. QED
  BY <1>1, <1>2, <1>4, <1>5, <1>6 DEF FrameOK, FrameInv, TypeOK

(* Every step keeps the invariant. *)
LEMMA FrameStep == FrameOK /\ [Next]_vars => FrameOK'
<1>. SUFFICES ASSUME FrameOK, [Next]_vars PROVE FrameOK'
  OBVIOUS
<1>1. CASE InitStripe
  BY <1>1 DEF InitStripe, FrameOK, FrameInv, TypeOK
<1>2. CASE SetColor
  <2>1. leds' \in [0..MAX_LED_NUM - 1 -> Color]
    BY <1>2 DEF SetColor, FrameOK, TypeOK
  <2>. QED
    BY <1>2, <2>1 DEF SetColor, FrameOK, FrameInv, TypeOK
<1>3. CASE Show
  <2>1. line = <<>> /\ UNCHANGED <<led_count, leds, line, strip>>
    BY <1>3 DEF Show, FrameOK, FrameInv, driver
  <2>2. IsFrame(24 * i + bit)'
    <3>1. i' = 0 /\ bit' = 0 /\ Len(line') = 0
      BY <1>3, <2>1 DEF Show
    <3>2. \A n \in 0..led_count - 1, k \in 0..23 : ~(24 * n + k < 24 * 0 + 0)
      BY DEF FrameOK, TypeOK
    <3>. QED
      BY <2>1, <3>1, <3>2 DEF IsFrame
  <2>. QED
    BY <1>3, <2>1, <2>2 DEF Show, FrameOK, FrameInv, TypeOK
<1>4. CASE SendBit
  BY <1>4, SendBitFrame
<1>5. CASE Sent
  <2>1. IsFrame(24 * led_count)
    BY <1>5 DEF Sent, FrameOK, FrameInv, TypeOK
  <2>2. UNCHANGED <<led_count, leds, i, bit, irq_state, line, strip>>
    BY <1>5 DEF Sent, driver
  <2>3. IsFrame(24 * led_count)'
    BY <2>1, <2>2 DEF IsFrame
  <2>. QED
    BY <1>5, <2>2, <2>3 DEF Sent, FrameOK, FrameInv, TypeOK
<1>6. CASE Sleep
  <2>1. strip' \in [0..Length - 1 -> Color] /\ line' = <<>> /\ line' \in Seq(Pulses)
    BY <1>6, LatchStep DEF Sleep
  <2>2. led_count' = led_count /\ led_count \in Nat
    BY <1>6 DEF Sleep, driver, FrameOK, TypeOK
  <2>. QED
    BY <1>6, <2>1, <2>2 DEF Sleep, driver, FrameOK, FrameInv, TypeOK
<1>7. CASE Interrupt
  <2>1. show # "send"
    BY <1>7 DEF Interrupt, FrameOK, FrameInv
  <2>2. strip' \in [0..Length - 1 -> Color] /\ line' = <<>> /\ line' \in Seq(Pulses)
    BY <1>7, <2>1, LatchStep DEF Interrupt
  <2>. QED
    BY <1>7, <2>1, <2>2 DEF Interrupt, driver, FrameOK, FrameInv, TypeOK
<1>8. CASE UNCHANGED vars
  <2>1. UNCHANGED <<led_count, leds, show, i, bit, irq, irq_state, line, strip>>
    BY <1>8 DEF vars, driver
  <2>2. IsFrame(24 * i + bit)' = IsFrame(24 * i + bit) /\ IsFrame(24 * led_count)' = IsFrame(24 * led_count)
    BY <2>1 DEF IsFrame
  <2>. QED
    BY <2>1, <2>2 DEF FrameOK, FrameInv, TypeOK
<1>. QED
  BY <1>1, <1>2, <1>3, <1>4, <1>5, <1>6, <1>7, <1>8 DEF Next

-----------------------------------------------------------------------------
(* The stripe that the driver's caller sees.                               *)

(* Every step is one of the stripe, or changes nothing that it shows. *)
LEMMA StripeStep ==
    ASSUME FrameOK, FrameOK', [Next]_vars
    PROVE  [Abstract!Next]_(Abstract!vars)
<1>. USE DEF Abstract!Next, Abstract!vars
<1>1. CASE InitStripe
  BY <1>1 DEF InitStripe, Abstract!Use, FrameOK, TypeOK
<1>2. CASE SetColor
  <2>1. PICK index \in 0..MAX_LED_NUM - 1, led \in Colors :
          index < led_count /\ leds' = [leds EXCEPT ![index] = led]
    BY <1>2 DEF SetColor
  <2>2. index \in 0..led_count - 1
    BY <2>1 DEF FrameOK, TypeOK
  <2>. QED
    BY <1>2, <2>1, <2>2 DEF SetColor, Abstract!SetColor
<1>3. CASE Sleep \/ Interrupt
  <2>1. show # "send" /\ Latch /\ UNCHANGED <<led_count, leds>>
    BY <1>3 DEF Sleep, Interrupt, FrameOK, FrameInv, driver
  <2>2. \/ strip' = strip
        \/ strip' = [n \in 0..Length - 1 |-> IF n < led_count THEN leds[n] ELSE strip[n]]
    BY <2>1, LatchStep
  <2>. QED
    BY <2>1, <2>2 DEF Abstract!Show
<1>4. CASE Show \/ SendBit \/ Sent \/ UNCHANGED vars
  BY <1>4 DEF Show, SendBit, Sent, vars, driver
<1>. QED
  BY <1>1, <1>2, <1>3, <1>4 DEF Next

(* ws2812b_show, pulse by pulse, with interrupts and pauses in between,     *)
(* implements a stripe that takes over all colours in one step, for any    *)
(* number of LEDs, any colours, any clock, and any stripe that takes the   *)
(* pulses of the driver for what they are meant.                           *)
THEOREM ImplementsStripe == Spec => IsStripe
<1>1. Init => FrameOK
  <2>1. Dark \in Color
    BY DEF Dark, Color
  <2>. QED
    BY <2>1 DEF Init, FrameOK, FrameInv, TypeOK
<1>2. Init => Abstract!Init
  BY DEF Init, Abstract!Init
<1>3. FrameOK /\ FrameOK' /\ [Next]_vars => [Abstract!Next]_(Abstract!vars)
  BY StripeStep
<1>. QED
  BY <1>1, <1>2, <1>3, FrameStep, PTL DEF Spec, IsStripe, Abstract!Spec

(* SEND_ZERO, SEND_ONE: what the timing of their own comments demands, for   *)
(* a core of 40 to 55 MHz.  The times high are right; the eight NOPs       *)
(* behind a 1 are too short by themselves, so that the code between two    *)
(* pulses, which the driver does not count, must take its share, neither   *)
(* too little nor, behind a 0, too much.                                   *)
THEOREM QuotedTiming ==
    ASSUME NopNs \in 18..25, NEW k \in 0..23
    PROVE  (/\ Takes(Quoted.zero, Nanoseconds(SEND_ZERO, k))
            /\ Takes(Quoted.one, Nanoseconds(SEND_ONE, k)))
             <=> RestNs[k] \in 300 - 8 * NopNs..1000 - 33 * NopNs
<1>1. PICK rest \in Nat : rest = RestNs[k]
  BY TimingAssumption
<1>2. NopNs * 14 \in 250..550 /\ NopNs * 37 \in 650..950
  OBVIOUS
<1>3. Takes(Quoted.zero, Nanoseconds(SEND_ZERO, k)) <=> NopNs * 33 + rest \in 700..1000
  BY <1>1, <1>2 DEF Takes, Quoted, Nanoseconds, SEND_ZERO
<1>4. Takes(Quoted.one, Nanoseconds(SEND_ONE, k)) <=> NopNs * 8 + rest \in 300..600
  BY <1>1, <1>2 DEF Takes, Quoted, Nanoseconds, SEND_ONE
<1>5. NopNs * 33 + rest \in 700..1000 /\ NopNs * 8 + rest \in 300..600
        <=> rest \in 300 - 8 * NopNs..1000 - 33 * NopNs
  OBVIOUS
<1>. QED
  BY <1>1, <1>3, <1>4, <1>5

=============================================================================

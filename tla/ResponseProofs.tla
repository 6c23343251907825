--------------------------- MODULE ResponseProofs ---------------------------
(***************************************************************************)
(* Theorems about Response, for any names, units, readings and tokens.     *)
(***************************************************************************)
EXTENDS Response, FiniteSetTheorems, SequenceTheorems, TLAPS

-----------------------------------------------------------------------------
(* Characters, and counting without induction.                             *)

Char == 0..255

LEMMA UpTo == ASSUME NEW n \in Nat, NEW m \in Nat, n <= m PROVE n \in 0..m
  OBVIOUS

LEMMA Int16Type == ASSUME NEW v \in Int16 PROVE v \in Int
  BY DEF Int16

LEMMA AbsType == ASSUME NEW v \in Int PROVE Abs(v) \in Nat
<1>1. CASE v < 0
  BY <1>1 DEF Abs
<1>2. CASE ~(v < 0)
  BY <1>2 DEF Abs
<1> QED BY <1>1, <1>2

LEMMA CharType == ASSUME NEW c \in Char PROVE c \in Int
  BY DEF Char

(* Induction up to nine, which is as long as a text gets: the provers do not *)
(* find induction by themselves.                                           *)
LEMMA Upwards ==
    ASSUME NEW n \in 0..9, NEW S, 0 \in S, \A k \in 0..n - 1 : k \in S => k + 1 \in S
    PROVE  \A k \in 0..n : k \in S
<1>1. n >= 1 => 1 \in S
  BY SMT
<1>2. n >= 2 => 2 \in S
  BY <1>1
<1>3. n >= 3 => 3 \in S
  BY <1>2
<1>4. n >= 4 => 4 \in S
  BY <1>3
<1>5. n >= 5 => 5 \in S
  BY <1>4
<1>6. n >= 6 => 6 \in S
  BY <1>5
<1>7. n >= 7 => 7 \in S
  BY <1>6
<1>8. n >= 8 => 8 \in S
  BY <1>7
<1>9. n >= 9 => 9 \in S
  BY <1>8
<1>10. ASSUME NEW k \in 0..n PROVE k \in S
  <2>1. \/ k = 0 \/ k = 1 \/ k = 2 \/ k = 3 \/ k = 4
        \/ k = 5 \/ k = 6 \/ k = 7 \/ k = 8 \/ k = 9
    OBVIOUS
  <2> QED BY <2>1, <1>1, <1>2, <1>3, <1>4, <1>5, <1>6, <1>7, <1>8, <1>9
<1> QED BY <1>10

-----------------------------------------------------------------------------
(* The digits of a number.                                                *)

(* f adds up the digits of a string from the left, up to the n-th.         *)
Accumulates(f, string, n) ==
    /\ f \in [0..n -> Int]
    /\ f[0] = 0
    /\ \A k \in 1..n : f[k] = IF IsDigit(string[k]) THEN 10 * f[k - 1] + (string[k] - Digit(0))
                              ELSE f[k - 1]

(* There is one such function for every text, and Whole is its last value.   *)
LEMMA WholeAccumulates ==
    ASSUME NEW string \in Seq(Char), Len(string) <= 9
    PROVE  \E f : Accumulates(f, string, Len(string)) /\ Whole(string) = f[Len(string)]
<1> DEFINE length == Len(string)
           S == {n \in 0..length : \E f : Accumulates(f, string, n)}
           step(f) == [k \in 0..length |->
                         IF k = 0 THEN 0
                         ELSE IF IsDigit(string[k]) THEN 10 * f[k - 1] + (string[k] - Digit(0))
                         ELSE f[k - 1]]
           upTo == CHOOSE f : f = step(f)
<1>1. length \in 0..9
  <2>1. Len(string) \in Nat
    BY LenProperties
  <2> QED BY <2>1, UpTo
<1>2. 0 \in S
  <2>1. Accumulates([k \in 0..0 |-> 0], string, 0)
    BY DEF Accumulates
  <2> QED BY <1>1, <2>1
<1>3. ASSUME NEW n \in 0..length - 1, n \in S PROVE n + 1 \in S
  <2>1. PICK f : Accumulates(f, string, n)
    BY <1>3
  <2> DEFINE g == [k \in 0..n + 1 |->
                     IF k <= n THEN f[k]
                     ELSE IF IsDigit(string[k]) THEN 10 * f[n] + (string[k] - Digit(0)) ELSE f[n]]
  <2>2. n \in 0..n /\ f[n] \in Int /\ \A k \in 0..n : f[k] \in Int
    BY <2>1 DEF Accumulates
  <2>3. n + 1 \in 1..length /\ string[n + 1] \in Int
    <3>1. n + 1 \in 1..length
      BY <1>1
    <3>2. string[n + 1] \in Char
      BY <3>1, ElementOfSeq, Zenon
    <3> QED BY <3>1, <3>2, CharType, Zenon
  <2>4. g \in [0..n + 1 -> Int]
    <3>1. ASSUME NEW k \in 0..n + 1
          PROVE  (IF k <= n THEN f[k]
                  ELSE IF IsDigit(string[k]) THEN 10 * f[n] + (string[k] - Digit(0))
                  ELSE f[n]) \in Int
      <4>1. CASE k <= n
        BY <4>1, <2>2
      <4>2. CASE ~(k <= n)
        <5>1. k = n + 1
          BY <4>2
        <5>2. 10 * f[n] + (string[n + 1] - 48) \in Int
          BY <2>2, <2>3
        <5> QED BY <4>2, <5>1, <5>2, <2>2 DEF Digit
      <4> QED BY <4>1, <4>2
    <3> QED BY <3>1
  <2>5. ASSUME NEW k \in 1..n + 1
        PROVE  g[k] = IF IsDigit(string[k]) THEN 10 * g[k - 1] + (string[k] - Digit(0))
                      ELSE g[k - 1]
    <3>1. g[k - 1] = f[k - 1]
      OBVIOUS
    <3>2. CASE k <= n
      <4>1. k \in 1..n /\ g[k] = f[k]
        BY <3>2
      <4> HIDE DEF g
      <4> QED BY <4>1, <3>1, <2>1 DEF Accumulates
    <3>3. CASE ~(k <= n)
      BY <3>1, <3>3
    <3> QED BY <3>2, <3>3
  <2>6. g[0] = 0
    BY <2>1 DEF Accumulates
  <2> HIDE DEF g
  <2>7. Accumulates(g, string, n + 1)
    BY <2>4, <2>5, <2>6 DEF Accumulates
  <2>8. n + 1 \in 0..length
    BY <2>3
  <2> QED BY <2>7, <2>8
<1> HIDE DEF S
<1>4. \A k \in 0..length : k \in S
  BY <1>1, <1>2, <1>3, Upwards
<1>5. length \in S
  BY <1>1, <1>4
<1>6. PICK f : Accumulates(f, string, length)
  BY <1>5 DEF S
<1>7. f = step(f)
  <2>1. ASSUME NEW k \in 0..length PROVE f[k] = step(f)[k]
    <3>1. k = 0 \/ k \in 1..length
      BY <1>1
    <3> HIDE DEF length
    <3> QED BY <1>6, <3>1 DEF Accumulates
  <2> HIDE DEF length
  <2> QED BY <1>6, <2>1 DEF Accumulates
<1>8. upTo = step(upTo)
  BY <1>7, Zenon
<1>9. Whole(string) = upTo[length]
  BY Zenon DEF Whole
<1> HIDE DEF upTo
<1>10. Accumulates(upTo, string, length)
  <2> DEFINE T == {k \in 0..length : upTo[k] \in Int}
  <2>1. 0 \in T
    <3>1. upTo[0] = 0
      BY <1>1, <1>8
    <3> QED BY <3>1, <1>1
  <2>2. ASSUME NEW k \in 1..length
        PROVE  upTo[k] = IF IsDigit(string[k]) THEN 10 * upTo[k - 1] + (string[k] - Digit(0))
                         ELSE upTo[k - 1]
    <3>1. k \in 0..length /\ k # 0
      OBVIOUS
    <3>2. upTo[k] = step(upTo)[k]
      BY <1>8
    <3> QED BY <3>1, <3>2
  <2>3. ASSUME NEW k \in 0..length - 1, k \in T PROVE k + 1 \in T
    <3>1. k + 1 \in 1..length /\ k + 1 \in 0..length
      BY <1>1
    <3>2. string[k + 1] \in Int
      <4>1. string[k + 1] \in Char
        BY <3>1, ElementOfSeq, Zenon
      <4> QED BY <4>1, CharType, Zenon
    <3>3. upTo[k + 1] = IF IsDigit(string[k + 1]) THEN 10 * upTo[k] + (string[k + 1] - Digit(0))
                        ELSE upTo[k]
      BY <3>1, <2>2
    <3>4. 10 * upTo[k] + (string[k + 1] - 48) \in Int
      BY <3>2, <2>3
    <3> QED BY <3>1, <3>3, <3>4, <2>3 DEF Digit
  <2> HIDE DEF T
  <2>4. \A k \in 0..length : k \in T
    BY <1>1, <2>1, <2>3, Upwards
  <2>5. upTo \in [0..length -> Int] /\ upTo[0] = 0
    <3>1. \A k \in 0..length : upTo[k] \in Int
      BY <2>4 DEF T
    <3>2. upTo[0] = step(upTo)[0]
      BY <1>8
    <3> QED BY <1>1, <1>8, <3>1, <3>2
  <2> QED BY <2>2, <2>5 DEF Accumulates
<1> QED BY <1>9, <1>10

(* The powers of ten, as a table *)
IsTable(P) ==
    /\ P \in [0..8 -> Nat]
    /\ P[0] = 1 /\ P[1] = 10 /\ P[2] = 100 /\ P[3] = 1000 /\ P[4] = 10000 /\ P[5] = 100000
    /\ P[6] = 1000000 /\ P[7] = 10000000 /\ P[8] = 100000000

(* 10^k, for the k that occur *)
LEMMA Powers == \E P : IsTable(P) /\ \A k \in 0..8 : 10^k = P[k]
<1> DEFINE P == [k \in 0..8 |-> IF k = 0 THEN 1 ELSE IF k = 1 THEN 10 ELSE IF k = 2 THEN 100
                                ELSE IF k = 3 THEN 1000 ELSE IF k = 4 THEN 10000
                                ELSE IF k = 5 THEN 100000 ELSE IF k = 6 THEN 1000000
                                ELSE IF k = 7 THEN 10000000 ELSE 100000000]
<1>1. IsTable(P)
  BY SMT DEF IsTable
<1> HIDE DEF P
<1>2. ASSUME NEW k \in 0..8 PROVE 10^k = P[k]
  <2>1. k = 0 \/ k = 1 \/ k = 2 \/ k = 3 \/ k = 4 \/ k = 5 \/ k = 6 \/ k = 7 \/ k = 8
    OBVIOUS
  <2>2. 10^0 = P[0] /\ 10^1 = P[1] /\ 10^2 = P[2] /\ 10^3 = P[3]
    BY <1>1, SMT DEF IsTable
  <2>3. 10^4 = P[4] /\ 10^5 = P[5]
    BY <1>1, SMT DEF IsTable
  <2>4. 10^6 = P[6] /\ 10^7 = P[7] /\ 10^8 = P[8]
    BY <1>1, SMT DEF IsTable
  <2> QED BY <2>1, <2>2, <2>3, <2>4, Zenon
<1> QED BY <1>1, <1>2

(* q without its last e digits is q without its last e + 1 digits, and one   *)
(* digit behind it.                                                        *)
LEMMA Divide ==
    ASSUME NEW q \in Nat, NEW e \in 0..4
    PROVE  /\ q \div (10^e) = 10 * (q \div (10^(e + 1))) + ((q \div (10^e)) % 10)
           /\ (q \div (10^e)) % 10 \in 0..9
           /\ q \div (10^e) \in Nat
<1>1. PICK P : IsTable(P) /\ \A k \in 0..8 : 10^k = P[k]
  BY Powers
<1> DEFINE Step(d, c) == /\ q \div d = 10 * (q \div c) + ((q \div d) % 10)
                         /\ (q \div d) % 10 \in 0..9
                         /\ q \div d \in Nat
<1>2. Step(1, 10) /\ Step(10, 100) /\ Step(100, 1000)
  BY SMT
<1>3. Step(1000, 10000)
  BY SMTT(30)
<1>4. Step(10000, 100000)
  BY SMTT(30)
<1> HIDE DEF Step
<1>5. e = 0 \/ e = 1 \/ e = 2 \/ e = 3 \/ e = 4
  OBVIOUS
<1>6. Step(P[0], P[1]) /\ Step(P[1], P[2]) /\ Step(P[2], P[3]) /\ Step(P[3], P[4])
      /\ Step(P[4], P[5])
  BY <1>1, <1>2, <1>3, <1>4, SMT DEF IsTable
<1>7. Step(P[e], P[e + 1])
  <2>1. 0 + 1 = 1 /\ 1 + 1 = 2 /\ 2 + 1 = 3 /\ 3 + 1 = 4 /\ 4 + 1 = 5
    OBVIOUS
  <2> QED BY <1>5, <1>6, <2>1, Zenon
<1>8. 10^e = P[e] /\ 10^(e + 1) = P[e + 1]
  <2>1. e \in 0..8 /\ e + 1 \in 0..8
    OBVIOUS
  <2> QED BY <1>1, <2>1, Zenon
<1>9. Step(10^e, 10^(e + 1))
  BY <1>7, <1>8, Zenon
<1> QED BY <1>9, Zenon DEF Step

(* The number of digits that "%d" writes *)
Width(q) == 1 + Cardinality({k \in 1..4 : q >= 10^k})

(* It is one to five, and there are no further digits.                       *)
LEMMA WidthBounds ==
    ASSUME NEW q \in Nat, q < 10^5
    PROVE  Width(q) \in 1..5 /\ q \div (10^Width(q)) = 0
<1>1. PICK P : IsTable(P) /\ \A k \in 0..8 : 10^k = P[k]
  BY Powers
<1> DEFINE powers == {k \in 1..4 : q >= P[k]}
<1>2. Width(q) = 1 + Cardinality(powers)
  <2>1. \A k \in 1..4 : k \in 0..8
    OBVIOUS
  <2>2. {k \in 1..4 : q >= 10^k} = powers
    BY <1>1, <2>1, Zenon
  <2> QED BY <2>2, Zenon DEF Width
<1>3. q < P[5]
  <2>1. 5 \in 0..8
    OBVIOUS
  <2> QED BY <1>1, <2>1, Zenon
<1>4. PICK w \in 1..5 : q < P[w] /\ \A k \in 1..4 : q >= P[k] <=> k < w
  <2>1. CASE q < 10
    <3>1. q < P[1] /\ \A k \in 1..4 : q >= P[k] <=> k < 1
      BY <1>1, <2>1, SMT DEF IsTable
    <3> QED BY <3>1
  <2>2. CASE q >= 10 /\ q < 100
    <3>1. q < P[2] /\ \A k \in 1..4 : q >= P[k] <=> k < 2
      BY <1>1, <2>2, SMT DEF IsTable
    <3> QED BY <3>1
  <2>3. CASE q >= 100 /\ q < 1000
    <3>1. q < P[3] /\ \A k \in 1..4 : q >= P[k] <=> k < 3
      BY <1>1, <2>3, SMT DEF IsTable
    <3> QED BY <3>1
  <2>4. CASE q >= 1000 /\ q < 10000
    <3>1. q < P[4] /\ \A k \in 1..4 : q >= P[k] <=> k < 4
      BY <1>1, <2>4, SMT DEF IsTable
    <3> QED BY <3>1
  <2>5. CASE q >= 10000
    <3>1. q < P[5] /\ \A k \in 1..4 : q >= P[k] <=> k < 5
      BY <1>1, <1>3, <2>5, SMT DEF IsTable
    <3> QED BY <3>1
  <2> QED BY <2>1, <2>2, <2>3, <2>4, <2>5, SMT
<1>5. Width(q) = w
  <2>1. powers = 1..w - 1
    BY <1>4, SMT
  <2> HIDE DEF powers
  <2>2. Cardinality(1..w - 1) = w - 1
    <3>1. 1 \in Int /\ w - 1 \in Int
      OBVIOUS
    <3>2. Cardinality(1..w - 1) = IF 1 > w - 1 THEN 0 ELSE w - 1 - 1 + 1
      BY <3>1, FS_Interval, Zenon
    <3> QED BY <3>2
  <2>3. Width(q) = 1 + (w - 1)
    BY <1>2, <2>1, <2>2, Zenon
  <2> QED BY <2>3
<1>6. q \div (10^w) = 0
  <2>1. P[w] \in Nat \ {0}
    BY <1>1, SMT DEF IsTable
  <2>2. ASSUME NEW d \in Nat \ {0}, q < d PROVE q \div d = 0
    BY <2>2
  <2>3. q \div P[w] = 0
    BY <1>4, <2>1, <2>2
  <2>4. w \in 0..8
    OBVIOUS
  <2> QED BY <1>1, <2>3, <2>4, Zenon
<1> QED BY <1>5, <1>6, Zenon

(* The k-th digit that "%d" writes of q *)
Figure(q, k) == Digit((q \div (10^(Width(q) - k))) % 10)

(* It is a digit, the one that Divide adds.                                  *)
LEMMA FigureType ==
    ASSUME NEW q \in Nat, q < 10^5, NEW k \in 1..Width(q)
    PROVE  /\ Figure(q, k) \in Char /\ IsDigit(Figure(q, k))
           /\ Figure(q, k) # Point /\ Figure(q, k) # Minus
           /\ q \div (10^(Width(q) - k)) =
                10 * (q \div (10^(Width(q) - (k - 1)))) + (Figure(q, k) - Digit(0))
           /\ q \div (10^(Width(q) - k)) \in Nat
<1>1. PICK w \in 1..5 : w = Width(q)
  BY WidthBounds
<1>2. PICK e \in 0..4 : e = w - k /\ e + 1 = w - (k - 1)
  BY <1>1
<1>3. PICK d : d = (q \div (10^e)) % 10
  OBVIOUS
<1>4. /\ q \div (10^e) = 10 * (q \div (10^(e + 1))) + d
      /\ d \in 0..9 /\ q \div (10^e) \in Nat
  BY <1>3, Divide, Zenon
<1>5. Figure(q, k) = Digit(d)
  BY <1>1, <1>2, <1>3, Zenon DEF Figure
<1>6. Digit(d) - Digit(0) = d
  BY <1>4 DEF Digit
<1>7. Digit(d) \in Char /\ IsDigit(Digit(d)) /\ Digit(d) # Point /\ Digit(d) # Minus
  BY <1>4 DEF Digit, Char, IsDigit, Point, Minus
<1>8. q \div (10^(Width(q) - k)) =
         10 * (q \div (10^(Width(q) - (k - 1)))) + (Figure(q, k) - Digit(0))
  BY <1>1, <1>2, <1>4, <1>5, <1>6, Zenon
<1>9. q \div (10^(Width(q) - k)) \in Nat
  BY <1>1, <1>2, <1>4, Zenon
<1> QED BY <1>5, <1>7, <1>8, <1>9, Zenon

(* One step of the adding up                                                 *)
LEMMA Adds ==
    ASSUME NEW n, NEW string, NEW f, Accumulates(f, string, n),
           NEW k \in 1..n, NEW j, j = k - 1, NEW c, c = string[k]
    PROVE  /\ IsDigit(c) => f[k] = 10 * f[j] + (c - Digit(0))
           /\ ~IsDigit(c) => f[k] = f[j]
<1>1. f[k] = IF IsDigit(string[k]) THEN 10 * f[k - 1] + (string[k] - Digit(0)) ELSE f[k - 1]
  BY Zenon DEF Accumulates
<1>2. f[k] = IF IsDigit(c) THEN 10 * f[j] + (c - Digit(0)) ELSE f[j]
  BY <1>1, Zenon
<1> QED BY <1>2, Zenon

(* Whoever adds up the digits of q, with a point behind the p-th of them     *)
(* where p is not the last, has got q.                                     *)
LEMMA FiguresMake ==
    ASSUME NEW q \in Nat, q < 10^5, NEW w, w = Width(q), NEW p \in 0..w,
           NEW n \in Nat, n <= 9, w + (IF p < w THEN 1 ELSE 0) <= n,
           NEW string, NEW f, Accumulates(f, string, n),
           \A k \in 1..p : string[k] = Figure(q, k),
           p < w => string[p + 1] = Point,
           \A k \in p + 1..w : string[k + 1] = Figure(q, k)
    PROVE  f[w + (IF p < w THEN 1 ELSE 0)] = q
<1> DEFINE place(k) == IF k <= p THEN k ELSE k + 1
           S == {k \in 0..w : f[place(k)] = q \div (10^(w - k))}
<1>1. w \in 1..5 /\ q \div (10^w) = 0
  BY WidthBounds
<1>2. 0 \in S
  <2>1. f[0] = 0 /\ place(0) = 0 /\ w - 0 = w
    BY <1>1 DEF Accumulates
  <2>2. 0 \in 0..w
    BY <1>1
  <2> HIDE DEF place
  <2> QED BY <1>1, <2>1, <2>2, Zenon
<1>3. ASSUME NEW k \in 0..w - 1, k \in S PROVE k + 1 \in S
  <2>1. k + 1 \in 1..w /\ k + 1 \in 0..w /\ k + 1 - 1 = k
    BY <1>1
  <2>2. PICK a : a = q \div (10^(w - k))
    OBVIOUS
  <2>3. PICK c : c = Figure(q, k + 1)
    OBVIOUS
  <2>4. IsDigit(c) /\ q \div (10^(w - (k + 1))) = 10 * a + (c - Digit(0))
    <3>1. PICK m \in 1..w : m = k + 1 /\ m - 1 = k
      BY <2>1
    <3>2. IsDigit(Figure(q, m)) /\ q \div (10^(w - m)) =
            10 * (q \div (10^(w - (m - 1)))) + (Figure(q, m) - Digit(0))
      BY FigureType, Zenon
    <3> QED BY <2>2, <2>3, <3>1, <3>2, Zenon
  <2>5. f[place(k)] = a
    BY <1>3, <2>2, Zenon
  <2>6. f[place(k + 1)] = 10 * a + (c - Digit(0))
    <3>1. CASE k + 1 <= p
      <4>1. place(k + 1) = k + 1 /\ place(k) = k /\ k + 1 \in 1..p /\ k + 1 \in 1..n
        BY <1>1, <3>1
      <4>2. string[k + 1] = c
        BY <2>3, <4>1, Zenon
      <4> HIDE DEF place
      <4> QED BY Adds, <2>1, <2>4, <2>5, <4>1, <4>2
    <3>2. CASE k = p
      <4>1. /\ place(k + 1) = k + 2 /\ place(k) = k /\ k + 1 \in p + 1..w
            /\ k + 1 \in 1..n /\ k + 2 \in 1..n /\ k + 2 - 1 = k + 1 /\ p < w
            /\ k + 1 + 1 = k + 2
        BY <1>1, <3>2
      <4>2. string[k + 1] = Point /\ string[k + 2] = c
        BY <2>3, <3>2, <4>1, Zenon
      <4>3. ~IsDigit(Point)
        BY DEF IsDigit, Point, Digit
      <4> HIDE DEF place
      <4>4. f[k + 1] = a
        BY Adds, <2>1, <2>5, <4>1, <4>2, <4>3
      <4> QED BY Adds, <2>4, <4>1, <4>2, <4>4
    <3>3. CASE k > p
      <4>1. /\ place(k + 1) = k + 2 /\ place(k) = k + 1 /\ k + 1 \in p + 1..w
            /\ k + 2 \in 1..n /\ k + 2 - 1 = k + 1 /\ k + 1 + 1 = k + 2
        BY <1>1, <3>3
      <4>2. string[k + 2] = c
        BY <2>3, <4>1, Zenon
      <4> HIDE DEF place
      <4> QED BY Adds, <2>4, <2>5, <4>1, <4>2
    <3> QED BY <1>1, <3>1, <3>2, <3>3
  <2> HIDE DEF place
  <2> QED BY <2>1, <2>4, <2>6, Zenon
<1> HIDE DEF S
<1>4. \A k \in 0..w : k \in S
  <2>1. w \in 0..9
    BY <1>1
  <2> QED BY <1>2, <1>3, <2>1, Upwards, Zenon
<1>5. f[place(w)] = q \div (10^(w - w))
  <2>1. w \in 0..w
    BY <1>1
  <2> QED BY <1>4, <2>1, Zenon DEF S
<1>6. q \div (10^(w - w)) = q
  <2>1. w - w = 0
    BY <1>1
  <2>2. 10^0 = 1 /\ q \div 1 = q
    BY SMT
  <2> QED BY <2>1, <2>2, Zenon
<1>7. place(w) = w + (IF p < w THEN 1 ELSE 0)
  BY <1>1
<1> HIDE DEF place
<1> QED BY <1>5, <1>6, <1>7, Zenon

(* s zeros behind the first w characters *)
ZerosFollow(f, string, n, w, s) ==
    /\ w \in Nat /\ s \in 1..8 /\ n \in Nat /\ w + s <= n
    /\ Accumulates(f, string, n) /\ f[w] \in Nat
    /\ \A k \in 1..s : string[w + k] = Digit(0)

TimesTen(f, w, s) == f[w + s] = f[w] * 10^s

(* They multiply by ten, each of them.                                       *)
LEMMA ZerosMake ==
    ASSUME NEW f, NEW string, NEW n, NEW w, NEW s, ZerosFollow(f, string, n, w, s)
    PROVE  TimesTen(f, w, s)
<1> SUFFICES ASSUME w \in Nat, s \in 1..8, n \in Nat, w + s <= n, Accumulates(f, string, n),
                    NEW q \in Nat, q = f[w], \A k \in 1..s : string[w + k] = Digit(0)
             PROVE  f[w + s] = q * 10^s
  BY Zenon DEF ZerosFollow, TimesTen
<1>1. PICK P : IsTable(P) /\ \A k \in 0..8 : 10^k = P[k]
  BY Powers
<1> DEFINE S == {k \in 0..s : f[w + k] = q * P[k]}
<1>2. 0 \in S
  BY <1>1, SMT DEF IsTable
<1>3. ASSUME NEW k \in 0..s - 1, k \in S PROVE k + 1 \in S
  <2>1. k + 1 \in 1..s /\ w + (k + 1) \in 1..n /\ w + (k + 1) - 1 = w + k
    OBVIOUS
  <2>2. string[w + (k + 1)] = Digit(0) /\ IsDigit(Digit(0)) /\ Digit(0) - Digit(0) = 0
    <3>1. string[w + (k + 1)] = Digit(0)
      BY <2>1, Zenon
    <3>2. IsDigit(Digit(0)) /\ Digit(0) - Digit(0) = 0
      BY DEF IsDigit, Digit
    <3> QED BY <3>1, <3>2, Zenon
  <2>3. f[w + (k + 1)] = 10 * f[w + k] + (Digit(0) - Digit(0))
    BY Adds, <2>1, <2>2
  <2>4. f[w + k] = q * P[k]
    BY <1>3
  <2>5. 10 * (q * P[k]) + 0 = q * P[k + 1]
    <3>1. k = 0 \/ k = 1 \/ k = 2 \/ k = 3 \/ k = 4 \/ k = 5 \/ k = 6 \/ k = 7
      OBVIOUS
    <3>2. 10 * (q * 1) + 0 = q * 10 /\ 10 * (q * 10) + 0 = q * 100
      BY SMT
    <3>3. 10 * (q * 100) + 0 = q * 1000 /\ 10 * (q * 1000) + 0 = q * 10000
      BY SMT
    <3>4. 10 * (q * 10000) + 0 = q * 100000 /\ 10 * (q * 100000) + 0 = q * 1000000
      BY SMT
    <3>5. 10 * (q * 1000000) + 0 = q * 10000000 /\ 10 * (q * 10000000) + 0 = q * 100000000
      BY SMT
    <3> QED BY <1>1, <3>1, <3>2, <3>3, <3>4, <3>5, SMT DEF IsTable
  <2>6. f[w + (k + 1)] = q * P[k + 1]
    BY <2>2, <2>3, <2>4, <2>5, Zenon
  <2>7. k + 1 \in 0..s
    OBVIOUS
  <2> QED BY <2>6, <2>7, Zenon
<1> HIDE DEF S
<1>4. \A k \in 0..s : k \in S
  <2>1. s \in 0..9
    OBVIOUS
  <2> QED BY <1>2, <1>3, <2>1, Upwards, Zenon
<1>5. s \in S /\ s \in 0..8
  BY <1>4
<1> QED BY <1>1, <1>5, Zenon DEF S

-----------------------------------------------------------------------------
(* The text of a reading, character by character.                          *)

(* How many characters the sign of v takes *)
Sign(v) == IF v < 0 THEN 1 ELSE 0

(* An int16_t has at most five digits. *)
LEMMA AbsBound == ASSUME NEW v \in Int16 PROVE Abs(v) \in Nat /\ Abs(v) < 10^5
<1>1. Abs(v) \in Nat
  BY Int16Type, AbsType
<1>2. Abs(v) < 10^5
  BY SMT DEF Int16, Abs
<1> QED BY <1>1, <1>2, Zenon

(* "%d" of it is its sign and its figures. *)
LEMMA DecimalShape ==
    ASSUME NEW v \in Int, NEW q, q = Abs(v), q < 10^5, NEW w, w = Width(q)
    PROVE  /\ Decimal(v) \in Seq(Char) /\ Len(Decimal(v)) = Sign(v) + w
           /\ \A k \in 1..w : Decimal(v)[Sign(v) + k] = Figure(q, k)
           /\ v < 0 => Decimal(v)[1] = Minus
<1>1. q \in Nat /\ q < 10^5
  BY AbsType
<1>2. w \in 1..5
  BY <1>1, WidthBounds
<1>3. PICK digits : digits = [k \in 1..w |-> Figure(q, k)]
  OBVIOUS
<1>4. PICK sign : sign = IF v < 0 THEN <<Minus>> ELSE <<>>
  OBVIOUS
<1>5. Decimal(v) = sign \o digits
  BY <1>3, <1>4, Zenon DEF Decimal, Width, Figure
<1>6. digits \in Seq(Char) /\ Len(digits) = w /\ \A k \in 1..w : digits[k] = Figure(q, k)
  <2>1. \A k \in 1..w : Figure(q, k) \in Char
    BY <1>1, FigureType
  <2> QED BY <1>2, <1>3, <2>1
<1>7. sign \in Seq(Char) /\ Len(sign) = Sign(v) /\ (v < 0 => sign[1] = Minus)
  <2>1. <<Minus>> \in Seq(Char) /\ Len(<<Minus>>) = 1 /\ <<Minus>>[1] = Minus
    BY DEF Minus, Char
  <2>2. <<>> \in Seq(Char) /\ Len(<<>>) = 0
    BY EmptySeq
  <2>3. CASE v < 0
    BY <1>4, <2>1, <2>3, Zenon DEF Sign
  <2>4. CASE ~(v < 0)
    <3>1. sign = <<>> /\ Sign(v) = 0
      BY <1>4, <2>4, Zenon DEF Sign
    <3> QED BY <2>2, <2>4, <3>1, Zenon
  <2> QED BY <2>3, <2>4
<1>8. Sign(v) \in 0..1 /\ (v < 0 => Sign(v) = 1)
  BY DEF Sign
<1> HIDE DEF Sign
<1>9. sign \o digits \in Seq(Char) /\ Len(sign \o digits) = Sign(v) + w
  BY <1>6, <1>7
<1>10. ASSUME NEW k \in 1..w PROVE (sign \o digits)[Sign(v) + k] = digits[k]
  BY <1>2, <1>6, <1>7, <1>8
<1>11. ASSUME v < 0 PROVE (sign \o digits)[1] = Minus
  <2>1. 1 \in 1..Len(sign)
    BY <1>7, <1>8, <1>11
  <2>2. (sign \o digits)[1] = sign[1]
    BY <1>6, <1>7, <2>1
  <2> QED BY <1>7, <1>11, <2>2
<1> QED BY <1>5, <1>6, <1>9, <1>10, <1>11, Zenon

(* "%d" of an int16_t: at most six characters. *)
LEMMA DecimalType ==
    ASSUME NEW v \in Int16
    PROVE  Decimal(v) \in Seq(Char) /\ Len(Decimal(v)) \in 1..6
<1>1. PICK q \in Nat : Abs(v) = q /\ q < 10^5
  BY AbsBound
<1>2. PICK w \in 1..5 : Width(q) = w
  BY <1>1, WidthBounds
<1>3. PICK o \in 0..1 : Sign(v) = o
  BY DEF Sign
<1>4. Decimal(v) \in Seq(Char) /\ Len(Decimal(v)) = o + w
  <2>1. v \in Int
    BY Int16Type
  <2> QED BY <1>1, <1>2, <1>3, <2>1, DecimalShape, Zenon
<1>5. o + w \in 1..6
  OBVIOUS
<1> QED BY <1>4, <1>5, Zenon

(* A text of n characters with a sign in front, if o is 1: without its sign  *)
(* it is those n characters.                                               *)
LEMMA UnsignedText ==
    ASSUME NEW text \in Seq(Char), NEW o \in 0..1, NEW n \in Nat, Len(text) = o + n, n >= 1,
           o = 1 <=> text[1] = Minus
    PROVE  /\ IsNegative(text) <=> o = 1
           /\ Unsigned(text) \in Seq(Char) /\ Len(Unsigned(text)) = n
           /\ \A k \in 1..n : Unsigned(text)[k] = text[o + k]
<1>1. text # <<>>
  <2>1. Len(text) >= 1
    BY SMT
  <2>2. Len(<<>>) = 0
    OBVIOUS
  <2> QED BY <2>1, <2>2
<1>2. IsNegative(text) <=> o = 1
  BY <1>1, Zenon DEF IsNegative
<1>3. CASE o = 1
  <2>1. Unsigned(text) = Tail(text)
    BY <1>2, <1>3, Zenon DEF Unsigned
  <2>2. /\ Tail(text) \in Seq(Char) /\ Len(Tail(text)) = n
        /\ \A k \in 1..n : Tail(text)[k] = text[o + k]
    BY <1>1, <1>3
  <2> QED BY <1>2, <2>1, <2>2, Zenon
<1>4. CASE o = 0
  <2>1. Unsigned(text) = text
    BY <1>2, <1>4 DEF Unsigned
  <2> QED BY <1>2, <1>4, <2>1
<1> QED BY <1>3, <1>4

(* snprintf of all but a rest *)
LEMMA CutText == ASSUME NEW text, NEW m \in Int PROVE Cut(text, m + 1) = SubSeq(text, 1, m)
<1>1. Cut(text, m + 1) = SubSeq(text, 1, m + 1 - 1)
  BY DEF Cut
<1>2. m + 1 - 1 = m
  OBVIOUS
<1> QED BY <1>1, <1>2, Zenon

(* A defined call of int_to_floatstring writes at most nine characters and   *)
(* the NUL.                                                                *)
LEMMA TextType ==
    ASSUME NEW v \in Int16, NEW s \in Scale, Defined(v, s)
    PROVE  /\ IntToFloatString(v, s) \in Seq(Char)
           /\ Len(IntToFloatString(v, s)) \in 0..9
<1> DEFINE text == Decimal(v)
           n == Len(text)
<1>1. text \in Seq(Char) /\ n \in 1..6
  BY DecimalType
<1> HIDE DEF text
<1>2. n <= 5 /\ n >= -s /\ n + s <= 9
  BY DEF Defined, InValstring, InCurrValue, text
<1>3. CASE s < 0
  <2>1. n <= 5 /\ n + s \in 0..4
    BY <1>1, <1>2, <1>3 DEF Scale
  <2>2. /\ SubSeq(text, 1, n + s) \in Seq(Char)
        /\ Len(SubSeq(text, 1, n + s)) = n + s
    BY <1>1, <2>1, <1>3 DEF Scale
  <2>3. /\ SubSeq(text, n + s + 1, n) \in Seq(Char)
        /\ Len(SubSeq(text, n + s + 1, n)) = -s
    BY <1>1, <2>1, <1>3 DEF Scale
  <2>4. <<Point>> \in Seq(Char) /\ Len(<<Point>>) = 1
    BY DEF Point, Char
  <2>5. IntToFloatString(v, s) =
          SubSeq(text, 1, n + s) \o <<Point>> \o SubSeq(text, n + s + 1, n)
    <3>2. IntToFloatString(v, s) =
            Cut(text, n + s + 1) \o <<Point>> \o SubSeq(text, n + s + 1, n)
      BY <1>3, Zenon DEF IntToFloatString, text
    <3>3. Cut(text, n + s + 1) = SubSeq(text, 1, n + s)
      <4>1. n + s \in Int
        BY <2>1
      <4> QED BY <4>1, CutText, Zenon
    <3> QED BY <3>2, <3>3, Zenon
  <2>6. Len(SubSeq(text, 1, n + s) \o <<Point>>) = n + s + 1
    BY <2>2, <2>4, <2>1
  <2>7. SubSeq(text, 1, n + s) \o <<Point>> \in Seq(Char)
    BY <2>2, <2>4
  <2> DEFINE head == SubSeq(text, 1, n + s) \o <<Point>>
             tail == SubSeq(text, n + s + 1, n)
  <2>8. n + s \in Int /\ -s \in 1..5 /\ n \in Int
    BY <1>1, <1>2, <1>3 DEF Scale
  <2> HIDE DEF head, tail, n
  <2>9. head \o tail \in Seq(Char) /\ Len(head \o tail) = n + s + 1 + (-s)
    BY <2>3, <2>6, <2>7 DEF head, tail
  <2>10. n + s + 1 + (-s) \in 0..9
    BY <2>1, <2>8 DEF Scale
  <2> QED BY <2>5, <2>9, <2>10 DEF head, tail
<1>4. CASE s = 0
  <2>1. IntToFloatString(v, s) = SubSeq(text, 1, n - 1)
    BY <1>4 DEF IntToFloatString, Cut, text
  <2> QED BY <1>1, <2>1
<1>5. CASE s > 0
  <2> DEFINE zeros == [k \in 1..s |-> Digit(0)]
  <2>1. zeros \in Seq(Char) /\ Len(zeros) = s
    BY <1>5 DEF Scale, Digit, Char
  <2>2. SubSeq(text, 1, n + 1 - 1) = text
    BY <1>1
  <2>3. IntToFloatString(v, s) = text \o zeros
    <3>1. ~(s < 0) /\ s # 0
      BY <1>5 DEF Scale
    <3>2. IntToFloatString(v, s) = Cut(text, n + 1) \o zeros
      BY <1>5, <3>1, Zenon DEF IntToFloatString, text
    <3>3. Cut(text, n + 1) = text
      BY <2>2 DEF Cut
    <3> QED BY <3>2, <3>3, Zenon
  <2> HIDE DEF zeros
  <2> QED BY <1>1, <1>2, <1>5, <2>1, <2>3 DEF Scale
<1> QED BY <1>3, <1>4, <1>5 DEF Scale

(* Whatever it leaves, strncat takes ten characters at most. *)
LEMMA TextsType ==
    ASSUME NEW v \in Int16, NEW s \in Scale, NEW text \in Texts(v, s)
    PROVE  text \in Seq(Char) /\ Len(text) \in 0..10
<1>1. CASE Defined(v, s)
  <2>1. text = IntToFloatString(v, s)
    BY <1>1, Zenon DEF Texts
  <2>2. text \in Seq(Char) /\ Len(text) \in 0..9
    BY <1>1, <2>1, TextType, Zenon
  <2> QED BY <2>2
<1>2. CASE ~Defined(v, s)
  <2>1. text \in {[k \in 1..n |-> 0] : n \in 0..10}
    BY <1>2, Zenon DEF Texts
  <2>2. PICK n \in 0..10 : text = [k \in 1..n |-> 0]
    BY <2>1
  <2> QED BY <2>2 DEF Char
<1> QED BY <1>1, <1>2

(* Two texts, one behind the other *)
LEMMA Joins ==
    ASSUME NEW a \in Seq(Char), NEW b \in Seq(Char)
    PROVE  /\ a \o b \in Seq(Char) /\ Len(a \o b) = Len(a) + Len(b)
           /\ \A k \in 1..Len(a) : (a \o b)[k] = a[k]
           /\ \A k \in 1..Len(b) : (a \o b)[Len(a) + k] = b[k]
  OBVIOUS

(* The text D with a point behind its first m characters *)
Pointed(text, D, m, r) ==
    /\ text \in Seq(Char) /\ Len(text) = m + 1 + r
    /\ \A k \in 1..m : text[k] = D[k]
    /\ text[m + 1] = Point
    /\ \A k \in 1..r : text[m + 1 + k] = D[m + k]

(* It is what int_to_floatstring puts together from the two parts of D.      *)
LEMMA PointPut ==
    ASSUME NEW D \in Seq(Char), NEW m \in Nat, NEW r \in Nat, Len(D) = m + r
    PROVE  Pointed(SubSeq(D, 1, m) \o <<Point>> \o SubSeq(D, m + 1, m + r), D, m, r)
<1> SUFFICES ASSUME NEW text, SubSeq(D, 1, m) \o <<Point>> \o SubSeq(D, m + 1, m + r) = text
             PROVE  Pointed(text, D, m, r)
  BY Zenon
<1> DEFINE head == SubSeq(D, 1, m)
           rest == SubSeq(D, m + 1, m + r)
<1>1. head \in Seq(Char) /\ Len(head) = m /\ \A k \in 1..m : head[k] = D[k]
  OBVIOUS
<1>2. rest \in Seq(Char) /\ Len(rest) = r /\ \A k \in 1..r : rest[k] = D[m + k]
  OBVIOUS
<1>3. <<Point>> \in Seq(Char) /\ Len(<<Point>>) = 1 /\ <<Point>>[1] = Point
  BY DEF Point, Char
<1> HIDE DEF head, rest
<1>4. PICK front : head \o <<Point>> = front
  OBVIOUS
<1>5. /\ front \in Seq(Char) /\ Len(front) = m + 1
      /\ \A k \in 1..m : front[k] = head[k]
      /\ \A k \in 1..1 : front[m + k] = <<Point>>[k]
  <2>1. /\ head \o <<Point>> \in Seq(Char) /\ Len(head \o <<Point>>) = m + 1
        /\ \A k \in 1..m : (head \o <<Point>>)[k] = head[k]
        /\ \A k \in 1..1 : (head \o <<Point>>)[m + k] = <<Point>>[k]
    <3>1. /\ head \o <<Point>> \in Seq(Char) /\ Len(head \o <<Point>>) = Len(head) + Len(<<Point>>)
          /\ \A k \in 1..Len(head) : (head \o <<Point>>)[k] = head[k]
          /\ \A k \in 1..Len(<<Point>>) : (head \o <<Point>>)[Len(head) + k] = <<Point>>[k]
      BY <1>1, <1>3, Joins
    <3> QED BY <1>1, <1>3, <3>1, Zenon
  <2> QED BY <1>4, <2>1, Zenon
<1>6. front \o rest = text
  BY <1>4, Zenon DEF head, rest
<1>7. /\ text \in Seq(Char) /\ Len(text) = m + 1 + r
      /\ \A k \in 1..m + 1 : text[k] = front[k]
      /\ \A k \in 1..r : text[m + 1 + k] = rest[k]
  <2>1. /\ front \o rest \in Seq(Char) /\ Len(front \o rest) = m + 1 + r
        /\ \A k \in 1..m + 1 : (front \o rest)[k] = front[k]
        /\ \A k \in 1..r : (front \o rest)[m + 1 + k] = rest[k]
    <3>1. /\ front \o rest \in Seq(Char) /\ Len(front \o rest) = Len(front) + Len(rest)
          /\ \A k \in 1..Len(front) : (front \o rest)[k] = front[k]
          /\ \A k \in 1..Len(rest) : (front \o rest)[Len(front) + k] = rest[k]
      BY <1>2, <1>5, Joins
    <3> QED BY <1>2, <1>5, <3>1, Zenon
  <2> QED BY <1>6, <2>1, Zenon
<1>8. ASSUME NEW k \in 1..m PROVE text[k] = D[k]
  <2>1. k \in 1..m + 1
    OBVIOUS
  <2> QED BY <1>1, <1>5, <1>7, <2>1, Zenon
<1>9. text[m + 1] = Point
  <2>1. 1 \in 1..1 /\ m + 1 \in 1..m + 1
    OBVIOUS
  <2> QED BY <1>3, <1>5, <1>7, <2>1, Zenon
<1>10. \A k \in 1..r : text[m + 1 + k] = D[m + k]
  BY <1>2, <1>7, Zenon
<1> QED BY <1>7, <1>8, <1>9, <1>10 DEF Pointed

(* The text of a regular reading: the sign, the figures up to the point, and *)
(* what follows.                                                           *)
Shaped(text, q, w, o, s) ==
    /\ o + w <= 5 /\ w + s >= 0 /\ text \in Seq(Char)
    /\ o = 1 <=> text[1] = Minus
    /\ s < 0 => /\ Len(text) = o + (w + 1)
                /\ \A k \in 1..w + s : text[o + k] = Figure(q, k)
                /\ text[o + (w + s + 1)] = Point
                /\ \A k \in w + s + 1..w : text[o + (k + 1)] = Figure(q, k)
    /\ s > 0 => /\ Len(text) = o + (w + s) /\ w + s <= 9
                /\ \A k \in 1..w : text[o + k] = Figure(q, k)
                /\ \A k \in 1..s : text[o + (w + k)] = Digit(0)

(* int_to_floatstring writes it.                                             *)
LEMMA TextShape ==
    ASSUME NEW v \in Int16, NEW s \in Scale, Regular(v, s)
    PROVE  Shaped(IntToFloatString(v, s), Abs(v), Width(Abs(v)), Sign(v), s)
<1>1. PICK q \in Nat : Abs(v) = q /\ q < 10^5
  BY AbsBound
<1>2. PICK w \in 1..5 : Width(q) = w
  BY <1>1, WidthBounds
<1>3. PICK o \in 0..1 : Sign(v) = o
  BY DEF Sign
<1> SUFFICES ASSUME NEW text, text = IntToFloatString(v, s)
             PROVE  Shaped(text, q, w, o, s)
  BY <1>1, <1>2, <1>3, Zenon
<1> DEFINE D == Decimal(v)
<1>4. o = 1 <=> v < 0
  BY <1>3, Int16Type DEF Sign
<1>5. /\ D \in Seq(Char) /\ Len(D) = o + w
      /\ \A k \in 1..w : D[o + k] = Figure(q, k)
      /\ v < 0 => D[1] = Minus
  <2>1. v \in Int
    BY Int16Type
  <2> QED BY <1>1, <1>2, <1>3, <2>1, DecimalShape, Zenon
<1> HIDE DEF D
<1>6. s # 0 /\ Len(D) <= 5 /\ Len(D) + s <= 9
  BY Zenon DEF Regular, Defined, InValstring, InCurrValue, D
<1>7. o + w <= 5
  BY <1>5, <1>6
<1>8. w >= -s
  <2>1. Len(Decimal(Abs(v))) >= -s
    BY Zenon DEF Regular
  <2>2. PICK x \in Int : x = q
    BY <1>1
  <2>3. Abs(x) = q /\ Sign(x) = 0
    BY <1>1, <2>2 DEF Abs, Sign
  <2>4. Len(Decimal(x)) = Sign(x) + w
    BY <1>1, <1>2, <2>2, <2>3, DecimalShape, Zenon
  <2>5. 0 + w >= -s
    BY <1>1, <2>1, <2>2, <2>3, <2>4, Zenon
  <2> QED BY <2>5
<1>9. PICK n \in 1..5 : n = o + w /\ Len(D) = n
  BY <1>5, <1>7
<1>10. CASE s < 0
  <2>1. PICK r \in 1..5 : s = -r
    BY <1>8, <1>10 DEF Scale
  <2>2. PICK p \in 0..4 : p = w - r
    BY <1>8, <2>1
  <2>3. w + s = p
    BY <2>1, <2>2
  <2>4. PICK m \in 0..4 : m = o + p /\ m + r = n
    <3>1. n = o + w
      BY <1>9
    <3> QED BY <3>1, <2>2
  <2>5. n + s = m
    BY <2>1, <2>4
  <2>6. SubSeq(D, 1, m) \o <<Point>> \o SubSeq(D, m + 1, m + r) = text
    <3>1. text = Cut(D, n + s + 1) \o <<Point>> \o SubSeq(D, n + s + 1, n)
      BY <1>6, <1>9, <1>10, Zenon DEF IntToFloatString, D
    <3>2. Cut(D, m + 1) = SubSeq(D, 1, m)
      <4>1. m \in Int
        OBVIOUS
      <4> QED BY <4>1, CutText, Zenon
    <3> QED BY <2>4, <2>5, <3>1, <3>2, Zenon
  <2>7. /\ text \in Seq(Char) /\ Len(text) = m + 1 + r
        /\ \A k \in 1..m : text[k] = D[k]
        /\ text[m + 1] = Point
        /\ \A k \in 1..r : text[m + 1 + k] = D[m + k]
    <3>1. m \in Nat /\ r \in Nat /\ Len(D) = m + r
      BY <1>9, <2>4
    <3>2. D \in Seq(Char)
      BY <1>5
    <3>3. Pointed(SubSeq(D, 1, m) \o <<Point>> \o SubSeq(D, m + 1, m + r), D, m, r)
      BY <3>1, <3>2, PointPut
    <3>4. Pointed(text, D, m, r)
      BY <2>6, <3>3, Zenon
    <3> QED BY <3>4, Zenon DEF Pointed
  <2>8. ASSUME NEW k \in 1..p PROVE text[o + k] = Figure(q, k)
    <3>1. o + k \in 1..m /\ k \in 1..w
      BY <2>2, <2>4
    <3> QED BY <1>5, <2>7, <3>1, Zenon
  <2>9. text[o + (p + 1)] = Point
    <3>1. o + (p + 1) = m + 1
      BY <2>4
    <3> QED BY <2>7, <3>1, Zenon
  <2>10. ASSUME NEW k \in p + 1..w PROVE text[o + (k + 1)] = Figure(q, k)
    <3>1. PICK j \in 1..r : j = k - p
      BY <2>2
    <3>2. o + (k + 1) = m + 1 + j /\ m + j = o + k /\ k \in 1..w
      BY <2>2, <2>4, <3>1
    <3> QED BY <1>5, <2>7, <3>2, Zenon
  <2>11. o = 1 <=> text[1] = Minus
    <3>1. CASE o = 1
      <4>1. 1 \in 1..m
        BY <2>4, <3>1
      <4> QED BY <1>4, <1>5, <2>7, <3>1, <4>1, Zenon
    <3>2. CASE o = 0 /\ m = 0
      <4>1. m + 1 = 1
        BY <3>2
      <4>2. Point # Minus
        BY DEF Point, Minus
      <4> QED BY <2>7, <3>2, <4>1, <4>2
    <3>3. CASE o = 0 /\ m # 0
      <4>1. 1 \in 1..p /\ o + 1 = 1 /\ 1 \in 1..w
        BY <2>4, <3>3
      <4>2. text[1] = Figure(q, 1)
        BY <2>8, <4>1, Zenon
      <4>3. Figure(q, 1) # Minus
        BY <1>1, <1>2, <4>1, FigureType
      <4> QED BY <3>3, <4>2, <4>3
    <3> QED BY <3>1, <3>2, <3>3
  <2>12. Len(text) = o + (w + 1)
    <3>1. m + 1 + r = o + (w + 1)
      BY <1>9, <2>4
    <3> QED BY <2>7, <3>1, Zenon
  <2>13. ~(s > 0) /\ w + s >= 0
    BY <2>1, <2>3
  <2> QED BY <1>7, <1>10, <2>3, <2>7, <2>8, <2>9, <2>10, <2>11, <2>12, <2>13, Zenon DEF Shaped
<1>11. CASE s > 0
  <2> DEFINE zeros == [k \in 1..s |-> Digit(0)]
  <2>1. D \o zeros = text
    <3>1. ~(s < 0) /\ s # 0
      BY <1>11 DEF Scale
    <3>2. text = Cut(D, n + 1) \o zeros
      BY <1>6, <1>9, <3>1, Zenon DEF IntToFloatString, D
    <3>3. Cut(D, n + 1) = SubSeq(D, 1, n)
      <4>1. n \in Int
        OBVIOUS
      <4> QED BY <4>1, CutText, Zenon
    <3>4. SubSeq(D, 1, n) = D
      BY <1>5, <1>9
    <3> QED BY <3>2, <3>3, <3>4, Zenon
  <2>2. PICK z \in 1..8 : z = s
    BY <1>6, <1>9, <1>11 DEF Scale
  <2>3. zeros \in Seq(Char) /\ Len(zeros) = z /\ \A k \in 1..z : zeros[k] = Digit(0)
    BY <2>2 DEF Digit, Char
  <2> HIDE DEF zeros
  <2>4. /\ text \in Seq(Char) /\ Len(text) = n + z
        /\ \A k \in 1..n : text[k] = D[k]
        /\ \A k \in 1..z : text[n + k] = zeros[k]
    <3>1. /\ D \o zeros \in Seq(Char) /\ Len(D \o zeros) = n + z
          /\ \A k \in 1..n : (D \o zeros)[k] = D[k]
          /\ \A k \in 1..z : (D \o zeros)[n + k] = zeros[k]
      <4>1. /\ D \o zeros \in Seq(Char) /\ Len(D \o zeros) = Len(D) + Len(zeros)
            /\ \A k \in 1..Len(D) : (D \o zeros)[k] = D[k]
            /\ \A k \in 1..Len(zeros) : (D \o zeros)[Len(D) + k] = zeros[k]
        BY <1>5, <1>9, <2>3, Joins
      <4> QED BY <1>5, <1>9, <2>3, <4>1, Zenon
    <3> QED BY <2>1, <3>1, Zenon
  <2>5. ASSUME NEW k \in 1..w PROVE text[o + k] = Figure(q, k)
    <3>1. o + k \in 1..n
      BY <1>9
    <3> QED BY <1>5, <2>4, <3>1, Zenon
  <2>6. ASSUME NEW k \in 1..s PROVE text[o + (w + k)] = Digit(0)
    <3>1. k \in 1..z /\ o + (w + k) = n + k
      BY <1>9, <2>2
    <3> QED BY <2>3, <2>4, <3>1, Zenon
  <2>7. o = 1 <=> text[1] = Minus
    <3>1. CASE o = 1
      <4>1. 1 \in 1..n
        OBVIOUS
      <4> QED BY <1>4, <1>5, <2>4, <3>1, <4>1, Zenon
    <3>2. CASE o = 0
      <4>1. 1 \in 1..w /\ o + 1 = 1
        BY <3>2
      <4>2. text[1] = Figure(q, 1)
        BY <2>5, <4>1, Zenon
      <4>3. Figure(q, 1) # Minus
        BY <1>1, <1>2, <4>1, FigureType
      <4> QED BY <3>2, <4>2, <4>3
    <3> QED BY <3>1, <3>2
  <2>8. Len(text) = o + (w + s) /\ w + s <= 9
    BY <1>6, <1>9, <2>2, <2>4
  <2>9. ~(s < 0) /\ w + s >= 0
    BY <1>11 DEF Scale
  <2> QED BY <1>7, <1>11, <2>4, <2>5, <2>6, <2>7, <2>8, <2>9, Zenon DEF Shaped
<1>12. s < 0 \/ s > 0
  BY <1>6 DEF Scale
<1> QED BY <1>10, <1>11, <1>12

(* int_to_floatstring writes a regular reading as a number that stands for   *)
(* it.                                                                     *)
LEMMA TextReads ==
    ASSUME NEW v \in Int16, NEW s \in Scale, Regular(v, s)
    PROVE  Reads(IntToFloatString(v, s), v, s)
<1>1. PICK q \in Nat : Abs(v) = q /\ q < 10^5
  BY AbsBound
<1>2. PICK w \in 1..5 : Width(q) = w
  BY <1>1, WidthBounds
<1>3. PICK o \in 0..1 : Sign(v) = o /\ (o = 1 <=> v < 0)
  BY DEF Sign
<1>4. PICK text : text = IntToFloatString(v, s)
  OBVIOUS
<1>5. /\ o + w <= 5 /\ w + s >= 0 /\ text \in Seq(Char)
      /\ o = 1 <=> text[1] = Minus
      /\ s < 0 => /\ Len(text) = o + (w + 1)
                  /\ \A k \in 1..w + s : text[o + k] = Figure(q, k)
                  /\ text[o + (w + s + 1)] = Point
                  /\ \A k \in w + s + 1..w : text[o + (k + 1)] = Figure(q, k)
      /\ s > 0 => /\ Len(text) = o + (w + s) /\ w + s <= 9
                  /\ \A k \in 1..w : text[o + k] = Figure(q, k)
                  /\ \A k \in 1..s : text[o + (w + k)] = Digit(0)
  <2>1. Shaped(text, q, w, o, s)
    BY <1>1, <1>2, <1>3, <1>4, TextShape, Zenon
  <2> QED BY <2>1, Zenon DEF Shaped
<1>6. s # 0
  BY Zenon DEF Regular
<1> DEFINE body == Unsigned(text)
<1>7. CASE s < 0
  <2>1. PICK r \in 1..5 : s = -r
    BY <1>5, <1>7 DEF Scale
  <2>2. PICK p \in 0..4 : p = w - r
    BY <1>5, <2>1
  <2>3. w + s = p
    BY <2>1, <2>2
  <2>4. PICK n \in 2..6 : n = w + 1
    OBVIOUS
  <2>5. /\ Len(text) = o + n
        /\ \A k \in 1..p : text[o + k] = Figure(q, k)
        /\ text[o + (p + 1)] = Point
        /\ \A k \in p + 1..w : text[o + (k + 1)] = Figure(q, k)
    BY <1>5, <1>7, <2>3, <2>4, Zenon
  <2>6. /\ IsNegative(text) <=> o = 1
        /\ body \in Seq(Char) /\ Len(body) = n
        /\ \A k \in 1..n : body[k] = text[o + k]
    <3>1. n \in Nat /\ n >= 1
      OBVIOUS
    <3> QED BY <1>5, <2>5, <3>1, UnsignedText, Zenon
  <2> HIDE DEF body
  <2>7. \A k \in 1..p : body[k] = Figure(q, k)
    <3>1. \A k \in 1..p : k \in 1..n
      BY <2>2, <2>4
    <3> QED BY <2>5, <2>6, <3>1, Zenon
  <2>8. p + 1 \in 1..n /\ body[p + 1] = Point
    <3>1. p + 1 \in 1..n
      BY <2>2, <2>4
    <3> QED BY <2>5, <2>6, <3>1, Zenon
  <2>9. \A k \in p + 1..w : body[k + 1] = Figure(q, k)
    <3>1. \A k \in p + 1..w : k + 1 \in 1..n
      BY <2>4
    <3> QED BY <2>5, <2>6, <3>1, Zenon
  <2>10. Whole(body) = q
    <3>1. PICK f : Accumulates(f, body, n) /\ Whole(body) = f[n]
      <4>1. Len(body) <= 9
        BY <2>6
      <4> QED BY <2>6, <4>1, WholeAccumulates
    <3>2. f[w + (IF p < w THEN 1 ELSE 0)] = q
      <4>1. p \in 0..w /\ n \in Nat /\ n <= 9 /\ w + (IF p < w THEN 1 ELSE 0) <= n
        BY <2>2, <2>4
      <4> QED BY <1>1, <1>2, <2>7, <2>8, <2>9, <3>1, <4>1, FiguresMake
    <3>3. w + (IF p < w THEN 1 ELSE 0) = n
      BY <2>2, <2>4
    <3> QED BY <3>1, <3>2, <3>3, Zenon
  <2>11. ASSUME NEW k \in 1..n, k # p + 1 PROVE IsDigit(body[k]) /\ body[k] # Point
    <3>1. CASE k \in 1..p
      <4>1. k \in 1..w
        BY <2>2, <3>1
      <4> QED BY <1>1, <1>2, <2>7, <3>1, <4>1, FigureType
    <3>2. CASE k \notin 1..p
      <4>1. PICK j \in p + 1..w : j = k - 1
        BY <2>4, <2>11, <3>2
      <4>2. j + 1 = k /\ j \in 1..w
        BY <4>1
      <4>3. body[k] = Figure(q, j)
        BY <2>9, <4>2, Zenon
      <4> QED BY <1>1, <1>2, <4>2, <4>3, FigureType
    <3> QED BY <3>1, <3>2
  <2>12. IsNumber(text)
    <3> DEFINE points == {k \in DOMAIN body : body[k] = Point}
    <3>1. DOMAIN body = 1..n
      BY <2>6
    <3>2. points = {p + 1}
      BY <2>8, <2>11, <3>1
    <3>3. Cardinality(points) <= 1
      <4>1. Cardinality({p + 1}) = 1
        BY FS_Singleton
      <4> QED BY <3>2, <4>1
    <3>4. \A k \in DOMAIN body : IsDigit(body[k]) \/ body[k] = Point
      BY <2>8, <2>11, <3>1
    <3>5. \E k \in DOMAIN body : IsDigit(body[k])
      <4>1. PICK k \in 1..n : k # p + 1
        BY <2>2, <2>4
      <4> QED BY <2>11, <3>1, <4>1
    <3> QED BY <3>3, <3>4, <3>5, Zenon DEF IsNumber, body
  <2>13. Decimals(text) = r
    <3> DEFINE behind == {k \in DOMAIN text : \E j \in 1..k - 1 : text[j] = Point}
    <3>1. DOMAIN text = 1..o + n
      BY <1>5, <2>5
    <3>2. \A k \in 1..o + n : text[k] = Point <=> k = o + (p + 1)
      <4>1. ASSUME NEW k \in 1..o + n, text[k] = Point PROVE k = o + (p + 1)
        <5>1. CASE k <= o
          <6>1. o = 1 /\ k = 1
            BY <5>1
          <6>2. Point # Minus
            BY DEF Point, Minus
          <6> QED BY <1>5, <4>1, <6>1, <6>2
        <5>2. CASE k > o
          <6>1. PICK j \in 1..n : j = k - o
            BY <5>2
          <6>2. o + j = k
            BY <6>1
          <6>3. body[j] = Point
            BY <2>6, <4>1, <6>2, Zenon
          <6>4. j = p + 1
            BY <2>11, <6>3
          <6> QED BY <6>2, <6>4
        <5> QED BY <5>1, <5>2
      <4> QED BY <2>5, <4>1
    <3>3. o + (p + 1) \in 1..o + n /\ o + n = o + (p + 1) + r
      BY <2>2, <2>4
    <3>4. behind = o + (p + 1) + 1..o + n
      <4>1. ASSUME NEW k \in 1..o + n
            PROVE  (\E j \in 1..k - 1 : text[j] = Point) <=> k \in o + (p + 1) + 1..o + n
        <5>1. CASE k > o + (p + 1)
          <6>1. o + (p + 1) \in 1..k - 1 /\ k \in o + (p + 1) + 1..o + n
            BY <3>3, <5>1
          <6> QED BY <2>5, <6>1
        <5>2. CASE ~(k > o + (p + 1))
          <6>1. \A j \in 1..k - 1 : j \in 1..o + n /\ j # o + (p + 1)
            BY <5>2
          <6>2. k \notin o + (p + 1) + 1..o + n
            BY <5>2
          <6> QED BY <3>2, <6>1, <6>2, Zenon
        <5> QED BY <5>1, <5>2
      <4>2. ASSUME NEW k \in o + (p + 1) + 1..o + n PROVE k \in 1..o + n
        BY <2>2
      <4> QED BY <3>1, <4>1, <4>2
    <3>5. Cardinality(o + (p + 1) + 1..o + n) = r
      <4>1. PICK a \in Int, b \in Int : a = o + (p + 1) + 1 /\ b = o + n /\ b - a + 1 = r
        BY <3>3
      <4>2. Cardinality(a..b) = IF a > b THEN 0 ELSE b - a + 1
        BY FS_Interval, Zenon
      <4>3. ~(a > b)
        BY <3>3, <4>1
      <4>4. Cardinality(a..b) = r
        BY <4>1, <4>2, <4>3, Zenon
      <4> QED BY <4>1, <4>4, Zenon
    <3> QED BY <3>4, <3>5, Zenon DEF Decimals
  <2>14. Mantissa(text) = v
    <3>1. Mantissa(text) = IF IsNegative(text) THEN -Whole(Unsigned(text)) ELSE Whole(text)
      BY DEF Mantissa
    <3>2. CASE o = 1
      <4>1. v < 0 /\ v \in Int
        BY <1>3, <3>2, Int16Type
      <4>2. -q = v
        BY <1>1, <4>1 DEF Abs
      <4>3. Mantissa(text) = -q
        BY <2>6, <2>10, <3>1, <3>2, Zenon DEF body
      <4> QED BY <4>2, <4>3
    <3>3. CASE o = 0
      <4>1. ~(v < 0) /\ v \in Int
        BY <1>3, <3>3, Int16Type
      <4>2. q = v
        BY <1>1, <4>1 DEF Abs
      <4>3. ~IsNegative(text)
        BY <2>6, <3>3
      <4>4. body = text
        BY <4>3, Zenon DEF body, Unsigned
      <4>5. Mantissa(text) = q
        BY <2>10, <3>1, <4>3, <4>4, Zenon
      <4> QED BY <4>2, <4>5
    <3> QED BY <3>2, <3>3
  <2>15. Reads(text, v, s)
    <3>1. s + Decimals(text) = 0
      BY <2>1, <2>13
    <3>2. v * 10^0 = v
      BY Int16Type
    <3>3. 0 >= 0
      OBVIOUS
    <3> QED BY <2>12, <2>14, <3>1, <3>2, <3>3, Zenon DEF Reads
  <2> QED BY <1>4, <2>15, Zenon
<1>8. CASE s > 0
  <2>1. PICK z \in 1..8 : z = s
    BY <1>5, <1>8 DEF Scale
  <2>2. PICK n \in 2..9 : n = w + z
    BY <1>5, <1>8, <2>1
  <2>3. /\ Len(text) = o + n
        /\ \A k \in 1..w : text[o + k] = Figure(q, k)
        /\ \A k \in 1..z : text[o + (w + k)] = Digit(0)
    BY <1>5, <1>8, <2>1, <2>2, Zenon
  <2>4. /\ IsNegative(text) <=> o = 1
        /\ body \in Seq(Char) /\ Len(body) = n
        /\ \A k \in 1..n : body[k] = text[o + k]
    <3>1. n \in Nat /\ n >= 1
      OBVIOUS
    <3> QED BY <1>5, <2>3, <3>1, UnsignedText, Zenon
  <2> HIDE DEF body
  <2>5. \A k \in 1..w : body[k] = Figure(q, k)
    <3>1. \A k \in 1..w : k \in 1..n
      BY <2>2
    <3> QED BY <2>3, <2>4, <3>1, Zenon
  <2>6. \A k \in 1..z : body[w + k] = Digit(0)
    <3>1. \A k \in 1..z : w + k \in 1..n
      BY <2>2
    <3> QED BY <2>3, <2>4, <3>1, Zenon
  <2>7. Whole(body) = q * 10^z
    <3>1. PICK f : Accumulates(f, body, n) /\ Whole(body) = f[n]
      <4>1. Len(body) <= 9
        BY <2>4
      <4> QED BY <2>4, <4>1, WholeAccumulates
    <3>2. f[w + (IF w < w THEN 1 ELSE 0)] = q
      <4>1. w \in 0..w /\ n \in Nat /\ n <= 9 /\ w + (IF w < w THEN 1 ELSE 0) <= n /\ ~(w < w)
            /\ \A k \in w + 1..w : FALSE
        BY <2>2
      <4> QED BY <1>1, <1>2, <2>5, <3>1, <4>1, FiguresMake
    <3>3. f[w] = q
      <4>1. w + (IF w < w THEN 1 ELSE 0) = w
        OBVIOUS
      <4> QED BY <3>2, <4>1, Zenon
    <3>4. f[w + z] = q * 10^z
      <4>1. w \in Nat /\ n \in Nat /\ w + z <= n
        BY <2>2
      <4>2. Accumulates(f, body, n)
        BY <3>1
      <4>3. f[w] \in Nat
        BY <3>3
      <4>4. ZerosFollow(f, body, n, w, z)
        BY <2>6, <4>1, <4>2, <4>3, Zenon DEF ZerosFollow
      <4>5. TimesTen(f, w, z)
        BY <4>4, ZerosMake, Zenon
      <4> QED BY <3>3, <4>5, Zenon DEF TimesTen
    <3> QED BY <2>2, <3>1, <3>4, Zenon
  <2>8. ASSUME NEW k \in 1..n PROVE IsDigit(body[k]) /\ body[k] # Point
    <3>1. CASE k \in 1..w
      BY <1>1, <1>2, <2>5, <3>1, FigureType
    <3>2. CASE k \notin 1..w
      <4>1. PICK j \in 1..z : j = k - w
        BY <2>2, <3>2
      <4>2. w + j = k
        BY <4>1
      <4>3. body[k] = Digit(0)
        BY <2>6, <4>2, Zenon
      <4> QED BY <4>3 DEF IsDigit, Digit, Point
    <3> QED BY <3>1, <3>2
  <2>9. IsNumber(text)
    <3> DEFINE points == {k \in DOMAIN body : body[k] = Point}
    <3>1. DOMAIN body = 1..n
      BY <2>4
    <3>2. points = {}
      BY <2>8, <3>1
    <3>3. Cardinality(points) <= 1
      <4>1. Cardinality({}) = 0
        BY FS_EmptySet
      <4> QED BY <3>2, <4>1
    <3>4. \A k \in DOMAIN body : IsDigit(body[k]) \/ body[k] = Point
      BY <2>8, <3>1
    <3>5. \E k \in DOMAIN body : IsDigit(body[k])
      <4>1. 1 \in 1..n
        OBVIOUS
      <4> QED BY <2>8, <3>1, <4>1
    <3> QED BY <3>3, <3>4, <3>5, Zenon DEF IsNumber, body
  <2>10. Decimals(text) = 0
    <3> DEFINE behind == {k \in DOMAIN text : \E j \in 1..k - 1 : text[j] = Point}
    <3>1. DOMAIN text = 1..o + n
      BY <1>5, <2>3
    <3>2. ASSUME NEW k \in 1..o + n PROVE text[k] # Point
      <4>1. CASE k <= o
        <5>1. o = 1 /\ k = 1
          BY <4>1
        <5>2. Point # Minus
          BY DEF Point, Minus
        <5> QED BY <1>5, <5>1, <5>2
      <4>2. CASE k > o
        <5>1. PICK j \in 1..n : j = k - o
          BY <4>2
        <5>2. o + j = k
          BY <5>1
        <5> QED BY <2>4, <2>8, <5>2, Zenon
      <4> QED BY <4>1, <4>2
    <3>3. behind = {}
      <4>1. ASSUME NEW k \in 1..o + n, NEW j \in 1..k - 1 PROVE text[j] # Point
        <5>1. j \in 1..o + n
          OBVIOUS
        <5> QED BY <3>2, <5>1
      <4> QED BY <3>1, <4>1
    <3> QED BY <3>3, FS_EmptySet, Zenon DEF Decimals
  <2>11. Mantissa(text) = v * 10^z
    <3>1. Mantissa(text) = IF IsNegative(text) THEN -Whole(Unsigned(text)) ELSE Whole(text)
      BY DEF Mantissa
    <3>2. CASE o = 1
      <4>1. v < 0 /\ v \in Int
        BY <1>3, <3>2, Int16Type
      <4>2. -q = v
        BY <1>1, <4>1 DEF Abs
      <4>3. Mantissa(text) = -(q * 10^z)
        BY <2>4, <2>7, <3>1, <3>2, Zenon DEF body
      <4>4. -(q * 10^z) = v * 10^z
        <5>1. PICK t \in Nat : t = 10^z
          <6>1. PICK P : IsTable(P) /\ \A k \in 0..8 : 10^k = P[k]
            BY Powers
          <6>2. z \in 0..8 /\ P[z] \in Nat
            BY <6>1, SMT DEF IsTable
          <6> QED BY <6>1, <6>2, Zenon
        <5>2. -(q * t) = (-q) * t
          OBVIOUS
        <5> QED BY <4>2, <5>1, <5>2, Zenon
      <4> QED BY <4>3, <4>4, Zenon
    <3>3. CASE o = 0
      <4>1. ~(v < 0) /\ v \in Int
        BY <1>3, <3>3, Int16Type
      <4>2. q = v
        BY <1>1, <4>1 DEF Abs
      <4>3. ~IsNegative(text)
        BY <2>4, <3>3
      <4>4. body = text
        BY <4>3, Zenon DEF body, Unsigned
      <4> QED BY <2>7, <3>1, <4>2, <4>3, <4>4, Zenon
    <3> QED BY <3>2, <3>3
  <2>12. Reads(text, v, s)
    <3>1. s + Decimals(text) = z /\ z >= 0
      BY <2>1, <2>10
    <3> QED BY <2>9, <2>11, <3>1, Zenon DEF Reads
  <2> QED BY <1>4, <2>12, Zenon
<1> QED BY <1>6, <1>7, <1>8 DEF Scale

-----------------------------------------------------------------------------
(* The reading as an integer.                                              *)

(* Rounding by a power of ten *)
LEMMA RoundsByPower ==
    ASSUME NEW v \in Nat, NEW s \in Int, s < 0, NEW d \in {10, 100, 1000, 10000}, 10^(-s) = d
    PROVE  Nearest(IntFromFloat(v, s), v, s)
<1>1. PICK q \in Nat, r \in 0..d - 1 : v = d * q + r /\ v \div d = q
  <2>1. v \div d \in Nat /\ v - d * (v \div d) \in 0..d - 1
    BY SMTT(60)
  <2> QED BY <2>1, SMTT(60)
<1>2. Rem(v, d) = r
  <2>1. Quot(v, d) = q
    BY <1>1 DEF Quot
  <2>2. Rem(v, d) = v - d * Quot(v, d)
    BY DEF Rem
  <2> QED BY <1>1, <2>1, <2>2, SMTT(60)
<1>3. Quot(v - r, d) = q
  <2>1. v - r = d * q /\ d * q \in Nat
    BY <1>1, SMTT(60)
  <2>2. (d * q) \div d = q
    BY <1>1, SMTT(60)
  <2>3. Quot(d * q, d) = q
    BY <2>1, <2>2 DEF Quot
  <2> QED BY <2>1, <2>3
<1>4. IntFromFloat(v, s) = IF r >= d \div 2 THEN q + 1 ELSE q
  <2>1. IntFromFloat(v, s) =
          IF Rem(v, 10^(-s)) >= 10^(-s) \div 2
          THEN Quot(v - Rem(v, 10^(-s)), 10^(-s)) + 1
          ELSE Quot(v - Rem(v, 10^(-s)), 10^(-s))
    BY DEF IntFromFloat
  <2>2. IntFromFloat(v, s) = IF r >= d \div 2 THEN Quot(v - r, d) + 1 ELSE Quot(v - r, d)
    BY <2>1, <1>2
  <2> QED BY <2>2, <1>3
<1>5. Nearest(IntFromFloat(v, s), v, s) <=> 2 * Abs(d * IntFromFloat(v, s) - v) <= d
  BY DEF Nearest
<1>6. CASE r >= d \div 2
  <2>1. d * (q + 1) - v = d - r /\ d - r >= 0 /\ 2 * (d - r) <= d
    BY <1>1, <1>6, SMTT(60)
  <2>2. Abs(d - r) = d - r
    BY <1>1, <2>1 DEF Abs
  <2>3. IntFromFloat(v, s) = q + 1
    BY <1>4, <1>6
  <2> QED BY <1>5, <2>1, <2>2, <2>3
<1>7. CASE ~(r >= d \div 2)
  <2>1. d * q - v = -r /\ 2 * r <= d
    BY <1>1, <1>7, SMTT(60)
  <2>2. Abs(-r) = r
    BY <1>1 DEF Abs
  <2>3. IntFromFloat(v, s) = q
    BY <1>4, <1>7
  <2> QED BY <1>5, <2>1, <2>2, <2>3
<1> QED BY <1>6, <1>7

LEMMA RoundsReading ==
    ASSUME NEW v \in Int16, v >= 0, NEW s \in Scale, PowerFits(s)
    PROVE  Nearest(IntFromFloat(v, s), v, s)
<1>1. v \in Nat
  BY DEF Int16
<1>2. CASE s < 0
  <2>1. 10^1 = 10 /\ 10^2 = 100 /\ 10^3 = 1000 /\ 10^4 = 10000
    OBVIOUS
  <2>2. -s = 1 \/ -s = 2 \/ -s = 3 \/ -s = 4
    BY <1>2 DEF Scale, PowerFits, Abs
  <2>3. 10^(-s) \in {10, 100, 1000, 10000}
    <3>1. CASE -s = 1
      <4>1. 10^(-s) = 10^1
        BY <3>1, Zenon
      <4> QED BY <2>1, <4>1
    <3>2. CASE -s = 2
      <4>1. 10^(-s) = 10^2
        BY <3>2, Zenon
      <4> QED BY <2>1, <4>1
    <3>3. CASE -s = 3
      <4>1. 10^(-s) = 10^3
        BY <3>3, Zenon
      <4> QED BY <2>1, <4>1
    <3>4. CASE -s = 4
      <4>1. 10^(-s) = 10^4
        BY <3>4, Zenon
      <4> QED BY <2>1, <4>1
    <3> QED BY <2>2, <3>1, <3>2, <3>3, <3>4
  <2>4. s \in Int
    BY DEF Scale
  <2> QED BY <1>1, <1>2, <2>3, <2>4, RoundsByPower
<1>3. CASE ~(s < 0)
  BY <1>3 DEF Nearest, IntFromFloat
<1> QED BY <1>2, <1>3

(* A single value is as long in values[] as it is by itself.  (Joined is a   *)
(* fold: the function it unfolds to has two arguments, {} and {1}.)        *)
LEMMA JoinedOne == ASSUME NEW x, Len(x) \in Nat PROVE Joined(<<x>>) = Len(x)
<1> DEFINE step(g) == [s \in SUBSET DOMAIN <<x>> |->
                         IF s = {} THEN 0
                         ELSE LET y == Max(s) IN  g[s \ {y}] + Len(<<x>>[y]) + 1]
           fold == CHOOSE g : g = step(g)
           known == [s \in SUBSET DOMAIN <<x>> |-> IF s = {} THEN 0 ELSE Len(x) + 1]
<1>1. Joined(<<x>>) = fold[DOMAIN <<x>>] - 1
  <2>1. FoldLeft(LAMBDA n, string : n + Len(string) + 1, 0, <<x>>) = fold[DOMAIN <<x>>]
    BY Zenon DEF FoldLeft, MapThenFoldSet
  <2> QED BY <2>1, Zenon DEF Joined
<1>2. DOMAIN <<x>> = {1} /\ Max({1}) = 1
  BY DEF Max
<1>3. known = step(known)
  <2>1. ASSUME NEW s \in SUBSET DOMAIN <<x>> PROVE known[s] = step(known)[s]
    <3>1. CASE s = {}
      BY <3>1
    <3>2. CASE s = {1}
      <4>1. known[s \ {Max(s)}] = 0 /\ Max(s) = 1
        BY <3>2, <1>2
      <4>2. step(known)[s] = 0 + Len(<<x>>[1]) + 1
        BY <3>2, <4>1
      <4>3. known[s] = Len(x) + 1
        BY <3>2
      <4> QED BY <4>2, <4>3
    <3> QED BY <3>1, <3>2, <1>2
  <2> QED BY <2>1
<1>4. fold = step(fold)
  BY <1>3, Zenon
<1>5. fold[{1}] = Len(x) + 1
  <2> HIDE DEF fold
  <2>1. fold[{}] = step(fold)[{}]
    BY <1>4
  <2>2. fold[{}] = 0
    BY <2>1
  <2>3. fold[{1}] = step(fold)[{1}]
    BY <1>4
  <2>4. step(fold)[{1}] = fold[{1} \ {Max({1})}] + Len(<<x>>[Max({1})]) + 1
    BY <1>2
  <2>5. {1} \ {Max({1})} = {} /\ <<x>>[Max({1})] = x
    BY <1>2
  <2>6. step(fold)[{1}] = 0 + Len(x) + 1
    BY <2>2, <2>4, <2>5
  <2>7. 0 + Len(x) + 1 = Len(x) + 1
    OBVIOUS
  <2> HIDE DEF step
  <2> QED BY <2>3, <2>6, <2>7
<1> QED BY <1>1, <1>2, <1>5

-----------------------------------------------------------------------------
(* The document of a reading.                                              *)

(* A request that has been read, with the text of its one value *)
Ready ==
    /\ dev \in [name : Names, unit : Units]
    /\ Len(values) = 1 /\ values \in Seq(Seq(Char)) /\ Len(values[1]) <= 10

LEMMA UnitType ==
    ASSUME NEW unit \in Seq(1..255)
    PROVE  /\ UnitOf(unit) \in Seq(Char) /\ Len(UnitOf(unit)) \in 0..4
           /\ Formatted(UnitOf(unit)) \in Seq(Char)
           /\ Len(Formatted(UnitOf(unit))) <= Len(UnitOf(unit))
<1>1. /\ UnitOf(unit) \in Seq(Char) /\ Len(UnitOf(unit)) \in 0..4
  <2>1. CASE unit = <<Percent>>
    BY <2>1 DEF UnitOf, Percent, Char
  <2> DEFINE n == Len(unit)
  <2>a. unit \in Seq(Char) /\ n \in Nat
    BY DEF Char
  <2>2. CASE unit # <<Percent>> /\ n <= 4
    <3>1. UnitOf(unit) = unit
      BY <2>2 DEF UnitOf, Strncpy
    <3>2. n \in 0..4
      BY <2>a, <2>2, UpTo
    <3> QED BY <2>a, <3>1, <3>2
  <2>3. CASE unit # <<Percent>> /\ ~(n <= 4)
    <3>1. UnitOf(unit) = SubSeq(unit, 1, 4)
      BY <2>3 DEF UnitOf, Strncpy
    <3>2. SubSeq(unit, 1, 4) \in Seq(Char) /\ Len(SubSeq(unit, 1, 4)) = 4
      BY <2>a, <2>3
    <3> QED BY <3>1, <3>2
  <2> QED BY <2>1, <2>2, <2>3
<1>2. ASSUME NEW string \in Seq(Char)
      PROVE  Formatted(string) \in Seq(Char) /\ Len(Formatted(string)) <= Len(string)
  <2>1. CASE \A k \in DOMAIN string : string[k] # Percent
    BY <2>1 DEF Formatted
  <2>2. CASE /\ ~(\A k \in DOMAIN string : string[k] # Percent)
             /\ string = <<Percent, Percent>>
    BY <2>2 DEF Formatted, Percent, Char
  <2>3. CASE /\ ~(\A k \in DOMAIN string : string[k] # Percent)
             /\ string # <<Percent, Percent>>
    <3>1. Formatted(string) = <<0>>
      BY <2>3 DEF Formatted, Garbage
    <3>2. Len(string) \in Nat \ {0}
      BY <2>3
    <3>3. <<0>> \in Seq(Char) /\ Len(<<0>>) = 1
      BY DEF Char
    <3> QED BY <3>1, <3>2, <3>3
  <2> QED BY <2>1, <2>2, <2>3
<1> QED BY <1>1, <1>2

(* The unit passes unit[5], the doubled percent sign and the snprintf.       *)
LEMMA UnitBack ==
    ASSUME ResponseAssumption, UnitAssumption, NEW unit \in Units
    PROVE  Formatted(UnitOf(unit)) = unit
<1>1. CASE unit = <<Percent>>
  <2>1. UnitOf(unit) = <<Percent, Percent>>
    BY <1>1 DEF UnitOf
  <2>2. 1 \in DOMAIN <<Percent, Percent>> /\ <<Percent, Percent>>[1] = Percent
    OBVIOUS
  <2>3. Formatted(<<Percent, Percent>>) = <<Percent>>
    BY <2>2, Zenon DEF Formatted
  <2> QED BY <1>1, <2>1, <2>3, Zenon
<1>2. CASE unit # <<Percent>>
  <2>1. Len(unit) <= 4 /\ \A k \in DOMAIN unit : unit[k] # Percent
    BY <1>2, Zenon DEF UnitAssumption
  <2>2. UnitOf(unit) = unit
    BY <1>2, <2>1, Zenon DEF UnitOf, Strncpy
  <2> QED BY <2>1, <2>2, Zenon DEF Formatted
<1> QED BY <1>1, <1>2

LEMMA DevNameType == ASSUME NEW name \in Nat PROVE DevName(name) \in 0..20
  BY DEF DevName

(* The three fields of the record *)
LEMMA DocumentFields ==
    ASSUME ResponseAssumption, Ready
    PROVE  LET record == DocumentPack.records[1]
           IN  /\ record \in Seq(Nat \ {0}) /\ Len(record) = 3
               /\ record[1] \in 7..27 /\ record[2] \in 7..11 /\ record[3] \in 8..18
               /\ DocumentPack.base_info = TRUE /\ DocumentPack.base = <<9>>
               /\ Len(DocumentPack.records) = 1
<1> DEFINE a == 7 + DevName(dev.name)
           b == 7 + Len(UnitOf(dev.unit))
           c == 8 + Joined(values)
<1>1. a \in 7..27
  <2>1. PICK n \in 0..20 : n = DevName(dev.name)
    BY DevNameType DEF Ready, ResponseAssumption
  <2>2. 7 + n \in 7..27
    OBVIOUS
  <2> QED BY <2>1, <2>2, Zenon
<1>2. b \in 7..11
  <2>1. dev.unit \in Seq(1..255)
    BY DEF Ready, ResponseAssumption
  <2>2. Len(UnitOf(dev.unit)) \in 0..4
    BY <2>1, UnitType
  <2>3. PICK n \in 0..4 : n = Len(UnitOf(dev.unit))
    BY <2>2
  <2>4. 7 + n \in 7..11
    OBVIOUS
  <2> QED BY <2>3, <2>4, Zenon
<1>3. c \in 8..18
  <2>1. PICK x \in Seq(Char) : values = <<x>> /\ Len(x) <= 10
    <3>1. values[1] \in Seq(Char)
      <4>1. values \in Seq(Seq(Char)) /\ 1 \in 1..Len(values)
        BY DEF Ready
      <4> QED BY <4>1, ElementOfSeq, Zenon
    <3>2. values = <<values[1]>>
      BY DEF Ready
    <3> QED BY <3>1, <3>2 DEF Ready
  <2>2. Joined(values) = Len(x)
    BY <2>1, JoinedOne
  <2>3. PICK n \in 0..10 : n = Len(x)
    <3>1. Len(x) \in 0..10
      <4>1. Len(x) \in Nat /\ Len(x) <= 10 /\ 10 \in Nat
        BY <2>1
      <4> QED BY <4>1, UpTo, Zenon
    <3> QED BY <3>1, Zenon
  <2>4. 8 + n \in 8..18
    OBVIOUS
  <2> QED BY <2>2, <2>3, <2>4, Zenon
<1>4. DocumentPack = [base_info |-> TRUE, base |-> <<9>>, records |-> << <<a, b, c>> >>]
  BY DEF DocumentPack
<1> HIDE DEF a, b, c
<1> QED BY <1>1, <1>2, <1>3, <1>4

(* It fits into the buffer with all of them. *)
IsRecord(record) ==
    /\ record \in Seq(Nat \ {0}) /\ Len(record) = 3
    /\ record[1] \in 7..27 /\ record[2] \in 7..11 /\ record[3] \in 8..18

LEMMA BehindFits ==
    ASSUME NEW record, IsRecord(record)
    PROVE  /\ \A n \in 0..3 : Behind(record, n) \in 11..67
           /\ \A n \in 0..2 : Behind(record, n + 1) = Behind(record, n) + record[n + 1]
           /\ Behind(record, 0) = 11
<1>1. PICK a \in 7..27, b \in 7..11, c \in 8..18 :
        record[1] = a /\ record[2] = b /\ record[3] = c
  BY DEF IsRecord
<1>2. /\ Behind(record, 0) = 11 /\ Behind(record, 1) = 11 + a
      /\ Behind(record, 2) = 11 + a + b /\ Behind(record, 3) = 11 + a + b + c
  BY <1>1 DEF Behind
<1>3. ASSUME NEW n \in 0..3 PROVE Behind(record, n) \in 11..67
  <2>1. n = 0 \/ n = 1 \/ n = 2 \/ n = 3
    OBVIOUS
  <2>2. 11 \in 11..67 /\ 11 + a \in 11..67 /\ 11 + a + b \in 11..67 /\ 11 + a + b + c \in 11..67
    OBVIOUS
  <2>3. CASE n = 0
    BY <1>2, <2>2, <2>3, Zenon
  <2>4. CASE n = 1
    BY <1>2, <2>2, <2>4, Zenon
  <2>5. CASE n = 2
    BY <1>2, <2>2, <2>5, Zenon
  <2>6. CASE n = 3
    BY <1>2, <2>2, <2>6, Zenon
  <2> QED BY <2>1, <2>3, <2>4, <2>5, <2>6
<1>4. ASSUME NEW n \in 0..2 PROVE Behind(record, n + 1) = Behind(record, n) + record[n + 1]
  <2>1. n = 0 \/ n = 1 \/ n = 2
    OBVIOUS
  <2> QED BY <1>1, <1>2, <2>1
<1> QED BY <1>2, <1>3, <1>4

-----------------------------------------------------------------------------
(* The steps of the encoder on it.                                         *)

LEMMA FrontOutput ==
    ASSUME NEW s \in Seq(Enc!Tokens), Len(s) >= 1
    PROVE  Enc!Front(s) \in Seq(Enc!Tokens)
<1>1. SubSeq(s, 1, Len(s) - 1) \in Seq(Enc!Tokens)
  OBVIOUS
<1> QED BY <1>1 DEF Enc!Front

LEMMA PutOutput ==
    ASSUME NEW s \in Seq(Enc!Tokens), NEW a \in Enc!Tokens, NEW b \in Enc!Tokens
    PROVE  s \o <<a, b>> \in Seq(Enc!Tokens) /\ Len(s \o <<a, b>>) >= 1
  OBVIOUS

LEMMA TopType ==
    ASSUME Enc!TypeOK
    PROVE  /\ \A n \in Int : Enc!MaxOf(top, n) \in Int
           /\ \A width \in Nat : Enc!Snprintf(width) \in Int
  BY DEF Enc!TypeOK, Enc!MaxOf, Enc!Snprintf

(* What a step of the encoder has to leave in order *)
LEMMA EncoderType ==
    ASSUME Enc!TypeOK, pack' = pack, len' = len, ret' = ret,
           pc' \in {"start", "base", "check", "open", "record", "finish", "done"},
           output' \in Seq(Enc!Tokens),
           ins_pos' \in Nat, buf_len' \in Nat, ins_pos_after_bi' \in Nat,
           insert_opening_brace' \in BOOLEAN, i' \in Nat \ {0},
           fields' \in Seq(Nat \ {0}), top' \in Int
    PROVE  (Enc!TypeOK)'
  BY Zenon DEF Enc!TypeOK

LEMMA StartEncodes ==
    ASSUME Enc!TypeOK, NEW record, IsRecord(record), Encodes(record), Enc!Start
    PROVE  (Enc!TypeOK)' /\ Encodes(record)'
<1>1. pc = "start" /\ pack.base_info = TRUE /\ pack.base = <<9>> /\ len = 75 /\ i = 1
  BY DEF Enc!Start, Encodes, SENML_LEN, Enc!TypeOK
<1>2. /\ output' = <<"lbracket", "lbrace">> /\ insert_opening_brace' = FALSE
      /\ fields' = <<9>> /\ pc' = "base"
      /\ ins_pos' = Len(output') /\ buf_len' = len - Len(output') /\ top' = Len(output') - 1
      /\ UNCHANGED <<pack, len, ins_pos_after_bi, i, ret>>
  <2>1. ~(len < 3)
    BY <1>1
  <2>2. /\ output' = IF pack.base_info THEN <<"lbracket", "lbrace">> ELSE <<"lbracket">>
        /\ ins_pos' = Len(output') /\ buf_len' = len - Len(output') /\ top' = Len(output') - 1
        /\ insert_opening_brace' = ~pack.base_info
        /\ fields' = IF pack.base_info THEN pack.base ELSE <<>>
        /\ pc' = "base"
        /\ UNCHANGED <<pack, len, ins_pos_after_bi, i, ret>>
    BY <2>1, Zenon DEF Enc!Start, Enc!args
  <2> QED BY <1>1, <2>2
<1>3. Len(output') = 2 /\ output' \in Seq(Enc!Tokens)
  BY <1>2 DEF Enc!Tokens
<1>4. ins_pos' = 2 /\ buf_len' = 73 /\ top' = 1
  BY <1>1, <1>2, <1>3
<1>5. (Enc!TypeOK)'
  <2>1. fields' \in Seq(Nat \ {0})
    BY <1>2
  <2>2. ins_pos_after_bi' \in Nat /\ i' \in Nat \ {0}
    BY <1>2 DEF Enc!TypeOK
  <2>3. ins_pos' \in Nat /\ buf_len' \in Nat /\ top' \in Int
    BY <1>4
  <2>5. insert_opening_brace' \in BOOLEAN
    BY <1>2
  <2>4. pc' \in {"start", "base", "check", "open", "record", "finish", "done"}
    BY <1>2
  <2> QED BY <1>2, <1>3, <2>1, <2>2, <2>3, <2>4, <2>5, EncoderType
<1> QED BY <1>1, <1>2, <1>3, <1>4, <1>5 DEF Encodes

(* A field always fits. *)
LEMMA FieldEncodes ==
    ASSUME Enc!TypeOK, NEW record, IsRecord(record), Encodes(record), Enc!Field
    PROVE  (Enc!TypeOK)' /\ Encodes(record)'
<1>1. /\ pc \in {"base", "record"} /\ fields # <<>> /\ top' = Enc!Snprintf(Head(fields))
      /\ UNCHANGED <<pack, len, insert_opening_brace, ins_pos_after_bi, i>>
  BY DEF Enc!Field, Enc!args
<1>2. fields \in Seq(Nat \ {0}) /\ output \in Seq(Enc!Tokens)
  BY DEF Enc!TypeOK
<1>3. PICK m \in Nat, width \in Nat \ {0} :
        /\ Len(fields) = m + 1 /\ Head(fields) = width /\ fields[1] = width
        /\ Tail(fields) \in Seq(Nat \ {0}) /\ Len(Tail(fields)) = m
        /\ \A k \in 1..m : Tail(fields)[k] = fields[k + 1]
  <2>1. Head(fields) \in Nat \ {0} /\ Tail(fields) \in Seq(Nat \ {0}) /\ Head(fields) = fields[1]
    BY <1>1, <1>2
  <2>2. Len(fields) \in Nat \ {0} /\ Len(Tail(fields)) = Len(fields) - 1
    BY <1>1, <1>2
  <2>3. PICK m \in Nat : Len(fields) = m + 1
    <3>1. ASSUME NEW l \in Nat \ {0} PROVE l - 1 \in Nat /\ l = l - 1 + 1
      OBVIOUS
    <3> QED BY <2>2, <3>1, Zenon
  <2>4. Len(Tail(fields)) = m
    BY <2>2, <2>3
  <2>5. \A k \in 1..Len(Tail(fields)) : Tail(fields)[k] = fields[k + 1]
    BY <1>1, <1>2, HeadTailProperties
  <2> QED BY <2>1, <2>3, <2>4, <2>5, Zenon
<1>4. PICK room \in Nat, at \in Nat : buf_len = room /\ ins_pos = at
  BY DEF Enc!TypeOK
<1>5. ASSUME width < room
      PROVE  /\ (Enc!TypeOK)'
             /\ Len(output') >= 1 /\ ins_pos' = at + width /\ buf_len' = room - width
             /\ fields' = Tail(fields) /\ pc' = pc /\ ret' = ret
  <2>1. /\ output' = output \o <<"field", "comma">> /\ ins_pos' = at + width
        /\ buf_len' = room - width /\ fields' = Tail(fields) /\ UNCHANGED <<pc, ret>>
    <3>1. ~(Head(fields) >= buf_len)
      BY <1>3, <1>4, <1>5
    <3> QED BY <1>3, <1>4, <3>1, Zenon DEF Enc!Field
  <2>2. output' \in Seq(Enc!Tokens) /\ Len(output') >= 1
    <3>1. "field" \in Enc!Tokens /\ "comma" \in Enc!Tokens
      BY DEF Enc!Tokens
    <3> QED BY <1>2, <3>1, <2>1, PutOutput
  <2>3. (Enc!TypeOK)'
    <3>1. ins_pos' \in Nat /\ buf_len' \in Nat
      BY <1>5, <2>1
    <3>2. top' \in Int
      BY <1>1, <1>3, TopType
    <3>3. ins_pos_after_bi' \in Nat /\ i' \in Nat \ {0} /\ insert_opening_brace' \in BOOLEAN
      BY <1>1 DEF Enc!TypeOK
    <3>4. pc' \in {"start", "base", "check", "open", "record", "finish", "done"}
      BY <1>1, <2>1
    <3> QED BY <1>1, <1>3, <2>1, <2>2, <3>1, <3>2, <3>3, <3>4, EncoderType
  <2> QED BY <2>1, <2>2, <2>3
<1>6. CASE pc = "base"
  <2>1. fields = <<9>> /\ at = 2 /\ room = 73
    <3>1. fields = <<9>>
      BY <1>1, <1>6 DEF Encodes
    <3>2. ins_pos = 2 /\ buf_len = 75 - ins_pos
      BY <1>6, <3>1 DEF Encodes
    <3> QED BY <1>4, <3>1, <3>2
  <2>2. width = 9
    BY <1>3, <2>1
  <2>3. width < room /\ at + width = 11 /\ room - width = 64
    BY <2>1, <2>2
  <2>4. Tail(fields) = <<>>
    BY <2>1
  <2>5. fields' = <<>> /\ ins_pos' = 11 /\ buf_len' = 64 /\ pc' = "base"
    BY <1>5, <1>6, <2>3, <2>4
  <2>6. /\ fields' \in {<<9>>, <<>>} /\ ins_pos' = (IF fields' = <<>> THEN 11 ELSE 2)
        /\ buf_len' = 75 - ins_pos'
    BY <2>5
  <2>7. (Enc!TypeOK)' /\ Len(output') >= 1 /\ ret' = ret
    BY <1>5, <2>3
  <2>8. i = 1 /\ ~insert_opening_brace
    BY <1>6 DEF Encodes
  <2> QED BY <1>1, <2>5, <2>6, <2>7, <2>8, Zenon DEF Encodes
<1>7. CASE pc = "record"
  <2>1. PICK n \in 0..2 : m + 1 = 3 - n
    <3>1. Len(fields) <= 3
      BY <1>7 DEF Encodes
    <3>2. m + 1 <= 3
      BY <1>3, <3>1
    <3>3. 2 - m \in 0..2 /\ m + 1 = 3 - (2 - m)
      BY <3>2
    <3> QED BY <3>3, Zenon
  <2>2. Len(fields) = 3 - n
    BY <1>3, <2>1
  <2>3. 3 - (3 - n) = n
    OBVIOUS
  <2>4. /\ \A k \in DOMAIN fields : fields[k] = record[n + k]
        /\ at = Behind(record, n) /\ room = 74 - at
    <3>1. 3 - Len(fields) = n
      BY <2>2, <2>3, Zenon
    <3>2. /\ \A k \in DOMAIN fields : fields[k] = record[3 - Len(fields) + k]
          /\ ins_pos = Behind(record, 3 - Len(fields)) /\ buf_len = 74 - ins_pos
      BY <1>7, Zenon DEF Encodes
    <3> QED BY <1>4, <3>1, <3>2, Zenon
  <2>5. width = record[n + 1]
    <3>1. 1 \in DOMAIN fields
      BY <1>1, <1>2
    <3> QED BY <1>3, <2>4, <3>1, Zenon
  <2>6. PICK next \in 11..67 : next = Behind(record, n + 1)
    <3>1. n + 1 \in 0..3
      OBVIOUS
    <3> QED BY <3>1, BehindFits
  <2>7. next = at + width
    BY <2>4, <2>5, <2>6, BehindFits
  <2>8. width < room /\ room - width = 74 - next
    BY <2>4, <2>7
  <2>9. Len(fields') = m /\ 3 - m = n + 1 /\ m <= 3
    <3>1. 3 - m = n + 1 /\ m <= 3
      BY <2>1
    <3>2. fields' = Tail(fields)
      BY <1>5, <2>8
    <3> QED BY <1>3, <3>1, <3>2
  <2>10. \A k \in DOMAIN fields' : fields'[k] = record[n + 1 + k]
    <3>1. fields' = Tail(fields)
      BY <1>5, <2>8
    <3>2. DOMAIN fields' = 1..m
      BY <1>3, <3>1
    <3>3. ASSUME NEW k \in 1..m PROVE fields'[k] = record[n + 1 + k]
      <4>1. k + 1 \in 1..m + 1 /\ n + (k + 1) = n + 1 + k
        OBVIOUS
      <4>2. k + 1 \in DOMAIN fields
        BY <1>2, <1>3, <4>1
      <4>3. fields[k + 1] = record[n + (k + 1)]
        BY <2>4, <4>2, Zenon
      <4>4. fields'[k] = fields[k + 1]
        BY <1>3, <3>1, Zenon
      <4> QED BY <4>1, <4>3, <4>4, Zenon
    <3> QED BY <3>2, <3>3, Zenon
  <2>11. ins_pos' = next /\ buf_len' = 74 - ins_pos'
    BY <1>5, <2>7, <2>8
  <2>12. 3 - Len(fields') = n + 1 /\ Len(fields') <= 3
    BY <2>9, Zenon
  <2>13. /\ \A k \in DOMAIN fields' : fields'[k] = record[3 - Len(fields') + k]
         /\ ins_pos' = Behind(record, 3 - Len(fields'))
    BY <2>6, <2>10, <2>11, <2>12, Zenon
  <2> QED BY <1>1, <1>5, <1>7, <2>8, <2>11, <2>12, <2>13 DEF Encodes
<1> QED BY <1>1, <1>6, <1>7

LEMMA BaseEndsEncodes ==
    ASSUME Enc!TypeOK, NEW record, IsRecord(record), Encodes(record), Enc!BaseEnds
    PROVE  (Enc!TypeOK)' /\ Encodes(record)'
<1>1. /\ pc = "base" /\ pc' = "check" /\ fields = <<>> /\ ins_pos_after_bi' = ins_pos
      /\ UNCHANGED <<pack, len, output, ins_pos, buf_len, insert_opening_brace, i, fields, top, ret>>
  BY DEF Enc!BaseEnds, Enc!args
<1>2. ins_pos = 11 /\ buf_len = 64
  <2>1. ins_pos = (IF fields = <<>> THEN 11 ELSE 2) /\ buf_len = 75 - ins_pos
    BY <1>1 DEF Encodes
  <2> QED BY <1>1, <2>1
<1>3. (Enc!TypeOK)'
  BY <1>1, Zenon DEF Enc!TypeOK
<1>4. i = 1 /\ ~insert_opening_brace /\ Len(output) >= 1
  BY <1>1 DEF Encodes
<1> QED BY <1>1, <1>2, <1>3, <1>4, Zenon DEF Encodes

(* There is a record, and room for it. *)
LEMMA CheckEncodes ==
    ASSUME Enc!TypeOK, NEW record, IsRecord(record), Encodes(record), Enc!Check
    PROVE  (Enc!TypeOK)' /\ Encodes(record)'
<1>1. /\ pc = "check" /\ pack.records = <<record>> /\ ins_pos = 11 /\ buf_len = 64
      /\ ins_pos_after_bi = 11 /\ i = 1 /\ ~insert_opening_brace /\ Len(output) >= 1
  BY DEF Enc!Check, Encodes
<1>2. pack.records # <<>> /\ ~(buf_len < 4)
  BY <1>1
<1>3. /\ pc' = "open" /\ buf_len' = buf_len - 1
      /\ UNCHANGED <<pack, len, output, ins_pos, insert_opening_brace, ins_pos_after_bi, i,
                     fields, top, ret>>
  BY <1>2, Zenon DEF Enc!Check, Enc!args
<1>4. buf_len' = 63
  BY <1>1, <1>3
<1>5. buf_len' \in Nat
  BY <1>4
<1>6. (Enc!TypeOK)'
  BY <1>3, <1>5, Zenon DEF Enc!TypeOK
<1> QED BY <1>1, <1>3, <1>4, <1>6, Zenon DEF Encodes

LEMMA OpenRecordEncodes ==
    ASSUME Enc!TypeOK, NEW record, IsRecord(record), Encodes(record), Enc!OpenRecord
    PROVE  (Enc!TypeOK)' /\ Encodes(record)'
<1>1. /\ pc = "open" /\ pack.records = <<record>> /\ ins_pos = 11 /\ buf_len = 63
      /\ ins_pos_after_bi = 11 /\ i = 1 /\ ~insert_opening_brace /\ Len(output) >= 1
  BY DEF Enc!OpenRecord, Encodes
<1>2. /\ fields' = pack.records[i] /\ pc' = "record"
      /\ UNCHANGED <<pack, len, output, ins_pos, buf_len, insert_opening_brace,
                     ins_pos_after_bi, i, top, ret>>
  BY <1>1, Zenon DEF Enc!OpenRecord, Enc!args
<1>3. fields' = record
  BY <1>1, <1>2
<1>4. fields' \in Seq(Nat \ {0}) /\ Len(fields') = 3
  BY <1>3 DEF IsRecord
<1>5. (Enc!TypeOK)'
  BY <1>2, <1>4, Zenon DEF Enc!TypeOK
<1>6. 3 - Len(fields') = 0 /\ Len(fields') <= 3
  <2>1. 3 - 3 = 0 /\ 3 <= 3
    OBVIOUS
  <2> QED BY <1>4, <2>1, Zenon
<1>7. \A k \in DOMAIN fields' : fields'[k] = record[3 - Len(fields') + k]
  <2>1. ASSUME NEW k \in DOMAIN fields' PROVE record[0 + k] = record[k]
    BY <1>4
  <2> QED BY <1>3, <1>6, <2>1, Zenon
<1>8. ins_pos' = Behind(record, 3 - Len(fields')) /\ buf_len' = 74 - ins_pos'
  <2>1. Behind(record, 0) = 11
    BY BehindFits
  <2>2. 63 = 74 - 11
    OBVIOUS
  <2> QED BY <1>1, <1>2, <1>6, <2>1, <2>2, Zenon
<1> QED BY <1>1, <1>2, <1>5, <1>6, <1>7, <1>8, Zenon DEF Encodes

(* The record has fields. *)
LEMMA NotEmpty ==
    ASSUME NEW record, IsRecord(record), Encodes(record), Enc!CloseEmpty
    PROVE  FALSE
<1>1. pack.records[i] = record
  <2>1. pack.records = <<record>> /\ i = 1
    BY DEF Enc!CloseEmpty, Encodes
  <2> QED BY <2>1
<1>2. record # <<>>
  <2>1. Len(record) = 3
    BY DEF IsRecord
  <2>2. record = <<>> => Len(record) = 0
    OBVIOUS
  <2> QED BY <2>1, <2>2
<1> QED BY <1>1, <1>2 DEF Enc!CloseEmpty

LEMMA CloseRecordEncodes ==
    ASSUME Enc!TypeOK, NEW record, IsRecord(record), Encodes(record), Enc!CloseRecord
    PROVE  (Enc!TypeOK)' /\ Encodes(record)'
<1>1. /\ pc = "record" /\ fields = <<>> /\ pack.records = <<record>> /\ i = 1
      /\ ins_pos_after_bi = 11 /\ Len(output) >= 1
  BY DEF Enc!CloseRecord, Encodes
<1>2. Len(pack.records) = 1 /\ ~(i < Len(pack.records))
  BY <1>1
<1>3. /\ output' = Enc!Front(output) \o <<"rbrace", "comma">>
      /\ ins_pos' = ins_pos + 1 /\ buf_len' = buf_len - 1 /\ top' = Enc!MaxOf(top, ins_pos)
      /\ insert_opening_brace' = TRUE /\ i' = i + 1 /\ pc' = "finish"
      /\ UNCHANGED <<pack, len, ins_pos_after_bi, fields, ret>>
  BY <1>2, Zenon DEF Enc!CloseRecord, Enc!NextRecord, Enc!args
<1>4. PICK at \in 11..67 : ins_pos = at /\ buf_len = 74 - at /\ at = Behind(record, 3)
  <2>1. 3 - Len(fields) = 3
    <3>1. Len(fields) = 0
      BY <1>1
    <3> QED BY <3>1
  <2>2. ins_pos = Behind(record, 3 - Len(fields)) /\ buf_len = 74 - ins_pos
    BY <1>1, Zenon DEF Encodes
  <2>3. Behind(record, 3) \in 11..67
    BY BehindFits
  <2> QED BY <2>1, <2>2, <2>3, Zenon
<1>5. ins_pos' = at + 1 /\ buf_len' \in Nat
  <2>1. ins_pos' = ins_pos + 1 /\ buf_len' = buf_len - 1 /\ ins_pos = at /\ buf_len = 74 - at
    BY <1>3, <1>4
  <2>2. at \in 11..67
    OBVIOUS
  <2> QED BY <2>1, <2>2
<1>6. output' \in Seq(Enc!Tokens) /\ Len(output') >= 1
  <2>1. output \in Seq(Enc!Tokens) /\ "rbrace" \in Enc!Tokens /\ "comma" \in Enc!Tokens
    BY DEF Enc!TypeOK, Enc!Tokens
  <2>2. Enc!Front(output) \in Seq(Enc!Tokens)
    BY <1>1, <2>1, FrontOutput
  <2> QED BY <1>3, <2>1, <2>2, PutOutput
<1>7. (Enc!TypeOK)'
  <2>1. ins_pos' \in Nat /\ i' \in Nat \ {0}
    <3>1. at + 1 \in Nat
      OBVIOUS
    <3>2. i = 1 /\ i' = i + 1
      BY <1>1, <1>3, Zenon
    <3>3. i' \in Nat \ {0}
      BY <3>2
    <3> QED BY <1>5, <3>1, <3>3, Zenon
  <2>2. top' \in Int
    <3>1. ins_pos \in Int
      BY <1>4
    <3> QED BY <1>3, <3>1, TopType
  <2>3. insert_opening_brace' \in BOOLEAN
    BY <1>3
  <2>4. pc' \in {"start", "base", "check", "open", "record", "finish", "done"}
    BY <1>3
  <2>5. ins_pos_after_bi' \in Nat /\ fields' \in Seq(Nat \ {0})
    BY <1>3 DEF Enc!TypeOK
  <2> QED BY <1>3, <1>5, <1>6, <2>1, <2>2, <2>3, <2>4, <2>5, EncoderType
<1> QED BY <1>1, <1>3, <1>4, <1>5, <1>6, <1>7, Zenon DEF Encodes

LEMMA FinishEncodes ==
    ASSUME Enc!TypeOK, NEW record, IsRecord(record), Encodes(record), Enc!Finish
    PROVE  (Enc!TypeOK)' /\ Encodes(record)'
<1>1. pc = "finish" /\ ins_pos_after_bi = 11 /\ Len(output) >= 1
  BY DEF Enc!Finish, Encodes
<1>2. PICK at \in 12..68 : ins_pos = at /\ at = Behind(record, 3) + 1
  <2>1. Behind(record, 3) \in 11..67
    BY BehindFits
  <2>2. ins_pos = Behind(record, 3) + 1
    BY <1>1, Zenon DEF Encodes
  <2>3. Behind(record, 3) + 1 \in 12..68
    BY <2>1
  <2> QED BY <2>2, <2>3, Zenon
<1>3. ins_pos + 1 # ins_pos_after_bi /\ ins_pos > 1
  <2>1. ins_pos = at /\ ins_pos_after_bi = 11
    BY <1>1, <1>2
  <2>2. at + 1 # 11 /\ at > 1
    OBVIOUS
  <2> QED BY <2>1, <2>2, Zenon
<1>4. /\ output' = Enc!Front(output) \o <<"rbracket", "nul">>
      /\ ins_pos' = ins_pos - 1 + 2 /\ top' = Enc!MaxOf(top, ins_pos - 1 + 1)
      /\ pc' = "done" /\ ret' = 0
      /\ UNCHANGED <<pack, len, buf_len, insert_opening_brace, ins_pos_after_bi, i, fields>>
  BY <1>3, Zenon DEF Enc!Finish, Enc!Return, Enc!args
<1>5. ins_pos' = Behind(record, 3) + 2 /\ ins_pos' \in Nat
  <2>1. PICK b \in 11..67 : b = Behind(record, 3)
    <3>1. Behind(record, 3) \in 11..67
      BY BehindFits
    <3> QED BY <3>1
  <2>2. ins_pos' = ins_pos - 1 + 2 /\ ins_pos = b + 1
    BY <1>2, <1>4, <2>1, Zenon
  <2>3. b + 2 \in Nat
    OBVIOUS
  <2>4. ins_pos' = b + 2
    BY <2>2
  <2> QED BY <2>1, <2>3, <2>4, Zenon
<1>6. output' \in Seq(Enc!Tokens) /\ Len(output') >= 1
  <2>1. output \in Seq(Enc!Tokens) /\ "rbracket" \in Enc!Tokens /\ "nul" \in Enc!Tokens
    BY DEF Enc!TypeOK, Enc!Tokens
  <2>2. Enc!Front(output) \in Seq(Enc!Tokens)
    BY <1>1, <2>1, FrontOutput
  <2> QED BY <1>4, <2>1, <2>2, PutOutput
<1>7. ret' = ret /\ ret = 0
  BY <1>4 DEF Encodes
<1>8. (Enc!TypeOK)'
  <2>2. top' \in Int
    <3>1. ins_pos - 1 + 1 \in Int
      BY <1>2
    <3> QED BY <1>4, <3>1, TopType
  <2>3. pc' \in {"start", "base", "check", "open", "record", "finish", "done"}
    BY <1>4
  <2>4. /\ ins_pos_after_bi' \in Nat /\ fields' \in Seq(Nat \ {0}) /\ buf_len' \in Nat
        /\ i' \in Nat \ {0} /\ insert_opening_brace' \in BOOLEAN
    BY <1>4 DEF Enc!TypeOK
  <2> QED BY <1>4, <1>5, <1>6, <1>7, <2>2, <2>3, <2>4, EncoderType
<1> QED BY <1>1, <1>4, <1>5, <1>6, <1>7, <1>8, Zenon DEF Encodes

(* The encoder goes on in the document as long as it runs. *)
LEMMA EncodingKeeps ==
    ASSUME Enc!TypeOK, NEW record, IsRecord(record), Encodes(record), Enc!Next
    PROVE  (Enc!TypeOK)' /\ Encodes(record)'
BY StartEncodes, FieldEncodes, BaseEndsEncodes, CheckEncodes, OpenRecordEncodes, NotEmpty,
   CloseRecordEncodes, FinishEncodes, Zenon DEF Enc!Next

-----------------------------------------------------------------------------
(* The request.                                                            *)

Inv == TypeOK /\ HandlerInv /\ DocumentInv /\ OnlyKnownCrashes /\ PacketFits

EncPacks == [base_info : {TRUE}, base : PosLists, records : Seq(PosLists)]

(* An encoder that is called, or put to rest, is in order; so is one that    *)
(* does not move.                                                          *)
LEMMA EncoderCalled ==
    ASSUME NEW p \in EncPacks, NEW where \in {"start", "done"}, EncoderIs(p, where)
    PROVE  (Enc!TypeOK)'
<1>1. /\ pack' \in EncPacks /\ len' \in Nat /\ pc' \in {"start", "done"}
      /\ ins_pos' \in Nat /\ buf_len' \in Nat /\ ins_pos_after_bi' \in Nat
      /\ insert_opening_brace' \in BOOLEAN /\ i' \in Nat \ {0} /\ top' \in Int /\ ret' \in {0, -1}
  BY DEF EncoderIs, SENML_LEN
<1>2. output' \in Seq(Enc!Tokens) /\ fields' \in Seq(Nat \ {0})
  BY EmptySeq DEF EncoderIs
<1> QED BY <1>1, <1>2 DEF Enc!TypeOK, EncPacks

LEMMA EncoderRests == ASSUME Enc!TypeOK, UNCHANGED encoder PROVE (Enc!TypeOK)'
  BY Zenon DEF Enc!TypeOK, encoder

LEMMA InitHolds == ASSUME ResponseAssumption, Init PROVE Inv
<1>1. Enc!TypeOK
  <2>1. NoPack \in EncPacks
    BY EmptySeq DEF NoPack, EncPacks, PosLists
  <2>2. output \in Seq(Enc!Tokens) /\ fields \in Seq(Nat \ {0})
    BY EmptySeq DEF Init
  <2>3. /\ len \in Nat /\ pc = "done"
        /\ ins_pos \in Nat /\ buf_len \in Nat /\ ins_pos_after_bi \in Nat
        /\ insert_opening_brace \in BOOLEAN /\ i \in Nat \ {0} /\ top \in Int /\ ret \in {0, -1}
    BY DEF Init, SENML_LEN
  <2>4. pack = NoPack
    BY DEF Init
  <2> QED BY <2>1, <2>2, <2>3, <2>4 DEF Enc!TypeOK, EncPacks
<1>2. TypeOK
  <2>1. values = <<>> /\ packet.unit = <<>> /\ packet.values = <<>> /\ packet.len = 0
    BY DEF Init, NoPacket
  <2>2. values \in Seq(Seq(0..255)) /\ packet.unit \in Seq(0..255)
        /\ packet.values \in Seq(Seq(0..255)) /\ packet.len \in Nat
    BY <2>1, EmptySeq
  <2> QED BY <1>1, <2>2 DEF Init, TypeOK, Types
<1>3. HandlerInv
  BY DEF Init, HandlerInv, coap_resources
<1> QED BY <1>2, <1>3 DEF Init, Inv, DocumentInv, OnlyKnownCrashes, PacketFits

(* A board that crashes for a known cause *)
LEMMA CrashKeeps ==
    ASSUME Inv, NEW why, Crash(why),
           \/ why \in {"no memory", "no device", "read error"}
           \/ why = "valstring[6]" /\ \E k \in DOMAIN res.val : ~InValstring(res.val[k], res.scale)
           \/ why = "curr_value[10]" /\ \E k \in DOMAIN res.val : ~InCurrValue(res.val[k], res.scale),
           type' \in coap_resources,
           UNCHANGED <<dev, res, values, heap, packet, result, encoder>>
    PROVE  Inv'
<1>1. (Enc!TypeOK)'
  BY EncoderRests DEF Inv, TypeOK
<1>2. TypeOK'
  <2>1. type' \in Types
    BY DEF coap_resources, Types
  <2>2. phase' = "crashed" /\ cause' = why
    BY DEF Crash
  <2>3. why \in {"none", "no memory", "no device", "read error", "values[25]",
                 "valstring[6]", "curr_value[10]"}
    OBVIOUS
  <2> QED BY <1>1, <2>1, <2>2, <2>3, Zenon DEF Inv, TypeOK
<1>3. HandlerInv' /\ DocumentInv' /\ PacketFits'
  BY DEF Crash, HandlerInv, DocumentInv, PacketFits
<1>4. OnlyKnownCrashes'
  BY Zenon DEF Crash, OnlyKnownCrashes
<1> QED BY <1>2, <1>3, <1>4 DEF Inv

LEMMA RequestKeeps == ASSUME Inv, Request PROVE Inv'
<1>1. CASE Crash("no memory") /\ UNCHANGED heap
  <2>1. type' \in coap_resources /\ UNCHANGED <<dev, res, values, packet, result, encoder>>
    BY DEF Request
  <2> QED BY <1>1, <2>1, CrashKeeps
<1>2. CASE heap' = heap + 1 /\ phase' = "read" /\ UNCHANGED cause
  <2>1. /\ phase = "idle" /\ type' \in coap_resources
        /\ UNCHANGED <<dev, res, values, packet, result, encoder>>
    BY DEF Request
  <2>2. TypeOK'
    <3>1. (Enc!TypeOK)'
      BY <2>1, EncoderRests DEF Inv, TypeOK
    <3>2. type' \in Types
      BY <2>1 DEF coap_resources, Types
    <3>3. heap' = 1
      <4>1. heap = 0
        BY <2>1, Zenon DEF Inv, TypeOK
      <4> QED BY <1>2, <4>1
    <3> QED BY <1>2, <2>1, <3>1, <3>2, <3>3 DEF Inv, TypeOK
  <2>3. HandlerInv' /\ DocumentInv' /\ PacketFits' /\ OnlyKnownCrashes'
    BY <1>2, <2>1 DEF Inv, HandlerInv, DocumentInv, PacketFits, OnlyKnownCrashes
  <2> QED BY <2>2, <2>3 DEF Inv
<1> QED BY <1>1, <1>2 DEF Request

LEMMA ReadKeeps == ASSUME Inv, Read PROVE Inv'
<1>1. phase = "read" /\ UNCHANGED <<type, values, heap, packet, result, encoder>>
  BY DEF Read
<1>2. type \in coap_resources /\ values = <<>>
  BY <1>1 DEF Inv, HandlerInv
<1>3. CASE /\ \E why \in {"no device", "read error"} : Crash(why)
           /\ UNCHANGED <<dev, res>>
  BY <1>1, <1>2, <1>3, CrashKeeps
<1>4. CASE /\ dev' \in [name : Names, unit : Units]
           /\ res' \in {r \in Readings : Len(r.val) = Dim(type)}
           /\ phase' = "convert" /\ UNCHANGED cause
  <2>1. res' \in Readings /\ Len(res'.val) = 1
    BY <1>2, <1>4 DEF coap_resources, Dim
  <2>2. TypeOK'
    <3>1. (Enc!TypeOK)'
      BY <1>1, EncoderRests DEF Inv, TypeOK
    <3>2. heap' = 1
      BY <1>1 DEF Inv, TypeOK
    <3>3. dev'.name \in Names /\ dev'.unit \in Units
      BY <1>4
    <3> QED BY <1>1, <1>4, <2>1, <3>1, <3>2, <3>3 DEF Inv, TypeOK
  <2>3. HandlerInv'
    <3>1. values' = <<>> /\ Len(<<>>) = 0 /\ type' = type
      BY <1>1, <1>2
    <3> QED BY <1>2, <1>4, <2>1, <3>1 DEF HandlerInv
  <2>4. DocumentInv' /\ PacketFits' /\ OnlyKnownCrashes'
    BY <1>4 DEF DocumentInv, PacketFits, OnlyKnownCrashes
  <2> QED BY <2>2, <2>3, <2>4 DEF Inv
<1> QED BY <1>3, <1>4 DEF Read

(* values[25] holds the one value of every sensor that is offered. *)
LEMMA ConvertKeeps == ASSUME ResponseAssumption, Inv, Convert PROVE Inv'
<1>1. /\ phase = "convert" /\ ~Converted
      /\ UNCHANGED <<type, dev, res, heap, packet, result, encoder>>
  BY DEF Convert, request
<1>2. /\ type \in coap_resources /\ res \in Readings /\ Len(res.val) = 1
      /\ dev \in [name : Names, unit : Units] /\ Len(values) <= 1
  BY <1>1 DEF Inv, HandlerInv
<1>3. values = <<>>
  <2>1. values \in Seq(Seq(0..255)) /\ Len(values) # 1
    BY <1>1, <1>2 DEF Inv, TypeOK, Converted
  <2> QED BY <1>2, <2>1
<1>4. res.val[1] \in Int16 /\ res.scale \in Scale
  <2>1. res.val \in Seq(Int16) /\ res.scale \in Scale
    BY <1>2 DEF ResponseAssumption
  <2>2. 1 \in 1..Len(res.val)
    BY <1>2
  <2> QED BY <2>1, <2>2, ElementOfSeq
<1>5. ASSUME NEW text \in Texts(res.val[1], res.scale)
      PROVE  /\ text \in Seq(Char) /\ Len(text) <= 10
             /\ Append(values, text) = <<text>> /\ ~Wide(Append(values, text))
  <2>1. text \in Seq(Char) /\ Len(text) \in 0..10
    BY <1>4, TextsType
  <2>2. PICK n \in 0..10 : n = Len(text)
    BY <2>1
  <2>3. n <= 10 /\ ~(n > 24)
    OBVIOUS
  <2>4. Append(values, text) = <<text>>
    BY <1>3
  <2>5. ~Wide(<<text>>)
    <3>1. Joined(<<text>>) = Len(text)
      BY <2>1, JoinedOne
    <3>2. ~(Len(text) > 24)
      BY <2>2, <2>3, Zenon
    <3> QED BY <3>1, <3>2 DEF Wide
  <2> QED BY <2>1, <2>2, <2>3, <2>4, <2>5, Zenon
<1>6. \/ \E text \in Texts(res.val[1], res.scale) : values' = <<text>> /\ UNCHANGED <<phase, cause>>
      \/ Crash("valstring[6]") /\ UNCHANGED values /\ ~InValstring(res.val[1], res.scale)
      \/ Crash("curr_value[10]") /\ UNCHANGED values /\ ~InCurrValue(res.val[1], res.scale)
  <2>1. Len(values) + 1 = 1
    BY <1>3
  <2> QED BY <1>5, <2>1, Zenon DEF Convert
<1>7. 1 \in DOMAIN res.val
  BY <1>2 DEF ResponseAssumption
<1>8. CASE \E text \in Texts(res.val[1], res.scale) :
             values' = <<text>> /\ UNCHANGED <<phase, cause>>
  <2>1. PICK text \in Texts(res.val[1], res.scale) :
          values' = <<text>> /\ UNCHANGED <<phase, cause>>
    BY <1>8
  <2>2. values' \in Seq(Seq(0..255)) /\ Len(values') = 1 /\ values'[1] = text
    BY <1>5, <2>1 DEF Char
  <2>3. TypeOK'
    <3>1. (Enc!TypeOK)'
      BY <1>1, EncoderRests DEF Inv, TypeOK
    <3> QED BY <1>1, <2>1, <2>2, <3>1, Zenon DEF Inv, TypeOK
  <2>4. HandlerInv'
    <3>1. ASSUME NEW k \in DOMAIN values' PROVE Len(values'[k]) <= 10
      <4>1. k = 1
        BY <2>1
      <4>2. Len(text) <= 10
        BY <1>5
      <4> QED BY <2>2, <4>1, <4>2
    <3>2. phase' = "convert" /\ type' = type /\ res' = res /\ dev' = dev
      BY <1>1, <2>1
    <3>3. Len(values') <= 1
      BY <2>2
    <3> QED BY <1>2, <3>1, <3>2, <3>3, Zenon DEF HandlerInv
  <2>5. DocumentInv' /\ PacketFits' /\ OnlyKnownCrashes'
    BY <1>1, <2>1 DEF DocumentInv, PacketFits, OnlyKnownCrashes
  <2> QED BY <2>3, <2>4, <2>5 DEF Inv
<1>9. CASE Crash("valstring[6]") /\ UNCHANGED values /\ ~InValstring(res.val[1], res.scale)
  <2>1. \E k \in DOMAIN res.val : ~InValstring(res.val[k], res.scale)
    BY <1>7, <1>9, Zenon
  <2> QED BY <1>1, <1>2, <1>9, <2>1, CrashKeeps
<1>10. CASE Crash("curr_value[10]") /\ UNCHANGED values /\ ~InCurrValue(res.val[1], res.scale)
  <2>1. \E k \in DOMAIN res.val : ~InCurrValue(res.val[k], res.scale)
    BY <1>7, <1>10, Zenon
  <2> QED BY <1>1, <1>2, <1>10, <2>1, CrashKeeps
<1> QED BY <1>6, <1>8, <1>9, <1>10

(* A request with its text has a document that fits. *)
LEMMA ReadyHolds ==
    ASSUME Inv, phase \in {"convert", "encode", "sent"}, Converted
    PROVE  Ready
<1>1. Len(res.val) = 1 /\ dev \in [name : Names, unit : Units]
      /\ (\A k \in DOMAIN values : Len(values[k]) <= 10)
  BY DEF Inv, HandlerInv
<1>2. values \in Seq(Seq(Char))
  BY DEF Inv, TypeOK, Char
<1>3. Len(values) = 1
  BY <1>1 DEF Converted
<1>4. 1 \in DOMAIN values
  BY <1>2, <1>3
<1>5. Len(values[1]) <= 10
  BY <1>1, <1>4, Zenon
<1> QED BY <1>1, <1>2, <1>3, <1>5, Zenon DEF Ready

LEMMA DocumentIsRecord ==
    ASSUME ResponseAssumption, Ready
    PROVE  /\ IsRecord(DocumentPack.records[1])
           /\ DocumentPack.base_info = TRUE /\ DocumentPack.base = <<9>>
           /\ DocumentPack.records = <<DocumentPack.records[1]>>
           /\ DocumentPack \in EncPacks
<1> DEFINE record == DocumentPack.records[1]
<1>1. IsRecord(record) /\ DocumentPack.base_info = TRUE /\ DocumentPack.base = <<9>>
  BY DocumentFields, Zenon DEF IsRecord
<1>2. DocumentPack = [base_info |-> TRUE, base |-> <<9>>, records |-> <<record>>]
  BY DEF DocumentPack
<1>3. record \in PosLists
  BY <1>1 DEF IsRecord, PosLists
<1> HIDE DEF record
<1>4. <<9>> \in PosLists /\ <<record>> \in Seq(PosLists)
  BY <1>3 DEF PosLists
<1>5. DocumentPack \in EncPacks
  BY <1>2, <1>4 DEF EncPacks
<1>6. DocumentPack.records = <<record>>
  BY <1>2
<1> QED BY <1>1, <1>5, <1>6 DEF record

LEMMA EncodeKeeps == ASSUME ResponseAssumption, Inv, Encode PROVE Inv'
<1>1. /\ phase = "convert" /\ Converted /\ phase' = "encode"
      /\ UNCHANGED <<type, dev, res, values, heap, packet, result, cause>>
  BY DEF Encode, request
<1>2. EncoderIs(DocumentPack, "start")
  BY DEF Encode
<1>3. Ready
  BY <1>1, ReadyHolds
<1>4. PICK p \in EncPacks : p = DocumentPack
  BY <1>3, DocumentIsRecord
<1>5. TypeOK'
  <2>1. (Enc!TypeOK)'
    BY <1>2, <1>4, EncoderCalled
  <2>2. heap = 1
    BY <1>1, Zenon DEF Inv, TypeOK
  <2>3. heap' = 1
    BY <1>1, <2>2
  <2> QED BY <1>1, <2>1, <2>3 DEF Inv, TypeOK
<1>6. HandlerInv'
  <2>1. Converted'
    BY <1>1, Zenon DEF Converted
  <2> QED BY <1>1, <2>1 DEF Inv, HandlerInv
<1>7. DocumentInv'
  <2>1. DocumentPack' = DocumentPack
    BY <1>1, Zenon DEF DocumentPack
  <2>2. PICK record : record = DocumentPack.records[1]
    OBVIOUS
  <2>3. (DocumentPack.records[1])' = record
    BY <2>1, <2>2, Zenon
  <2>4. pack' = DocumentPack /\ len' = SENML_LEN /\ pc' = "start" /\ i' = 1 /\ ret' = 0
    BY <1>2 DEF EncoderIs
  <2>5. Encodes(record)'
    <3>1. pack'.base_info /\ pack'.base = <<9>> /\ pack'.records = <<record>>
      BY <1>3, <2>2, <2>4, DocumentIsRecord
    <3> QED BY <2>4, <3>1 DEF Encodes
  <2> QED BY <2>1, <2>3, <2>4, <2>5, Zenon DEF DocumentInv
<1>8. PacketFits' /\ OnlyKnownCrashes'
  BY <1>1 DEF PacketFits, OnlyKnownCrashes
<1> QED BY <1>5, <1>6, <1>7, <1>8 DEF Inv

LEMMA EncodingInv == ASSUME ResponseAssumption, Inv, Encoding PROVE Inv'
<1>1. /\ phase = "encode" /\ phase' = "encode"
      /\ UNCHANGED <<type, dev, res, values, heap, packet, result, cause>>
  BY DEF Encoding, request
<1>2. Converted
  BY <1>1 DEF Inv, HandlerInv
<1>3. PICK record : record = DocumentPack.records[1]
  OBVIOUS
<1>4. IsRecord(record) /\ Encodes(record)
  <2>1. IsRecord(DocumentPack.records[1])
    BY <1>1, <1>2, ReadyHolds, DocumentIsRecord
  <2>2. Encodes(DocumentPack.records[1])
    BY <1>1 DEF Inv, DocumentInv
  <2> QED BY <1>3, <2>1, <2>2, Zenon
<1>5. (Enc!TypeOK)' /\ Encodes(record)'
  BY <1>4, EncodingKeeps DEF Inv, TypeOK, Encoding
<1>6. TypeOK'
  BY <1>1, <1>5, Zenon DEF Inv, TypeOK
<1>7. HandlerInv'
  <2>1. Converted'
    BY <1>1, <1>2, Zenon DEF Converted
  <2> QED BY <1>1, <2>1 DEF Inv, HandlerInv
<1>8. DocumentInv'
  <2>1. DocumentPack' = DocumentPack
    BY <1>1, Zenon DEF DocumentPack
  <2>2. (DocumentPack.records[1])' = record
    BY <1>3, <2>1, Zenon
  <2>3. pack' = DocumentPack'
    <3>1. pack' = pack
      BY DEF Encoding, Enc!Next, Enc!Start, Enc!Field, Enc!BaseEnds, Enc!Check, Enc!OpenRecord,
             Enc!CloseEmpty, Enc!CloseRecord, Enc!Finish, Enc!args
    <3>2. pack = DocumentPack
      BY <1>1 DEF Inv, DocumentInv
    <3> QED BY <2>1, <3>1, <3>2, Zenon
  <2> QED BY <1>5, <2>2, <2>3, Zenon DEF DocumentInv
<1>9. PacketFits' /\ OnlyKnownCrashes'
  BY <1>1 DEF PacketFits, OnlyKnownCrashes
<1> QED BY <1>6, <1>7, <1>8, <1>9 DEF Inv

(* The document has 11 to 67 characters and the brackets; with a token of at *)
(* most 8 bytes the packet has at most 82.                                 *)
LEMMA SendKeeps == ASSUME ResponseAssumption, Inv, Send PROVE Inv'
<1>1. /\ phase = "encode" /\ pc = "done" /\ phase' = "sent" /\ heap' = heap - 1
      /\ UNCHANGED <<type, dev, res, values, cause, encoder>>
  BY DEF Send, request
<1>2. Converted
  BY <1>1 DEF Inv, HandlerInv
<1>3. Ready
  BY <1>1, <1>2, ReadyHolds
<1>4. PICK record : record = DocumentPack.records[1]
  OBVIOUS
<1>5. IsRecord(record) /\ Encodes(record)
  <2>1. IsRecord(DocumentPack.records[1])
    BY <1>3, DocumentIsRecord
  <2>2. Encodes(DocumentPack.records[1])
    BY <1>1 DEF Inv, DocumentInv
  <2> QED BY <1>4, <2>1, <2>2, Zenon
<1>6. ret = 0 /\ ins_pos = Behind(record, 3) + 2
  BY <1>1, <1>5 DEF Encodes
<1>7. PICK b \in 11..67 : b = Behind(record, 3)
  <2>1. 3 \in 0..3 /\ \A n \in 0..3 : Behind(record, n) \in 11..67
    BY <1>5, BehindFits
  <2> QED BY <2>1, Zenon
<1>8. ins_pos = b + 2
  BY <1>6, <1>7, Zenon
<1> DEFINE unit == UnitOf(dev.unit)
<1>9. unit \in Seq(Char) /\ Len(unit) \in 0..4 /\ Formatted(unit) \in Seq(Char)
      /\ Len(Formatted(unit)) <= Len(unit)
  <2>1. dev.unit \in Seq(1..255)
    BY <1>3 DEF Ready, ResponseAssumption
  <2> QED BY <2>1, UnitType
<1> HIDE DEF unit
<1>10. PICK lost \in 0..4 : lost = Len(unit) - Len(Formatted(unit))
  <2>1. PICK u \in 0..4 : u = Len(unit)
    BY <1>9
  <2>2. PICK f \in Nat : f = Len(Formatted(unit))
    BY <1>9, LenProperties
  <2>3. f <= u
    BY <1>9, <2>1, <2>2, Zenon
  <2>4. u - f \in 0..4
    BY <2>3
  <2> QED BY <2>1, <2>2, <2>4, Zenon
<1>11. PayloadLen = b + 1 - lost
  <2>1. PayloadLen = ins_pos - 1 - lost
    BY <1>10, Zenon DEF PayloadLen, unit
  <2> QED BY <1>8, <2>1
<1>12. PICK token \in 0..8 :
         /\ packet' = [unit |-> Formatted(unit), values |-> values,
                       len |-> PduLen(token, PayloadLen)]
         /\ result' = Int8(PduLen(token, PayloadLen))
  <2>1. ret # -1
    BY <1>6
  <2>2. \E token \in TokenLens :
          /\ packet' = [unit |-> Formatted(unit), values |-> values,
                        len |-> PduLen(token, PayloadLen)]
          /\ result' = Int8(PduLen(token, PayloadLen))
    BY <2>1, Zenon DEF Send, unit
  <2>3. \A token \in TokenLens : token \in 0..8
    BY DEF ResponseAssumption
  <2> QED BY <2>2, <2>3, Zenon
<1>13. PICK n \in 14..83 : n = PduLen(token, PayloadLen)
  <2>1. PduLen(token, PayloadLen) = 4 + token + 2 + 1 + PayloadLen
    BY Zenon DEF PduLen
  <2>2. 4 + token + 2 + 1 + (b + 1 - lost) \in 14..83
    OBVIOUS
  <2>3. PduLen(token, PayloadLen) = 4 + token + 2 + 1 + (b + 1 - lost)
    BY <1>11, <2>1, Zenon
  <2> QED BY <2>2, <2>3
<1>14. Int8(n) = n
  BY DEF Int8
<1>15. packet' = [unit |-> Formatted(unit), values |-> values, len |-> n] /\ result' = n
  BY <1>12, <1>13, <1>14, Zenon
<1>16. TypeOK'
  <2>1. (Enc!TypeOK)'
    BY <1>1, EncoderRests DEF Inv, TypeOK
  <2>2. heap' = 0
    <3>1. heap = 1
      BY <1>1, Zenon DEF Inv, TypeOK
    <3> QED BY <1>1, <3>1
  <2>3. /\ packet'.unit \in Seq(0..255) /\ packet'.values \in Seq(Seq(0..255))
        /\ packet'.len \in Nat
    <3>1. packet'.unit = Formatted(unit) /\ packet'.values = values /\ packet'.len = n
      BY <1>15
    <3>2. values \in Seq(Seq(0..255)) /\ Formatted(unit) \in Seq(0..255)
      BY <1>9 DEF Inv, TypeOK, Char
    <3>3. n \in Nat
      OBVIOUS
    <3> QED BY <3>1, <3>2, <3>3, Zenon
  <2>4. result' \in -128..127
    BY <1>15
  <2>5. /\ type \in Types /\ values \in Seq(Seq(0..255))
        /\ cause \in {"none", "no memory", "no device", "read error", "values[25]",
                 "valstring[6]", "curr_value[10]"}
        /\ dev = NoDevice \/ (dev.name \in Names /\ dev.unit \in Units)
        /\ res = NoReading \/ res \in Readings
    BY DEF Inv, TypeOK
  <2> QED BY <1>1, <2>1, <2>2, <2>3, <2>4, <2>5 DEF TypeOK
<1>17. HandlerInv'
  <2>1. Converted'
    BY <1>1, <1>2, Zenon DEF Converted
  <2> QED BY <1>1, <2>1 DEF Inv, HandlerInv
<1>18. PacketFits'
  <2>1. ret' = 0
    BY <1>1, <1>6 DEF encoder
  <2>2. packet'.len = n /\ n < 128
    BY <1>15
  <2> QED BY <1>15, <2>1, <2>2 DEF PacketFits
<1>19. DocumentInv' /\ OnlyKnownCrashes'
  BY <1>1 DEF DocumentInv, OnlyKnownCrashes
<1> QED BY <1>16, <1>17, <1>18, <1>19 DEF Inv

LEMMA AnswerKeeps == ASSUME Inv, Answer PROVE Inv'
<1>1. /\ phase = "sent" /\ phase' = "idle" /\ type' = "temp" /\ dev' = NoDevice /\ res' = NoReading
      /\ values' = <<>> /\ packet' = NoPacket /\ result' = 0 /\ UNCHANGED <<heap, cause>>
  BY DEF Answer
<1>2. EncoderIs(NoPack, "done")
  BY DEF Answer
<1>3. TypeOK'
  <2>1. NoPack \in EncPacks
    BY EmptySeq DEF NoPack, EncPacks, PosLists
  <2>2. PICK p \in EncPacks : p = NoPack
    BY <2>1
  <2>3. (Enc!TypeOK)'
    BY <1>2, <2>2, EncoderCalled
  <2>4. packet'.unit = <<>> /\ packet'.values = <<>> /\ packet'.len = 0
    BY <1>1 DEF NoPacket
  <2>5. /\ values' \in Seq(Seq(0..255)) /\ packet'.unit \in Seq(0..255)
        /\ packet'.values \in Seq(Seq(0..255)) /\ packet'.len \in Nat
    BY <1>1, <2>4, EmptySeq
  <2>6. heap' = 0
    <3>1. heap = 0
      BY <1>1, Zenon DEF Inv, TypeOK
    <3> QED BY <1>1, <3>1
  <2>7. cause \in {"none", "no memory", "no device", "read error", "values[25]",
                 "valstring[6]", "curr_value[10]"}
    BY DEF Inv, TypeOK
  <2>8. type' \in Types /\ result' \in -128..127
        /\ phase' \in {"idle", "read", "convert", "encode", "sent", "crashed"}
    BY <1>1 DEF Types
  <2>9. heap' = IF phase' \in {"idle", "sent"} THEN 0 ELSE 1
    BY <1>1, <2>6
  <2>10. dev' = NoDevice' /\ res' = NoReading'
    BY <1>1, Zenon DEF NoDevice, NoReading
  <2> QED BY <1>1, <2>3, <2>5, <2>7, <2>8, <2>9, <2>10, Zenon DEF TypeOK
<1>4. HandlerInv'
  BY <1>1 DEF HandlerInv, coap_resources
<1>5. DocumentInv' /\ OnlyKnownCrashes' /\ PacketFits'
  BY <1>1 DEF DocumentInv, OnlyKnownCrashes, PacketFits
<1> QED BY <1>3, <1>4, <1>5 DEF Inv

LEMMA StutterKeeps == ASSUME Inv, UNCHANGED vars PROVE Inv'
<1>1. UNCHANGED <<phase, type, dev, res, values, heap, packet, result, cause>> /\ UNCHANGED encoder
  BY DEF vars, request
<1>2. (Enc!TypeOK)'
  BY <1>1, EncoderRests DEF Inv, TypeOK
<1>3. TypeOK'
  BY <1>1, <1>2, Zenon DEF Inv, TypeOK
<1>4. HandlerInv'
  <2>1. Converted' = Converted
    BY <1>1, Zenon DEF Converted
  <2>2. /\ phase' = phase /\ type' = type /\ dev' = dev /\ res' = res /\ values' = values
    BY <1>1, Zenon
  <2> QED BY <2>1, <2>2 DEF Inv, HandlerInv
<1>5. OnlyKnownCrashes' /\ PacketFits'
  BY <1>1, Zenon DEF Inv, OnlyKnownCrashes, PacketFits, encoder
<1>6. DocumentInv'
  <2>1. PICK record : record = DocumentPack.records[1]
    OBVIOUS
  <2>2. DocumentPack' = DocumentPack
    BY <1>1, Zenon DEF DocumentPack
  <2>3. (DocumentPack.records[1])' = record
    BY <2>1, <2>2, Zenon
  <2>4. Encodes(record) => Encodes(record)'
    BY <1>1, Zenon DEF Encodes, encoder
  <2>5. pack' = pack /\ phase' = phase
    BY <1>1, Zenon DEF encoder
  <2>6. phase = "encode" => pack = DocumentPack /\ Encodes(record)
    BY <2>1, Zenon DEF Inv, DocumentInv
  <2> QED BY <2>2, <2>3, <2>4, <2>5, <2>6, Zenon DEF DocumentInv
<1> QED BY <1>3, <1>4, <1>5, <1>6 DEF Inv

LEMMA Inductive == ASSUME ResponseAssumption PROVE Spec => []Inv
<1>1. Init => Inv
  BY InitHolds
<1>2. Inv /\ [Next]_vars => Inv'
  BY RequestKeeps, ReadKeeps, ConvertKeeps, EncodeKeeps, EncodingInv, SendKeeps, AnswerKeeps,
     StutterKeeps, Zenon DEF Next
<1> QED BY <1>1, <1>2, PTL DEF Spec

-----------------------------------------------------------------------------
(* What an answer tells.                                                   *)

(* What AnswerInv says of the values depends on nothing else. *)
LEMMA AnswerRests ==
    ASSUME AnswerInv, UNCHANGED <<values, res>>, Answered' => Answered,
           UNCHANGED <<packet, dev>>
    PROVE  AnswerInv'
<1>1. ASSUME NEW k \in DOMAIN values'
      PROVE  values'[k] \in Texts(res'.val[k], res'.scale)
  BY Zenon DEF AnswerInv
<1>2. ASSUME Answered'
      PROVE  packet'.values = values' /\ packet'.unit = Formatted(UnitOf(dev'.unit))
  BY <1>2, Zenon DEF AnswerInv
<1> QED BY <1>1, <1>2, Zenon DEF AnswerInv

LEMMA AnswerInductive == ASSUME ResponseAssumption, Inv, AnswerInv, [Next]_vars PROVE AnswerInv'
<1>1. CASE Request
  <2>1. UNCHANGED <<dev, res, values, packet>> /\ phase' # "sent"
    BY <1>1 DEF Request, Crash
  <2> QED BY <2>1, AnswerRests DEF Answered
<1>2. CASE Read
  <2>1. values' = <<>> /\ phase' # "sent"
    BY <1>2 DEF Read, Crash, Inv, HandlerInv
  <2> QED BY <2>1 DEF AnswerInv, Answered
<1>3. CASE Convert
  <2>1. UNCHANGED <<dev, res, packet>> /\ phase' # "sent"
    BY <1>3 DEF Convert, Crash, request
  <2>2. CASE UNCHANGED values
    BY <2>1, <2>2, AnswerRests DEF Answered
  <2>3. CASE \E text \in Texts(res.val[Len(values) + 1], res.scale) :
               values' = Append(values, text)
    <3>0. PICK text \in Texts(res.val[Len(values) + 1], res.scale) :
            values' = Append(values, text)
      BY <2>3
    <3>1. values \in Seq(Seq(0..255))
      BY DEF Inv, TypeOK
    <3>2. ASSUME NEW k \in DOMAIN values'
          PROVE  values'[k] \in Texts(res.val[k], res.scale)
      <4>1. k \in 1..Len(values) + 1
        BY <3>0, <3>1
      <4>2. CASE k = Len(values) + 1
        <5>1. values'[k] = text
          BY <3>0, <3>1, <4>2
        <5> QED BY <3>0, <4>2, <5>1, Zenon
      <4>3. CASE k # Len(values) + 1
        <5>1. k \in 1..Len(values) /\ k \in DOMAIN values
          BY <3>1, <4>1, <4>3
        <5>2. values'[k] = values[k]
          BY <3>0, <3>1, <5>1
        <5> QED BY <5>1, <5>2, Zenon DEF AnswerInv
      <4> QED BY <4>2, <4>3
    <3>3. res' = res
      BY <2>1
    <3> QED BY <2>1, <3>2, <3>3, Zenon DEF AnswerInv, Answered
  <2> QED BY <1>3, <2>2, <2>3 DEF Convert
<1>4. CASE Encode
  <2>1. UNCHANGED <<dev, res, values, packet>> /\ phase' # "sent"
    BY <1>4 DEF Encode, request
  <2> QED BY <2>1, AnswerRests DEF Answered
<1>5. CASE Encoding
  <2>1. UNCHANGED <<dev, res, values, packet>> /\ phase' # "sent"
    BY <1>5 DEF Encoding, request
  <2> QED BY <2>1, AnswerRests DEF Answered
<1>6. CASE Send
  <2>1. UNCHANGED <<dev, res, values>>
    BY <1>6 DEF Send, request
  <2>2. CASE ret = -1
    <3>1. phase = "encode" /\ pc = "done"
      BY <1>6 DEF Send
    <3>2. ret = 0
      BY <3>1 DEF Inv, DocumentInv, Encodes
    <3> QED BY <2>2, <3>2
  <2>3. CASE ret = 0
    <3>1. PICK n : packet' = [unit |-> Formatted(UnitOf(dev.unit)), values |-> values, len |-> n]
      BY <1>6, <2>3 DEF Send
    <3>2. packet'.unit = Formatted(UnitOf(dev.unit)) /\ packet'.values = values
      BY <3>1
    <3>3. values' = values /\ res' = res /\ dev' = dev
      BY <2>1
    <3> QED BY <3>2, <3>3, Zenon DEF AnswerInv
  <2> QED BY <1>6, <2>2, <2>3 DEF Send
<1>7. CASE Answer
  <2>1. values' = <<>> /\ phase' # "sent"
    BY <1>7 DEF Answer
  <2> QED BY <2>1 DEF AnswerInv, Answered
<1>8. CASE UNCHANGED vars
  <2>1. UNCHANGED <<dev, res, values, packet, phase, result>>
    BY <1>8 DEF vars, request
  <2> QED BY <2>1, AnswerRests DEF Answered
<1> QED BY <1>1, <1>2, <1>3, <1>4, <1>5, <1>6, <1>7, <1>8 DEF Next

-----------------------------------------------------------------------------
(* Response.TypeOK: every variable of the request and of the encoder keeps   *)
(* to its type, and no request that ends keeps its json_buf.               *)
THEOREM TypeCorrect == Spec => []TypeOK
<1>1. Spec => []Inv
  BY Inductive, ResponseAssumption
<1>2. Inv => TypeOK
  BY DEF Inv
<1> QED BY <1>1, <1>2, PTL

(* Response.PacketFits: the document fits into json_buf and the packet into  *)
(* gcoap's buffer, for names and units of any length.                      *)
THEOREM PacketFitsHolds == Spec => []PacketFits
<1>1. Spec => []Inv
  BY Inductive, ResponseAssumption
<1>2. Inv => PacketFits
  BY DEF Inv
<1> QED BY <1>1, <1>2, PTL

(* Response.OnlyKnownCrashes: values[25] is never too short, for any         *)
(* int16_t and any int8_t of a scale; valstring[6] and curr_value[10] are  *)
(* for the readings named there only.                                      *)
THEOREM OnlyKnownCrashesHolds == Spec => []OnlyKnownCrashes
<1>1. Spec => []Inv
  BY Inductive, ResponseAssumption
<1>2. Inv => OnlyKnownCrashes
  BY DEF Inv
<1> QED BY <1>1, <1>2, PTL

(* Response.RoundsNonNegative: int_from_float rounds every reading that is   *)
(* not negative to a nearest integer, for any int16_t and any scale whose  *)
(* power of ten an int16_t holds.                                          *)
THEOREM RoundsNonNegativeHolds == Spec => []RoundsNonNegative
<1>1. Spec => []Inv
  BY Inductive, ResponseAssumption
<1>2. ASSUME ResponseAssumption, Inv PROVE RoundsNonNegative
  <2>1. CASE res = NoReading
    <3>1. DOMAIN res.val = {}
      BY <2>1 DEF NoReading
    <3> QED BY <3>1, Zenon DEF RoundsNonNegative
  <2>2. CASE res \in Readings
    <3>1. res.val \in Seq(Int16) /\ res.scale \in Scale
      BY <1>2, <2>2 DEF ResponseAssumption
    <3>2. ASSUME NEW k \in DOMAIN res.val PROVE res.val[k] \in Int16
      BY <3>1, ElementOfSeq
    <3> QED BY <3>1, <3>2, RoundsReading, Zenon DEF RoundsNonNegative
  <2> QED BY <1>2, <2>1, <2>2 DEF Inv, TypeOK
<1>3. Inv => RoundsNonNegative
  BY <1>2, ResponseAssumption
<1> QED BY <1>1, <1>3, PTL

(* Response.AnswerTellsReading: whatever the sensor reads, the answer tells  *)
(* the unit and, if the reading is regular, the number itself, for every   *)
(* int16_t and every scale.                                                *)
THEOREM AnswerTellsReadingHolds == Spec => []AnswerTellsReading
<1>1. Spec => []Inv
  BY Inductive, ResponseAssumption
<1>2. Init => AnswerInv
  BY DEF Init, AnswerInv, Answered
<1>3. Inv /\ AnswerInv /\ [Next]_vars => AnswerInv'
  BY AnswerInductive, ResponseAssumption
<1>4. ASSUME ResponseAssumption, UnitAssumption, Inv, AnswerInv PROVE AnswerTellsReading
  <2> SUFFICES ASSUME Answered
               PROVE  /\ packet.unit = dev.unit
                      /\ Len(packet.values) = Len(res.val)
                      /\ \A k \in DOMAIN res.val :
                           Regular(res.val[k], res.scale)
                             => Reads(packet.values[k], res.val[k], res.scale)
    BY Zenon DEF AnswerTellsReading
  <2>1. /\ Converted /\ res \in Readings /\ dev.unit \in Units
        /\ packet.values = values /\ packet.unit = Formatted(UnitOf(dev.unit))
    BY <1>4 DEF Answered, AnswerInv, Inv, HandlerInv
  <2>2. packet.unit = dev.unit
    BY <1>4, <2>1, UnitBack, Zenon
  <2>3. Len(packet.values) = Len(res.val)
    BY <2>1, Zenon DEF Converted
  <2>4. ASSUME NEW k \in DOMAIN res.val, Regular(res.val[k], res.scale)
        PROVE  Reads(packet.values[k], res.val[k], res.scale)
    <3>1. res.val \in Seq(Int16) /\ res.scale \in Scale
      BY <1>4, <2>1 DEF ResponseAssumption
    <3>2. res.val[k] \in Int16
      BY <3>1, ElementOfSeq
    <3>3. k \in DOMAIN values
      <4>1. values \in Seq(Seq(0..255))
        BY <1>4 DEF Inv, TypeOK
      <4> QED BY <2>1, <3>1, <4>1 DEF Converted
    <3>4. packet.values[k] = IntToFloatString(res.val[k], res.scale)
      <4>1. packet.values[k] \in Texts(res.val[k], res.scale)
        BY <1>4, <2>1, <3>3, Zenon DEF AnswerInv
      <4>2. Defined(res.val[k], res.scale)
        BY <2>4, Zenon DEF Regular
      <4> QED BY <4>1, <4>2, Zenon DEF Texts
    <3> QED BY <2>4, <3>1, <3>2, <3>4, TextReads, Zenon
  <2> QED BY <2>2, <2>3, <2>4, Zenon
<1>5. Inv /\ AnswerInv => AnswerTellsReading
  BY <1>4, ResponseAssumption, UnitAssumption
<1> QED BY <1>1, <1>2, <1>3, <1>5, PTL DEF Spec

=============================================================================

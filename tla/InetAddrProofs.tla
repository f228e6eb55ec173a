--------------------------- MODULE InetAddrProofs ---------------------------
(***************************************************************************)
(* Proofs about InetAddr: what tor_inet_ntop and tor_inet_ntoa print is    *)
(* read back, and tor_inet_pton reads a text as the address it stands for, *)
(* for any words, any form of a text, any digits and any length of a       *)
(* buffer.                                                                 *)
(***************************************************************************)
EXTENDS TorLib, FiniteSetTheorems, WellFoundedInduction, TLAPS

-----------------------------------------------------------------------------
(* Numbers and their digits.                                               *)

\* Some numbers have a least one.
LEMMA LeastNumber ==
    ASSUME NEW S, S \subseteq Nat, S # {}
    PROVE  \E n \in S : \A m \in S : n <= m
<1> DEFINE R == OpToRel(<, Nat)
<1>1. IsWellFoundedOn(R, Nat)
  BY NatLessThanWellFounded
<1>2. \A x, y \in Nat : x < y => <<x, y>> \in R
  BY DEF OpToRel
<1> HIDE DEF R
<1>3. PICK n \in S : \A m \in S : <<m, n>> \notin R
  BY <1>1, WFMin
<1>4. \A m \in S : n <= m
  <2> TAKE m \in S
  <2>1. m \in Nat /\ n \in Nat /\ ~(m < n)
    BY <1>2, <1>3
  <2> QED BY <2>1
<1> QED BY <1>4

\* Up to four digits are read one after the other.
LEMMA ValueSteps ==
    ASSUME NEW digits, NEW base, Len(digits) \in 1 .. 4
    PROVE  \E v : /\ v[0] = 0
                  /\ \A k \in 1 .. Len(digits) : v[k] = v[k - 1] * base + digits[k]
                  /\ Value(digits, base) = v[Len(digits)]
<1> DEFINE n == Len(digits)
           Good(v) == v = [k \in 0 .. n |-> IF k = 0 THEN 0 ELSE v[k - 1] * base + digits[k]]
           c == CHOOSE v : Good(v)
           one == 0 * base + digits[1]
           two == one * base + digits[2]
           three == two * base + digits[3]
           four == three * base + digits[4]
           w == [k \in 0 .. n |-> IF k = 0 THEN 0 ELSE IF k = 1 THEN one
                                  ELSE IF k = 2 THEN two ELSE IF k = 3 THEN three ELSE four]
<1>1. Value(digits, base) = c[n]
  BY DEF Value
<1>2. Good(w)
  <2> HIDE DEF n
  <2>1. n \in 1 .. 4
    BY DEF n
  <2>2. \A k \in 0 .. n : k \in {0, 1, 2, 3, 4}
    BY <2>1
  <2>3. /\ w[0] = 0
        /\ n >= 1 => w[1] = one
        /\ n >= 2 => w[2] = two
        /\ n >= 3 => w[3] = three
        /\ n >= 4 => w[4] = four
    <3> HIDE DEF one, two, three, four
    <3> QED BY <2>1
  <2>4. \A k \in 0 .. n : w[k] = IF k = 0 THEN 0 ELSE w[k - 1] * base + digits[k]
    <3> TAKE k \in 0 .. n
    <3>1. CASE k = 0
      BY <2>3, <3>1
    <3>2. CASE k = 1
      BY <2>3, <3>2
    <3>3. CASE k = 2
      <4> HIDE DEF w, one
      <4> QED BY <2>1, <2>3, <3>3
    <3>4. CASE k = 3
      <4> HIDE DEF w, two
      <4> QED BY <2>1, <2>3, <3>4
    <3>5. CASE k = 4
      <4> HIDE DEF w, three
      <4> QED BY <2>1, <2>3, <3>5
    <3> QED BY <2>2, <3>1, <3>2, <3>3, <3>4, <3>5
  <2>5. w = [k \in 0 .. n |-> w[k]]
    OBVIOUS
  <2> HIDE DEF w
  <2> QED BY <2>4, <2>5
<1>3. Good(c)
  BY <1>2
<1> HIDE DEF c
<1>4. c[0] = 0 /\ \A k \in 1 .. n : c[k] = c[k - 1] * base + digits[k]
  <2>1. \A k \in 0 .. n : c[k] = IF k = 0 THEN 0 ELSE c[k - 1] * base + digits[k]
    BY <1>3
  <2> HIDE DEF n
  <2>2. n \in Nat
    BY DEF n
  <2>3. 0 \in 0 .. n /\ \A k \in 1 .. n : k \in 0 .. n /\ k # 0
    BY <2>2
  <2> QED BY <2>1, <2>3
<1> QED BY <1>1, <1>4

\* What up to four hexadecimal digits stand for.
LEMMA ValueHex ==
    ASSUME NEW digits,
           Len(digits) \in 1 .. 4, \A k \in 1 .. Len(digits) : digits[k] \in Nat
    PROVE  /\ Len(digits) = 1 => Value(digits, 16) = digits[1]
           /\ Len(digits) = 2 => Value(digits, 16) = digits[1] * 16 + digits[2]
           /\ Len(digits) = 3 => Value(digits, 16) = (digits[1] * 16 + digits[2]) * 16 + digits[3]
           /\ Len(digits) = 4 =>
                Value(digits, 16) = ((digits[1] * 16 + digits[2]) * 16 + digits[3]) * 16 + digits[4]
<1> DEFINE n == Len(digits)
           V == Value(digits, 16)
<1>1. PICK v : v[0] = 0 /\ (\A k \in 1 .. n : v[k] = v[k - 1] * 16 + digits[k]) /\ V = v[n]
  BY ValueSteps
<1>2. n \in 1 .. 4 /\ \A k \in 1 .. n : digits[k] \in Nat
  OBVIOUS
<1> HIDE DEF n, V
<1>3. v[1] = digits[1]
  <2>1. 1 \in 1 .. n
    BY <1>2
  <2>2. v[1] = v[0] * 16 + digits[1] /\ digits[1] \in Nat
    BY <1>1, <1>2, <2>1
  <2> QED BY <1>1, <2>2
<1>4. n >= 2 => v[2] = digits[1] * 16 + digits[2]
  <2>1. n >= 2 => 2 \in 1 .. n
    BY <1>2
  <2> QED BY <1>1, <1>3, <2>1
<1>5. n >= 3 => v[3] = (digits[1] * 16 + digits[2]) * 16 + digits[3]
  <2>1. n >= 3 => 3 \in 1 .. n /\ n >= 2
    BY <1>2
  <2>2. n >= 3 => v[3] = v[2] * 16 + digits[3]
    BY <1>1, <2>1
  <2> QED BY <1>4, <2>1, <2>2
<1>6. n >= 4 => v[4] = ((digits[1] * 16 + digits[2]) * 16 + digits[3]) * 16 + digits[4]
  <2>1. n >= 4 => 4 \in 1 .. n /\ n >= 3
    BY <1>2
  <2>2. n >= 4 => v[4] = v[3] * 16 + digits[4]
    BY <1>1, <2>1
  <2> QED BY <1>5, <2>1, <2>2
<1>7. /\ n = 1 => V = digits[1]
      /\ n = 2 => V = digits[1] * 16 + digits[2]
      /\ n = 3 => V = (digits[1] * 16 + digits[2]) * 16 + digits[3]
      /\ n = 4 => V = ((digits[1] * 16 + digits[2]) * 16 + digits[3]) * 16 + digits[4]
  BY <1>1, <1>3, <1>4, <1>5, <1>6
<1> QED BY <1>7 DEF n, V

\* What up to three decimal digits stand for.
LEMMA ValueDec ==
    ASSUME NEW digits,
           Len(digits) \in 1 .. 3, \A k \in 1 .. Len(digits) : digits[k] \in Nat
    PROVE  /\ Len(digits) = 1 => Value(digits, 10) = digits[1]
           /\ Len(digits) = 2 => Value(digits, 10) = digits[1] * 10 + digits[2]
           /\ Len(digits) = 3 => Value(digits, 10) = (digits[1] * 10 + digits[2]) * 10 + digits[3]
<1> DEFINE n == Len(digits)
           V == Value(digits, 10)
<1>1. PICK v : v[0] = 0 /\ (\A k \in 1 .. n : v[k] = v[k - 1] * 10 + digits[k]) /\ V = v[n]
  BY ValueSteps
<1>2. n \in 1 .. 3 /\ \A k \in 1 .. n : digits[k] \in Nat
  OBVIOUS
<1> HIDE DEF n, V
<1>3. v[1] = digits[1]
  <2>1. 1 \in 1 .. n
    BY <1>2
  <2>2. v[1] = v[0] * 10 + digits[1] /\ digits[1] \in Nat
    BY <1>1, <1>2, <2>1
  <2> QED BY <1>1, <2>2
<1>4. n >= 2 => v[2] = digits[1] * 10 + digits[2]
  <2>1. n >= 2 => 2 \in 1 .. n
    BY <1>2
  <2> QED BY <1>1, <1>3, <2>1
<1>5. n >= 3 => v[3] = (digits[1] * 10 + digits[2]) * 10 + digits[3]
  <2>1. n >= 3 => 3 \in 1 .. n /\ n >= 2
    BY <1>2
  <2>2. n >= 3 => v[3] = v[2] * 10 + digits[3]
    BY <1>1, <2>1
  <2> QED BY <1>4, <2>1, <2>2
<1>7. /\ n = 1 => V = digits[1]
      /\ n = 2 => V = digits[1] * 10 + digits[2]
      /\ n = 3 => V = (digits[1] * 10 + digits[2]) * 10 + digits[3]
  BY <1>1, <1>3, <1>4, <1>5
<1> QED BY <1>7 DEF n, V

\* The powers that Printed needs.
LEMMA Powers ==
    /\ 16 ^ 0 = 1 /\ 16 ^ 1 = 16 /\ 16 ^ 2 = 256 /\ 16 ^ 3 = 4096 /\ 16 ^ 4 = 65536 /\ 16 ^ 5 = 1048576
    /\ 10 ^ 0 = 1 /\ 10 ^ 1 = 10 /\ 10 ^ 2 = 100 /\ 10 ^ 3 = 1000 /\ 10 ^ 4 = 10000 /\ 10 ^ 5 = 100000
  BY SMT

\* Dividing by the bases.
LEMMA Divided ==
    ASSUME NEW n \in Nat
    PROVE  /\ n \div 16 \in Nat /\ n % 16 \in Nat /\ n % 16 < 16 /\ n % 16 = n - 16 * (n \div 16)
           /\ n \div 10 \in Nat /\ n % 10 \in Nat /\ n % 10 < 10 /\ n % 10 = n - 10 * (n \div 10)
           /\ n \div 256 = (n \div 16) \div 16 /\ n \div 4096 = (n \div 256) \div 16
           /\ n \div 100 = (n \div 10) \div 10
           /\ n \div 1 = n
<1>1. n \div 16 \in Nat /\ n % 16 \in Nat /\ n % 16 < 16
  BY SMT
<1>2. n % 16 = n - 16 * (n \div 16)
  BY SMT
<1>3. n \div 10 \in Nat /\ n % 10 \in Nat /\ n % 10 < 10
  BY SMT
<1>4. n % 10 = n - 10 * (n \div 10)
  BY SMT
<1>5. n \div 256 = (n \div 16) \div 16
  BY SMT
<1>6. n \div 4096 = (n \div 256) \div 16
  BY SMT
<1>7. n \div 100 = (n \div 10) \div 10
  BY SMT
<1>8. n \div 1 = n
  BY SMT
<1> QED BY <1>1, <1>2, <1>3, <1>4, <1>5, <1>6, <1>7, <1>8

\* Printed makes k digits of a number.
HasDigits(n, base, k) == n < base ^ k /\ (k = 1 \/ n >= base ^ (k - 1))

\* How many digits Printed makes.
LEMMA PrintedDigits ==
    ASSUME NEW base \in Nat, NEW n \in Nat, NEW k \in 1 .. 5, HasDigits(n, base, k),
           \A l \in 1 .. 5 : HasDigits(n, base, l) => l = k
    PROVE  Printed(n, base) = [j \in 1 .. k |-> (n \div base ^ (k - j)) % base]
<1> DEFINE c == CHOOSE l \in 1 .. 5 : HasDigits(n, base, l)
<1>1. c = k
  OBVIOUS
<1>2. Printed(n, base) = [j \in 1 .. c |-> (n \div base ^ (c - j)) % base]
  BY DEF Printed, HasDigits
<1> HIDE DEF c
<1> QED BY <1>1, <1>2

\* Printed makes the digits of a number, without leading zeros.
LEMMA PrintedHex ==
    ASSUME NEW n \in Nat, n < 16 ^ 4
    PROVE  LET p == Printed(n, 16) IN
           /\ p \in Seq(Nat) /\ Len(p) \in 1 .. 4 /\ \A j \in 1 .. Len(p) : p[j] < 16
           /\ Value(p, 16) = n
<1> DEFINE p == Printed(n, 16)
           q1 == n \div 16
           q2 == q1 \div 16
           q3 == q2 \div 16
           d0 == n % 16
           d1 == q1 % 16
           d2 == q2 % 16
           d3 == q3 % 16
<1>1. /\ n \in Nat /\ q1 \in Nat /\ q2 \in Nat /\ q3 \in Nat
      /\ d0 \in Nat /\ d0 < 16 /\ d1 \in Nat /\ d1 < 16 /\ d2 \in Nat /\ d2 < 16 /\ d3 \in Nat /\ d3 < 16
      /\ d0 = n - 16 * q1 /\ d1 = q1 - 16 * q2 /\ d2 = q2 - 16 * q3 /\ d3 = q3 - 16 * (q3 \div 16)
      /\ q3 \div 16 \in Nat
      /\ n \div 1 = n /\ n \div 256 = q2 /\ n \div 4096 = q3
  <2>1. n \in Nat
    OBVIOUS
  <2>2. q1 \in Nat /\ d0 \in Nat /\ d0 < 16 /\ d0 = n - 16 * q1 /\ n \div 1 = n
        /\ n \div 256 = q2 /\ n \div 4096 = (n \div 256) \div 16
    BY <2>1, Divided
  <2>3. q2 \in Nat /\ d1 \in Nat /\ d1 < 16 /\ d1 = q1 - 16 * q2
    <3> HIDE DEF q1
    <3> QED BY <2>2, Divided
  <2>4. q3 \in Nat /\ d2 \in Nat /\ d2 < 16 /\ d2 = q2 - 16 * q3
    <3> HIDE DEF q2
    <3> QED BY <2>3, Divided
  <2>5. q3 \div 16 \in Nat /\ d3 \in Nat /\ d3 < 16 /\ d3 = q3 - 16 * (q3 \div 16)
    <3> HIDE DEF q3
    <3> QED BY <2>4, Divided
  <2>6. n \div 4096 = q3
    BY <2>2
  <2> QED BY <2>1, <2>2, <2>3, <2>4, <2>5, <2>6
<1>2. \E k \in 1 .. 4 : /\ HasDigits(n, 16, k)
                        /\ p = [j \in 1 .. k |-> (n \div 16 ^ (k - j)) % 16]
  <2> DEFINE P(l) == HasDigits(n, 16, l)
  <2>1. \A l \in 1 .. 5 : l = 1 \/ l = 2 \/ l = 3 \/ l = 4 \/ l = 5
    OBVIOUS
  <2>2. /\ P(1) <=> n < 16
        /\ P(2) <=> n < 256 /\ n >= 16
        /\ P(3) <=> n < 4096 /\ n >= 256
        /\ P(4) <=> n < 65536 /\ n >= 4096
        /\ P(5) <=> n < 1048576 /\ n >= 65536
    <3>1. 2 - 1 = 1 /\ 3 - 1 = 2 /\ 4 - 1 = 3 /\ 5 - 1 = 4
      OBVIOUS
    <3> QED BY <3>1, Powers, SMT DEF HasDigits
  <2> HIDE DEF P
  <2>3. \A k, l \in 1 .. 5 : P(k) /\ P(l) => k = l
    BY <1>1, <2>1, <2>2, SMT
  <2>4. PICK k \in 1 .. 4 : P(k)
    BY <1>1, <2>2, Powers, SMT
  <2>5. k \in 1 .. 5 /\ \A l \in 1 .. 5 : P(l) => l = k
    BY <2>3, <2>4, SMT
  <2>6. p = [j \in 1 .. k |-> (n \div 16 ^ (k - j)) % 16]
    <3>1. 16 \in Nat
      OBVIOUS
    <3> QED BY <2>4, <2>5, <3>1, PrintedDigits, Zenon DEF P
  <2> QED BY <2>4, <2>6, Zenon DEF P
<1>3. PICK k \in 1 .. 4 : /\ n < 16 ^ k /\ (k = 1 \/ n >= 16 ^ (k - 1))
                          /\ p = [j \in 1 .. k |-> (n \div 16 ^ (k - j)) % 16]
  BY <1>2, Zenon DEF HasDigits
<1>4. Len(p) = k /\ \A j \in 1 .. k : p[j] = (n \div 16 ^ (k - j)) % 16
  <2> HIDE DEF p
  <2> QED BY <1>3
<1> DEFINE Good == /\ p \in Seq(Nat) /\ Len(p) \in 1 .. 4 /\ \A j \in 1 .. Len(p) : p[j] < 16
                   /\ Value(p, 16) = n
<1> HIDE DEF p
<1>5. ASSUME k = 1 PROVE Good
  <2>1. n < 16 /\ p[1] = (n \div 1) % 16
    <3>1. 1 - 1 = 0 /\ 1 \in 1 .. 1
      OBVIOUS
    <3> QED BY <1>3, <1>4, <1>5, <3>1, Powers
  <2>2. p[1] = d0
    BY <1>1, <2>1
  <2>3. n = d0
    <3> HIDE DEF q1, q2, q3, d0, d1, d2, d3
    <3> QED BY <1>1, <2>1
  <2>4. Value(p, 16) = p[1]
    <3>1. \A j \in 1 .. 1 : p[j] \in Nat
      BY <1>1, <2>2
    <3> QED BY <1>4, <1>5, <3>1, ValueHex, SMT
  <2>5. p \in Seq(Nat)
    <3>1. \A j \in 1 .. 1 : p[j] \in Nat /\ p[j] < 16
      BY <1>1, <2>2
    <3> QED BY <1>3, <1>5, <3>1
  <2> HIDE DEF q1, q2, q3, d0, d1, d2, d3
  <2> QED BY <1>1, <1>4, <1>5, <2>2, <2>3, <2>4, <2>5, SMT
<1>6. ASSUME k = 2 PROVE Good
  <2>1. n < 256 /\ p[1] = d1 /\ p[2] = d0
    <3>1. 2 - 1 = 1 /\ 2 - 2 = 0 /\ 1 \in 1 .. 2 /\ 2 \in 1 .. 2
      OBVIOUS
    <3> QED BY <1>1, <1>3, <1>4, <1>6, <3>1, Powers
  <2>3. n = d1 * 16 + d0
    <3> HIDE DEF q1, q2, q3, d0, d1, d2, d3
    <3> QED BY <1>1, <2>1
  <2>4. \A j \in 1 .. 2 : p[j] \in Nat /\ p[j] < 16
    <3>1. \A j \in 1 .. 2 : j = 1 \/ j = 2
      OBVIOUS
    <3> QED BY <1>1, <2>1, <3>1
  <2>5. Value(p, 16) = p[1] * 16 + p[2]
    <3>1. Len(p) = 2 /\ Len(p) \in 1 .. 4 /\ \A j \in 1 .. Len(p) : p[j] \in Nat
      BY <1>4, <1>6, <2>4, SMT
    <3> QED BY <3>1, ValueHex, Zenon
  <2>6. p \in Seq(Nat)
    BY <1>3, <1>6, <2>4
  <2> HIDE DEF q1, q2, q3, d0, d1, d2, d3
  <2>7. Value(p, 16) = n
    BY <2>1, <2>3, <2>5, Zenon
  <2>8. Len(p) \in 1 .. 4 /\ \A j \in 1 .. Len(p) : p[j] \in Nat /\ p[j] < 16
    BY <1>4, <1>6, <2>4, SMT
  <2> QED BY <2>6, <2>7, <2>8, Zenon
<1>7. ASSUME k = 3 PROVE Good
  <2>1. n < 4096 /\ p[1] = d2 /\ p[2] = d1 /\ p[3] = d0
    <3>1. 3 - 1 = 2 /\ 3 - 2 = 1 /\ 3 - 3 = 0 /\ 1 \in 1 .. 3 /\ 2 \in 1 .. 3 /\ 3 \in 1 .. 3
      OBVIOUS
    <3> QED BY <1>1, <1>3, <1>4, <1>7, <3>1, Powers
  <2>3. n = (d2 * 16 + d1) * 16 + d0
    <3> HIDE DEF q1, q2, q3, d0, d1, d2, d3
    <3> QED BY <1>1, <2>1
  <2>4. \A j \in 1 .. 3 : p[j] \in Nat /\ p[j] < 16
    <3>1. \A j \in 1 .. 3 : j = 1 \/ j = 2 \/ j = 3
      OBVIOUS
    <3> QED BY <1>1, <2>1, <3>1
  <2>5. Value(p, 16) = (p[1] * 16 + p[2]) * 16 + p[3]
    <3>1. Len(p) = 3 /\ Len(p) \in 1 .. 4 /\ \A j \in 1 .. Len(p) : p[j] \in Nat
      BY <1>4, <1>7, <2>4, SMT
    <3> QED BY <3>1, ValueHex, Zenon
  <2>6. p \in Seq(Nat)
    BY <1>3, <1>7, <2>4
  <2> HIDE DEF q1, q2, q3, d0, d1, d2, d3
  <2>7. Value(p, 16) = n
    BY <2>1, <2>3, <2>5, Zenon
  <2>8. Len(p) \in 1 .. 4 /\ \A j \in 1 .. Len(p) : p[j] \in Nat /\ p[j] < 16
    BY <1>4, <1>7, <2>4, SMT
  <2> QED BY <2>6, <2>7, <2>8, Zenon
<1>8. ASSUME k = 4 PROVE Good
  <2>2. n < 65536
    BY <1>3, <1>8, Powers, SMT
  <2>1. p[1] = d3 /\ p[2] = d2 /\ p[3] = d1 /\ p[4] = d0
    <3>1. /\ 4 - 1 = 3 /\ 4 - 2 = 2 /\ 4 - 3 = 1 /\ 4 - 4 = 0
          /\ 1 \in 1 .. 4 /\ 2 \in 1 .. 4 /\ 3 \in 1 .. 4 /\ 4 \in 1 .. 4
      OBVIOUS
    <3> QED BY <1>1, <1>3, <1>4, <1>8, <3>1, Powers
  <2>3. n = ((d3 * 16 + d2) * 16 + d1) * 16 + d0
    <3> DEFINE q4 == q3 \div 16
    <3>1. q4 \in Nat
      BY <1>1
    <3>2. d3 = q3 - 16 * q4
      BY <1>1
    <3> HIDE DEF q1, q2, q3, d0, d1, d2, d3, q4
    <3> QED BY <1>1, <2>2, <3>1, <3>2
  <2>4. \A j \in 1 .. 4 : p[j] \in Nat /\ p[j] < 16
    <3>1. \A j \in 1 .. 4 : j = 1 \/ j = 2 \/ j = 3 \/ j = 4
      OBVIOUS
    <3> QED BY <1>1, <2>1, <3>1
  <2>5. Value(p, 16) = ((p[1] * 16 + p[2]) * 16 + p[3]) * 16 + p[4]
    <3>1. Len(p) = 4 /\ Len(p) \in 1 .. 4 /\ \A j \in 1 .. Len(p) : p[j] \in Nat
      BY <1>4, <1>8, <2>4, SMT
    <3> QED BY <3>1, ValueHex, Zenon
  <2>6. p \in Seq(Nat)
    BY <1>3, <1>8, <2>4
  <2> HIDE DEF q1, q2, q3, d0, d1, d2, d3
  <2>7. Value(p, 16) = n
    BY <2>1, <2>3, <2>5, Zenon
  <2>8. Len(p) \in 1 .. 4 /\ \A j \in 1 .. Len(p) : p[j] \in Nat /\ p[j] < 16
    BY <1>4, <1>8, <2>4, SMT
  <2> QED BY <2>6, <2>7, <2>8, Zenon
<1>9. k = 1 \/ k = 2 \/ k = 3 \/ k = 4
  BY <1>3
<1>10. Good
  BY <1>5, <1>6, <1>7, <1>8, <1>9, SMT
<1> QED BY <1>10, SMT DEF p

\* The decimal digits of a number below a thousand.
LEMMA PrintedDec ==
    ASSUME NEW n \in Nat, n < 10 ^ 3
    PROVE  \E k \in 1 .. 3 :
              /\ Printed(n, 10) = [j \in 1 .. k |-> Printed(n, 10)[j]]
              /\ k = 1 => n < 10 /\ Printed(n, 10)[1] = n
              /\ k = 2 => /\ 10 <= n /\ n < 100
                          /\ Printed(n, 10)[1] = n \div 10 /\ Printed(n, 10)[2] = n % 10
              /\ k = 3 => /\ 100 <= n
                          /\ Printed(n, 10)[1] = (n \div 10) \div 10
                          /\ Printed(n, 10)[2] = (n \div 10) % 10 /\ Printed(n, 10)[3] = n % 10
<1> DEFINE p == Printed(n, 10)
           q1 == n \div 10
           q2 == q1 \div 10
<1>1. \E k \in 1 .. 3 : HasDigits(n, 10, k) /\ p = [j \in 1 .. k |-> (n \div 10 ^ (k - j)) % 10]
  <2> DEFINE P(l) == HasDigits(n, 10, l)
  <2>1. \A l \in 1 .. 5 : l = 1 \/ l = 2 \/ l = 3 \/ l = 4 \/ l = 5
    OBVIOUS
  <2>2. /\ P(1) <=> n < 10
        /\ P(2) <=> n < 100 /\ n >= 10
        /\ P(3) <=> n < 1000 /\ n >= 100
        /\ P(4) <=> n < 10000 /\ n >= 1000
        /\ P(5) <=> n < 100000 /\ n >= 10000
    <3>1. 2 - 1 = 1 /\ 3 - 1 = 2 /\ 4 - 1 = 3 /\ 5 - 1 = 4
      OBVIOUS
    <3> QED BY <3>1, Powers, SMT DEF HasDigits
  <2> HIDE DEF P
  <2>3. \A k, l \in 1 .. 5 : P(k) /\ P(l) => k = l
    BY <2>1, <2>2, SMT
  <2>4. PICK k \in 1 .. 3 : P(k)
    BY <2>2, Powers, SMT
  <2>5. k \in 1 .. 5 /\ \A l \in 1 .. 5 : P(l) => l = k
    BY <2>3, <2>4, SMT
  <2>6. p = [j \in 1 .. k |-> (n \div 10 ^ (k - j)) % 10]
    <3>1. 10 \in Nat
      OBVIOUS
    <3> QED BY <2>4, <2>5, <3>1, PrintedDigits, Zenon DEF P
  <2> QED BY <2>4, <2>6, Zenon DEF P
<1>2. PICK k \in 1 .. 3 : HasDigits(n, 10, k) /\ p = [j \in 1 .. k |-> (n \div 10 ^ (k - j)) % 10]
  BY <1>1
<1>3. p = [j \in 1 .. k |-> p[j]] /\ \A j \in 1 .. k : p[j] = (n \div 10 ^ (k - j)) % 10
  <2> HIDE DEF p
  <2> QED BY <1>2
<1> HIDE DEF p
<1>4. /\ q1 \in Nat /\ q2 \in Nat /\ n \div 1 = n /\ n \div 100 = q2
      /\ n % 10 = n - 10 * q1 /\ q1 % 10 = q1 - 10 * q2 /\ q2 % 10 = q2 - 10 * (q2 \div 10)
      /\ q2 \div 10 \in Nat /\ n % 10 < 10 /\ q1 % 10 < 10 /\ n % 10 \in Nat /\ q1 % 10 \in Nat
  <2>1. q1 \in Nat /\ n \div 1 = n /\ n \div 100 = q2 /\ n % 10 = n - 10 * q1 /\ n % 10 < 10 /\ n % 10 \in Nat
    BY Divided
  <2>2. q2 \in Nat /\ q1 % 10 = q1 - 10 * q2 /\ q1 % 10 < 10 /\ q1 % 10 \in Nat
    <3> HIDE DEF q1
    <3> QED BY <2>1, Divided
  <2>3. q2 % 10 = q2 - 10 * (q2 \div 10) /\ q2 \div 10 \in Nat
    <3> HIDE DEF q2
    <3> QED BY <2>2, Divided
  <2> QED BY <2>1, <2>2, <2>3
<1>5. k = 1 => n < 10 /\ p[1] = n
  <2> HAVE k = 1
  <2>1. n < 10
    BY <1>2, Powers, SMT DEF HasDigits
  <2>2. 1 - 1 = 0 /\ 1 \in 1 .. 1
    OBVIOUS
  <2>3. p[1] = n % 10
    BY <1>3, <1>4, <2>2, Powers
  <2> QED BY <2>1, <2>3, SMT
<1>6. k = 2 => 10 <= n /\ n < 100 /\ p[1] = q1 /\ p[2] = n % 10
  <2> HAVE k = 2
  <2>1. 10 <= n /\ n < 100
    <3>1. 2 - 1 = 1
      OBVIOUS
    <3> QED BY <1>2, <3>1, Powers, SMT DEF HasDigits
  <2>2. 2 - 1 = 1 /\ 2 - 2 = 0 /\ 1 \in 1 .. 2 /\ 2 \in 1 .. 2
    OBVIOUS
  <2>3. p[1] = q1 % 10 /\ p[2] = n % 10
    BY <1>3, <1>4, <2>2, Powers
  <2>4. q1 % 10 = q1
    <3> HIDE DEF q1, q2
    <3> QED BY <1>4, <2>1
  <2> QED BY <2>1, <2>3, <2>4
<1>7. k = 3 => 100 <= n /\ p[1] = q2 /\ p[2] = q1 % 10 /\ p[3] = n % 10
  <2> HAVE k = 3
  <2>1. 100 <= n /\ n < 1000
    <3>1. 3 - 1 = 2
      OBVIOUS
    <3> QED BY <1>2, <3>1, Powers, SMT DEF HasDigits
  <2>2. 3 - 1 = 2 /\ 3 - 2 = 1 /\ 3 - 3 = 0 /\ 1 \in 1 .. 3 /\ 2 \in 1 .. 3 /\ 3 \in 1 .. 3
    OBVIOUS
  <2>3. p[1] = q2 % 10 /\ p[2] = q1 % 10 /\ p[3] = n % 10
    BY <1>3, <1>4, <2>2, Powers
  <2>4. q2 % 10 = q2
    <3> DEFINE q3 == q2 \div 10
    <3>1. q3 \in Nat /\ q2 % 10 = q2 - 10 * q3
      BY <1>4
    <3> HIDE DEF q1, q2, q3
    <3> QED BY <1>4, <2>1, <3>1
  <2> QED BY <2>1, <2>3, <2>4
<1>8. /\ p = [j \in 1 .. k |-> p[j]]
      /\ k = 1 => n < 10 /\ p[1] = n
      /\ k = 2 => 10 <= n /\ n < 100 /\ p[1] = q1 /\ p[2] = n % 10
      /\ k = 3 => 100 <= n /\ p[1] = q2 /\ p[2] = q1 % 10 /\ p[3] = n % 10
  BY <1>3, <1>5, <1>6, <1>7
<1> HIDE DEF q1, q2
<1> QED BY <1>8, Zenon DEF p, q1, q2

\* Runs of up to three decimal digits.
DecimalRun(d) == /\ d \in Seq(Nat) /\ Len(d) \in 1 .. 3
                 /\ \A j \in 1 .. Len(d) : d[j] < 10
                 /\ Len(d) > 1 => d[1] # 0

\* What is printed in decimal is read as the number, and has no leading zero.
LEMMA OctetPrinted ==
    ASSUME NEW n \in Nat, n < 10 ^ 3
    PROVE  DecimalRun(Printed(n, 10)) /\ Value(Printed(n, 10), 10) = n
<1> DEFINE p == Printed(n, 10)
           q1 == n \div 10
           q2 == q1 \div 10
           V == Value(p, 10)
<1>1. PICK k \in 1 .. 3 :
         /\ p = [j \in 1 .. k |-> p[j]]
         /\ k = 1 => n < 10 /\ p[1] = n
         /\ k = 2 => 10 <= n /\ n < 100 /\ p[1] = q1 /\ p[2] = n % 10
         /\ k = 3 => 100 <= n /\ p[1] = q2 /\ p[2] = q1 % 10 /\ p[3] = n % 10
  <2> HIDE DEF p
  <2> QED BY PrintedDec, Zenon DEF p
<1>2. /\ q1 \in Nat /\ n % 10 = n - 10 * q1 /\ n % 10 < 10 /\ n % 10 \in Nat
      /\ q2 \in Nat /\ q1 % 10 = q1 - 10 * q2 /\ q1 % 10 < 10 /\ q1 % 10 \in Nat
  <2>1. q1 \in Nat /\ n % 10 = n - 10 * q1 /\ n % 10 < 10 /\ n % 10 \in Nat
    BY Divided
  <2>2. q2 \in Nat /\ q1 % 10 = q1 - 10 * q2 /\ q1 % 10 < 10 /\ q1 % 10 \in Nat
    <3> HIDE DEF q1
    <3> QED BY <2>1, Divided
  <2> QED BY <2>1, <2>2
<1>3. n < 1000
  BY Powers, SMT
<1> DEFINE d0 == n % 10
           d1 == q1 % 10
<1> HIDE DEF p, q1, q2, V, d0, d1
<1>4. Len(p) = k
  BY <1>1
<1>5. k = 1 => V = p[1] /\ p[1] \in Nat /\ p[1] < 10 /\ V = n
  <2> HAVE k = 1
  <2>1. p[1] \in Nat /\ p[1] < 10 /\ p[1] = n
    BY <1>1
  <2>2. Len(p) = 1 /\ Len(p) \in 1 .. 3 /\ \A j \in 1 .. Len(p) : p[j] \in Nat
    BY <1>4, <2>1
  <2>3. V = p[1]
    BY <2>2, ValueDec, Zenon DEF V
  <2> QED BY <2>1, <2>3
<1>6. k = 2 => /\ p[1] \in Nat /\ p[1] < 10 /\ p[1] # 0 /\ p[2] \in Nat /\ p[2] < 10
               /\ V = n
  <2> HAVE k = 2
  <2>1. p[1] = q1 /\ p[2] = d0 /\ d0 \in Nat /\ d0 < 10 /\ q1 < 10 /\ q1 # 0 /\ n = q1 * 10 + d0
    BY <1>1, <1>2 DEF d0
  <2>2. Len(p) = 2 /\ Len(p) \in 1 .. 3 /\ \A j \in 1 .. Len(p) : p[j] \in Nat
    BY <1>2, <1>4, <2>1
  <2>3. V = p[1] * 10 + p[2]
    BY <2>2, ValueDec, Zenon DEF V
  <2> QED BY <1>2, <2>1, <2>3
<1>7. k = 3 => /\ p[1] \in Nat /\ p[1] < 10 /\ p[1] # 0 /\ p[2] \in Nat /\ p[2] < 10
               /\ p[3] \in Nat /\ p[3] < 10 /\ V = n
  <2> HAVE k = 3
  <2>0. n = q1 * 10 + d0 /\ q1 = q2 * 10 + d1 /\ d0 \in Nat /\ d1 \in Nat /\ d0 < 10 /\ d1 < 10
    BY <1>2 DEF d0, d1
  <2>1. p[1] = q2 /\ p[2] = d1 /\ p[3] = d0 /\ 100 <= n
    BY <1>1 DEF d0, d1
  <2>2. q2 < 10 /\ q2 # 0
    BY <1>2, <1>3, <2>0, <2>1
  <2>3. Len(p) = 3 /\ Len(p) \in 1 .. 3 /\ \A j \in 1 .. Len(p) : p[j] \in Nat
    <3>1. \A j \in 1 .. 3 : j = 1 \/ j = 2 \/ j = 3
      OBVIOUS
    <3> QED BY <1>2, <1>4, <2>0, <2>1, <3>1
  <2>4. V = (p[1] * 10 + p[2]) * 10 + p[3]
    BY <2>3, ValueDec, Zenon DEF V
  <2>5. V = (q2 * 10 + d1) * 10 + d0
    BY <2>1, <2>4, Zenon
  <2>6. V = n
    BY <1>2, <2>0, <2>5
  <2> QED BY <1>2, <2>0, <2>1, <2>2, <2>6
<1>8. k = 1 \/ k = 2 \/ k = 3
  OBVIOUS
<1>9. \A j \in 1 .. k : p[j] \in Nat /\ p[j] < 10
  <2>1. k = 1 => \A j \in 1 .. k : p[j] \in Nat /\ p[j] < 10
    BY <1>5
  <2>2. k = 2 => \A j \in 1 .. k : p[j] \in Nat /\ p[j] < 10
    BY <1>6
  <2>3. k = 3 => \A j \in 1 .. k : p[j] \in Nat /\ p[j] < 10
    <3>1. \A j \in 1 .. 3 : j = 1 \/ j = 2 \/ j = 3
      OBVIOUS
    <3> QED BY <1>7, <3>1
  <2> QED BY <1>8, <2>1, <2>2, <2>3
<1>10. p \in Seq(Nat)
  BY <1>1, <1>9
<1>11. V = n /\ (k > 1 => p[1] # 0)
  BY <1>5, <1>6, <1>7, <1>8
<1>12. DecimalRun(p)
  BY <1>4, <1>9, <1>10, <1>11 DEF DecimalRun
<1> QED BY <1>11, <1>12 DEF p, V

\* A quotient and its remainder.
LEMMA Quotient ==
    ASSUME NEW a \in Nat, NEW b \in Nat, b < 10
    PROVE  (a * 10 + b) \div 10 = a /\ (a * 10 + b) % 10 = b
  BY SMT

\* A run without a leading zero is what is printed for its number.
LEMMA OctetCanonical ==
    ASSUME NEW d, DecimalRun(d)
    PROVE  Value(d, 10) \in Nat /\ Value(d, 10) < 10 ^ 3 /\ Printed(Value(d, 10), 10) = d
<1> DEFINE V == Value(d, 10)
           n == Len(d)
           p == Printed(V, 10)
<1>1. /\ n = 1 => V = d[1]
      /\ n = 2 => V = d[1] * 10 + d[2]
      /\ n = 3 => V = (d[1] * 10 + d[2]) * 10 + d[3]
  <2>1. Len(d) \in 1 .. 3 /\ \A j \in 1 .. Len(d) : d[j] \in Nat
    BY DEF DecimalRun
  <2> QED BY <2>1, ValueDec, Zenon
<1>2. /\ n \in 1 .. 3 /\ \A j \in 1 .. n : d[j] \in Nat /\ d[j] < 10
      /\ n > 1 => d[1] # 0
      /\ d = [j \in 1 .. n |-> d[j]]
  BY DEF DecimalRun
<1> HIDE DEF V, n
<1>3. /\ n = 1 \/ n = 2 \/ n = 3
      /\ d[1] \in Nat /\ d[1] < 10
      /\ n >= 2 => d[2] \in Nat /\ d[2] < 10
      /\ n >= 3 => d[3] \in Nat /\ d[3] < 10
  BY <1>2
<1>4. V \in Nat /\ V < 1000 /\ (n = 1 <=> V < 10) /\ (n = 3 <=> V >= 100)
  <2>1. n = 1 => V \in Nat /\ V < 10
    BY <1>1, <1>3
  <2>2. n = 2 => V \in Nat /\ V >= 10 /\ V < 100
    <3> DEFINE a == d[1]
               b == d[2]
    <3>0. n = 2 => V = a * 10 + b
      BY <1>1, Zenon
    <3>1. n = 2 => a \in Nat /\ a < 10 /\ a # 0 /\ b \in Nat /\ b < 10
      BY <1>2, <1>3
    <3>2. \A x, y \in Nat : x < 10 /\ x # 0 /\ y < 10 =>
             x * 10 + y \in Nat /\ x * 10 + y >= 10 /\ x * 10 + y < 100
      BY SMT
    <3> HIDE DEF a, b
    <3> QED BY <3>0, <3>1, <3>2
  <2>3. n = 3 => V \in Nat /\ V >= 100 /\ V < 1000
    <3> DEFINE a == d[1]
               b == d[2]
               c == d[3]
    <3>0. n = 3 => V = (a * 10 + b) * 10 + c
      BY <1>1, Zenon
    <3>1. n = 3 => a \in Nat /\ a < 10 /\ a # 0 /\ b \in Nat /\ b < 10 /\ c \in Nat /\ c < 10
      BY <1>2, <1>3
    <3> HIDE DEF a, b, c
    <3> QED BY <3>0, <3>1, SMT
  <2> QED BY <1>3, <2>1, <2>2, <2>3, SMT
<1>5. V < 10 ^ 3
  BY <1>4, Powers, SMT
<1>6. PICK k \in 1 .. 3 :
         /\ p = [j \in 1 .. k |-> p[j]]
         /\ k = 1 => V < 10 /\ p[1] = V
         /\ k = 2 => 10 <= V /\ V < 100 /\ p[1] = V \div 10 /\ p[2] = V % 10
         /\ k = 3 => 100 <= V /\ p[1] = (V \div 10) \div 10 /\ p[2] = (V \div 10) % 10 /\ p[3] = V % 10
  <2> HIDE DEF p
  <2>1. V \in Nat
    BY <1>4
  <2> QED BY <1>5, <2>1, PrintedDec, Zenon DEF p
<1> HIDE DEF p
<1>7. k = n
  BY <1>3, <1>4, <1>6
<1>8. \A j \in 1 .. n : p[j] = d[j]
  <2>1. CASE n = 1
    <3>1. \A j \in 1 .. 1 : j = 1
      OBVIOUS
    <3> QED BY <1>1, <1>6, <1>7, <2>1, <3>1
  <2>2. CASE n = 2
    <3>1. \A j \in 1 .. 2 : j = 1 \/ j = 2
      OBVIOUS
    <3>2. V = d[1] * 10 + d[2] /\ d[1] \in Nat /\ d[2] \in Nat /\ d[2] < 10
      BY <1>1, <1>3, <2>2
    <3>3. V \div 10 = d[1] /\ V % 10 = d[2]
      BY <3>2, Quotient
    <3> QED BY <1>6, <1>7, <2>2, <3>1, <3>3
  <2>3. CASE n = 3
    <3>1. \A j \in 1 .. 3 : j = 1 \/ j = 2 \/ j = 3
      OBVIOUS
    <3> DEFINE a == d[1]
               b == d[2]
               c == d[3]
    <3>0. V = (a * 10 + b) * 10 + c
      BY <1>1, <2>3, Zenon
    <3>2. a \in Nat /\ b \in Nat /\ b < 10 /\ c \in Nat /\ c < 10
      BY <1>3, <2>3
    <3>3. V \div 10 = a * 10 + b /\ V % 10 = c /\ (a * 10 + b) \div 10 = a /\ (a * 10 + b) % 10 = b
      <4> HIDE DEF a, b, c
      <4>1. a * 10 + b \in Nat
        BY <3>2
      <4>2. (a * 10 + b) \div 10 = a /\ (a * 10 + b) % 10 = b
        BY <3>2, Quotient
      <4> DEFINE ab == a * 10 + b
      <4>3. V = ab * 10 + c /\ ab \in Nat
        BY <3>0, <4>1
      <4> HIDE DEF ab
      <4>4. V \div 10 = ab /\ V % 10 = c
        BY <3>2, <4>3, Quotient
      <4> QED BY <4>2, <4>4 DEF ab
    <3>4. p[1] = a /\ p[2] = b /\ p[3] = c
      <4>1. p[1] = (V \div 10) \div 10 /\ p[2] = (V \div 10) % 10 /\ p[3] = V % 10
        BY <1>6, <1>7, <2>3
      <4> QED BY <3>3, <4>1, Zenon
    <3> QED BY <2>3, <3>1, <3>4
  <2> QED BY <1>3, <2>1, <2>2, <2>3
<1>9. p = d
  BY <1>2, <1>6, <1>7, <1>8
<1> QED BY <1>4, <1>5, <1>9 DEF V, p

-----------------------------------------------------------------------------
(* Texts.                                                                  *)

\* A set of numbers that has the first and with each the next has them all.
LEMMA Reached ==
    ASSUME NEW m \in Nat, NEW n \in Nat, NEW T, m \in T,
           \A i \in Nat : m <= i /\ i < n /\ i \in T => i + 1 \in T
    PROVE  \A i \in Nat : m <= i /\ i <= n => i \in T
<1> DEFINE bad == {i \in Nat : m <= i /\ i <= n /\ i \notin T}
<1> SUFFICES ASSUME bad # {} PROVE FALSE
  OBVIOUS
<1>1. PICK i \in bad : \A j \in bad : i <= j
  <2> HIDE DEF bad
  <2>1. bad \subseteq Nat
    BY DEF bad
  <2> QED BY <2>1, LeastNumber
<1>2. i # m
  OBVIOUS
<1>3. i - 1 \in Nat /\ m <= i - 1 /\ i - 1 < n /\ i - 1 \notin bad
  BY <1>1, <1>2
<1>4. i - 1 \in T
  BY <1>3
<1> QED BY <1>1, <1>3, <1>4

\* What FlattenSeq computes up to the n-th list.
Flattens(lists, n, g) == g = [i \in 1 .. n |-> IF i = 1 THEN lists[i] ELSE g[i - 1] \o lists[i]]

\* There is a function that flattens: if there were none up to some list, take
\* the first such one; the function up to the list before it can be extended.
LEMMA FlattensExists ==
    ASSUME NEW lists, NEW n \in Nat, n >= 1
    PROVE  \E g : Flattens(lists, n, g)
<1> DEFINE none == {k \in Nat : k >= 1 /\ ~\E g : Flattens(lists, k, g)}
<1> SUFFICES ASSUME none # {} PROVE FALSE
  OBVIOUS
<1>1. PICK k \in none : \A m \in none : k <= m
  <2> HIDE DEF none
  <2>1. none \subseteq Nat
    BY DEF none
  <2> QED BY <2>1, LeastNumber
<1>2. k # 1
  <2> SUFFICES ASSUME k = 1 PROVE FALSE
    OBVIOUS
  <2> DEFINE g == [i \in 1 .. 1 |-> lists[i]]
  <2>1. Flattens(lists, 1, g)
    <3>1. \A i \in 1 .. 1 : lists[i] = IF i = 1 THEN lists[i] ELSE g[i - 1] \o lists[i]
      OBVIOUS
    <3> QED BY <3>1 DEF Flattens
  <2> QED BY <2>1
<1>3. k - 1 \in Nat /\ k - 1 >= 1 /\ k - 1 \notin none
  BY <1>1, <1>2
<1>4. PICK g : Flattens(lists, k - 1, g)
  BY <1>3
<1> DEFINE h == [i \in 1 .. k |-> IF i = k THEN g[i - 1] \o lists[i] ELSE g[i]]
<1>5. \A i \in 1 .. k : h[i] = IF i = 1 THEN lists[i] ELSE h[i - 1] \o lists[i]
  <2> TAKE i \in 1 .. k
  <2>1. CASE i = k
    <3>1. k - 1 \in 1 .. k /\ k - 1 # k /\ k \in 1 .. k
      BY <1>3
    <3>2. h[k - 1] = g[k - 1] /\ h[k] = g[k - 1] \o lists[k]
      BY <3>1
    <3> HIDE DEF h
    <3> QED BY <1>2, <2>1, <3>2
  <2>2. CASE i # k
    <3>1. i \in 1 .. k - 1
      BY <1>3, <2>2
    <3>2. h[i] = g[i] /\ g[i] = IF i = 1 THEN lists[i] ELSE g[i - 1] \o lists[i]
      <4>1. h[i] = g[i]
        BY <2>2
      <4> QED BY <1>4, <3>1, <4>1 DEF Flattens
    <3>3. i # 1 => h[i - 1] = g[i - 1]
      <4>1. i # 1 => i - 1 \in 1 .. k /\ i - 1 # k
        BY <1>3, <3>1
      <4> QED BY <4>1
    <3> HIDE DEF h
    <3> QED BY <3>2, <3>3
  <2> QED BY <2>1, <2>2
<1>6. Flattens(lists, k, h)
  <2>1. h = [i \in 1 .. k |-> h[i]]
    OBVIOUS
  <2> HIDE DEF h
  <2>2. [i \in 1 .. k |-> h[i]] = [i \in 1 .. k |-> IF i = 1 THEN lists[i] ELSE h[i - 1] \o lists[i]]
    BY <1>5
  <2> QED BY <2>1, <2>2 DEF Flattens
<1> QED BY <1>1, <1>6

\* The number of lists, named apart from what they are.
HasLen(x, n) == Len(x) = n

\* g goes through the lists and arrives at FlattenSeq.
FlatBy(lists, n, g) ==
    /\ FlattenSeq(lists) = g[n] /\ g[1] = lists[1]
    /\ \A i \in 2 .. n : g[i] = g[i - 1] \o lists[i]

\* FlattenSeq puts one list after the other.
LEMMA FlatSteps ==
    ASSUME NEW lists, NEW n, n \in Nat \ {0}, HasLen(lists, n)
    PROVE  \E g : FlatBy(lists, n, g)
<1> DEFINE g == CHOOSE g : Flattens(lists, n, g)
<1>1. FlattenSeq(lists) = g[n]
  BY DEF FlattenSeq, Flattens, HasLen
<1>2. Flattens(lists, n, g)
  BY FlattensExists
<1> HIDE DEF g
<1>3. \A i \in 1 .. n : g[i] = IF i = 1 THEN lists[i] ELSE g[i - 1] \o lists[i]
  BY <1>2 DEF Flattens
<1>4. 1 \in 1 .. n /\ \A i \in 2 .. n : i \in 1 .. n /\ i # 1
  OBVIOUS
<1>5. g[1] = lists[1] /\ \A i \in 2 .. n : g[i] = g[i - 1] \o lists[i]
  BY <1>3, <1>4
<1> QED BY <1>1, <1>5 DEF FlatBy

\* The characters of a text are those of its tokens.
LEMMA TextLenSum ==
    ASSUME NEW s, NEW n \in Nat, n >= 1, Len(s) = n, \A i \in 1 .. n : s[i] \in Seq(Nat)
    PROVE  \E sum \in [1 .. n -> Nat] :
              /\ TextLen(s) = sum[n] /\ sum[1] = Len(s[1])
              /\ \A i \in 2 .. n : sum[i] = sum[i - 1] + Len(s[i])
<1>0. PICK g : /\ FlattenSeq(s) = g[n] /\ g[1] = s[1]
               /\ \A i \in 2 .. n : g[i] = g[i - 1] \o s[i]
  <2>1. HasLen(s, n) /\ n \in Nat \ {0}
    BY DEF HasLen
  <2>2. \E g : FlatBy(s, n, g)
    BY <2>1, FlatSteps
  <2> QED BY <2>2 DEF FlatBy
<1> DEFINE T == {i \in Nat : g[i] \in Seq(Nat)}
<1>6. 1 \in T
  BY <1>0
<1>7. \A i \in Nat : 1 <= i /\ i < n /\ i \in T => i + 1 \in T
  <2> TAKE i \in Nat
  <2> HAVE 1 <= i /\ i < n /\ i \in T
  <2>1. i + 1 \in 2 .. n /\ i + 1 \in 1 .. n /\ (i + 1) - 1 = i
    OBVIOUS
  <2>2. g[i + 1] = g[i] \o s[i + 1]
    BY <1>0, <2>1
  <2>3. g[i] \in Seq(Nat) /\ s[i + 1] \in Seq(Nat)
    BY <2>1
  <2>4. g[i + 1] \in Seq(Nat)
    BY <2>2, <2>3
  <2> QED BY <2>4
<1>8. \A i \in 1 .. n : g[i] \in Seq(Nat)
  <2>1. \A i \in Nat : 1 <= i /\ i <= n => i \in T
    <3> HIDE DEF T
    <3> QED BY <1>6, <1>7, Reached
  <2> QED BY <2>1
<1>1. /\ FlattenSeq(s) = g[n] /\ g[1] = s[1]
      /\ \A i \in 2 .. n : g[i] = g[i - 1] \o s[i]
      /\ \A i \in 1 .. n : g[i] \in Seq(Nat)
  BY <1>0, <1>8
<1> HIDE DEF T
<1> DEFINE sum == [i \in 1 .. n |-> Len(g[i])]
<1>2. sum \in [1 .. n -> Nat]
  BY <1>1
<1>3. TextLen(s) = sum[n]
  BY <1>1 DEF TextLen
<1>4. sum[1] = Len(s[1])
  BY <1>1
<1>5. \A i \in 2 .. n : sum[i] = sum[i - 1] + Len(s[i])
  <2> TAKE i \in 2 .. n
  <2>1. i \in 1 .. n /\ i - 1 \in 1 .. n
    OBVIOUS
  <2>2. g[i] = g[i - 1] \o s[i] /\ g[i - 1] \in Seq(Nat) /\ s[i] \in Seq(Nat)
    BY <1>1, <2>1
  <2>3. Len(g[i]) = Len(g[i - 1]) + Len(s[i])
    BY <2>2
  <2> QED BY <2>1, <2>3
<1> QED BY <1>2, <1>3, <1>4, <1>5

\* Separators are no runs of digits.
LEMMA Separators ==
    ASSUME NEW d, Len(d) \in Nat, \A j \in 1 .. Len(d) : d[j] < 16
    PROVE  d # Colon /\ d # Dot
<1>1. CASE d = Colon
  BY <1>1 DEF Colon
<1>2. CASE d = Dot
  BY <1>2 DEF Dot
<1> QED BY <1>1, <1>2

\* The two separators differ, and each is a token of one sign.
LEMMA ColonIsNotDot == Colon # Dot /\ Colon \in Seq(Nat) /\ Dot \in Seq(Nat) /\ Len(Colon) = 1 /\ Len(Dot) = 1
  BY DEF Colon, Dot

\* A run of decimal digits is no separator.
LEMMA DecimalIsRun ==
    ASSUME NEW d, DecimalRun(d)
    PROVE  d # Colon /\ d # Dot /\ Len(d) <= 3 /\ \A j \in DOMAIN d : d[j] < 10
<1>1. Len(d) \in 1 .. 3 /\ DOMAIN d = 1 .. Len(d) /\ \A j \in 1 .. Len(d) : d[j] \in Nat /\ d[j] < 10
  BY DEF DecimalRun
<1>2. d # Colon /\ d # Dot
  BY <1>1, Separators
<1> QED BY <1>1, <1>2

\* Four octets.
IsOctets(o) == \A k \in 1 .. 4 : o[k] \in Nat /\ o[k] < 256

\* A dotted quad is printed as seven tokens.
LEMMA QuadTokens ==
    ASSUME NEW o, IsOctets(o)
    PROVE  /\ Quad(o) \in Seq(Seq(Nat)) /\ Len(Quad(o)) = 7
           /\ \A k \in 1 .. 4 : /\ DecimalRun(Quad(o)[2 * k - 1]) /\ Value(Quad(o)[2 * k - 1], 10) = o[k]
                                /\ Quad(o)[2 * k - 1] = Printed(o[k], 10)
           /\ \A k \in 1 .. 3 : Quad(o)[2 * k] = Dot
<1>1. \A k \in 1 .. 4 : o[k] \in Nat /\ o[k] < 10 ^ 3
  BY Powers, SMT DEF IsOctets
<1> DEFINE P(k) == Printed(o[k], 10)
<1>2. \A k \in 1 .. 4 : DecimalRun(P(k)) /\ Value(P(k), 10) = o[k]
  BY <1>1, OctetPrinted, Zenon
<1>3. \A k \in 1 .. 4 : P(k) \in Seq(Nat)
  BY <1>2 DEF DecimalRun
<1>4. Quad(o) = <<P(1), Dot, P(2), Dot, P(3), Dot, P(4)>>
  BY DEF Quad
<1> HIDE DEF P
<1>5. Quad(o) \in Seq(Seq(Nat)) /\ Len(Quad(o)) = 7
  BY <1>3, <1>4, ColonIsNotDot
<1>6. \A k \in 1 .. 4 : k = 1 \/ k = 2 \/ k = 3 \/ k = 4
  OBVIOUS
<1>7. \A k \in 1 .. 4 : Quad(o)[2 * k - 1] = P(k)
  BY <1>4, <1>6
<1>8. \A k \in 1 .. 3 : Quad(o)[2 * k] = Dot
  BY <1>4
<1> QED BY <1>2, <1>5, <1>7, <1>8 DEF P

\* A text that ends with a dotted quad, which begins at place eow.
EndsWithQuad(s, eow, o) ==
    /\ eow \in Nat \ {0} /\ IsOctets(o) /\ Len(s) = eow + 6 /\ DOMAIN s = 1 .. eow + 6
    /\ \A j \in 1 .. 7 : s[eow + j - 1] = Quad(o)[j]
    /\ \A i \in 1 .. eow - 1 : s[i] # Dot

\* A dotted quad at the end of a text is read back.
LEMMA QuadReads ==
    ASSUME NEW s, NEW i, NEW o, EndsWithQuad(s, i, o)
    PROVE  IsQuad(s, i) /\ Octets(s, i) = [k \in 1 .. 4 |-> o[k]]
<1>0. /\ i \in Nat /\ i >= 1 /\ IsOctets(o) /\ Len(s) = i + 6 /\ DOMAIN s = 1 .. Len(s)
      /\ \A j \in 1 .. 7 : s[i + j - 1] = Quad(o)[j]
  BY DEF EndsWithQuad
<1>1. /\ \A k \in 1 .. 4 : /\ DecimalRun(Quad(o)[2 * k - 1]) /\ Value(Quad(o)[2 * k - 1], 10) = o[k]
      /\ \A k \in 1 .. 3 : Quad(o)[2 * k] = Dot
  BY <1>0, QuadTokens
<1>2. \A k \in 1 .. 4 : s[i + 2 * (k - 1)] = Quad(o)[2 * k - 1] /\ i + 2 * (k - 1) \in DOMAIN s
  <2> TAKE k \in 1 .. 4
  <2>1. 2 * k - 1 \in 1 .. 7 /\ i + (2 * k - 1) - 1 = i + 2 * (k - 1) /\ i + 2 * (k - 1) \in 1 .. Len(s)
    BY <1>0
  <2> QED BY <1>0, <2>1
<1>3. \A k \in 1 .. 3 : s[i + 2 * k - 1] = Dot /\ i + 2 * k - 1 \in DOMAIN s
  <2> TAKE k \in 1 .. 3
  <2>1. 2 * k \in 1 .. 7 /\ i + 2 * k - 1 \in 1 .. Len(s)
    BY <1>0
  <2> QED BY <1>0, <1>1, <2>1
<1>4. \A k \in 1 .. 4 : o[k] <= 255
  <2>1. \A n \in Nat : n < 256 => n <= 255
    BY SMT
  <2> QED BY <1>0, <2>1, Zenon DEF IsOctets
<1>5. \A k \in {i, i + 2, i + 4, i + 6} : \E h \in 1 .. 4 : k = i + 2 * (h - 1)
  <2>1. i = i + 2 * (1 - 1) /\ i + 2 = i + 2 * (2 - 1) /\ i + 4 = i + 2 * (3 - 1) /\ i + 6 = i + 2 * (4 - 1)
    BY <1>0
  <2>2. 1 \in 1 .. 4 /\ 2 \in 1 .. 4 /\ 3 \in 1 .. 4 /\ 4 \in 1 .. 4
    OBVIOUS
  <2> QED BY <2>1, <2>2
<1>6. \A k \in {i, i + 2, i + 4, i + 6} :
         /\ IsRun(s, k) /\ Len(s[k]) <= 3
         /\ \A j \in DOMAIN s[k] : s[k][j] < 10
         /\ Value(s[k], 10) <= 255
  <2> TAKE k \in {i, i + 2, i + 4, i + 6}
  <2>1. PICK h \in 1 .. 4 : k = i + 2 * (h - 1)
    BY <1>5
  <2>2. DecimalRun(s[k]) /\ Value(s[k], 10) = o[h] /\ k \in DOMAIN s
    BY <1>1, <1>2, <2>1
  <2> DEFINE d == s[k]
  <2>3. d # Colon /\ d # Dot /\ Len(d) <= 3 /\ \A j \in DOMAIN d : d[j] < 10
    <3> HIDE DEF d
    <3>1. DecimalRun(d)
      BY <2>2 DEF d
    <3> QED BY <3>1, DecimalIsRun
  <2>4. Value(d, 10) <= 255
    BY <1>4, <2>2
  <2> QED BY <2>2, <2>3, <2>4, Zenon DEF IsRun
<1>7. \A k \in {i + 1, i + 3, i + 5} : Is(s, k, Dot)
  <2>1. i + 1 = i + 2 * 1 - 1 /\ i + 3 = i + 2 * 2 - 1 /\ i + 5 = i + 2 * 3 - 1
    BY <1>0
  <2>2. 1 \in 1 .. 3 /\ 2 \in 1 .. 3 /\ 3 \in 1 .. 3
    OBVIOUS
  <2> QED BY <1>3, <2>1, <2>2 DEF Is
<1>8. IsQuad(s, i)
  BY <1>0, <1>6, <1>7 DEF IsQuad
<1>9. \A k \in 1 .. 4 : Value(s[i + 2 * (k - 1)], 10) = o[k]
  BY <1>1, <1>2
<1> QED BY <1>8, <1>9 DEF Octets

\* What is printed for an octet.
Canonical(r) == DecimalRun(r) /\ Value(r, 10) \in 0 .. 255

\* What tor_inet_ntoa prints are the canonical runs.
LEMMA CanonicalPrinted ==
    ASSUME NEW r
    PROVE  Canonical(r) <=> \E n \in 0 .. 255 : r = Printed(n, 10)
<1>1. ASSUME Canonical(r) PROVE \E n \in 0 .. 255 : r = Printed(n, 10)
  <2>1. Printed(Value(r, 10), 10) = r
    BY <1>1, OctetCanonical, Zenon DEF Canonical
  <2> QED BY <1>1, <2>1, Zenon DEF Canonical
<1>2. ASSUME NEW n \in 0 .. 255, r = Printed(n, 10) PROVE Canonical(r)
  <2>1. n \in Nat /\ n < 10 ^ 3
    BY Powers, SMT
  <2>2. DecimalRun(Printed(n, 10)) /\ Value(Printed(n, 10), 10) = n
    BY <2>1, OctetPrinted, Zenon
  <2> QED BY <1>2, <2>2, Zenon DEF Canonical
<1> QED BY <1>1, <1>2, Zenon

\* The characters of a text of at most three or four to a token, where of two
\* neighbours one is a single character.
LEMMA TextLenBound ==
    ASSUME NEW s, NEW n \in Nat, n >= 1, Len(s) = n, NEW c \in {3, 4},
           \A i \in 1 .. n : s[i] \in Seq(Nat) /\ Len(s[i]) <= c,
           \A i \in 2 .. n : Len(s[i - 1]) <= 1 \/ Len(s[i]) <= 1
    PROVE  TextLen(s) \in Nat /\ 2 * TextLen(s) <= (c + 1) * n + c - 1
<1> DEFINE L == [i \in 1 .. n |-> Len(s[i])]
<1>0. \A i \in 1 .. n : L[i] = Len(s[i]) /\ L[i] \in Nat /\ L[i] <= c
  <2>1. \A i \in 1 .. n : Len(s[i]) \in Nat
    OBVIOUS
  <2> QED BY <2>1
<1>1. PICK sum \in [1 .. n -> Nat] :
         /\ TextLen(s) = sum[n] /\ sum[1] = Len(s[1])
         /\ \A i \in 2 .. n : sum[i] = sum[i - 1] + Len(s[i])
  BY TextLenSum
<1> HIDE DEF L
<1> DEFINE T == {i \in Nat : 2 * sum[i] <= (c + 1) * i + (IF L[i] <= 1 THEN 0 ELSE c - 1)}
<1>2. 1 \in T
  <2>1. 1 \in 1 .. n
    OBVIOUS
  <2>2. sum[1] = L[1] /\ L[1] \in Nat /\ L[1] <= c
    BY <1>0, <1>1, <2>1
  <2>3. CASE c = 3
    BY <2>2, <2>3
  <2>4. CASE c = 4
    BY <2>2, <2>4
  <2> QED BY <2>3, <2>4
<1>3. \A i \in Nat : 1 <= i /\ i < n /\ i \in T => i + 1 \in T
  <2> TAKE i \in Nat
  <2> HAVE 1 <= i /\ i < n /\ i \in T
  <2>1. i \in 1 .. n /\ i + 1 \in 2 .. n /\ i + 1 \in 1 .. n /\ (i + 1) - 1 = i
    OBVIOUS
  <2> DEFINE a == L[i]
             b == L[i + 1]
             x == sum[i]
             y == sum[i + 1]
  <2>2. y = x + b /\ x \in Nat /\ y \in Nat /\ a \in Nat /\ b \in Nat /\ b <= c /\ (a <= 1 \/ b <= 1)
    <3>1. sum[i + 1] = sum[i] + Len(s[i + 1]) /\ (Len(s[i]) <= 1 \/ Len(s[i + 1]) <= 1)
      BY <1>1, <2>1
    <3>2. a = Len(s[i]) /\ b = Len(s[i + 1]) /\ a \in Nat /\ b \in Nat /\ b <= c
      BY <1>0, <2>1
    <3>3. x \in Nat /\ y \in Nat
      BY <1>1, <2>1
    <3> QED BY <3>1, <3>2, <3>3
  <2>3. 2 * x <= (c + 1) * i + (IF a <= 1 THEN 0 ELSE c - 1)
    OBVIOUS
  <2>4. 2 * y <= (c + 1) * (i + 1) + (IF b <= 1 THEN 0 ELSE c - 1)
    <3> HIDE DEF a, b, x, y
    <3>3. CASE c = 3
      BY <2>2, <2>3, <3>3
    <3>4. CASE c = 4
      BY <2>2, <2>3, <3>4
    <3> QED BY <3>3, <3>4
  <2> QED BY <2>4
<1>4. n \in T
  <2> HIDE DEF T
  <2>1. \A i \in Nat : 1 <= i /\ i <= n => i \in T
    BY <1>2, <1>3, Reached
  <2> QED BY <2>1
<1>5. sum[n] \in Nat
  BY <1>1
<1>6. CASE c = 3
  BY <1>1, <1>4, <1>5, <1>6
<1>7. CASE c = 4
  BY <1>1, <1>4, <1>5, <1>7
<1> QED BY <1>6, <1>7

\* tor_inet_aton accepts the texts that tor_inet_ntoa prints and no others.
LEMMA AtonReads ==
    ASSUME NEW runs, \A k \in 1 .. 4 : runs[k] \in Seq(0 .. 15) \ {<<>>}, NEW s,
           s = <<runs[1], Dot, runs[2], Dot, runs[3], Dot, runs[4]>>
    PROVE  /\ (Aton(s) # NULL) = \A k \in {1, 3, 5, 7} : \E n \in 0 .. 255 : s[k] = Printed(n, 10)
           /\ Aton(s) # NULL => Ntoa(Aton(s), 16) = s
<1> DEFINE octets == {1, 3, 5, 7}
           zeros == \E k \in DOMAIN s : Len(s[k]) > 1 /\ s[k][1] = 0
           all == \A k \in octets : Canonical(s[k])
<1>1. /\ Len(s) = 7 /\ DOMAIN s = 1 .. 7 /\ s[2] = Dot /\ s[4] = Dot /\ s[6] = Dot
      /\ \A k \in octets : s[k] \in Seq(0 .. 15) /\ s[k] # <<>>
  <2>1. /\ runs[1] \in Seq(0 .. 15) /\ runs[1] # <<>> /\ runs[2] \in Seq(0 .. 15) /\ runs[2] # <<>>
        /\ runs[3] \in Seq(0 .. 15) /\ runs[3] # <<>> /\ runs[4] \in Seq(0 .. 15) /\ runs[4] # <<>>
    OBVIOUS
  <2>2. s[1] = runs[1] /\ s[3] = runs[2] /\ s[5] = runs[3] /\ s[7] = runs[4]
    OBVIOUS
  <2>3. Len(s) = 7 /\ DOMAIN s = 1 .. 7 /\ s[2] = Dot /\ s[4] = Dot /\ s[6] = Dot
    OBVIOUS
  <2> QED BY <2>1, <2>2, <2>3, Zenon
<1>2. \A k \in octets : /\ s[k] \in Seq(Nat) /\ Len(s[k]) \in Nat /\ Len(s[k]) >= 1
                        /\ DOMAIN s[k] = 1 .. Len(s[k]) /\ \A j \in 1 .. Len(s[k]) : s[k][j] \in Nat /\ s[k][j] < 16
  <2>1. \A d \in Seq(0 .. 15) : d # <<>> =>
           /\ d \in Seq(Nat) /\ Len(d) \in Nat /\ Len(d) >= 1
           /\ DOMAIN d = 1 .. Len(d) /\ \A j \in 1 .. Len(d) : d[j] \in Nat /\ d[j] < 16
    <3> TAKE d \in Seq(0 .. 15)
    <3> HAVE d # <<>>
    <3>1. Len(d) \in Nat /\ DOMAIN d = 1 .. Len(d) /\ d = [j \in 1 .. Len(d) |-> d[j]]
      OBVIOUS
    <3>2. \A j \in 1 .. Len(d) : d[j] \in 0 .. 15
      OBVIOUS
    <3>3. \A m \in 0 .. 15 : m \in Nat /\ m < 16
      OBVIOUS
    <3>4. Len(d) # 0
      OBVIOUS
    <3>5. d \in Seq(Nat)
      BY <3>1, <3>2, <3>3
    <3>6. Len(d) >= 1
      BY <3>1, <3>4
    <3> QED BY <3>1, <3>2, <3>3, <3>5, <3>6, Zenon
  <2> QED BY <1>1, <2>1, Zenon
<1>3. \A k \in octets : IsRun(s, k)
  <2> TAKE k \in octets
  <2> DEFINE d == s[k]
  <2>1. Len(d) \in Nat /\ \A j \in 1 .. Len(d) : d[j] < 16
    BY <1>2
  <2> HIDE DEF d
  <2>2. d # Colon /\ d # Dot
    BY <2>1, Separators
  <2> QED BY <1>1, <2>2 DEF IsRun, d
<1>4. ASSUME IsQuad(s, 1), ~zeros PROVE all
  <2> SUFFICES ASSUME NEW k \in octets PROVE Canonical(s[k])
    OBVIOUS
  <2>1. Len(s[k]) <= 3 /\ (\A j \in DOMAIN s[k] : s[k][j] < 10) /\ Value(s[k], 10) <= 255
    BY <1>4, SMT DEF IsQuad
  <2>2. Len(s[k]) > 1 => s[k][1] # 0
    <3>1. k \in 1 .. 7
      OBVIOUS
    <3>2. k \in DOMAIN s
      BY <1>1, <3>1, Zenon
    <3> QED BY <1>4, <3>2, Zenon
  <2> DEFINE d == s[k]
  <2>3. DecimalRun(d)
    <3>1. /\ d \in Seq(Nat) /\ Len(d) \in Nat /\ Len(d) >= 1 /\ Len(d) <= 3
          /\ DOMAIN d = 1 .. Len(d) /\ (\A j \in DOMAIN d : d[j] < 10) /\ (Len(d) > 1 => d[1] # 0)
      BY <1>2, <2>1, <2>2
    <3> HIDE DEF d
    <3>2. Len(d) \in 1 .. 3 /\ \A j \in 1 .. Len(d) : d[j] < 10
      <4>1. \A m \in Nat : m >= 1 /\ m <= 3 => m \in 1 .. 3
        OBVIOUS
      <4> QED BY <3>1, <4>1, Zenon
    <3> QED BY <3>1, <3>2, Zenon DEF DecimalRun
  <2>4. Value(d, 10) <= 255
    BY <2>1
  <2> HIDE DEF d
  <2>5. Value(d, 10) \in Nat
    BY <2>3, OctetCanonical, Zenon
  <2>6. Value(d, 10) \in 0 .. 255
    <3>1. \A m \in Nat : m <= 255 => m \in 0 .. 255
      BY SMT
    <3> QED BY <2>4, <2>5, <3>1, Zenon
  <2> QED BY <2>3, <2>6 DEF Canonical, d
<1>5. ASSUME all PROVE IsQuad(s, 1) /\ ~zeros
  <2>1. \A k \in octets : DecimalRun(s[k]) /\ Value(s[k], 10) <= 255
    <3>1. \A n \in 0 .. 255 : n <= 255
      BY SMT
    <3> QED BY <1>5, <3>1, Zenon DEF Canonical
  <2>2. \A k \in octets : Len(s[k]) <= 3 /\ \A j \in DOMAIN s[k] : s[k][j] < 10
    BY <2>1, DecimalIsRun, Zenon
  <2>3. \A k \in octets : Len(s[k]) > 1 => s[k][1] # 0
    BY <2>1, Zenon DEF DecimalRun
  <2>4. ~zeros
    <3>1. \A k \in 1 .. 7 : k \in octets \/ s[k] = Dot
      BY <1>1
    <3>2. Len(Dot) = 1
      BY ColonIsNotDot
    <3>3. ~(Len(Dot) > 1)
      BY <3>2
    <3> QED BY <1>1, <2>3, <3>1, <3>3, Zenon
  <2>5. IsQuad(s, 1)
    <3>1. Len(s) = 1 + 6 /\ {1, 1 + 2, 1 + 4, 1 + 6} = octets /\ {1 + 1, 1 + 3, 1 + 5} = {2, 4, 6}
      BY <1>1
    <3>2. \A k \in {2, 4, 6} : Is(s, k, Dot)
      BY <1>1 DEF Is
    <3> HIDE DEF octets
    <3> DEFINE Octet(k) == /\ IsRun(s, k) /\ Len(s[k]) <= 3
                           /\ \A j \in DOMAIN s[k] : s[k][j] < 10
                           /\ Value(s[k], 10) <= 255
    <3>3. \A k \in octets : Octet(k)
      BY <1>3, <2>1, <2>2, Zenon
    <3>6. IsQuad(s, 1) <=> /\ Len(s) = 1 + 6
                           /\ \A k \in {1, 1 + 2, 1 + 4, 1 + 6} : Octet(k)
                           /\ \A k \in {1 + 1, 1 + 3, 1 + 5} : Is(s, k, Dot)
      BY Zenon DEF IsQuad
    <3> HIDE DEF Octet
    <3>4. \A k \in {1, 1 + 2, 1 + 4, 1 + 6} : Octet(k)
      BY <3>1, <3>3, Zenon
    <3>5. \A k \in {1 + 1, 1 + 3, 1 + 5} : Is(s, k, Dot)
      BY <3>1, <3>2, Zenon
    <3> QED BY <3>1, <3>4, <3>5, <3>6, Zenon
  <2> QED BY <2>4, <2>5
<1>6. Octets(s, 1) # NULL
  <2>1. DOMAIN Octets(s, 1) = 1 .. 4 /\ DOMAIN NULL = 1 .. 1
    BY DEF Octets, NULL
  <2>2. 4 \in 1 .. 4 /\ 4 \notin 1 .. 1
    OBVIOUS
  <2> QED BY <2>1, <2>2, Zenon
<1>7. (Aton(s) # NULL) = all
  BY <1>4, <1>5, <1>6, Zenon DEF Aton
<1>8. ASSUME all PROVE Ntoa(Octets(s, 1), 16) = s
  <2> DEFINE o == Octets(s, 1)
  <2>1. o[1] = Value(s[1], 10) /\ o[2] = Value(s[3], 10) /\ o[3] = Value(s[5], 10) /\ o[4] = Value(s[7], 10)
    BY DEF Octets
  <2>2. \A k \in octets : Printed(Value(s[k], 10), 10) = s[k]
    BY <1>8, OctetCanonical, Zenon DEF Canonical
  <2>3. Quad(o) = s
    <3>1. Printed(o[1], 10) = s[1] /\ Printed(o[2], 10) = s[3] /\ Printed(o[3], 10) = s[5] /\ Printed(o[4], 10) = s[7]
      BY <2>1, <2>2
    <3> HIDE DEF o
    <3>2. Quad(o) = <<s[1], Dot, s[3], Dot, s[5], Dot, s[7]>>
      BY <3>1 DEF Quad
    <3> QED BY <3>2, <1>1
  <2>4. TextLen(s) \in Nat /\ TextLen(s) <= 15
    <3>1. \A k \in octets : Len(s[k]) <= 3
      BY <1>8, DecimalIsRun, Zenon DEF Canonical
    <3>2. \A k \in 1 .. 7 : k \in octets \/ s[k] = Dot
      BY <1>1
    <3>3. Len(Dot) = 1 /\ Dot \in Seq(Nat) /\ 1 <= 3
      BY ColonIsNotDot
    <3>4. \A i \in 1 .. 7 : s[i] \in Seq(Nat) /\ Len(s[i]) <= 3
      BY <1>2, <3>1, <3>2, <3>3, Zenon
    <3> DEFINE n == 7
               c == 3
    <3>5. \A i \in 2 .. n : Len(s[i - 1]) <= 1 \/ Len(s[i]) <= 1
      <4>1. \A i \in 2 .. n : i \in {2, 4, 6} \/ i - 1 \in {2, 4, 6}
        OBVIOUS
      <4>2. \A i \in {2, 4, 6} : Len(s[i]) = 1
        BY <1>1, <3>3
      <4>3. 1 <= 1
        OBVIOUS
      <4> QED BY <4>1, <4>2, <4>3, Zenon
    <3>6. /\ n \in Nat /\ n >= 1 /\ Len(s) = n /\ c \in {3, 4}
          /\ \A i \in 1 .. n : s[i] \in Seq(Nat) /\ Len(s[i]) <= c
      BY <1>1, <3>4
    <3>7. TextLen(s) \in Nat /\ 2 * TextLen(s) <= (c + 1) * n + c - 1
      <4> HIDE DEF n, c
      <4> QED BY <3>5, <3>6, TextLenBound
    <3> QED BY <3>7
  <2>5. ~(TextLen(s) + 1 > 16)
    BY <2>4
  <2> HIDE DEF o
  <2> QED BY <2>3, <2>5, Zenon DEF Ntoa, Buffered, o
<1>9. all <=> \A k \in octets : \E n \in 0 .. 255 : s[k] = Printed(n, 10)
  <2>1. \A k : Canonical(s[k]) <=> \E n \in 0 .. 255 : s[k] = Printed(n, 10)
    BY CanonicalPrinted, Zenon
  <2> QED BY <2>1, Zenon
<1>10. Aton(s) # NULL => Aton(s) = Octets(s, 1)
  BY Zenon DEF Aton
<1>11. Aton(s) # NULL => Ntoa(Aton(s), 16) = s
  BY <1>7, <1>8, <1>10, Zenon
<1> HIDE DEF octets, all
<1>12. (Aton(s) # NULL) = \A k \in octets : \E n \in 0 .. 255 : s[k] = Printed(n, 10)
  BY <1>7, <1>9, Zenon
<1> QED BY <1>11, <1>12, Zenon DEF octets

-----------------------------------------------------------------------------
(* The loop of tor_inet_pton.                                              *)

\* Where the loop begins, and what it does while there is something to read.
ReadFrom == [ok |-> TRUE, src |-> 1, words |-> <<>>, gap |-> -1]
ReadOn(s, eow, st) == IF st.ok /\ st.src < eow THEN Turn(s, eow, st) ELSE st

\* The states of the loop after up to n turns.
Reads(s, eow, n, r) == r = [k \in 0 .. n |-> IF k = 0 THEN ReadFrom ELSE ReadOn(s, eow, r[k - 1])]

\* The states exist: those up to a turn can be extended by the next.
LEMMA ReadsExist ==
    ASSUME NEW s, NEW eow \in Nat, NEW n \in Nat
    PROVE  \E r : Reads(s, eow, n, r)
<1> DEFINE none == {k \in Nat : ~\E r : Reads(s, eow, k, r)}
<1> SUFFICES ASSUME none # {} PROVE FALSE
  OBVIOUS
<1>1. PICK k \in none : \A m \in none : k <= m
  <2> HIDE DEF none
  <2>1. none \subseteq Nat
    BY DEF none
  <2> QED BY <2>1, LeastNumber
<1>2. k # 0
  <2> SUFFICES ASSUME k = 0 PROVE FALSE
    OBVIOUS
  <2> DEFINE g == [i \in 0 .. 0 |-> ReadFrom]
  <2>1. Reads(s, eow, 0, g)
    <3>1. \A i \in 0 .. 0 : i = 0
      OBVIOUS
    <3>2. g = [i \in 0 .. 0 |-> IF i = 0 THEN ReadFrom ELSE ReadOn(s, eow, g[i - 1])]
      BY <3>1
    <3> QED BY <3>2 DEF Reads
  <2> QED BY <2>1
<1>3. k - 1 \in Nat /\ k - 1 \notin none
  BY <1>1, <1>2
<1>4. PICK g : Reads(s, eow, k - 1, g)
  BY <1>3
<1> DEFINE h == [i \in 0 .. k |-> IF i = k THEN ReadOn(s, eow, g[i - 1]) ELSE g[i]]
<1>5. \A i \in 0 .. k : h[i] = IF i = 0 THEN ReadFrom ELSE ReadOn(s, eow, h[i - 1])
  <2> TAKE i \in 0 .. k
  <2>1. CASE i = k
    <3>1. k - 1 \in 0 .. k /\ k - 1 # k /\ k \in 0 .. k
      BY <1>3
    <3>2. h[k - 1] = g[k - 1] /\ h[k] = ReadOn(s, eow, g[k - 1])
      BY <3>1
    <3> HIDE DEF h
    <3> QED BY <1>2, <2>1, <3>2
  <2>2. CASE i # k
    <3>1. i \in 0 .. k - 1
      BY <1>3, <2>2
    <3>2. h[i] = g[i] /\ g[i] = IF i = 0 THEN ReadFrom ELSE ReadOn(s, eow, g[i - 1])
      <4>1. h[i] = g[i]
        BY <2>2
      <4> QED BY <1>4, <3>1, <4>1 DEF Reads
    <3>3. i # 0 => h[i - 1] = g[i - 1]
      <4>1. i # 0 => i - 1 \in 0 .. k /\ i - 1 # k
        BY <1>3, <3>1
      <4> QED BY <4>1
    <3> HIDE DEF h
    <3> QED BY <3>2, <3>3
  <2> QED BY <2>1, <2>2
<1>6. Reads(s, eow, k, h)
  <2>1. h = [i \in 0 .. k |-> h[i]]
    OBVIOUS
  <2> HIDE DEF h
  <2>2. [i \in 0 .. k |-> h[i]] = [i \in 0 .. k |-> IF i = 0 THEN ReadFrom ELSE ReadOn(s, eow, h[i - 1])]
    BY <1>5
  <2> QED BY <2>1, <2>2 DEF Reads
<1> QED BY <1>1, <1>6

\* What ReadWords computes for a text of len tokens, turn by turn.
ReadTurns(s, eow, len, r) ==
    /\ eow \in Nat /\ len \in Nat /\ r[0] = ReadFrom
    /\ \A k \in 1 .. len : r[k] = ReadOn(s, eow, r[k - 1])
    /\ ReadWords(s, eow) = r[len]

\* What the loop computes for a text of a given length, turn by turn.
LEMMA ReadSteps ==
    ASSUME NEW s, NEW eow \in Nat, NEW len \in Nat, Len(s) = len
    PROVE  \E r : ReadTurns(s, eow, len, r)
<1> DEFINE r == CHOOSE r : Reads(s, eow, len, r)
<1>1. Reads(s, eow, len, r)
  BY ReadsExist
<1>2. ReadWords(s, eow) = r[len]
  BY DEF ReadWords, Reads, ReadOn, ReadFrom
<1> HIDE DEF r
<1>3. \A k \in 0 .. len : r[k] = IF k = 0 THEN ReadFrom ELSE ReadOn(s, eow, r[k - 1])
  BY <1>1 DEF Reads
<1>4. 0 \in 0 .. len /\ \A k \in 1 .. len : k \in 0 .. len /\ k # 0
  OBVIOUS
<1> QED BY <1>2, <1>3, <1>4 DEF ReadTurns

\* A state that stops the loop is the last.
LEMMA ReadStops ==
    ASSUME NEW s, NEW eow, NEW len, NEW r, ReadTurns(s, eow, len, r),
           NEW k \in 0 .. len, ~(r[k].ok /\ r[k].src < eow)
    PROVE  ReadWords(s, eow) = r[k]
<1>0. eow \in Nat /\ len \in Nat
  BY DEF ReadTurns
<1> DEFINE T == {i \in Nat : r[i] = r[k]}
<1>1. k \in T
  OBVIOUS
<1>2. \A i \in Nat : k <= i /\ i < len /\ i \in T => i + 1 \in T
  <2> TAKE i \in Nat
  <2> HAVE k <= i /\ i < len /\ i \in T
  <2>1. i + 1 \in 1 .. len /\ (i + 1) - 1 = i
    BY <1>0
  <2>2. r[i + 1] = ReadOn(s, eow, r[i])
    BY <2>1 DEF ReadTurns
  <2>3. r[i + 1] = r[i]
    BY <2>2 DEF ReadOn
  <2> QED BY <2>3
<1>3. len \in T
  <2> HIDE DEF T
  <2>1. \A i \in Nat : k <= i /\ i <= len => i \in T
    <3>1. k \in Nat /\ k <= len
      BY <1>0
    <3> QED BY <1>0, <1>1, <1>2, <3>1, Reached
  <2>2. k <= len
    BY <1>0
  <2> QED BY <1>0, <2>1, <2>2
<1> QED BY <1>3 DEF ReadTurns

\* The loop before place p of a text, when it has read the first m words of v.
StateAt(p, v, m, q) == [ok |-> TRUE, src |-> p, words |-> [i \in 1 .. m |-> v[i]], gap |-> q]

\* A token that is read as a word.
HexRun(s, i, n) == IsRun(s, i) /\ Len(s[i]) <= 4 /\ Value(s[i], 16) = n

\* A colon is not read as a word.
LEMMA ColonIsNoRun ==
    ASSUME NEW s, NEW i, Is(s, i, Colon)
    PROVE  ~IsRun(s, i)
  BY DEF Is, IsRun

\* Appending the next word gives the words up to it.
LEMMA WordsRead ==
    ASSUME NEW v, NEW m \in Nat, \A i \in 1 .. m + 1 : v[i] \in Nat
    PROVE  /\ [i \in 1 .. m |-> v[i]] \in Seq(Nat) /\ Len([i \in 1 .. m |-> v[i]]) = m
           /\ Append([i \in 1 .. m |-> v[i]], v[m + 1]) = [i \in 1 .. m + 1 |-> v[i]]
<1> DEFINE w == [i \in 1 .. m |-> v[i]]
<1>1. w \in Seq(Nat) /\ Len(w) = m
  OBVIOUS
<1>2. Append(w, v[m + 1]) = [i \in 1 .. m + 1 |-> v[i]]
  <2>1. \A i \in 1 .. m : w[i] = v[i]
    OBVIOUS
  <2> HIDE DEF w
  <2>2. v[m + 1] \in Nat
    OBVIOUS
  <2>3. Append(w, v[m + 1]) \in Seq(Nat) /\ Len(Append(w, v[m + 1])) = m + 1
    BY <1>1, <2>2
  <2>4. \A i \in 1 .. m + 1 : Append(w, v[m + 1])[i] = v[i]
    BY <1>1, <2>1, <2>2
  <2>5. Append(w, v[m + 1]) = [i \in 1 .. m + 1 |-> Append(w, v[m + 1])[i]]
    BY <2>3
  <2> QED BY <2>4, <2>5
<1> QED BY <1>1, <1>2

\* The loop reads a word.
LEMMA TurnWord ==
    ASSUME NEW s, NEW eow, NEW v, NEW p \in Nat, NEW m \in 0 .. 7, NEW q,
           \A i \in 1 .. m + 1 : v[i] \in Nat,
           HexRun(s, p, v[m + 1]), p + 1 = eow \/ Is(s, p + 1, Colon)
    PROVE  Turn(s, eow, StateAt(p, v, m, q)) = StateAt(p + 2, v, m + 1, q)
<1> DEFINE st == StateAt(p, v, m, q)
           w == [i \in 1 .. m |-> v[i]]
<1>1. st = [ok |-> TRUE, src |-> p, words |-> w, gap |-> q]
  BY DEF StateAt
<1>2. Len(w) = m /\ Append(w, v[m + 1]) = [i \in 1 .. m + 1 |-> v[i]]
  BY WordsRead
<1> HIDE DEF w
<1>3. ~(Len(w) > 7)
  BY <1>2
<1>4. IsRun(s, p) /\ Len(s[p]) <= 4 /\ Value(s[p], 16) = v[m + 1]
  BY DEF HexRun
<1>5. ~Is(s, p, Colon)
  BY <1>4, ColonIsNoRun
<1>6. Turn(s, eow, st) = [st EXCEPT !.words = Append(@, Value(s[st.src], 16)),
                                    !.ok = st.src + 1 = eow \/ Is(s, st.src + 1, Colon),
                                    !.src = @ + 2]
  <2>1. st.src = p /\ st.words = w /\ st.gap = q
    BY <1>1
  <2> HIDE DEF st
  <2> QED BY <1>3, <1>4, <1>5, <2>1 DEF Turn
<1>7. ASSUME NEW A, NEW B
      PROVE  [st EXCEPT !.words = Append(@, B), !.ok = A, !.src = @ + 2]
                = [ok |-> A, src |-> p + 2, words |-> Append(w, B), gap |-> q]
  <2>1. st.words = w /\ st.src = p
    BY <1>1
  <2> DEFINE T == TRUE
             C == Append(w, B)
             E == p + 2
  <2>2. st = [ok |-> T, src |-> p, words |-> w, gap |-> q]
    BY <1>1
  <2> HIDE DEF T, C, E, st
  <2> DEFINE st1 == [st EXCEPT !.words = C]
             st2 == [st1 EXCEPT !.ok = A]
             st3 == [st2 EXCEPT !.src = E]
  <2>3. st1 = [ok |-> T, src |-> p, words |-> C, gap |-> q]
    BY <2>2
  <2>4. [st EXCEPT !.words = C, !.ok = A, !.src = E] = st3
    BY <2>2
  <2> HIDE DEF st1
  <2>5. st2 = [ok |-> A, src |-> p, words |-> C, gap |-> q]
    BY <2>3
  <2> HIDE DEF st2
  <2>6. st3 = [ok |-> A, src |-> E, words |-> C, gap |-> q]
    BY <2>5
  <2> HIDE DEF st3
  <2>7. [st EXCEPT !.words = Append(@, B), !.ok = A, !.src = @ + 2] = [st EXCEPT !.words = C, !.ok = A, !.src = E]
    BY <2>1 DEF C, E
  <2> QED BY <2>4, <2>6, <2>7 DEF C, E
<1> DEFINE A == st.src + 1 = eow \/ Is(s, st.src + 1, Colon)
           B == Value(s[st.src], 16)
<1>8. A = TRUE /\ B = v[m + 1]
  BY <1>1, <1>4
<1>9. Turn(s, eow, st) = [st EXCEPT !.words = Append(@, B), !.ok = A, !.src = @ + 2]
  BY <1>6
<1> HIDE DEF st, A, B
<1>10. Turn(s, eow, st) = [ok |-> A, src |-> p + 2, words |-> Append(w, B), gap |-> q]
  BY <1>7, <1>9, Zenon
<1>11. Turn(s, eow, st) = [ok |-> TRUE, src |-> p + 2, words |-> [i \in 1 .. m + 1 |-> v[i]], gap |-> q]
  BY <1>2, <1>8, <1>10, Zenon
<1> QED BY <1>11, Zenon DEF StateAt, st

\* The loop finds the second colon behind words, or two colons before them.
LEMMA TurnGap ==
    ASSUME NEW s, NEW eow, NEW v, NEW p \in Nat, NEW m \in 0 .. 7,
           \A i \in 1 .. m + 1 : v[i] \in Nat,
           Is(s, p, Colon), m = 0 => p + 1 < eow /\ Is(s, p + 1, Colon)
    PROVE  Turn(s, eow, StateAt(p, v, m, -1)) = StateAt(IF m = 0 THEN p + 2 ELSE p + 1, v, m, m)
<1> DEFINE st == StateAt(p, v, m, -1)
           w == [i \in 1 .. m |-> v[i]]
<1>1. st = [ok |-> TRUE, src |-> p, words |-> w, gap |-> -1]
  BY DEF StateAt
<1>2. Len(w) = m
  BY WordsRead
<1> HIDE DEF w
<1>3. ~(Len(w) > 7) /\ (Len(w) > 0 <=> m # 0)
  BY <1>2
<1>4. ~IsRun(s, p)
  BY ColonIsNoRun
<1>5. st.src = p /\ st.words = w /\ st.gap = -1
  BY <1>1
<1>6. CASE m = 0
  <2> HIDE DEF st
  <2>1. Turn(s, eow, st) = [st EXCEPT !.gap = m, !.src = @ + 2]
    BY <1>2, <1>3, <1>4, <1>5, <1>6 DEF Turn
  <2>2. Turn(s, eow, st) = [ok |-> TRUE, src |-> p + 2, words |-> w, gap |-> m]
    BY <1>1, <2>1
  <2> QED BY <1>6, <2>2 DEF StateAt, st, w
<1>7. CASE m # 0
  <2> HIDE DEF st
  <2>1. Turn(s, eow, st) = [st EXCEPT !.gap = m, !.src = @ + 1]
    BY <1>2, <1>3, <1>4, <1>5, <1>7 DEF Turn
  <2>2. Turn(s, eow, st) = [ok |-> TRUE, src |-> p + 1, words |-> w, gap |-> m]
    BY <1>1, <2>1
  <2> QED BY <1>7, <2>2 DEF StateAt, st, w
<1> QED BY <1>6, <1>7

\* What the loop refuses: more than eight words, a third colon, one colon at the
\* beginning, and a run of more than four digits.
LEMMA TurnFails ==
    ASSUME NEW s, NEW eow, NEW v, NEW p \in Nat, NEW m \in Nat, NEW q \in Int,
           \A i \in 1 .. m + 1 : v[i] \in Nat,
           \/ m > 7
           \/ Is(s, p, Colon) /\ q # -1
           \/ Is(s, p, Colon) /\ m = 0 /\ ~Is(s, p + 1, Colon)
           \/ IsRun(s, p) /\ ~(Len(s[p]) <= 4)
    PROVE  Turn(s, eow, StateAt(p, v, m, q)).ok = FALSE
<1> DEFINE st == StateAt(p, v, m, q)
           w == [i \in 1 .. m |-> v[i]]
<1>1. st = [ok |-> TRUE, src |-> p, words |-> w, gap |-> q]
  BY DEF StateAt
<1>2. Len(w) = m
  BY WordsRead
<1> HIDE DEF w
<1>3. (Len(w) > 7 <=> m > 7) /\ (Len(w) > 0 <=> m # 0) /\ (Len(w) = 0 <=> m = 0)
  BY <1>2
<1>4. Is(s, p, Colon) => ~IsRun(s, p)
  BY ColonIsNoRun
<1>5. st.src = p /\ st.words = w /\ st.gap = q
  BY <1>1
<1>6. Turn(s, eow, st) = [st EXCEPT !.ok = FALSE]
  <2> HIDE DEF st
  <2>1. CASE m > 7
    BY <1>3, <1>5, <2>1 DEF Turn
  <2>2. CASE ~(m > 7) /\ Is(s, p, Colon) /\ q # -1
    BY <1>3, <1>4, <1>5, <2>2 DEF Turn
  <2>3. CASE ~(m > 7) /\ Is(s, p, Colon) /\ m = 0 /\ ~Is(s, p + 1, Colon)
    BY <1>3, <1>4, <1>5, <2>3 DEF Turn
  <2>4. CASE ~(m > 7) /\ IsRun(s, p) /\ ~(Len(s[p]) <= 4)
    BY <1>3, <1>4, <1>5, <2>4 DEF Turn
  <2> QED BY <2>1, <2>2, <2>3, <2>4
<1>7. [st EXCEPT !.ok = FALSE].ok = FALSE
  BY <1>1
<1> QED BY <1>6, <1>7

\* From place p of a text on, n words of v behind the first m, with colons
\* between them and nothing or a colon behind.
Row(s, eow, p, n, v, m) ==
    \A j \in 1 .. n :
       /\ HexRun(s, p + 2 * j - 2, v[m + j]) /\ p + 2 * j - 2 < eow
       /\ p + 2 * j - 1 = eow \/ Is(s, p + 2 * j - 1, Colon)

\* A turn of the loop on a state that does not stop it.
LEMMA NextTurn ==
    ASSUME NEW s, NEW eow, NEW len, NEW r, ReadTurns(s, eow, len, r),
           NEW k \in Nat, k < len,
           NEW p \in Nat, NEW v, NEW m \in Nat, NEW q, r[k] = StateAt(p, v, m, q), p < eow
    PROVE  r[k + 1] = Turn(s, eow, StateAt(p, v, m, q))
<1>0. eow \in Nat /\ len \in Nat
  BY DEF ReadTurns
<1>1. k + 1 \in 1 .. len /\ (k + 1) - 1 = k
  BY <1>0
<1>2. r[k + 1] = ReadOn(s, eow, r[k])
  BY <1>1 DEF ReadTurns
<1>3. r[k].ok /\ r[k].src = p
  BY DEF StateAt
<1> QED BY <1>2, <1>3 DEF ReadOn

\* A word that stands where the loop is.
AtWord(s, eow, v, h, l) ==
    /\ \A i \in 1 .. l + 1 : v[i] \in Nat
    /\ HexRun(s, h, v[l + 1]) /\ h < eow /\ (h + 1 = eow \/ Is(s, h + 1, Colon))

\* A turn at a word reads it and the colon behind it.
LEMMA WordStep ==
    ASSUME NEW s, NEW eow, NEW len, NEW r, ReadTurns(s, eow, len, r), NEW v, NEW q
    PROVE  \A h \in Nat, l \in 0 .. 7, x \in Nat :
              x < len /\ r[x] = StateAt(h, v, l, q) /\ AtWord(s, eow, v, h, l)
              => r[x + 1] = StateAt(h + 2, v, l + 1, q)
<1>0. eow \in Nat /\ len \in Nat
  BY DEF ReadTurns
<1> TAKE h \in Nat, l \in 0 .. 7, x \in Nat
<1> HAVE x < len /\ r[x] = StateAt(h, v, l, q) /\ AtWord(s, eow, v, h, l)
<1>1. r[x + 1] = Turn(s, eow, StateAt(h, v, l, q))
  BY NextTurn DEF AtWord
<1>2. Turn(s, eow, StateAt(h, v, l, q)) = StateAt(h + 2, v, l + 1, q)
  BY TurnWord DEF AtWord
<1> QED BY <1>1, <1>2

\* The loop reads words one after the other.
LEMMA RowRead ==
    ASSUME NEW s, NEW eow, NEW len, NEW r, ReadTurns(s, eow, len, r),
           NEW v, NEW p \in Nat, NEW m \in Nat, NEW n \in Nat, m + n <= 8, NEW q,
           NEW k \in Nat, k + n <= len, \A i \in 1 .. m + n : v[i] \in Nat,
           r[k] = StateAt(p, v, m, q), Row(s, eow, p, n, v, m)
    PROVE  r[k + n] = StateAt(p + 2 * n, v, m + n, q)
<1>0. eow \in Nat /\ len \in Nat
  BY DEF ReadTurns
<1> DEFINE T == {j \in Nat : r[k + j] = StateAt(p + 2 * j, v, m + j, q)}
<1>1. 0 \in T
  <2>1. k + 0 = k /\ p + 2 * 0 = p /\ m + 0 = m
    OBVIOUS
  <2> QED BY <2>1
<1>2. \A j \in Nat : 0 <= j /\ j < n /\ j \in T => j + 1 \in T
  <2> TAKE j \in Nat
  <2> HAVE 0 <= j /\ j < n /\ j \in T
  <2> DEFINE h == p + 2 * j
             l == m + j
  <2>1. h \in Nat /\ l \in 0 .. 7 /\ k + j \in Nat /\ k + j < len /\ j + 1 \in 1 .. n
    BY <1>0
  <2>2. \A i \in 1 .. l + 1 : v[i] \in Nat
    OBVIOUS
  <2>3. HexRun(s, h, v[l + 1]) /\ h < eow /\ (h + 1 = eow \/ Is(s, h + 1, Colon))
    <3>1. /\ HexRun(s, p + 2 * (j + 1) - 2, v[m + (j + 1)]) /\ p + 2 * (j + 1) - 2 < eow
          /\ p + 2 * (j + 1) - 1 = eow \/ Is(s, p + 2 * (j + 1) - 1, Colon)
      BY <2>1 DEF Row
    <3>2. p + 2 * (j + 1) - 2 = h /\ m + (j + 1) = l + 1 /\ p + 2 * (j + 1) - 1 = h + 1
      OBVIOUS
    <3> QED BY <3>1, <3>2
  <2>4. r[k + j] = StateAt(h, v, l, q)
    OBVIOUS
  <2>5. k + (j + 1) = (k + j) + 1 /\ p + 2 * (j + 1) = h + 2 /\ m + (j + 1) = l + 1
    OBVIOUS
  <2> DEFINE x == k + j
  <2>6. r[x + 1] = StateAt(h + 2, v, l + 1, q)
    <3> HIDE DEF h, l, x, T
    <3>1. r[x] = StateAt(h, v, l, q) /\ AtWord(s, eow, v, h, l) /\ x \in Nat /\ x < len
      BY <2>1, <2>2, <2>3, <2>4 DEF x, AtWord
    <3>2. \A h_1 \in Nat, l_1 \in 0 .. 7, x_1 \in Nat :
              x_1 < len /\ r[x_1] = StateAt(h_1, v, l_1, q) /\ AtWord(s, eow, v, h_1, l_1)
              => r[x_1 + 1] = StateAt(h_1 + 2, v, l_1 + 1, q)
      BY WordStep
    <3> QED BY <2>1, <3>1, <3>2, Zenon
  <2>7. r[k + (j + 1)] = StateAt(p + 2 * (j + 1), v, m + (j + 1), q)
    BY <2>5, <2>6, Zenon DEF x
  <2> QED BY <2>7
<1>3. n \in T
  <2> HIDE DEF T
  <2>1. \A j \in Nat : 0 <= j /\ j <= n => j \in T
    <3>1. 0 \in Nat
      OBVIOUS
    <3> QED BY <1>1, <1>2, <3>1, Reached
  <2> QED BY <2>1
<1> QED BY <1>3

\* The first state, and the words that are read from it.
LEMMA FirstRowRead ==
    ASSUME NEW s, NEW eow, NEW len, NEW r, ReadTurns(s, eow, len, r),
           NEW v, NEW n \in 0 .. 8, n <= len, \A i \in 1 .. n : v[i] \in Nat,
           Row(s, eow, 1, n, v, 0)
    PROVE  r[n] = StateAt(2 * n + 1, v, n, -1)
<1>1. r[0] = StateAt(1, v, 0, -1)
  <2>1. <<>> = [i \in 1 .. 0 |-> v[i]]
    OBVIOUS
  <2> QED BY <2>1 DEF ReadTurns, ReadFrom, StateAt
<1> DEFINE p == 1
           m == 0
           k == 0
           q == -1
<1>2. /\ p \in Nat /\ m \in Nat /\ n \in Nat /\ m + n <= 8 /\ k \in Nat /\ k + n <= len
      /\ (\A i \in 1 .. m + n : v[i] \in Nat) /\ r[k] = StateAt(p, v, m, q) /\ Row(s, eow, p, n, v, m)
  BY <1>1
<1>3. k + n = n /\ m + n = n /\ p + 2 * n = 2 * n + 1
  OBVIOUS
<1> HIDE DEF p, m, k, q
<1>4. r[k + n] = StateAt(p + 2 * n, v, m + n, q)
  BY <1>2, RowRead
<1> QED BY <1>3, <1>4, Zenon DEF q

\* Where the words behind "::" begin, if left words are before it.
Behind(left) == IF left = 0 THEN 3 ELSE 2 * left + 2

\* The len tokens of a text before place eow are left words of v, and then, if
\* there is a gap, "::" and right words.
Laid(s, eow, len, left, gap, right, v) ==
    /\ eow \in Nat /\ len \in Nat /\ left \in Nat /\ right \in Nat /\ gap \in BOOLEAN
    /\ left + right <= 8 /\ left + right + (IF gap THEN 1 ELSE 0) <= len
    /\ \A i \in 1 .. 9 : v[i] \in Nat
    /\ Row(s, eow, 1, left, v, 0)
    /\ gap => /\ left <= 7 /\ 2 * left + 1 < eow /\ Is(s, 2 * left + 1, Colon)
              /\ left = 0 => 2 < eow /\ Is(s, 2, Colon)
              /\ Row(s, eow, Behind(left), right, v, left)
              /\ Behind(left) + 2 * right >= eow
    /\ ~gap => right = 0 /\ 2 * left + 1 >= eow

\* The loop steps over "::".
LEMMA GapStep ==
    ASSUME NEW s, NEW eow, NEW len, NEW r, ReadTurns(s, eow, len, r), NEW v
    PROVE  \A m \in 0 .. 7 :
              /\ m < len /\ r[m] = StateAt(2 * m + 1, v, m, -1) /\ \A i \in 1 .. m + 1 : v[i] \in Nat
              /\ 2 * m + 1 < eow /\ Is(s, 2 * m + 1, Colon) /\ (m = 0 => 2 < eow /\ Is(s, 2, Colon))
              => r[m + 1] = StateAt(Behind(m), v, m, m)
<1>0. eow \in Nat /\ len \in Nat
  BY DEF ReadTurns
<1> TAKE m \in 0 .. 7
<1> DEFINE p == 2 * m + 1
<1> HAVE /\ m < len /\ r[m] = StateAt(p, v, m, -1) /\ \A i \in 1 .. m + 1 : v[i] \in Nat
         /\ p < eow /\ Is(s, p, Colon) /\ (m = 0 => 2 < eow /\ Is(s, 2, Colon))
<1>1. p \in Nat /\ (m = 0 => p = 1) /\ (IF m = 0 THEN p + 2 ELSE p + 1) = Behind(m)
  BY DEF Behind
<1>2. m = 0 => p + 1 < eow /\ Is(s, p + 1, Colon)
  BY <1>1
<1>3. r[m + 1] = Turn(s, eow, StateAt(p, v, m, -1))
  <2> HIDE DEF p
  <2>1. \A k \in Nat, h \in Nat : \A q : k < len /\ r[k] = StateAt(h, v, k, q) /\ h < eow
           => r[k + 1] = Turn(s, eow, StateAt(h, v, k, q))
    BY NextTurn
  <2> QED BY <1>1, <2>1
<1>4. Turn(s, eow, StateAt(p, v, m, -1)) = StateAt(IF m = 0 THEN p + 2 ELSE p + 1, v, m, m)
  <2> HIDE DEF p
  <2> QED BY <1>1, <1>2, TurnGap
<1> QED BY <1>1, <1>3, <1>4

\* All the words of a text that is laid out like one are read, and its gap.
LEMMA LaidRead ==
    ASSUME NEW s, NEW eow, NEW len, NEW r, ReadTurns(s, eow, len, r),
           NEW left, NEW gap, NEW right, NEW v, Laid(s, eow, len, left, gap, right, v)
    PROVE  \E fin : ReadWords(s, eow) = StateAt(fin, v, left + right, IF gap THEN left ELSE -1)
<1>0. /\ eow \in Nat /\ len \in Nat /\ left \in 0 .. 8 /\ right \in 0 .. 8 /\ gap \in BOOLEAN
      /\ left + right <= 8 /\ left + right + (IF gap THEN 1 ELSE 0) <= len /\ left <= len
  BY DEF Laid
<1>1. \A i \in 1 .. 9 : v[i] \in Nat
  BY DEF Laid
<1>2. r[left] = StateAt(2 * left + 1, v, left, -1)
  <2>1. Row(s, eow, 1, left, v, 0)
    BY DEF Laid
  <2>2. \A i \in 1 .. left : v[i] \in Nat
    BY <1>0, <1>1
  <2> QED BY <1>0, <2>1, <2>2, FirstRowRead
<1>3. ASSUME NEW k \in 0 .. len, NEW fin \in Nat, NEW m, NEW q, r[k] = StateAt(fin, v, m, q), fin >= eow
      PROVE  \E f : ReadWords(s, eow) = StateAt(f, v, m, q)
  <2>1. r[k].src = fin
    BY <1>3 DEF StateAt
  <2>2. ~(r[k].src < eow)
    BY <1>0, <1>3, <2>1
  <2>3. ReadWords(s, eow) = r[k]
    BY <2>2, ReadStops
  <2> QED BY <1>3, <2>3
<1>4. CASE ~gap
  <2>1. right = 0 /\ 2 * left + 1 >= eow /\ 2 * left + 1 \in Nat /\ left + right = left /\ left \in 0 .. len
    BY <1>0, <1>4 DEF Laid
  <2>2. \E f : ReadWords(s, eow) = StateAt(f, v, left, -1)
    BY <1>2, <1>3, <2>1
  <2> QED BY <1>4, <2>1, <2>2
<1>5. CASE gap
  <2>1. /\ left \in 0 .. 7 /\ 2 * left + 1 < eow /\ Is(s, 2 * left + 1, Colon)
        /\ left = 0 => 2 < eow /\ Is(s, 2, Colon)
        /\ Row(s, eow, Behind(left), right, v, left)
        /\ Behind(left) + 2 * right >= eow /\ Behind(left) \in Nat
    BY <1>0, <1>5 DEF Laid, Behind
  <2>2. left < len /\ \A i \in 1 .. left + 1 : v[i] \in Nat
    BY <1>0, <1>1, <1>5
  <2> DEFINE k == left + 1
             p == Behind(left)
  <2>3. r[k] = StateAt(p, v, left, left)
    BY <1>2, <2>1, <2>2, GapStep
  <2>4. k \in Nat /\ k + right <= len /\ k + right \in 0 .. len /\ p + 2 * right \in Nat
    BY <1>0, <1>5, <2>1
  <2>5. \A i \in 1 .. left + right : v[i] \in Nat
    BY <1>0, <1>1
  <2>6. Row(s, eow, p, right, v, left) /\ p \in Nat /\ p + 2 * right >= eow
    BY <2>1
  <2> HIDE DEF k, p
  <2>7. r[k + right] = StateAt(p + 2 * right, v, left + right, left)
    BY <1>0, <2>3, <2>4, <2>5, <2>6, RowRead
  <2>8. \E f : ReadWords(s, eow) = StateAt(f, v, left + right, left)
    BY <1>3, <2>4, <2>6, <2>7
  <2> QED BY <1>5, <2>8
<1> QED BY <1>0, <1>4, <1>5

\* What tor_inet_pton makes of the words it has read.
Outcome(st, quad) ==
    IF \/ ~st.ok \/ Len(st.words) + Len(quad) > 8
       \/ (Len(st.words) + Len(quad) = 8) # (st.gap = -1)
    THEN NULL ELSE Filled(st.words, st.gap, quad)

\* The two words a quad stands for.
QuadWords(o) == <<o[1] * 256 + o[2], o[3] * 256 + o[4]>>

\* A single colon at the end is refused.
LEMMA PtonTrailing ==
    ASSUME NEW s, TextLen(s) > 2, Is(s, Len(s), Colon), ~Is(s, Len(s) - 1, Colon)
    PROVE  Pton(s) = NULL
  BY DEF Pton

\* A text without dots.
LEMMA PtonPlain ==
    ASSUME NEW s, \A i \in DOMAIN s : s[i] # Dot,
           Is(s, Len(s), Colon) => Is(s, Len(s) - 1, Colon)
    PROVE  Pton(s) = Outcome(ReadWords(s, Len(s) + 1), <<>>)
<1>1. {i \in DOMAIN s : s[i] = Dot} = {}
  OBVIOUS
<1> QED BY <1>1 DEF Pton, Outcome

\* A text that ends with a quad: what is before it has to end with a colon.
LEMMA PtonWithQuad ==
    ASSUME NEW s, NEW eow, NEW o, EndsWithQuad(s, eow, o)
    PROVE  Pton(s) = IF Is(s, eow - 1, Colon) THEN Outcome(ReadWords(s, eow), QuadWords(o)) ELSE NULL
<1> DEFINE dots == {i \in DOMAIN s : s[i] = Dot}
           dot == CHOOSE i \in dots : \A j \in dots : i <= j
<1>0. /\ eow \in Nat /\ eow >= 1 /\ IsOctets(o) /\ Len(s) = eow + 6 /\ DOMAIN s = 1 .. eow + 6
      /\ DOMAIN s = 1 .. Len(s)
      /\ \A j \in 1 .. 7 : s[eow + j - 1] = Quad(o)[j]
      /\ \A i \in 1 .. eow - 1 : s[i] # Dot
  BY DEF EndsWithQuad
<1>1. IsQuad(s, eow) /\ Octets(s, eow) = [k \in 1 .. 4 |-> o[k]]
  BY QuadReads
<1>2. s[eow] # Dot /\ s[eow + 1] = Dot /\ s[eow + 6] # Colon
  <2>1. IsRun(s, eow) /\ IsRun(s, eow + 6) /\ Is(s, eow + 1, Dot)
    BY <1>1 DEF IsQuad
  <2> QED BY <2>1 DEF IsRun, Is
<1>3. eow + 1 \in dots /\ \A i \in dots : eow + 1 <= i
  <2>1. \A i \in DOMAIN s : i \in 1 .. eow - 1 \/ i = eow \/ eow + 1 <= i
    BY <1>0
  <2> QED BY <1>0, <1>2, <2>1
<1>4. dot = eow + 1
  <2>1. \A i \in dots : i \in Int
    BY <1>0
  <2> HIDE DEF dots
  <2>2. dot \in dots /\ \A j \in dots : dot <= j
    BY <1>3
  <2>3. dot <= eow + 1 /\ eow + 1 <= dot /\ dot \in Int
    BY <1>3, <2>1, <2>2
  <2> HIDE DEF dot
  <2> QED BY <1>0, <2>3
<1>5. dots # {} /\ ~Is(s, Len(s), Colon)
  BY <1>0, <1>2, <1>3 DEF Is
<1>6. dot - 1 = eow /\ dot - 2 = eow - 1
  <2> HIDE DEF dot
  <2> QED BY <1>0, <1>4
<1>7. LET p == Octets(s, eow) IN <<p[1] * 256 + p[2], p[3] * 256 + p[4]>> = QuadWords(o)
  <2> DEFINE p == Octets(s, eow)
  <2>1. p[1] = o[1] /\ p[2] = o[2] /\ p[3] = o[3] /\ p[4] = o[4]
    BY <1>1
  <2> HIDE DEF p
  <2> QED BY <2>1, Zenon DEF QuadWords, p
<1> DEFINE st == ReadWords(s, eow)
           quad == LET p == Octets(s, eow) IN <<p[1] * 256 + p[2], p[3] * 256 + p[4]>>
           set == Len(st.words) + Len(quad)
<1>8. Pton(s) = IF \/ TextLen(s) > 2 /\ Is(s, Len(s), Colon) /\ ~Is(s, Len(s) - 1, Colon)
                   \/ dots # {} /\ ~(Is(s, dot - 2, Colon) /\ IsQuad(s, dot - 1))
                THEN NULL
                ELSE IF ~st.ok \/ set > 8 \/ (set = 8) # (st.gap = -1) THEN NULL
                ELSE Filled(st.words, st.gap, quad)
  <2> DEFINE e == IF dots = {} THEN Len(s) + 1 ELSE dot - 1
             st2 == ReadWords(s, e)
             quad2 == IF dots = {} THEN <<>>
                      ELSE LET p == Octets(s, e) IN <<p[1] * 256 + p[2], p[3] * 256 + p[4]>>
             set2 == Len(st2.words) + Len(quad2)
  <2>1. e = eow
    BY <1>5, <1>6, Zenon
  <2>2. Pton(s) = IF \/ TextLen(s) > 2 /\ Is(s, Len(s), Colon) /\ ~Is(s, Len(s) - 1, Colon)
                     \/ dots # {} /\ ~(Is(s, dot - 2, Colon) /\ IsQuad(s, dot - 1))
                  THEN NULL
                  ELSE IF ~st2.ok \/ set2 > 8 \/ (set2 = 8) # (st2.gap = -1) THEN NULL
                  ELSE Filled(st2.words, st2.gap, quad2)
    BY DEF Pton
  <2> HIDE DEF e
  <2>3. st2 = st
    BY <2>1
  <2>4. quad2 = quad
    BY <1>5, <2>1
  <2> HIDE DEF st, quad, st2, quad2, dots, dot
  <2> QED BY <2>2, <2>3, <2>4
<1> HIDE DEF dots, dot
<1>9. Outcome(st, QuadWords(o)) = IF ~st.ok \/ set > 8 \/ (set = 8) # (st.gap = -1) THEN NULL
                                  ELSE Filled(st.words, st.gap, quad)
  BY <1>7, Zenon DEF Outcome
<1> HIDE DEF st, quad, set
<1> QED BY <1>1, <1>5, <1>6, <1>8, <1>9, Zenon DEF st

\* The first n words, n words behind the first m, and the gap variable of the loop.
WordsOf(v, n) == [i \in 1 .. n |-> v[i]]
WordsBehind(v, m, n) == [i \in 1 .. n |-> v[m + i]]
GapAt(gap, left) == IF gap THEN left ELSE -1

\* What follows from the words before the end or a dotted quad.
LEMMA OutcomeOf ==
    ASSUME NEW s, NEW eow, NEW len, NEW left, NEW gap, NEW right, NEW v, NEW quad, NEW q,
           HasLen(s, len), Laid(s, eow, len, left, gap, right, v), HasLen(quad, q), q \in Nat
    PROVE  Outcome(ReadWords(s, eow), quad) =
              IF left + right + q > 8 \/ (left + right + q = 8) # ~gap THEN NULL
              ELSE Filled(WordsOf(v, left + right), GapAt(gap, left), quad)
<1>0. /\ eow \in Nat /\ len \in Nat /\ left \in Nat /\ right \in Nat /\ gap \in BOOLEAN
      /\ \A i \in 1 .. 9 : v[i] \in Nat
      /\ left + right <= 8
  BY DEF Laid
<1>1. PICK r : ReadTurns(s, eow, len, r)
  BY <1>0, ReadSteps DEF HasLen
<1>2. PICK fin : ReadWords(s, eow) = StateAt(fin, v, left + right, GapAt(gap, left))
  BY <1>1, LaidRead DEF GapAt
<1> DEFINE st == ReadWords(s, eow)
<1>3. st.ok /\ st.words = WordsOf(v, left + right) /\ st.gap = GapAt(gap, left)
  BY <1>2 DEF StateAt, WordsOf
<1>4. Len(WordsOf(v, left + right)) = left + right
  BY <1>0 DEF WordsOf
<1>5. GapAt(gap, left) = -1 <=> ~gap
  BY <1>0 DEF GapAt
<1> HIDE DEF st
<1>6. Outcome(st, quad) = IF left + right + q > 8 \/ (left + right + q = 8) # (GapAt(gap, left) = -1) THEN NULL
              ELSE Filled(WordsOf(v, left + right), GapAt(gap, left), quad)
  BY <1>3, <1>4, Zenon DEF Outcome, HasLen
<1> QED BY <1>5, <1>6 DEF st

\* A part of a list of words.
LEMMA Cut ==
    ASSUME NEW w \in Seq(Nat), NEW m \in Nat, NEW n \in Nat, m <= n, n <= Len(w)
    PROVE  SubSeq(w, m + 1, n) = WordsBehind(w, m, n - m)
<1> DEFINE u == SubSeq(w, m + 1, n)
<1>1. u \in Seq(Nat) /\ Len(u) = n - m /\ \A i \in 1 .. n - m : u[i] = w[m + i]
  <2>1. u \in Seq(Nat)
    OBVIOUS
  <2>2. Len(u) = n - m
    OBVIOUS
  <2>3. \A i \in 1 .. n - m : u[i] = w[m + i]
    <3> TAKE i \in 1 .. n - m
    <3>1. i \in 1 .. n - (m + 1) + 1
      OBVIOUS
    <3>2. u[i] = w[i + (m + 1) - 1]
      BY <3>1
    <3> QED BY <3>2
  <2> QED BY <2>1, <2>2, <2>3
<1> HIDE DEF u
<1>2. u = [i \in 1 .. n - m |-> u[i]]
  BY <1>1
<1>3. u = [i \in 1 .. n - m |-> w[m + i]]
  BY <1>1, <1>2
<1> QED BY <1>3 DEF u, WordsBehind

\* Words are those before the gap and those behind it.
LEMMA WordsSplit ==
    ASSUME NEW v
    PROVE  \A left \in Nat, n \in Nat :
              left <= n /\ (\A i \in 1 .. n : v[i] \in Nat) =>
                 /\ WordsOf(v, n) \in Seq(Nat) /\ Len(WordsOf(v, n)) = n
                 /\ SubSeq(WordsOf(v, n), 1, left) = WordsOf(v, left)
                 /\ SubSeq(WordsOf(v, n), left + 1, n) = WordsBehind(v, left, n - left)
<1> TAKE left \in Nat, n \in Nat
<1> HAVE left <= n /\ (\A i \in 1 .. n : v[i] \in Nat)
<1> DEFINE w == WordsOf(v, n)
<1>1. w \in Seq(Nat) /\ Len(w) = n /\ \A i \in 1 .. n : w[i] = v[i]
  BY DEF WordsOf
<1> HIDE DEF w
<1>2. SubSeq(w, 1, left) = WordsOf(v, left)
  <2> DEFINE z == 0
  <2>1. SubSeq(w, z + 1, left) = WordsBehind(w, z, left - z)
    <3>1. z \in Nat /\ z <= left /\ left <= Len(w)
      BY <1>1
    <3> HIDE DEF z
    <3> QED BY <1>1, <3>1, Cut
  <2>2. \A i \in 1 .. left : w[z + i] = v[i]
    BY <1>1
  <2>3. z + 1 = 1 /\ left - z = left
    OBVIOUS
  <2> HIDE DEF z
  <2>4. [i \in 1 .. left |-> w[z + i]] = [i \in 1 .. left |-> v[i]]
    BY <2>2
  <2> QED BY <2>1, <2>3, <2>4 DEF WordsOf, WordsBehind
<1>3. SubSeq(w, left + 1, n) = WordsBehind(v, left, n - left)
  <2>1. SubSeq(w, left + 1, n) = WordsBehind(w, left, n - left)
    BY <1>1, Cut
  <2>2. \A i \in 1 .. n - left : w[left + i] = v[left + i]
    BY <1>1
  <2> QED BY <2>1, <2>2 DEF WordsBehind
<1> QED BY <1>1, <1>2, <1>3 DEF w

\* The gap is filled.
GapFilled(v, left, right, quad) ==
    WordsOf(v, left) \o [i \in 1 .. 8 - (left + right) - Len(quad) |-> 0]
       \o WordsBehind(v, left, right) \o quad

\* memmove and memset put zeros between the words before and behind the gap.
LEMMA FilledGap ==
    ASSUME NEW left \in Nat, NEW right \in Nat, NEW v, NEW quad,
           left + right <= 8, \A i \in 1 .. 9 : v[i] \in Nat
    PROVE  Filled(WordsOf(v, left + right), left, quad) = GapFilled(v, left, right, quad)
<1> DEFINE n == left + right
           w == WordsOf(v, n)
<1>1. Len(w) = n /\ SubSeq(w, 1, left) = WordsOf(v, left) /\ SubSeq(w, left + 1, n) = WordsBehind(v, left, right)
  <2>1. n \in Nat /\ left <= n /\ n - left = right /\ \A i \in 1 .. n : v[i] \in Nat
    OBVIOUS
  <2> HIDE DEF n
  <2>2. Len(w) = n /\ SubSeq(w, 1, left) = WordsOf(v, left) /\ SubSeq(w, left + 1, n) = WordsBehind(v, left, n - left)
    BY <2>1, WordsSplit
  <2> QED BY <2>1, <2>2, Zenon
<1>2. left # -1
  OBVIOUS
<1> HIDE DEF w
<1>3. Filled(w, left, quad) = SubSeq(w, 1, left) \o [k \in 1 .. 8 - Len(w) - Len(quad) |-> 0]
                                 \o SubSeq(w, left + 1, Len(w)) \o quad
  BY <1>2, Zenon DEF Filled
<1> QED BY <1>1, <1>3, Zenon DEF w, GapFilled

\* Without a gap nothing is moved.
LEMMA FilledPlain ==
    ASSUME NEW words, NEW quad
    PROVE  Filled(words, -1, quad) = words \o quad
  BY DEF Filled

-----------------------------------------------------------------------------
(* The texts that are read.                                                *)

\* Tokens, and texts of them.
Token == Seq(Nat)
Tokens == Seq(Token)

\* Separators are tokens, and no tokens are a text.
LEMMA TokenSorts == Colon \in Token /\ Dot \in Token /\ <<>> \in Tokens
  BY ColonIsNotDot DEF Token, Tokens

\* One list behind another.
LEMMA Joined ==
    ASSUME NEW x, x \in Tokens, NEW y, y \in Tokens
    PROVE  /\ x \o y \in Tokens /\ Len(x \o y) = Len(x) + Len(y)
           /\ Len(x) \in Nat /\ Len(y) \in Nat
           /\ \A k \in 1 .. Len(x) : (x \o y)[k] = x[k]
           /\ \A k \in 1 .. Len(y) : (x \o y)[Len(x) + k] = y[k]
<1> DEFINE T == Token
<1>1. x \in Seq(T) /\ y \in Seq(T)
  BY DEF Tokens
<1> HIDE DEF T
<1>2. /\ x \o y \in Seq(T) /\ Len(x \o y) = Len(x) + Len(y)
      /\ Len(x) \in Nat /\ Len(y) \in Nat
      /\ \A k \in 1 .. Len(x) : (x \o y)[k] = x[k]
      /\ \A k \in 1 .. Len(y) : (x \o y)[Len(x) + k] = y[k]
  BY <1>1
<1> QED BY <1>2 DEF Tokens, T

\* A text of one token.
LEMMA OneToken ==
    ASSUME NEW a \in Token
    PROVE  <<a>> \in Tokens /\ Len(<<a>>) = 1 /\ <<a>>[1] = a
  BY DEF Tokens

\* A text of two tokens.
LEMMA TwoTokens ==
    ASSUME NEW a \in Token, NEW b \in Token
    PROVE  <<a, b>> \in Tokens /\ Len(<<a, b>>) = 2 /\ <<a, b>>[1] = a /\ <<a, b>>[2] = b
  BY DEF Tokens

\* A list with two tokens behind it.
LEMMA TwoMore ==
    ASSUME NEW x, x \in Tokens, NEW a \in Token, NEW b \in Token
    PROVE  /\ x \o <<a, b>> \in Tokens /\ Len(x \o <<a, b>>) = Len(x) + 2 /\ Len(x) \in Nat
           /\ \A k \in 1 .. Len(x) : (x \o <<a, b>>)[k] = x[k]
           /\ (x \o <<a, b>>)[Len(x) + 1] = a /\ (x \o <<a, b>>)[Len(x) + 2] = b
<1> DEFINE y == <<a, b>>
<1>1. y \in Tokens /\ Len(y) = 2 /\ y[1] = a /\ y[2] = b
  BY TwoTokens
<1> HIDE DEF y
<1>2. /\ x \o y \in Tokens /\ Len(x \o y) = Len(x) + Len(y)
      /\ Len(x) \in Nat /\ Len(y) \in Nat
      /\ \A k \in 1 .. Len(x) : (x \o y)[k] = x[k]
      /\ \A k \in 1 .. Len(y) : (x \o y)[Len(x) + k] = y[k]
  <2>1. y \in Tokens
    BY <1>1
  <2> QED BY <2>1, Joined
<1>3. 1 \in 1 .. Len(y) /\ 2 \in 1 .. Len(y)
  BY <1>1
<1>4. (x \o y)[Len(x) + 1] = a /\ (x \o y)[Len(x) + 2] = b
  BY <1>1, <1>2, <1>3
<1> QED BY <1>1, <1>2, <1>4 DEF y

\* Runs with colons between them.
IsSeparated(g, runs, n) ==
    /\ g \in Tokens /\ Len(g) = 2 * n - 1
    /\ \A k \in 1 .. n : g[2 * k - 1] = runs[k]
    /\ \A k \in 1 .. n - 1 : g[2 * k] = Colon

\* One run needs no colon.
LEMMA SeparatedOne ==
    ASSUME NEW g, NEW runs, NEW a \in Token, g = <<a>>, runs[1] = a
    PROVE  IsSeparated(g, runs, 1)
<1>1. g \in Tokens /\ Len(g) = 1 /\ g[1] = a
  BY OneToken
<1>2. 2 * 1 - 1 = 1 /\ (\A k \in 1 .. 1 : k = 1) /\ (\A k \in 1 .. 1 - 1 : FALSE)
  OBVIOUS
<1> QED BY <1>1, <1>2 DEF IsSeparated

\* A further run comes behind a colon.
LEMMA SeparatedStep ==
    ASSUME NEW g, NEW runs, NEW n \in Nat \ {0}, IsSeparated(g, runs, n), runs[n + 1] \in Token
    PROVE  IsSeparated(g \o <<Colon, runs[n + 1]>>, runs, n + 1)
<1> DEFINE b == runs[n + 1]
           h == g \o <<Colon, b>>
<1>1. /\ g \in Tokens /\ Len(g) = 2 * n - 1
      /\ \A k \in 1 .. n : g[2 * k - 1] = runs[k]
      /\ \A k \in 1 .. n - 1 : g[2 * k] = Colon
  BY DEF IsSeparated
<1>2. /\ h \in Tokens /\ Len(h) = Len(g) + 2
      /\ \A k \in 1 .. Len(g) : h[k] = g[k]
      /\ h[Len(g) + 1] = Colon /\ h[Len(g) + 2] = b
  <2>1. g \in Tokens /\ b \in Token /\ Colon \in Token
    BY <1>1, TokenSorts
  <2> HIDE DEF b
  <2> QED BY <2>1, TwoMore
<1> HIDE DEF h
<1>3. h \in Tokens /\ Len(h) = 2 * (n + 1) - 1
  BY <1>1, <1>2
<1>4. \A k \in 1 .. n + 1 : h[2 * k - 1] = runs[k]
  <2> TAKE k \in 1 .. n + 1
  <2>1. CASE k = n + 1
    <3>1. 2 * k - 1 = Len(g) + 2
      BY <1>1, <2>1
    <3> QED BY <1>2, <2>1, <3>1
  <2>2. CASE k # n + 1
    <3>1. k \in 1 .. n /\ 2 * k - 1 \in 1 .. Len(g)
      BY <1>1, <2>2
    <3> QED BY <1>1, <1>2, <3>1
  <2> QED BY <2>1, <2>2
<1>5. \A k \in 1 .. (n + 1) - 1 : h[2 * k] = Colon
  <2> TAKE k \in 1 .. (n + 1) - 1
  <2>1. CASE k = n
    <3>1. 2 * k = Len(g) + 1
      BY <1>1, <2>1
    <3> QED BY <1>2, <3>1
  <2>2. CASE k # n
    <3>1. k \in 1 .. n - 1 /\ 2 * k \in 1 .. Len(g)
      BY <1>1, <2>2
    <3> QED BY <1>1, <1>2, <3>1
  <2> QED BY <2>1, <2>2
<1> QED BY <1>3, <1>4, <1>5 DEF IsSeparated, h

\* Separated puts colons between the runs.
LEMMA SeparatedRuns ==
    ASSUME NEW runs, NEW n, n \in Nat, DOMAIN runs = 1 .. n, \A i \in 1 .. n : runs[i] \in Token
    PROVE  /\ n = 0 => Separated(runs) = <<>>
           /\ n # 0 => IsSeparated(Separated(runs), runs, n)
<1> DEFINE lists == [i \in DOMAIN runs |-> IF i = 1 THEN <<runs[i]>> ELSE <<Colon, runs[i]>>]
<1>0. Separated(runs) = FlattenSeq(lists)
  BY DEF Separated
<1>1. lists = [i \in 1 .. n |-> IF i = 1 THEN <<runs[i]>> ELSE <<Colon, runs[i]>>]
  OBVIOUS
<1> HIDE DEF lists
<1>2. Len(lists) = n
  BY <1>1
<1>3. n = 0 => Separated(runs) = <<>>
  <2> HAVE n = 0
  <2>1. FlattenSeq(lists) = lists
    BY <1>2 DEF FlattenSeq
  <2>2. lists = <<>>
    BY <1>1
  <2> QED BY <1>0, <2>1, <2>2
<1>4. ASSUME n # 0 PROVE IsSeparated(Separated(runs), runs, n)
  <2>1. PICK g : /\ FlattenSeq(lists) = g[n] /\ g[1] = lists[1]
                 /\ \A i \in 2 .. n : g[i] = g[i - 1] \o lists[i]
    <3>1. HasLen(lists, n) /\ n \in Nat \ {0}
      BY <1>2, <1>4 DEF HasLen
    <3>2. \E g : FlatBy(lists, n, g)
      BY <3>1, FlatSteps
    <3> QED BY <3>2 DEF FlatBy
  <2>2. lists[1] = <<runs[1]>> /\ \A i \in 2 .. n : lists[i] = <<Colon, runs[i]>>
    BY <1>1, <1>4
  <2> DEFINE T == {i \in Nat : IsSeparated(g[i], runs, i)}
  <2>3. 1 \in T
    <3>1. g[1] = <<runs[1]>> /\ runs[1] \in Token
      BY <1>4, <2>1, <2>2
    <3> QED BY <3>1, SeparatedOne
  <2>4. \A i \in Nat : 1 <= i /\ i < n /\ i \in T => i + 1 \in T
    <3> TAKE i \in Nat
    <3> HAVE 1 <= i /\ i < n /\ i \in T
    <3>1. i + 1 \in 2 .. n /\ (i + 1) - 1 = i /\ i \in Nat \ {0} /\ i + 1 \in 1 .. n
      OBVIOUS
    <3>2. g[i + 1] = g[i] \o <<Colon, runs[i + 1]>>
      BY <2>1, <2>2, <3>1
    <3>3. IsSeparated(g[i], runs, i) /\ runs[i + 1] \in Token
      BY <3>1
    <3>4. IsSeparated(g[i + 1], runs, i + 1)
      BY <3>1, <3>2, <3>3, SeparatedStep
    <3> QED BY <3>4
  <2>5. n \in T
    <3> HIDE DEF T
    <3>1. \A i \in Nat : 1 <= i /\ i <= n => i \in T
      BY <2>3, <2>4, Reached
    <3> QED BY <1>4, <3>1
  <2> QED BY <1>0, <2>1, <2>5
<1> QED BY <1>3, <1>4

\* Words, and more of them than are ever read.
Legal(v) == \A i \in 1 .. 9 : v[i] \in Nat /\ v[i] < 16 ^ 4

\* A word is printed as a token of up to four digits, and read as itself.
LEMMA HexToken ==
    ASSUME NEW n, n \in Nat, n < 16 ^ 4
    PROVE  /\ Printed(n, 16) \in Token /\ Printed(n, 16) # Colon /\ Printed(n, 16) # Dot
           /\ Len(Printed(n, 16)) \in Nat /\ Len(Printed(n, 16)) <= 4 /\ Value(Printed(n, 16), 16) = n
<1> DEFINE p == Printed(n, 16)
<1>1. /\ p \in Seq(Nat) /\ Len(p) \in 1 .. 4 /\ \A j \in 1 .. Len(p) : p[j] < 16
      /\ Value(p, 16) = n
  BY PrintedHex
<1> HIDE DEF p
<1>2. Len(p) \in Nat /\ Len(p) <= 4
  BY <1>1
<1>3. p # Colon /\ p # Dot
  BY <1>1, <1>2, Separators
<1> QED BY <1>1, <1>2, <1>3 DEF p, Token

\* A printed word is read as that word.
LEMMA HexRunPrinted ==
    ASSUME NEW s, NEW i, NEW n, n \in Nat, n < 16 ^ 4, i \in DOMAIN s, s[i] = Printed(n, 16)
    PROVE  HexRun(s, i, n)
  BY HexToken, Zenon DEF HexRun, IsRun

\* A row of words as they are printed.
PrintedRow(s, eow, p, n, v, m) ==
    \A j \in 1 .. n :
       /\ s[p + 2 * j - 2] = Printed(v[m + j], 16) /\ p + 2 * j - 2 < eow
       /\ p + 2 * j - 1 = eow \/ s[p + 2 * j - 1] = Colon

\* A row of printed words is read as these words.
LEMMA RowPrinted ==
    ASSUME NEW s, NEW eow \in Nat, NEW p \in Nat \ {0}, NEW n \in Nat, NEW v, NEW m \in Nat,
           Legal(v), m + n <= 9, \A i \in 1 .. eow - 1 : i \in DOMAIN s, PrintedRow(s, eow, p, n, v, m)
    PROVE  Row(s, eow, p, n, v, m)
<1> SUFFICES ASSUME NEW j \in 1 .. n
             PROVE  /\ HexRun(s, p + 2 * j - 2, v[m + j]) /\ p + 2 * j - 2 < eow
                    /\ p + 2 * j - 1 = eow \/ Is(s, p + 2 * j - 1, Colon)
  BY DEF Row
<1> DEFINE h == p + 2 * j - 2
           x == v[m + j]
<1>1. h \in Nat /\ h >= 1 /\ p + 2 * j - 1 = h + 1 /\ m + j \in 1 .. 9
  OBVIOUS
<1>2. s[h] = Printed(x, 16) /\ h < eow /\ (h + 1 = eow \/ s[h + 1] = Colon)
  BY <1>1 DEF PrintedRow
<1>3. x \in Nat /\ x < 16 ^ 4
  BY <1>1, Zenon DEF Legal
<1> HIDE DEF h, x
<1>4. h \in DOMAIN s
  BY <1>1, <1>2
<1>5. HexRun(s, h, x)
  BY <1>2, <1>3, <1>4, HexRunPrinted, Zenon
<1>6. h + 1 = eow \/ Is(s, h + 1, Colon)
  <2>1. h + 1 # eow => h + 1 \in DOMAIN s
    BY <1>1, <1>2
  <2> QED BY <1>2, <2>1 DEF Is
<1> QED BY <1>1, <1>2, <1>5, <1>6 DEF h, x

\* The tokens of s before place eow.
Shape(s, eow, left, gap, right, v) ==
    /\ eow \in Nat \ {0} /\ left \in Nat /\ right \in Nat /\ gap \in BOOLEAN /\ Legal(v)
    /\ left + right <= 8 /\ \A i \in 1 .. eow - 1 : i \in DOMAIN s
    /\ PrintedRow(s, eow, 1, left, v, 0)
    /\ gap => /\ left <= 7 /\ 2 * left + 1 < eow /\ s[2 * left + 1] = Colon
              /\ left = 0 => 2 < eow /\ s[2] = Colon
              /\ PrintedRow(s, eow, Behind(left), right, v, left)
              /\ Behind(left) + 2 * right >= eow
    /\ ~gap => right = 0 /\ 2 * left + 1 >= eow

\* The types that a shape has.
LEMMA ShapeTypes ==
    ASSUME NEW s, NEW eow, NEW left, NEW gap, NEW right, NEW v, Shape(s, eow, left, gap, right, v)
    PROVE  /\ eow \in Nat /\ eow >= 1 /\ left \in Nat /\ right \in Nat /\ gap \in BOOLEAN /\ Legal(v)
           /\ left + right <= 8 /\ (\A i \in 1 .. eow - 1 : i \in DOMAIN s)
           /\ Behind(left) \in Nat \ {0} /\ Behind(left) >= 2 * left + 2
           /\ \A i \in 1 .. 9 : v[i] \in Nat
  BY DEF Shape, Legal, Behind

\* A shape is laid out as the loop reads it.
LEMMA ShapeLaid ==
    ASSUME NEW s, NEW eow, NEW left, NEW gap, NEW right, NEW v, Shape(s, eow, left, gap, right, v),
           NEW len \in Nat, eow <= len + 1
    PROVE  Laid(s, eow, len, left, gap, right, v)
<1>1. /\ eow \in Nat /\ eow >= 1 /\ left \in Nat /\ right \in Nat /\ gap \in BOOLEAN /\ Legal(v)
      /\ left + right <= 8 /\ (\A i \in 1 .. eow - 1 : i \in DOMAIN s)
      /\ Behind(left) \in Nat \ {0} /\ Behind(left) >= 2 * left + 2
      /\ \A i \in 1 .. 9 : v[i] \in Nat
  BY ShapeTypes
<1>2. PrintedRow(s, eow, 1, left, v, 0)
  BY DEF Shape
<1>3. Row(s, eow, 1, left, v, 0)
  <2> DEFINE one == 1
             zero == 0
  <2>1. one \in Nat \ {0} /\ zero \in Nat /\ zero + left <= 9 /\ PrintedRow(s, eow, one, left, v, zero)
    BY <1>1, <1>2
  <2> HIDE DEF one, zero
  <2>2. Row(s, eow, one, left, v, zero)
    BY <1>1, <2>1, RowPrinted
  <2> QED BY <2>2 DEF one, zero
<1>4. CASE ~gap
  <2>1. right = 0 /\ 2 * left + 1 >= eow
    BY <1>4 DEF Shape
  <2>2. left <= len
    <3>1. CASE left = 0
      BY <3>1
    <3>2. CASE left # 0
      <4>1. 1 + 2 * left - 2 < eow
        BY <1>1, <1>2, <3>2 DEF PrintedRow
      <4> QED BY <1>1, <3>2, <4>1
    <3> QED BY <3>1, <3>2
  <2> QED BY <1>1, <1>3, <1>4, <2>1, <2>2 DEF Laid
<1>5. CASE gap
  <2>1. /\ left <= 7 /\ 2 * left + 1 < eow /\ s[2 * left + 1] = Colon
        /\ left = 0 => 2 < eow /\ s[2] = Colon
        /\ PrintedRow(s, eow, Behind(left), right, v, left)
        /\ Behind(left) + 2 * right >= eow
    BY <1>5 DEF Shape
  <2>2. Row(s, eow, Behind(left), right, v, left)
    BY <1>1, <2>1, RowPrinted
  <2>3. Is(s, 2 * left + 1, Colon) /\ (left = 0 => Is(s, 2, Colon))
    <3>1. 2 * left + 1 \in 1 .. eow - 1 /\ (left = 0 => 2 \in 1 .. eow - 1)
      BY <1>1, <2>1
    <3> QED BY <1>1, <2>1, <3>1 DEF Is
  <2>4. left + right + 1 <= len
    <3>1. CASE right = 0
      BY <1>1, <2>1, <3>1
    <3>2. CASE right # 0
      <4>1. Behind(left) + 2 * right - 2 < eow
        BY <1>1, <2>1, <3>2 DEF PrintedRow
      <4> QED BY <1>1, <3>2, <4>1
    <3> QED BY <3>1, <3>2
  <2> QED BY <1>1, <1>3, <1>5, <2>1, <2>2, <2>3, <2>4 DEF Laid
<1> QED BY <1>1, <1>4, <1>5

\* A number is even or odd.
LEMMA Parity ==
    ASSUME NEW i \in Nat
    PROVE  \E k \in Nat : i = 2 * k \/ i = 2 * k + 1
<1>1. i \div 2 \in Nat /\ (i = 2 * (i \div 2) \/ i = 2 * (i \div 2) + 1)
  BY SMT
<1> QED BY <1>1

\* The tokens of a row.
LEMMA RowTokens ==
    ASSUME NEW s, NEW eow \in Nat, NEW p \in Nat, NEW n \in Nat, NEW v, NEW m \in Nat,
           Legal(v), m + n <= 9, PrintedRow(s, eow, p, n, v, m),
           NEW i \in Nat, p <= i, i < p + 2 * n, i < eow
    PROVE  s[i] # Dot
<1>1. PICK k \in Nat : i - p = 2 * k \/ i - p = 2 * k + 1
  <2>1. i - p \in Nat
    OBVIOUS
  <2> QED BY <2>1, Parity
<1> DEFINE j == k + 1
<1>2. j \in 1 .. n /\ m + j \in 1 .. 9 /\ (i = p + 2 * j - 2 \/ i = p + 2 * j - 1)
  BY <1>1
<1> HIDE DEF j
<1>3. s[p + 2 * j - 2] = Printed(v[m + j], 16) /\ (p + 2 * j - 1 = eow \/ s[p + 2 * j - 1] = Colon)
  BY <1>2 DEF PrintedRow
<1>4. CASE i = p + 2 * j - 2
  <2>1. v[m + j] \in Nat /\ v[m + j] < 16 ^ 4
    BY <1>2, Zenon DEF Legal
  <2>2. Printed(v[m + j], 16) # Dot
    BY <2>1, HexToken, Zenon
  <2> QED BY <1>3, <1>4, <2>2
<1>5. CASE i = p + 2 * j - 1
  <2>1. s[i] = Colon
    BY <1>3, <1>5
  <2> QED BY <2>1, ColonIsNotDot
<1> QED BY <1>2, <1>4, <1>5

\* Before the end or a dotted quad there is no dot.
LEMMA ShapePlain ==
    ASSUME NEW s, NEW eow, NEW left, NEW gap, NEW right, NEW v, Shape(s, eow, left, gap, right, v)
    PROVE  \A i \in 1 .. eow - 1 : s[i] # Dot
<1>1. /\ eow \in Nat /\ eow >= 1 /\ left \in Nat /\ right \in Nat /\ gap \in BOOLEAN /\ Legal(v)
      /\ left + right <= 8
      /\ Behind(left) \in Nat \ {0} /\ Behind(left) >= 2 * left + 2
  BY ShapeTypes
<1> TAKE i \in 1 .. eow - 1
<1>2. CASE i <= 2 * left
  <2> DEFINE one == 1
             zero == 0
  <2>1. one \in Nat /\ zero \in Nat /\ zero + left <= 9 /\ one <= i /\ i < one + 2 * left /\ i < eow /\ i \in Nat
    BY <1>1, <1>2
  <2>2. PrintedRow(s, eow, one, left, v, zero)
    BY DEF Shape
  <2> HIDE DEF one, zero
  <2> QED BY <1>1, <2>1, <2>2, RowTokens
<1>3. CASE ~(i <= 2 * left)
  <2>1. gap
    BY <1>1, <1>3 DEF Shape
  <2>2. /\ s[2 * left + 1] = Colon /\ (left = 0 => s[2] = Colon)
        /\ PrintedRow(s, eow, Behind(left), right, v, left)
        /\ Behind(left) + 2 * right >= eow
    BY <2>1 DEF Shape
  <2>3. CASE i = 2 * left + 1
    BY <2>2, <2>3, ColonIsNotDot
  <2>4. CASE left = 0 /\ i = 2
    BY <2>2, <2>4, ColonIsNotDot
  <2>5. CASE i >= Behind(left)
    <3> DEFINE p == Behind(left)
    <3>1. p \in Nat /\ p <= i /\ i < p + 2 * right /\ i < eow /\ i \in Nat /\ left + right <= 9
      BY <1>1, <2>2, <2>5
    <3>2. PrintedRow(s, eow, p, right, v, left)
      BY <2>2
    <3> HIDE DEF p
    <3> QED BY <1>1, <3>1, <3>2, RowTokens
  <2>6. i = 2 * left + 1 \/ (left = 0 /\ i = 2) \/ i >= Behind(left)
    BY <1>1, <1>3 DEF Behind
  <2> QED BY <2>3, <2>4, <2>5, <2>6
<1> QED BY <1>2, <1>3

\* What is read from words on both sides of a gap, or without one.
PlainReading(left, gap, right, v) ==
    IF (left + right = 8) # ~gap THEN NULL
    ELSE Filled(WordsOf(v, left + right), GapAt(gap, left), <<>>)

\* The same with a dotted quad behind them.
QuadReading(left, gap, right, v, o) ==
    IF left + right > 6 \/ (left + right = 6) # ~gap THEN NULL
    ELSE Filled(WordsOf(v, left + right), GapAt(gap, left), QuadWords(o))

\* The outcome for a text that is laid out without a quad.
LEMMA PlainOutcome ==
    ASSUME NEW s, NEW eow, NEW len, NEW left, NEW gap, NEW right, NEW v,
           HasLen(s, len), Laid(s, eow, len, left, gap, right, v)
    PROVE  Outcome(ReadWords(s, eow), <<>>) = PlainReading(left, gap, right, v)
<1> DEFINE q == 0
           quad == <<>>
<1>1. HasLen(quad, q) /\ q \in Nat
  BY DEF HasLen
<1>2. left \in Nat /\ right \in Nat /\ left + right <= 8
  BY DEF Laid
<1> HIDE DEF q, quad
<1>3. Outcome(ReadWords(s, eow), quad) =
              IF left + right + q > 8 \/ (left + right + q = 8) # ~gap THEN NULL
              ELSE Filled(WordsOf(v, left + right), GapAt(gap, left), quad)
  BY <1>1, OutcomeOf
<1>4. ~(left + right + q > 8) /\ left + right + q = left + right
  BY <1>2 DEF q
<1> QED BY <1>3, <1>4, Zenon DEF quad, PlainReading

\* What tor_inet_pton makes of a text without a dotted quad.
LEMMA PlainRead ==
    ASSUME NEW s, NEW len, len \in Nat, HasLen(s, len), DOMAIN s = 1 .. len,
           NEW left, NEW gap, NEW right, NEW v, Shape(s, len + 1, left, gap, right, v),
           Is(s, len, Colon) => Is(s, len - 1, Colon)
    PROVE  Pton(s) = PlainReading(left, gap, right, v)
<1>1. left \in Nat /\ right \in Nat /\ left + right <= 8
  BY ShapeTypes
<1>2. \A i \in DOMAIN s : s[i] # Dot
  <2>1. (len + 1) - 1 = len
    OBVIOUS
  <2>2. \A i \in 1 .. (len + 1) - 1 : s[i] # Dot
    BY ShapePlain, Zenon
  <2> QED BY <2>1, <2>2
<1>3. Pton(s) = Outcome(ReadWords(s, len + 1), <<>>)
  BY <1>2, PtonPlain, Zenon DEF HasLen
<1> DEFINE eow == len + 1
<1>4. Laid(s, eow, len, left, gap, right, v)
  <2>1. eow <= len + 1 /\ Shape(s, eow, left, gap, right, v)
    OBVIOUS
  <2> HIDE DEF eow
  <2> QED BY <2>1, ShapeLaid
<1>5. Outcome(ReadWords(s, eow), <<>>) = PlainReading(left, gap, right, v)
  <2> HIDE DEF eow
  <2> QED BY <1>4, PlainOutcome
<1> QED BY <1>3, <1>5, Zenon

\* What tor_inet_pton makes of a text with a dotted quad.
LEMMA QuadRead ==
    ASSUME NEW s, NEW eow, NEW o, NEW left, NEW gap, NEW right, NEW v,
           Shape(s, eow, left, gap, right, v), Is(s, eow - 1, Colon),
           IsOctets(o), HasLen(s, eow + 6), DOMAIN s = 1 .. eow + 6,
           \A j \in 1 .. 7 : s[eow + j - 1] = Quad(o)[j]
    PROVE  Pton(s) = QuadReading(left, gap, right, v, o)
<1>1. left \in Nat /\ right \in Nat /\ left + right <= 8 /\ eow \in Nat /\ eow >= 1
  BY ShapeTypes
<1>2. EndsWithQuad(s, eow, o)
  <2>1. \A i \in 1 .. eow - 1 : s[i] # Dot
    BY ShapePlain
  <2>2. eow \in Nat \ {0}
    BY <1>1
  <2> QED BY <2>1, <2>2, Zenon DEF EndsWithQuad, HasLen
<1>3. Pton(s) = Outcome(ReadWords(s, eow), QuadWords(o))
  BY <1>2, PtonWithQuad, Zenon
<1> DEFINE len == eow + 6
           q == 2
           quad == QuadWords(o)
<1>4. HasLen(s, len) /\ len \in Nat /\ eow <= len + 1
  BY <1>1
<1>5. HasLen(quad, q) /\ q \in Nat
  BY DEF HasLen, QuadWords
<1> HIDE DEF len, q, quad
<1>6. Laid(s, eow, len, left, gap, right, v)
  BY <1>4, ShapeLaid
<1>7. Outcome(ReadWords(s, eow), quad) =
              IF left + right + q > 8 \/ (left + right + q = 8) # ~gap THEN NULL
              ELSE Filled(WordsOf(v, left + right), GapAt(gap, left), quad)
  BY <1>4, <1>5, <1>6, OutcomeOf
<1>8. (left + right + q > 8 <=> left + right > 6) /\ (left + right + q = 8 <=> left + right = 6)
  BY <1>1 DEF q
<1> QED BY <1>3, <1>7, <1>8 DEF quad, QuadReading

\* No token is a dot.
NoDots(x) == \A i \in 1 .. Len(x) : x[i] # Dot

\* Texts without dots have none together.
LEMMA NoDotsJoined ==
    ASSUME NEW x, x \in Tokens, NEW y, y \in Tokens, NoDots(x), NoDots(y)
    PROVE  NoDots(x \o y)
<1>1. /\ x \o y \in Tokens /\ Len(x \o y) = Len(x) + Len(y)
      /\ Len(x) \in Nat /\ Len(y) \in Nat
      /\ \A k \in 1 .. Len(x) : (x \o y)[k] = x[k]
      /\ \A k \in 1 .. Len(y) : (x \o y)[Len(x) + k] = y[k]
  BY Joined
<1> DEFINE z == x \o y
<1> HIDE DEF z
<1>2. \A i \in 1 .. Len(x) + Len(y) : z[i] # Dot
  <2> TAKE i \in 1 .. Len(x) + Len(y)
  <2>1. CASE i <= Len(x)
    <3>1. i \in 1 .. Len(x)
      BY <1>1, <2>1
    <3> QED BY <1>1, <3>1 DEF NoDots, z
  <2>2. CASE ~(i <= Len(x))
    <3>1. i - Len(x) \in 1 .. Len(y) /\ Len(x) + (i - Len(x)) = i
      BY <1>1, <2>2
    <3> QED BY <1>1, <3>1 DEF NoDots, z
  <2> QED BY <2>1, <2>2
<1> QED BY <1>1, <1>2 DEF NoDots, z

\* The loop stops with a mistake.
LEMMA Refused ==
    ASSUME NEW s, NEW eow, NEW len, NEW r, ReadTurns(s, eow, len, r), NEW quad,
           NEW k \in Nat, k < len, NEW p \in Nat, NEW v, NEW m \in Nat, NEW q \in Int,
           r[k] = StateAt(p, v, m, q), p < eow, \A i \in 1 .. m + 1 : v[i] \in Nat,
           \/ m > 7
           \/ Is(s, p, Colon) /\ q # -1
           \/ Is(s, p, Colon) /\ m = 0 /\ ~Is(s, p + 1, Colon)
           \/ IsRun(s, p) /\ ~(Len(s[p]) <= 4)
    PROVE  Outcome(ReadWords(s, eow), quad) = NULL
<1>0. eow \in Nat /\ len \in Nat
  BY DEF ReadTurns
<1>1. r[k + 1] = Turn(s, eow, StateAt(p, v, m, q))
  BY NextTurn
<1>2. Turn(s, eow, StateAt(p, v, m, q)).ok = FALSE
  BY TurnFails
<1>3. k + 1 \in 0 .. len /\ ~r[k + 1].ok
  BY <1>0, <1>1, <1>2
<1>4. ReadWords(s, eow) = r[k + 1]
  <2> DEFINE l == k + 1
  <2> HIDE DEF l
  <2>1. l \in 0 .. len /\ ~(r[l].ok /\ r[l].src < eow)
    BY <1>3 DEF l
  <2>2. ReadWords(s, eow) = r[l]
    BY <2>1, ReadStops
  <2> QED BY <2>2 DEF l
<1> QED BY <1>3, <1>4 DEF Outcome

\* A text without a dotted quad that is refused.
LEMMA PlainRefused ==
    ASSUME NEW s, \A i \in DOMAIN s : s[i] # Dot, Outcome(ReadWords(s, Len(s) + 1), <<>>) = NULL
    PROVE  Pton(s) = NULL
<1>1. {i \in DOMAIN s : s[i] = Dot} = {}
  OBVIOUS
<1> QED BY <1>1 DEF Pton, Outcome

-----------------------------------------------------------------------------
(* The texts that are written.                                             *)

\* The words of a form are words, of two digits at least.
LEMMA WordLegal == \A i \in 1 .. 9 : Word(i) \in Nat /\ Word(i) < 16 ^ 4 /\ Word(i) >= 16
  BY Powers, SMT DEF Word

\* Printed words, and how many tokens they are with colons between them.
RowOf(first, n) == [i \in 1 .. n |-> Printed(Word(first + i), 16)]
Spread(n) == IF n = 0 THEN 0 ELSE 2 * n - 1

\* x is n tokens, and they are in s behind place off.
Piece(s, off, x, n) ==
    /\ off \in Nat /\ n \in Nat /\ x \in Tokens /\ Len(x) = n
    /\ \A i \in 1 .. n : s[off + i] = x[i]

\* x is a text of n tokens.
IsText(x, n) == x \in Tokens /\ n \in Nat /\ Len(x) = n

\* The length of two texts, one behind the other.
LEMMA TextJoined ==
    ASSUME NEW x, NEW m, IsText(x, m), NEW y, NEW n, IsText(y, n)
    PROVE  IsText(x \o y, m + n)
  BY Joined DEF IsText

\* A text is the only piece of itself.
LEMMA PieceWhole ==
    ASSUME NEW s, NEW n, IsText(s, n)
    PROVE  Piece(s, 0, s, n)
<1>1. \A i \in 1 .. n : s[0 + i] = s[i]
  OBVIOUS
<1> QED BY <1>1 DEF Piece, IsText

\* A piece made of two is each of them at its place.
LEMMA PieceSplit ==
    ASSUME NEW s, NEW off, NEW x, NEW m, IsText(x, m), NEW y, NEW n, IsText(y, n),
           Piece(s, off, x \o y, m + n)
    PROVE  Piece(s, off, x, m) /\ Piece(s, off + m, y, n)
<1> DEFINE z == x \o y
<1>1. /\ x \in Tokens /\ y \in Tokens /\ Len(x) = m /\ Len(y) = n /\ m \in Nat /\ n \in Nat
      /\ \A k \in 1 .. m : z[k] = x[k]
      /\ \A k \in 1 .. n : z[m + k] = y[k]
  <2>1. x \in Tokens /\ y \in Tokens /\ Len(x) = m /\ Len(y) = n /\ m \in Nat /\ n \in Nat
    BY DEF IsText
  <2>2. /\ \A k \in 1 .. Len(x) : z[k] = x[k]
        /\ \A k \in 1 .. Len(y) : z[Len(x) + k] = y[k]
    <3>1. x \in Tokens /\ y \in Tokens
      BY <2>1
    <3> HIDE DEF z
    <3>2. z = x \o y
      BY DEF z
    <3>3. /\ \A k \in 1 .. Len(x) : (x \o y)[k] = x[k]
          /\ \A k \in 1 .. Len(y) : (x \o y)[Len(x) + k] = y[k]
      BY ONLY <3>1, Joined
    <3> QED BY <3>2, <3>3, Zenon
  <2> HIDE DEF z
  <2>3. (\A k \in 1 .. m : z[k] = x[k]) /\ (\A k \in 1 .. n : z[m + k] = y[k])
    BY <2>1, <2>2, Zenon
  <2> QED BY <2>1, <2>3
<1>2. off \in Nat /\ \A i \in 1 .. m + n : s[off + i] = z[i]
  BY DEF Piece
<1> HIDE DEF z
<1>3. \A i \in 1 .. m : s[off + i] = x[i]
  <2> TAKE i \in 1 .. m
  <2>1. i \in 1 .. m + n
    BY <1>1
  <2> QED BY <1>1, <1>2, <2>1
<1>4. \A i \in 1 .. n : s[off + m + i] = y[i]
  <2> TAKE i \in 1 .. n
  <2>1. m + i \in 1 .. m + n /\ off + (m + i) = off + m + i
    BY <1>1, <1>2
  <2> QED BY <1>1, <1>2, <2>1
<1>5. off + m \in Nat
  BY <1>1, <1>2
<1> QED BY <1>1, <1>2, <1>3, <1>4, <1>5, Zenon DEF Piece

\* The tokens of separated runs, and how many they are.
LEMMA SeparatedAt ==
    ASSUME NEW runs, NEW n, n \in Nat, DOMAIN runs = 1 .. n, \A i \in 1 .. n : runs[i] \in Token
    PROVE  /\ IsText(Separated(runs), Spread(n))
           /\ \A k \in 1 .. n : Separated(runs)[2 * k - 1] = runs[k]
           /\ \A k \in 1 .. n - 1 : Separated(runs)[2 * k] = Colon
<1> DEFINE g == Separated(runs)
<1>1. (n = 0 => g = <<>>) /\ (n # 0 => IsSeparated(g, runs, n))
  BY SeparatedRuns
<1> HIDE DEF g
<1>2. CASE n = 0
  <2>1. g = <<>> /\ <<>> \in Tokens /\ Len(<<>>) = 0
    BY <1>1, <1>2, TokenSorts
  <2> QED BY <1>2, <2>1 DEF IsText, Spread, g
<1>3. CASE n # 0
  BY <1>1, <1>3 DEF IsSeparated, IsText, Spread, g
<1> QED BY <1>2, <1>3

\* The words of a row are printed as tokens.
LEMMA RowOfTokens ==
    ASSUME NEW first \in Nat, NEW n \in Nat, first + n <= 9
    PROVE  /\ DOMAIN RowOf(first, n) = 1 .. n
           /\ \A i \in 1 .. n : /\ RowOf(first, n)[i] = Printed(Word(first + i), 16)
                                /\ RowOf(first, n)[i] \in Token
<1>1. \A i \in 1 .. n : first + i \in 1 .. 9
  OBVIOUS
<1>2. \A i \in 1 .. n : Printed(Word(first + i), 16) \in Token
  <2> TAKE i \in 1 .. n
  <2> DEFINE x == Word(first + i)
  <2>1. x \in Nat /\ x < 16 ^ 4
    BY <1>1, WordLegal
  <2> HIDE DEF x
  <2> QED BY <2>1, HexToken DEF x
<1> QED BY <1>2 DEF RowOf

\* The parts of the text of a form.
SomeColons(n) ==
    IF n = 0 THEN <<>>
    ELSE IF n = 1 THEN <<Colon>>
    ELSE IF n = 2 THEN <<Colon, Colon>> ELSE <<Colon, Colon, Colon>>

\* The row of a form whose first word is too long.
LongRow(n) == [RowOf(0, n) EXCEPT ![1] = <<0, 0, 0, 0>> \o @]

FrontOf(form) ==
    IF form.mistake = "long" THEN Separated(LongRow(form.left)) ELSE Separated(RowOf(0, form.left))
BehindOf(form) == Separated(RowOf(form.left, form.right))
TailOf(form) == IF form.quad THEN Quad(<<1, 2, 3, 4>>) ELSE <<>>

\* How many colons, or tokens, each part has.
Leads(form) == IF form.mistake = "leading" THEN 1 ELSE 0
Middles(form) == IF form.gap THEN IF form.mistake = "colons" THEN 3 ELSE 2
                 ELSE IF form.left # 0 /\ form.quad THEN 1 ELSE 0
Joints(form) == IF form.right # 0 /\ form.quad THEN 1 ELSE 0
Tails(form) == IF form.quad THEN 7 ELSE 0
Trails(form) == IF form.mistake = "trailing" THEN 1 ELSE 0

\* Up to three colons are a text of colons.
LEMMA ColonsAt ==
    ASSUME NEW n, n \in 0 .. 3
    PROVE  IsText(SomeColons(n), n) /\ \A i \in 1 .. n : SomeColons(n)[i] = Colon
<1> DEFINE c == Colon
<1>1. c \in Token
  BY TokenSorts
<1> HIDE DEF c
<1>2. /\ <<>> \in Seq(Token) /\ Len(<<>>) = 0
      /\ <<c>> \in Seq(Token) /\ Len(<<c>>) = 1 /\ <<c>>[1] = c
      /\ <<c, c>> \in Seq(Token) /\ Len(<<c, c>>) = 2 /\ <<c, c>>[1] = c /\ <<c, c>>[2] = c
      /\ <<c, c, c>> \in Seq(Token) /\ Len(<<c, c, c>>) = 3
      /\ <<c, c, c>>[1] = c /\ <<c, c, c>>[2] = c /\ <<c, c, c>>[3] = c
  <2> DEFINE T == Token
  <2>1. c \in T
    BY <1>1
  <2> HIDE DEF T
  <2>2. /\ <<>> \in Seq(T) /\ Len(<<>>) = 0
      /\ <<c>> \in Seq(T) /\ Len(<<c>>) = 1 /\ <<c>>[1] = c
      /\ <<c, c>> \in Seq(T) /\ Len(<<c, c>>) = 2 /\ <<c, c>>[1] = c /\ <<c, c>>[2] = c
      /\ <<c, c, c>> \in Seq(T) /\ Len(<<c, c, c>>) = 3
      /\ <<c, c, c>>[1] = c /\ <<c, c, c>>[2] = c /\ <<c, c, c>>[3] = c
    BY <2>1
  <2> QED BY <2>2 DEF T
<1>3. CASE n = 0
  BY <1>2, <1>3 DEF SomeColons, IsText, Tokens
<1>4. CASE n = 1
  <2>1. SomeColons(n) = <<c>> /\ \A i \in 1 .. n : i = 1
    BY <1>4 DEF SomeColons, c
  <2>2. IsText(SomeColons(n), n) /\ \A i \in 1 .. n : SomeColons(n)[i] = c
    BY <1>2, <1>4, <2>1 DEF IsText, Tokens
  <2> QED BY <2>2 DEF c
<1>5. CASE n = 2
  <2>1. SomeColons(n) = <<c, c>> /\ \A i \in 1 .. n : i = 1 \/ i = 2
    BY <1>5 DEF SomeColons, c
  <2>2. IsText(SomeColons(n), n) /\ \A i \in 1 .. n : SomeColons(n)[i] = c
    BY <1>2, <1>5, <2>1 DEF IsText, Tokens
  <2> QED BY <2>2 DEF c
<1>6. CASE n = 3
  <2>1. SomeColons(n) = <<c, c, c>> /\ \A i \in 1 .. n : i = 1 \/ i = 2 \/ i = 3
    BY <1>6 DEF SomeColons, c
  <2>2. IsText(SomeColons(n), n) /\ \A i \in 1 .. n : SomeColons(n)[i] = c
    BY <1>2, <1>6, <2>1 DEF IsText, Tokens
  <2> QED BY <2>2 DEF c
<1> QED BY <1>3, <1>4, <1>5, <1>6

\* A row of words with colons between them.
RowText(g, n) ==
    /\ IsText(g, Spread(n))
    /\ \A k \in 1 .. n - 1 : g[2 * k] = Colon

\* A row of printed words with colons between them.
LEMMA RowSeparated ==
    ASSUME NEW first \in Nat, NEW n \in Nat, first + n <= 9
    PROVE  /\ RowText(Separated(RowOf(first, n)), n)
           /\ \A k \in 1 .. n : Separated(RowOf(first, n))[2 * k - 1] = Printed(Word(first + k), 16)
<1>1. /\ DOMAIN RowOf(first, n) = 1 .. n
      /\ \A i \in 1 .. n : /\ RowOf(first, n)[i] = Printed(Word(first + i), 16)
                           /\ RowOf(first, n)[i] \in Token
  BY RowOfTokens
<1> DEFINE runs == RowOf(first, n)
<1> HIDE DEF runs
<1>2. /\ IsText(Separated(runs), Spread(n))
      /\ \A k \in 1 .. n : Separated(runs)[2 * k - 1] = runs[k]
      /\ \A k \in 1 .. n - 1 : Separated(runs)[2 * k] = Colon
  BY <1>1, SeparatedAt DEF runs
<1> QED BY <1>1, <1>2 DEF runs, RowText

\* A word of a form is printed as a token that is no separator.
LEMMA WordPrinted ==
    ASSUME NEW i, i \in 1 .. 9
    PROVE  /\ Printed(Word(i), 16) \in Token /\ Len(Printed(Word(i), 16)) \in Nat
           /\ Len(Printed(Word(i), 16)) >= 2
           /\ Printed(Word(i), 16) # Colon /\ Printed(Word(i), 16) # Dot
<1> DEFINE n == Word(i)
           p == Printed(n, 16)
<1>1. n \in Nat /\ n < 16 ^ 4 /\ n >= 16
  BY WordLegal
<1> HIDE DEF n
<1>2. /\ p \in Seq(Nat) /\ Len(p) \in 1 .. 4 /\ \A j \in 1 .. Len(p) : p[j] < 16
      /\ Value(p, 16) = n
  BY <1>1, PrintedHex
<1>3. p \in Token /\ p # Colon /\ p # Dot
  BY <1>1, HexToken
<1> HIDE DEF p
<1>4. Len(p) # 1
  <2>1. \A j \in 1 .. Len(p) : p[j] \in Nat
    BY <1>2
  <2>2. Len(p) = 1 => Value(p, 16) = p[1]
    BY <1>2, <2>1, ValueHex
  <2>3. Len(p) = 1 => p[1] < 16
    BY <1>2
  <2> QED BY <1>1, <1>2, <2>2, <2>3
<1> QED BY <1>2, <1>3, <1>4 DEF p, n

\* A word with four zeros before it.
Long(x) == <<0, 0, 0, 0>> \o x

\* A word with four zeros before it is too long to be read.
LEMMA LongToken ==
    ASSUME NEW x, x \in Token, Len(x) \in Nat, Len(x) >= 2
    PROVE  Long(x) \in Token /\ Long(x) # Colon /\ Long(x) # Dot /\ ~(Len(Long(x)) <= 4)
<1>1. Long(x) \in Seq(Nat) /\ Len(Long(x)) = 4 + Len(x)
  BY DEF Long, Token
<1>2. ~(Len(Long(x)) <= 4) /\ Len(Long(x)) # 1
  BY <1>1
<1> QED BY <1>1, <1>2, ColonIsNotDot DEF Token

\* A row whose first word is too long.
LEMMA LongSeparated ==
    ASSUME NEW n \in Nat, n <= 9, n >= 1
    PROVE  /\ RowText(Separated(LongRow(n)), n)
           /\ Separated(LongRow(n))[1] = Long(Printed(Word(1), 16))
           /\ \A k \in 2 .. n : Separated(LongRow(n))[2 * k - 1] = Printed(Word(k), 16)
<1>1. /\ DOMAIN RowOf(0, n) = 1 .. n
      /\ \A i \in 1 .. n : /\ RowOf(0, n)[i] = Printed(Word(i), 16)
                           /\ RowOf(0, n)[i] \in Token
  <2> DEFINE zero == 0
  <2>1. zero \in Nat /\ zero + n <= 9 /\ \A i \in 1 .. n : zero + i = i
    OBVIOUS
  <2> HIDE DEF zero
  <2>2. /\ DOMAIN RowOf(zero, n) = 1 .. n
        /\ \A i \in 1 .. n : /\ RowOf(zero, n)[i] = Printed(Word(zero + i), 16)
                             /\ RowOf(zero, n)[i] \in Token
    BY <2>1, RowOfTokens
  <2> QED BY <2>1, <2>2 DEF zero
<1> DEFINE row == RowOf(0, n)
           runs == LongRow(n)
           w == Printed(Word(1), 16)
<1> HIDE DEF row
<1>2. w \in Token /\ Long(w) \in Token
  <2>1. 1 \in 1 .. 9
    OBVIOUS
  <2>3. w \in Token /\ Len(w) \in Nat /\ Len(w) >= 2
    BY <2>1, WordPrinted
  <2> HIDE DEF w
  <2> QED BY <2>3, LongToken
<1>3. DOMAIN runs = 1 .. n /\ runs[1] = Long(w) /\ \A i \in 2 .. n : runs[i] = row[i]
  <2>1. runs = [row EXCEPT ![1] = <<0, 0, 0, 0>> \o @]
    BY DEF LongRow, row
  <2>2. DOMAIN row = 1 .. n /\ 1 \in 1 .. n /\ row[1] = w
    BY <1>1 DEF row
  <2> HIDE DEF w, runs
  <2>3. DOMAIN runs = 1 .. n /\ runs[1] = <<0, 0, 0, 0>> \o w /\ \A i \in 2 .. n : runs[i] = row[i]
    BY <2>1, <2>2
  <2> QED BY <2>3 DEF Long
<1> HIDE DEF runs
<1>4. \A i \in 1 .. n : runs[i] \in Token
  <2> TAKE i \in 1 .. n
  <2>1. CASE i = 1
    BY <1>2, <1>3, <2>1
  <2>2. CASE i # 1
    <3>1. i \in 2 .. n
      BY <2>2
    <3>2. runs[i] = row[i] /\ row[i] \in Token
      BY <1>1, <1>3, <3>1 DEF row
    <3> QED BY <3>2
  <2> QED BY <2>1, <2>2
<1>5. /\ IsText(Separated(runs), Spread(n))
      /\ \A k \in 1 .. n : Separated(runs)[2 * k - 1] = runs[k]
      /\ \A k \in 1 .. n - 1 : Separated(runs)[2 * k] = Colon
  BY <1>3, <1>4, SeparatedAt
<1>6. Separated(runs)[1] = runs[1]
  <2>1. 1 \in 1 .. n /\ 2 * 1 - 1 = 1
    OBVIOUS
  <2> QED BY <1>5, <2>1
<1>7. \A k \in 2 .. n : Separated(runs)[2 * k - 1] = Printed(Word(k), 16)
  <2> TAKE k \in 2 .. n
  <2>1. k \in 1 .. n
    OBVIOUS
  <2> QED BY <1>1, <1>3, <1>5, <2>1 DEF row
<1> QED BY <1>3, <1>5, <1>6, <1>7 DEF RowText, runs, w

\* What a form is.
LEMMA FormTypes ==
    ASSUME NEW form, form \in Forms, Meaningful(form)
    PROVE  /\ form.left \in 0 .. 9 /\ form.right \in 0 .. 9 /\ form.gap \in BOOLEAN /\ form.quad \in BOOLEAN
           /\ form.left + form.right <= 9
           /\ form.mistake \in {"none", "leading", "trailing", "colons", "long"}
           /\ ~form.gap => form.right = 0 /\ form.mistake # "colons"
           /\ form.mistake = "long" => form.left > 0
           /\ form.mistake = "leading" => form.left > 0
           /\ form.mistake = "trailing" => form.right > 0 \/ (form.right = 0 /\ form.left > 0 /\ ~form.gap /\ ~form.quad)
  BY DEF Forms, Meaningful

\* The parts of the text of a form, and their lengths.
LEMMA PartTexts ==
    ASSUME NEW form, form \in Forms, Meaningful(form)
    PROVE  /\ IsText(SomeColons(Leads(form)), Leads(form))
           /\ RowText(FrontOf(form), form.left)
           /\ IsText(SomeColons(Middles(form)), Middles(form))
           /\ RowText(BehindOf(form), form.right)
           /\ IsText(SomeColons(Joints(form)), Joints(form))
           /\ IsText(TailOf(form), Tails(form))
           /\ IsText(SomeColons(Trails(form)), Trails(form))
<1>0. /\ form.left \in Nat /\ form.right \in Nat /\ form.left <= 9
      /\ form.left + form.right <= 9
      /\ form.mistake = "long" => form.left >= 1
  BY FormTypes
<1>1. /\ Leads(form) \in 0 .. 3 /\ Middles(form) \in 0 .. 3 /\ Joints(form) \in 0 .. 3 /\ Trails(form) \in 0 .. 3
  BY DEF Leads, Middles, Joints, Trails
<1>2. RowText(BehindOf(form), form.right)
  BY <1>0, RowSeparated DEF BehindOf
<1>3. RowText(FrontOf(form), form.left)
  <2>1. CASE form.mistake = "long"
    <3>1. RowText(Separated(LongRow(form.left)), form.left)
      BY <1>0, <2>1, LongSeparated
    <3> QED BY <2>1, <3>1 DEF FrontOf
  <2>2. CASE form.mistake # "long"
    <3> DEFINE zero == 0
    <3>1. zero \in Nat /\ zero + form.left <= 9
      BY <1>0
    <3> HIDE DEF zero
    <3>2. RowText(Separated(RowOf(zero, form.left)), form.left)
      BY <1>0, <3>1, RowSeparated
    <3> QED BY <2>2, <3>2 DEF FrontOf, zero
  <2> QED BY <2>1, <2>2
<1>4. IsText(TailOf(form), Tails(form))
  <2>1. CASE form.quad
    <3> DEFINE o == <<1, 2, 3, 4>>
    <3>1. IsOctets(o)
      <4>1. \A k \in 1 .. 4 : k = 1 \/ k = 2 \/ k = 3 \/ k = 4
        OBVIOUS
      <4>2. o[1] = 1 /\ o[2] = 2 /\ o[3] = 3 /\ o[4] = 4
        OBVIOUS
      <4> HIDE DEF o
      <4> QED BY <4>1, <4>2 DEF IsOctets
    <3> HIDE DEF o
    <3>2. Quad(o) \in Seq(Seq(Nat)) /\ Len(Quad(o)) = 7
      BY <3>1, QuadTokens
    <3>3. IsText(Quad(o), 7)
      BY <3>2 DEF IsText, Tokens, Token
    <3> QED BY <2>1, <3>3 DEF TailOf, Tails, o
  <2>2. CASE ~form.quad
    <3>1. IsText(<<>>, 0)
      BY TokenSorts DEF IsText
    <3> QED BY <2>2, <3>1 DEF TailOf, Tails
  <2> QED BY <2>1, <2>2
<1> QED BY <1>1, <1>2, <1>3, <1>4, ColonsAt

\* The text of a form is made of its parts.
LEMMA WrittenParts ==
    ASSUME NEW form, form \in Forms, Meaningful(form)
    PROVE  Written(form) = SomeColons(Leads(form)) \o FrontOf(form) \o SomeColons(Middles(form))
                              \o (BehindOf(form) \o SomeColons(Joints(form)) \o TailOf(form))
                              \o SomeColons(Trails(form))
<1> DEFINE left == RowOf(0, form.left)
           front == IF form.mistake = "long" /\ left # <<>> THEN Separated(LongRow(form.left)) ELSE Separated(left)
           joint == IF form.right > 0 /\ form.quad THEN <<Colon>> ELSE <<>>
           back == BehindOf(form) \o joint \o TailOf(form)
           middle == IF form.gap THEN IF form.mistake = "colons" THEN <<Colon, Colon, Colon>> ELSE <<Colon, Colon>>
                     ELSE IF front # <<>> /\ back # <<>> THEN <<Colon>> ELSE <<>>
           lead == IF form.mistake = "leading" THEN <<Colon>> ELSE <<>>
           trail == IF form.mistake = "trailing" THEN <<Colon>> ELSE <<>>
<1>1. \A n : [i \in 1 .. n |-> Printed(Word(0 + i), 16)] = RowOf(0, n)
  BY DEF RowOf
<1>2. Written(form) = lead \o front \o middle \o back \o trail
  BY Zenon DEF Written, BehindOf, TailOf, LongRow, RowOf
<1>3. /\ form.left \in Nat /\ form.right \in Nat /\ form.gap \in BOOLEAN /\ form.quad \in BOOLEAN
      /\ ~form.gap => form.right = 0
      /\ form.mistake = "long" => form.left > 0
  BY FormTypes
<1>4. form.left > 0 => left # <<>>
  BY <1>3 DEF RowOf
<1>5. front = FrontOf(form)
  BY <1>3, <1>4 DEF FrontOf
<1>6. lead = SomeColons(Leads(form)) /\ trail = SomeColons(Trails(form)) /\ joint = SomeColons(Joints(form))
  BY <1>3 DEF Leads, Trails, Joints, SomeColons
<1>7. front # <<>> <=> form.left # 0
  <2>1. front \in Tokens /\ Len(front) = Spread(form.left)
    BY <1>5, PartTexts DEF RowText, IsText
  <2> HIDE DEF front
  <2>2. Len(front) = 0 <=> form.left = 0
    BY <1>3, <2>1 DEF Spread
  <2>3. front = <<>> <=> Len(front) = 0
    BY <2>1 DEF Tokens
  <2> QED BY <2>2, <2>3
<1>8. ~form.gap => (back # <<>> <=> form.quad)
  <2> HAVE ~form.gap
  <2>1. IsText(back, Spread(form.right) + Joints(form) + Tails(form))
    BY <1>6, PartTexts, TextJoined DEF RowText
  <2> HIDE DEF back
  <2>2. Spread(form.right) + Joints(form) + Tails(form) = IF form.quad THEN 7 ELSE 0
    BY <1>3 DEF Spread, Joints, Tails
  <2>3. back = <<>> <=> Len(back) = 0
    BY <2>1 DEF IsText, Tokens
  <2>4. Len(back) = IF form.quad THEN 7 ELSE 0
    BY <2>1, <2>2 DEF IsText
  <2> QED BY <2>3, <2>4
<1>9. middle = SomeColons(Middles(form))
  <2> HIDE DEF front, back
  <2>1. CASE form.gap
    BY <2>1 DEF SomeColons, Middles
  <2>2. CASE ~form.gap
    BY <1>7, <1>8, <2>2 DEF SomeColons, Middles
  <2> QED BY <2>1, <2>2
<1> HIDE DEF lead, front, middle, joint, trail
<1> QED BY <1>2, <1>5, <1>6, <1>9, Zenon

\* Where the parts of a text of a form end.
FrontEnd(form) == Leads(form) + Spread(form.left)
GapEnd(form) == FrontEnd(form) + Middles(form)
RowEnd(form) == GapEnd(form) + Spread(form.right)
TailAt(form) == RowEnd(form) + Joints(form)
TailEnd(form) == TailAt(form) + Tails(form)
TextEnd(form) == TailEnd(form) + Trails(form)

\* The tokens of the text of a form.
TextAt(s, form) ==
    /\ IsText(s, TextEnd(form))
    /\ form.mistake = "leading" => s[1] = Colon
    /\ form.mistake = "long" => s[1] = Long(Printed(Word(1), 16))
    /\ \A k \in 1 .. form.left :
          (form.mistake = "long" /\ k = 1) \/ s[Leads(form) + 2 * k - 1] = Printed(Word(k), 16)
    /\ \A k \in 1 .. form.left - 1 : s[Leads(form) + 2 * k] = Colon
    /\ \A k \in 1 .. Middles(form) : s[FrontEnd(form) + k] = Colon
    /\ \A k \in 1 .. form.right : s[GapEnd(form) + 2 * k - 1] = Printed(Word(form.left + k), 16)
    /\ \A k \in 1 .. form.right - 1 : s[GapEnd(form) + 2 * k] = Colon
    /\ \A k \in 1 .. Joints(form) : s[RowEnd(form) + k] = Colon
    /\ form.quad => \A k \in 1 .. 7 : s[TailAt(form) + k] = Quad(<<1, 2, 3, 4>>)[k]
    /\ \A k \in 1 .. Trails(form) : s[TailEnd(form) + k] = Colon

\* The words of a row that is behind place off.
RowAt(s, off, g, n) ==
    /\ \A k \in 1 .. n : s[off + 2 * k - 1] = g[2 * k - 1]
    /\ \A k \in 1 .. n - 1 : s[off + 2 * k] = Colon

\* A row of words at its place in a text.
LEMMA PieceRow ==
    ASSUME NEW s, NEW off, NEW g, NEW n, n \in Nat, NEW i, Piece(s, off, g, i), RowText(g, n)
    PROVE  RowAt(s, off, g, n)
<1>1. /\ off \in Nat /\ i \in Nat /\ i = Spread(n)
      /\ \A j \in 1 .. i : s[off + j] = g[j]
      /\ \A k \in 1 .. n - 1 : g[2 * k] = Colon
  BY DEF Piece, RowText, IsText
<1>2. \A k \in 1 .. n : s[off + 2 * k - 1] = g[2 * k - 1]
  <2> TAKE k \in 1 .. n
  <2>1. 2 * k - 1 \in 1 .. i /\ off + (2 * k - 1) = off + 2 * k - 1
    BY <1>1 DEF Spread
  <2> QED BY <1>1, <2>1
<1>3. \A k \in 1 .. n - 1 : s[off + 2 * k] = Colon
  <2> TAKE k \in 1 .. n - 1
  <2>1. 2 * k \in 1 .. i
    BY <1>1 DEF Spread
  <2> QED BY <1>1, <2>1
<1> QED BY <1>2, <1>3 DEF RowAt

\* Words and the colons between them are a number of tokens.
LEMMA SpreadIsNat == \A n \in Nat : Spread(n) \in Nat
  BY DEF Spread

\* The text of a form is five parts, the fourth of them three.
LEMMA FivePieces ==
    ASSUME NEW a, NEW la, IsText(a, la), NEW b, NEW lb, IsText(b, lb), NEW c, NEW lc, IsText(c, lc),
           NEW d, NEW ld, IsText(d, ld), NEW e, NEW le, IsText(e, le)
    PROVE  LET s == a \o b \o c \o d \o e IN
           /\ IsText(s, la + lb + lc + ld + le)
           /\ Piece(s, 0, a, la) /\ Piece(s, la, b, lb) /\ Piece(s, la + lb, c, lc)
           /\ Piece(s, la + lb + lc, d, ld) /\ Piece(s, la + lb + lc + ld, e, le)
<1> DEFINE ab == a \o b
           abc == ab \o c
           abcd == abc \o d
           s == abcd \o e
<1>0. la \in Nat /\ lb \in Nat /\ lc \in Nat /\ ld \in Nat /\ le \in Nat
  BY DEF IsText
<1>1. IsText(ab, la + lb)
  BY TextJoined
<1> HIDE DEF ab
<1>2. IsText(abc, la + lb + lc)
  BY <1>1, TextJoined
<1> HIDE DEF abc
<1>3. IsText(abcd, la + lb + lc + ld)
  BY <1>2, TextJoined
<1> HIDE DEF abcd
<1>4. IsText(s, la + lb + lc + ld + le)
  BY <1>3, TextJoined
<1>5. Piece(s, 0, s, la + lb + lc + ld + le)
  BY <1>4, PieceWhole
<1> DEFINE zero == 0
<1> HIDE DEF zero
<1>6. Piece(s, zero, abcd, la + lb + lc + ld) /\ Piece(s, zero + (la + lb + lc + ld), e, le)
  BY <1>3, <1>5, PieceSplit DEF zero
<1> HIDE DEF s
<1>7. Piece(s, zero, abc, la + lb + lc) /\ Piece(s, zero + (la + lb + lc), d, ld)
  BY <1>2, <1>6, PieceSplit DEF abcd
<1>8. Piece(s, zero, ab, la + lb) /\ Piece(s, zero + (la + lb), c, lc)
  BY <1>1, <1>7, PieceSplit DEF abc
<1>9. Piece(s, zero, a, la) /\ Piece(s, zero + la, b, lb)
  BY <1>8, PieceSplit DEF ab
<1>10. /\ zero + (la + lb + lc + ld) = la + lb + lc + ld /\ zero + (la + lb + lc) = la + lb + lc
       /\ zero + (la + lb) = la + lb /\ zero + la = la
  BY <1>0 DEF zero
<1> QED BY <1>4, <1>6, <1>7, <1>8, <1>9, <1>10, Zenon DEF s, abcd, abc, ab, zero

\* The text of a form has its tokens where the form says.
LEMMA WrittenText ==
    ASSUME NEW form, form \in Forms, Meaningful(form)
    PROVE  TextAt(Written(form), form)
<1> DEFINE s == Written(form)
           a == SomeColons(Leads(form))
           b == FrontOf(form)
           c == SomeColons(Middles(form))
           d == BehindOf(form)
           j == SomeColons(Joints(form))
           t == TailOf(form)
           e == SomeColons(Trails(form))
           dj == d \o j
           djt == dj \o t
           la == Leads(form)
           lb == Spread(form.left)
           lc == Middles(form)
           ld == Spread(form.right)
           lj == Joints(form)
           lt == Tails(form)
           le == Trails(form)
<1>1. /\ IsText(a, la) /\ IsText(b, lb) /\ IsText(c, lc) /\ IsText(d, ld) /\ IsText(j, lj)
      /\ IsText(t, lt) /\ IsText(e, le) /\ RowText(b, form.left) /\ RowText(d, form.right)
  BY PartTexts DEF RowText
<1>2. s = a \o b \o c \o djt \o e
  BY WrittenParts
<1>3. /\ form.left \in Nat /\ form.right \in Nat /\ form.left <= 9 /\ form.left + form.right <= 9
      /\ form.mistake = "long" => form.left >= 1
  BY FormTypes
<1>4. /\ la \in Nat /\ lb \in Nat /\ lc \in Nat /\ ld \in Nat /\ lj \in Nat /\ lt \in Nat /\ le \in Nat
      /\ la \in 0 .. 3 /\ lc \in 0 .. 3 /\ lj \in 0 .. 3 /\ le \in 0 .. 3
  <2>1. la \in 0 .. 3 /\ lc \in 0 .. 3 /\ lj \in 0 .. 3 /\ le \in 0 .. 3
    BY DEF Leads, Middles, Joints, Trails
  <2> QED BY <1>1, <2>1 DEF IsText
<1>5. /\ \A k \in 1 .. la : a[k] = Colon
      /\ \A k \in 1 .. lc : c[k] = Colon
      /\ \A k \in 1 .. lj : j[k] = Colon
      /\ \A k \in 1 .. le : e[k] = Colon
  BY <1>4, ColonsAt
<1>6. \A k \in 1 .. form.right : d[2 * k - 1] = Printed(Word(form.left + k), 16)
  BY <1>3, RowSeparated DEF BehindOf
<1>7. /\ form.mistake = "long" => b[1] = Long(Printed(Word(1), 16))
      /\ \A k \in 1 .. form.left : (form.mistake = "long" /\ k = 1) \/ b[2 * k - 1] = Printed(Word(k), 16)
  <2>1. CASE form.mistake = "long"
    <3>1. /\ Separated(LongRow(form.left))[1] = Long(Printed(Word(1), 16))
          /\ \A k \in 2 .. form.left : Separated(LongRow(form.left))[2 * k - 1] = Printed(Word(k), 16)
      BY <1>3, <2>1, LongSeparated
    <3>2. b = Separated(LongRow(form.left))
      BY <2>1 DEF FrontOf
    <3>3. \A k \in 1 .. form.left : k = 1 \/ k \in 2 .. form.left
      BY <1>3
    <3> HIDE DEF b
    <3> QED BY <2>1, <3>1, <3>2, <3>3
  <2>2. CASE form.mistake # "long"
    <3> DEFINE zero == 0
    <3>1. zero \in Nat /\ zero + form.left <= 9 /\ \A k \in 1 .. form.left : zero + k = k
      BY <1>3
    <3> HIDE DEF zero
    <3>2. \A k \in 1 .. form.left : Separated(RowOf(zero, form.left))[2 * k - 1] = Printed(Word(zero + k), 16)
      BY <1>3, <3>1, RowSeparated
    <3>3. b = Separated(RowOf(zero, form.left))
      BY <2>2 DEF FrontOf, zero
    <3> HIDE DEF b
    <3> QED BY <2>2, <3>1, <3>2, <3>3
  <2> QED BY <2>1, <2>2
<1>8. form.quad => \A k \in 1 .. 7 : t[k] = Quad(<<1, 2, 3, 4>>)[k]
  BY DEF TailOf
<1>9. form.quad => lt = 7
  BY DEF Tails
<1>10. la = 1 <=> form.mistake = "leading"
  BY DEF Leads
<1> HIDE DEF s, a, b, c, d, j, t, e, la, lb, lc, ld, lj, lt, le
<1>11. IsText(dj, ld + lj)
  BY <1>1, TextJoined
<1> HIDE DEF dj
<1>12. IsText(djt, ld + lj + lt)
  BY <1>1, <1>11, TextJoined
<1> DEFINE ldjt == ld + lj + lt
<1>13. ldjt \in Nat /\ IsText(djt, ldjt)
  BY <1>4, <1>12
<1> HIDE DEF djt, ldjt
<1>14. /\ IsText(s, la + lb + lc + ldjt + le)
       /\ Piece(s, 0, a, la) /\ Piece(s, la, b, lb) /\ Piece(s, la + lb, c, lc)
       /\ Piece(s, la + lb + lc, djt, ldjt) /\ Piece(s, la + lb + lc + ldjt, e, le)
  BY <1>1, <1>2, <1>13, FivePieces
<1>15. Piece(s, la + lb + lc, dj, ld + lj) /\ Piece(s, la + lb + lc + (ld + lj), t, lt)
  BY <1>1, <1>11, <1>14, PieceSplit DEF djt, ldjt
<1>16. Piece(s, la + lb + lc, d, ld) /\ Piece(s, la + lb + lc + ld, j, lj)
  BY <1>1, <1>15, PieceSplit DEF dj
<1>17. /\ la + lb = FrontEnd(form) /\ la + lb + lc = GapEnd(form) /\ la + lb + lc + ld = RowEnd(form)
       /\ la + lb + lc + (ld + lj) = TailAt(form) /\ la + lb + lc + ldjt = TailEnd(form)
       /\ la + lb + lc + ldjt + le = TextEnd(form)
  BY <1>4 DEF FrontEnd, GapEnd, RowEnd, TailAt, TailEnd, TextEnd, la, lb, lc, ld, lj, lt, le, ldjt
<1>18. /\ \A k \in 1 .. form.left : s[la + 2 * k - 1] = b[2 * k - 1]
       /\ \A k \in 1 .. form.left - 1 : s[la + 2 * k] = Colon
  <2>1. form.left \in Nat /\ Piece(s, la, b, lb) /\ RowText(b, form.left)
    BY <1>1, <1>3, <1>14
  <2>2. RowAt(s, la, b, form.left)
    BY <2>1, PieceRow
  <2> QED BY <2>2 DEF RowAt
<1>19. /\ \A k \in 1 .. form.right : s[GapEnd(form) + 2 * k - 1] = d[2 * k - 1]
       /\ \A k \in 1 .. form.right - 1 : s[GapEnd(form) + 2 * k] = Colon
  <2>1. form.right \in Nat /\ Piece(s, GapEnd(form), d, ld) /\ RowText(d, form.right)
    BY <1>1, <1>3, <1>16, <1>17
  <2>2. RowAt(s, GapEnd(form), d, form.right)
    BY <2>1, PieceRow
  <2> QED BY <2>2 DEF RowAt
<1>20. \A k \in 1 .. lc : s[FrontEnd(form) + k] = Colon
  <2>1. Piece(s, FrontEnd(form), c, lc)
    BY <1>14, <1>17
  <2>2. \A k \in 1 .. lc : s[FrontEnd(form) + k] = c[k]
    BY <2>1 DEF Piece
  <2> QED BY <1>5, <2>2
<1>21. \A k \in 1 .. lj : s[RowEnd(form) + k] = Colon
  <2>1. Piece(s, RowEnd(form), j, lj)
    BY <1>16, <1>17
  <2>2. \A k \in 1 .. lj : s[RowEnd(form) + k] = j[k]
    BY <2>1 DEF Piece
  <2> QED BY <1>5, <2>2
<1>22. \A k \in 1 .. le : s[TailEnd(form) + k] = Colon
  <2>1. Piece(s, TailEnd(form), e, le)
    BY <1>14, <1>17
  <2>2. \A k \in 1 .. le : s[TailEnd(form) + k] = e[k]
    BY <2>1 DEF Piece
  <2> QED BY <1>5, <2>2
<1>23. form.quad => \A k \in 1 .. 7 : s[TailAt(form) + k] = Quad(<<1, 2, 3, 4>>)[k]
  <2> HAVE form.quad
  <2>1. \A k \in 1 .. 7 : s[TailAt(form) + k] = t[k]
    BY <1>9, <1>15, <1>17 DEF Piece
  <2> QED BY <1>8, <2>1
<1>24. form.mistake = "leading" => s[1] = Colon
  <2> HAVE form.mistake = "leading"
  <2>1. 1 \in 1 .. la /\ 0 + 1 = 1
    BY <1>10
  <2>2. s[0 + 1] = a[1] /\ a[1] = Colon
    BY <1>5, <1>14, <2>1 DEF Piece
  <2> QED BY <2>1, <2>2
<1>25. form.mistake = "long" => s[1] = Long(Printed(Word(1), 16))
  <2> HAVE form.mistake = "long"
  <2>1. 1 \in 1 .. form.left /\ la = 0 /\ 2 * 1 - 1 = 1 /\ la + 2 * 1 - 1 = 1
    BY <1>3 DEF la, Leads
  <2>2. s[la + 2 * 1 - 1] = b[2 * 1 - 1]
    BY <1>18, <2>1
  <2> QED BY <1>7, <2>1, <2>2
<1>26. \A k \in 1 .. form.left :
          (form.mistake = "long" /\ k = 1) \/ s[la + 2 * k - 1] = Printed(Word(k), 16)
  BY <1>7, <1>18
<1>27. \A k \in 1 .. form.right : s[GapEnd(form) + 2 * k - 1] = Printed(Word(form.left + k), 16)
  BY <1>6, <1>19
<1>28. IsText(s, TextEnd(form))
  BY <1>14, <1>17
<1> QED BY <1>18, <1>19, <1>20, <1>21, <1>22, <1>23, <1>24, <1>25, <1>26, <1>27, <1>28
        DEF TextAt, s, la, lc, lj, le

\* Where the words end, and all the words there are.
Eow(form) == TailAt(form) + 1
WordsAll == [i \in 1 .. 9 |-> Word(i)]

\* The nine words that forms are made of.
LEMMA WordsAllLegal == Legal(WordsAll) /\ \A i \in 1 .. 9 : WordsAll[i] = Word(i) /\ WordsAll[i] \in Nat
  BY WordLegal DEF WordsAll, Legal

\* The lengths of the parts.
LEMMA PartLengths ==
    ASSUME NEW form, form \in Forms, Meaningful(form)
    PROVE  /\ form.left \in Nat /\ form.right \in Nat /\ form.left + form.right <= 9
           /\ form.gap \in BOOLEAN /\ form.quad \in BOOLEAN
           /\ (form.left = 0 /\ Spread(form.left) = 0) \/ (form.left > 0 /\ Spread(form.left) = 2 * form.left - 1)
           /\ (form.right = 0 /\ Spread(form.right) = 0) \/ (form.right > 0 /\ Spread(form.right) = 2 * form.right - 1)
           /\ Leads(form) \in Nat /\ Middles(form) \in Nat /\ Joints(form) \in Nat /\ Tails(form) \in Nat
           /\ FrontEnd(form) = Leads(form) + Spread(form.left)
           /\ GapEnd(form) = FrontEnd(form) + Middles(form)
           /\ RowEnd(form) = GapEnd(form) + Spread(form.right)
           /\ TailAt(form) = RowEnd(form) + Joints(form)
           /\ TailEnd(form) = TailAt(form) + Tails(form)
           /\ TextEnd(form) = TailEnd(form) + Trails(form)
           /\ Eow(form) = TailAt(form) + 1
  <1>1. form.left \in Nat /\ form.right \in Nat /\ form.left + form.right <= 9 /\ form.gap \in BOOLEAN /\ form.quad \in BOOLEAN
    BY FormTypes
  <1>2. Leads(form) \in Nat /\ Middles(form) \in Nat /\ Joints(form) \in Nat /\ Tails(form) \in Nat
    BY DEF Leads, Middles, Joints, Tails
  <1> QED BY <1>1, <1>2 DEF FrontEnd, GapEnd, RowEnd, TailAt, TailEnd, TextEnd, Eow, Spread

\* Rows without dots.
LEMMA RowNoDots ==
    ASSUME NEW s, NEW off \in Nat, NEW n \in Nat,
           \A k \in 1 .. n : s[off + 2 * k - 1] # Dot,
           \A k \in 1 .. n - 1 : s[off + 2 * k] = Colon,
           NEW i \in Nat, off < i, i <= off + Spread(n)
    PROVE  s[i] # Dot
<1>1. PICK k \in Nat : i - off = 2 * k \/ i - off = 2 * k + 1
  <2>1. i - off \in Nat
    OBVIOUS
  <2> QED BY <2>1, Parity
<1>2. CASE i - off = 2 * k
  <2>1. k \in 1 .. n - 1 /\ i = off + 2 * k
    BY <1>2 DEF Spread
  <2> QED BY <2>1, ColonIsNotDot
<1>3. CASE i - off = 2 * k + 1
  <2> DEFINE j == k + 1
  <2>1. j \in 1 .. n /\ i = off + 2 * j - 1
    BY <1>3 DEF Spread
  <2> QED BY <2>1
<1> QED BY <1>1, <1>2, <1>3

\* There is no dot before a dotted quad.
LEMMA BeforeTail ==
    ASSUME NEW form, form \in Forms, Meaningful(form), NEW s, TextAt(s, form)
    PROVE  \A i \in 1 .. TailAt(form) : s[i] # Dot
<1> TAKE i \in 1 .. TailAt(form)
<1>0. /\ form.left \in Nat /\ form.right \in Nat /\ form.left + form.right <= 9
      /\ Leads(form) \in Nat /\ Middles(form) \in Nat /\ Joints(form) \in Nat
      /\ Spread(form.left) \in Nat /\ Spread(form.right) \in Nat
      /\ FrontEnd(form) = Leads(form) + Spread(form.left)
      /\ GapEnd(form) = FrontEnd(form) + Middles(form)
      /\ RowEnd(form) = GapEnd(form) + Spread(form.right)
      /\ TailAt(form) = RowEnd(form) + Joints(form)
  BY PartLengths
<1>1. CASE i <= Leads(form)
  <2>1. i = 1 /\ form.mistake = "leading"
    BY <1>1 DEF Leads
  <2> QED BY <2>1, ColonIsNotDot DEF TextAt
<1>2. CASE Leads(form) < i /\ i <= FrontEnd(form)
  <2>1. \A k \in 1 .. form.left : s[Leads(form) + 2 * k - 1] # Dot
    <3> TAKE k \in 1 .. form.left
    <3>1. k \in 1 .. 9
      BY <1>0
    <3>2. Printed(Word(k), 16) # Dot
      BY <3>1, WordPrinted
    <3>3. CASE form.mistake = "long" /\ k = 1
      <4>1. Leads(form) + 2 * k - 1 = 1
        BY <3>3 DEF Leads
      <4>2. s[1] = Long(Printed(Word(1), 16))
        BY <3>3 DEF TextAt
      <4>3. Long(Printed(Word(k), 16)) # Dot
        BY <3>1, WordPrinted, LongToken
      <4> QED BY <3>3, <4>1, <4>2, <4>3
    <3>4. CASE ~(form.mistake = "long" /\ k = 1)
      BY <3>2, <3>4 DEF TextAt
    <3> QED BY <3>3, <3>4
  <2>2. \A k \in 1 .. form.left - 1 : s[Leads(form) + 2 * k] = Colon
    BY DEF TextAt
  <2>3. i \in Nat /\ i <= Leads(form) + Spread(form.left)
    BY <1>0, <1>2
  <2> DEFINE off == Leads(form)
  <2>4. off \in Nat /\ off < i
    BY <1>0, <1>2
  <2> HIDE DEF off
  <2> QED BY <1>0, <2>1, <2>2, <2>3, <2>4, RowNoDots DEF off
<1>3. CASE FrontEnd(form) < i /\ i <= GapEnd(form)
  <2> DEFINE k == i - FrontEnd(form)
  <2>1. k \in 1 .. Middles(form) /\ FrontEnd(form) + k = i
    BY <1>0, <1>3
  <2>2. s[FrontEnd(form) + k] = Colon
    BY <2>1 DEF TextAt
  <2> QED BY <2>1, <2>2, ColonIsNotDot
<1>4. CASE GapEnd(form) < i /\ i <= RowEnd(form)
  <2>1. \A k \in 1 .. form.right : s[GapEnd(form) + 2 * k - 1] # Dot
    <3> TAKE k \in 1 .. form.right
    <3>1. form.left + k \in 1 .. 9
      BY <1>0
    <3>2. Printed(Word(form.left + k), 16) # Dot
      BY <3>1, WordPrinted
    <3> QED BY <3>2 DEF TextAt
  <2>2. \A k \in 1 .. form.right - 1 : s[GapEnd(form) + 2 * k] = Colon
    BY DEF TextAt
  <2> DEFINE off == GapEnd(form)
  <2>3. i \in Nat /\ i <= off + Spread(form.right) /\ off \in Nat /\ off < i
    BY <1>0, <1>4
  <2> HIDE DEF off
  <2> QED BY <1>0, <2>1, <2>2, <2>3, RowNoDots DEF off
<1>5. CASE RowEnd(form) < i
  <2> DEFINE k == i - RowEnd(form)
  <2>1. k \in 1 .. Joints(form) /\ RowEnd(form) + k = i
    BY <1>0, <1>5
  <2>2. s[RowEnd(form) + k] = Colon
    BY <2>1 DEF TextAt
  <2> QED BY <2>1, <2>2, ColonIsNotDot
<1> QED BY <1>0, <1>1, <1>2, <1>3, <1>4, <1>5

\* The places of a text.
LEMMA TextPlaces ==
    ASSUME NEW s, NEW n, IsText(s, n)
    PROVE  n \in Nat /\ Len(s) = n /\ DOMAIN s = 1 .. n
  BY DEF IsText, Tokens

\* The words before the gap.
LEMMA FrontRow ==
    ASSUME NEW form, form \in Forms, Meaningful(form), NEW s, TextAt(s, form),
           form.mistake \in {"none", "colons"}
    PROVE  PrintedRow(s, Eow(form), 1, form.left, WordsAll, 0)
<1>0. /\ form.left \in Nat /\ form.right \in Nat /\ form.left + form.right <= 9
      /\ form.gap \in BOOLEAN /\ form.quad \in BOOLEAN
      /\ Leads(form) = 0 /\ Middles(form) \in Nat /\ Joints(form) \in Nat
      /\ form.left > 0 => Spread(form.left) = 2 * form.left - 1
      /\ Spread(form.right) \in Nat
      /\ FrontEnd(form) = Leads(form) + Spread(form.left)
      /\ GapEnd(form) = FrontEnd(form) + Middles(form)
      /\ RowEnd(form) = GapEnd(form) + Spread(form.right)
      /\ TailAt(form) = RowEnd(form) + Joints(form)
      /\ Eow(form) = TailAt(form) + 1
  <2>1. Leads(form) = 0
    BY DEF Leads
  <2> QED BY <2>1, PartLengths
<1> SUFFICES ASSUME NEW j \in 1 .. form.left
             PROVE  /\ s[1 + 2 * j - 2] = Printed(WordsAll[0 + j], 16) /\ 1 + 2 * j - 2 < Eow(form)
                    /\ 1 + 2 * j - 1 = Eow(form) \/ s[1 + 2 * j - 1] = Colon
  BY DEF PrintedRow
<1>1. j \in 1 .. 9 /\ 0 + j = j /\ 1 + 2 * j - 2 = 2 * j - 1 /\ 1 + 2 * j - 1 = 2 * j
      /\ Leads(form) + 2 * j - 1 = 2 * j - 1 /\ Leads(form) + 2 * j = 2 * j
  BY <1>0
<1>2. s[2 * j - 1] = Printed(WordsAll[j], 16)
  <2>1. s[Leads(form) + 2 * j - 1] = Printed(Word(j), 16)
    BY DEF TextAt
  <2>2. WordsAll[j] = Word(j)
    BY <1>1, WordsAllLegal
  <2> QED BY <1>1, <2>1, <2>2
<1>3. 2 * j - 1 < Eow(form)
  BY <1>0
<1>4. 2 * j = Eow(form) \/ s[2 * j] = Colon
  <2>1. CASE j < form.left
    <3>0. j \in 1 .. form.left - 1
      BY <1>0, <2>1
    <3>1. s[Leads(form) + 2 * j] = Colon
      BY <3>0 DEF TextAt
    <3> QED BY <1>1, <3>1
  <2>2. CASE j = form.left /\ Middles(form) > 0
    <3>1. 1 \in 1 .. Middles(form) /\ FrontEnd(form) + 1 = 2 * j
      BY <1>0, <2>2
    <3>2. s[FrontEnd(form) + 1] = Colon
      BY <3>1 DEF TextAt
    <3> QED BY <3>1, <3>2
  <2>3. CASE j = form.left /\ Middles(form) = 0
    <3>1. ~form.gap /\ ~form.quad
      BY <1>0, <2>3 DEF Middles
    <3>2. form.right = 0
      BY <3>1, FormTypes
    <3>3. Joints(form) = 0 /\ Spread(form.right) = 0
      BY <3>2 DEF Joints, Spread
    <3> QED BY <1>0, <2>3, <3>3
  <2> QED BY <1>0, <2>1, <2>2, <2>3
<1> QED BY <1>1, <1>2, <1>3, <1>4

\* The words behind the gap.
LEMMA BackRow ==
    ASSUME NEW form, form \in Forms, Meaningful(form), NEW s, TextAt(s, form),
           form.mistake = "none", form.gap
    PROVE  /\ PrintedRow(s, Eow(form), Behind(form.left), form.right, WordsAll, form.left)
           /\ Behind(form.left) + 2 * form.right >= Eow(form)
<1>0. /\ form.left \in Nat /\ form.right \in Nat /\ form.left + form.right <= 9
      /\ form.quad \in BOOLEAN
      /\ Leads(form) = 0 /\ Middles(form) = 2 /\ Joints(form) = IF form.right # 0 /\ form.quad THEN 1 ELSE 0
      /\ (form.left = 0 /\ Spread(form.left) = 0) \/ (form.left > 0 /\ Spread(form.left) = 2 * form.left - 1)
      /\ (form.right = 0 /\ Spread(form.right) = 0) \/ (form.right > 0 /\ Spread(form.right) = 2 * form.right - 1)
      /\ FrontEnd(form) = Leads(form) + Spread(form.left)
      /\ GapEnd(form) = FrontEnd(form) + Middles(form)
      /\ RowEnd(form) = GapEnd(form) + Spread(form.right)
      /\ TailAt(form) = RowEnd(form) + Joints(form)
      /\ Eow(form) = TailAt(form) + 1
  <2>1. Leads(form) = 0 /\ Middles(form) = 2 /\ Joints(form) = IF form.right # 0 /\ form.quad THEN 1 ELSE 0
    BY DEF Leads, Middles, Joints
  <2> QED BY <2>1, PartLengths
<1> DEFINE b == Behind(form.left)
           g == GapEnd(form)
           e == Eow(form)
           r == form.right
<1>1. b = g + 1 /\ g \in Nat
  <2>1. GapEnd(form) = Spread(form.left) + 2
    BY <1>0
  <2>2. CASE form.left = 0
    BY <1>0, <2>1, <2>2 DEF Behind
  <2>3. CASE form.left # 0
    <3>1. Behind(form.left) = 2 * form.left + 2
      BY <2>3 DEF Behind
    <3> QED BY <1>0, <2>1, <2>3, <3>1
  <2> QED BY <2>2, <2>3
<1>9. r \in Nat /\ (r = 0 => e = g + 1) /\ (r > 0 => e = g + 2 * r + (IF form.quad THEN 1 ELSE 0))
      /\ form.left \in Nat /\ form.left + r <= 9 /\ (r > 0 => RowEnd(form) = g + 2 * r - 1)
  <2>1. e = g + Spread(r) + Joints(form) + 1 /\ RowEnd(form) = g + Spread(r)
    BY <1>0, <1>1
  <2>2. CASE r = 0
    <3>1. Spread(r) = 0 /\ Joints(form) = 0
      BY <1>0, <2>2
    <3> HIDE DEF g, e, r
    <3> QED BY <1>1, <2>1, <2>2, <3>1, <1>0 DEF r
  <2>3. CASE r > 0
    <3>1. Spread(r) = 2 * r - 1 /\ Joints(form) = IF form.quad THEN 1 ELSE 0
      BY <1>0, <2>3
    <3>2. r \in Nat /\ form.left \in Nat /\ form.left + r <= 9
      BY <1>0
    <3> HIDE DEF g, e, r
    <3> QED BY <1>1, <2>1, <2>3, <3>1, <3>2
  <2> QED BY <1>0, <2>2, <2>3
<1> HIDE DEF b, g, e, r
<1>2. b + 2 * r >= e
  BY <1>1, <1>9
<1>3. ASSUME NEW j \in 1 .. r
      PROVE  /\ s[b + 2 * j - 2] = Printed(WordsAll[form.left + j], 16)
             /\ b + 2 * j - 2 < e
             /\ b + 2 * j - 1 = e \/ s[b + 2 * j - 1] = Colon
  <2>1. /\ form.left + j \in 1 .. 9 /\ b + 2 * j - 2 = g + 2 * j - 1
        /\ b + 2 * j - 1 = g + 2 * j
    BY <1>1, <1>9
  <2>2. s[g + 2 * j - 1] = Printed(WordsAll[form.left + j], 16)
    <3>1. s[g + 2 * j - 1] = Printed(Word(form.left + j), 16)
      BY DEF TextAt, g, r
    <3>2. WordsAll[form.left + j] = Word(form.left + j)
      BY <2>1, WordsAllLegal
    <3> QED BY <3>1, <3>2
  <2>3. b + 2 * j - 2 < e
    BY <1>1, <1>9
  <2>4. g + 2 * j = e \/ s[g + 2 * j] = Colon
    <3>1. CASE j < r
      <4>1. j \in 1 .. r - 1
        BY <1>1, <1>9, <3>1
      <4> QED BY <4>1 DEF TextAt, g, r
    <3>2. CASE j = r /\ form.quad
      <4>1. 1 \in 1 .. Joints(form) /\ RowEnd(form) + 1 = g + 2 * j
        <5>1. Joints(form) = 1
          BY <1>9, <3>2 DEF Joints, r
        <5> QED BY <1>1, <1>9, <3>2, <5>1
      <4>2. s[RowEnd(form) + 1] = Colon
        BY <4>1 DEF TextAt, g, r
      <4> QED BY <4>1, <4>2
    <3>3. CASE j = r /\ ~form.quad
      BY <1>1, <1>9, <3>3
    <3> QED BY <1>1, <1>9, <3>1, <3>2, <3>3
  <2> QED BY <2>1, <2>2, <2>3, <2>4
<1> QED BY <1>2, <1>3 DEF PrintedRow, b, e, r

\* The quad at the end.
LEMMA EndsInQuad ==
    ASSUME NEW form, form \in Forms, Meaningful(form), NEW s, TextAt(s, form),
           form.mistake # "trailing", form.quad
    PROVE  EndsWithQuad(s, Eow(form), <<1, 2, 3, 4>>)
<1> DEFINE o == <<1, 2, 3, 4>>
           eow == Eow(form)
<1>1. TailAt(form) \in Nat /\ eow = TailAt(form) + 1 /\ TextEnd(form) = eow + 6
  <2>1. Tails(form) = 7 /\ Trails(form) = 0
    BY DEF Tails, Trails
  <2>2. /\ form.left \in Nat /\ form.right \in Nat /\ Spread(form.left) \in Nat /\ Spread(form.right) \in Nat
        /\ Leads(form) \in Nat /\ Middles(form) \in Nat /\ Joints(form) \in Nat /\ Tails(form) \in Nat
    BY PartLengths
  <2> QED BY <2>1, <2>2, PartLengths
<1>2. Len(s) = eow + 6 /\ DOMAIN s = 1 .. eow + 6
  <2>1. IsText(s, TextEnd(form))
    BY DEF TextAt
  <2> QED BY <1>1, <2>1, TextPlaces
<1>3. IsOctets(o)
  <2>1. \A k \in 1 .. 4 : k = 1 \/ k = 2 \/ k = 3 \/ k = 4
    OBVIOUS
  <2>2. o[1] = 1 /\ o[2] = 2 /\ o[3] = 3 /\ o[4] = 4
    OBVIOUS
  <2> HIDE DEF o
  <2> QED BY <2>1, <2>2 DEF IsOctets
<1>4. \A j \in 1 .. 7 : s[eow + j - 1] = Quad(o)[j]
  <2> HIDE DEF eow
  <2> TAKE j \in 1 .. 7
  <2>1. TailAt(form) + j = eow + j - 1
    BY <1>1
  <2>2. s[TailAt(form) + j] = Quad(o)[j]
    BY DEF TextAt
  <2> QED BY <2>1, <2>2
<1>5. \A i \in 1 .. eow - 1 : s[i] # Dot
  <2>1. eow - 1 = TailAt(form)
    BY <1>1
  <2> QED BY <2>1, BeforeTail
<1>6. eow \in Nat \ {0}
  BY <1>1
<1> HIDE DEF o, eow
<1> QED BY <1>2, <1>3, <1>4, <1>5, <1>6 DEF EndsWithQuad, o, eow

\* Without a quad the words end with the text.
LEMMA EndsInWords ==
    ASSUME NEW form, form \in Forms, Meaningful(form), NEW s, TextAt(s, form),
           form.mistake # "trailing", ~form.quad
    PROVE  /\ TailAt(form) \in Nat /\ IsText(s, TailAt(form)) /\ TextEnd(form) = TailAt(form)
           /\ \A i \in DOMAIN s : s[i] # Dot
           /\ Len(s) + 1 = Eow(form)
<1>1. TextEnd(form) = TailAt(form) /\ TailAt(form) \in Nat /\ Eow(form) = TailAt(form) + 1
  <2>1. Tails(form) = 0 /\ Trails(form) = 0
    BY DEF Tails, Trails
  <2>2. /\ form.left \in Nat /\ form.right \in Nat /\ Spread(form.left) \in Nat /\ Spread(form.right) \in Nat
        /\ Leads(form) \in Nat /\ Middles(form) \in Nat /\ Joints(form) \in Nat /\ Tails(form) \in Nat
    BY PartLengths
  <2> QED BY <2>1, <2>2, PartLengths
<1>2. IsText(s, TailAt(form))
  BY <1>1 DEF TextAt
<1>3. Len(s) = TailAt(form) /\ DOMAIN s = 1 .. TailAt(form)
  BY <1>2, TextPlaces
<1>4. \A i \in DOMAIN s : s[i] # Dot
  BY <1>3, BeforeTail
<1> QED BY <1>1, <1>2, <1>3, <1>4

\* A text whose words are not read is refused.
LEMMA WrittenRefused ==
    ASSUME NEW form, form \in Forms, Meaningful(form), NEW s, TextAt(s, form),
           form.mistake # "trailing", \A quad : Outcome(ReadWords(s, Eow(form)), quad) = NULL
    PROVE  Pton(s) = NULL
<1>1. CASE form.quad
  <2> DEFINE o == <<1, 2, 3, 4>>
  <2>1. EndsWithQuad(s, Eow(form), o)
    BY <1>1, EndsInQuad
  <2> HIDE DEF o
  <2>2. Pton(s) = IF Is(s, Eow(form) - 1, Colon) THEN Outcome(ReadWords(s, Eow(form)), QuadWords(o)) ELSE NULL
    BY <2>1, PtonWithQuad
  <2> QED BY <2>2
<1>2. CASE ~form.quad
  <2>1. Len(s) + 1 = Eow(form) /\ \A i \in DOMAIN s : s[i] # Dot
    BY <1>2, EndsInWords
  <2> QED BY <2>1, PlainRefused
<1>3. form.quad \in BOOLEAN
  BY FormTypes
<1> QED BY <1>1, <1>2, <1>3

\* A text of len tokens whose words end before place eow.
Room(s, eow, len) ==
    /\ eow \in Nat \ {0} /\ len \in Nat /\ HasLen(s, len) /\ eow <= len + 1
    /\ \A i \in 1 .. eow - 1 : i \in DOMAIN s

\* The loop over a text with room for its words.
LEMMA RoomTurns ==
    ASSUME NEW s, NEW eow, NEW len, Room(s, eow, len)
    PROVE  /\ \E r : ReadTurns(s, eow, len, r)
           /\ eow \in Nat /\ len \in Nat /\ eow <= len + 1 /\ \A i \in 1 .. eow - 1 : i \in DOMAIN s
<1>1. eow \in Nat /\ len \in Nat /\ Len(s) = len
  BY DEF Room, HasLen
<1>2. \E r : ReadTurns(s, eow, len, r)
  BY <1>1, ReadSteps
<1> QED BY <1>1, <1>2 DEF Room

\* The first words of a row are a row.
LEMMA PartOfRow ==
    ASSUME NEW s, NEW eow, NEW p, NEW n \in Nat, NEW v, NEW m, PrintedRow(s, eow, p, n, v, m),
           NEW l \in Nat, l <= n
    PROVE  PrintedRow(s, eow, p, l, v, m)
<1>1. \A j \in 1 .. l : j \in 1 .. n
  OBVIOUS
<1> QED BY <1>1, Zenon DEF PrintedRow

\* The first words are read.
LEMMA PrintedRead ==
    ASSUME NEW s, NEW eow, NEW len, Room(s, eow, len), NEW r, ReadTurns(s, eow, len, r),
           NEW v, Legal(v), NEW n \in 0 .. 8, n <= len, PrintedRow(s, eow, 1, n, v, 0)
    PROVE  r[n] = StateAt(2 * n + 1, v, n, -1)
<1>1. Row(s, eow, 1, n, v, 0)
  <2> DEFINE one == 1
             zero == 0
  <2>1. one \in Nat \ {0} /\ zero \in Nat /\ zero + n <= 9 /\ PrintedRow(s, eow, one, n, v, zero)
        /\ eow \in Nat /\ n \in Nat /\ \A i \in 1 .. eow - 1 : i \in DOMAIN s
    BY RoomTurns
  <2> HIDE DEF one, zero
  <2>2. Row(s, eow, one, n, v, zero)
    BY <2>1, RowPrinted
  <2> QED BY <2>2 DEF one, zero
<1>2. \A i \in 1 .. n : v[i] \in Nat
  BY DEF Legal
<1> QED BY <1>1, <1>2, FirstRowRead

\* A text that begins with a single colon, or with too long a run.
LEMMA StartRefused ==
    ASSUME NEW s, NEW eow, NEW len, Room(s, eow, len), 1 < eow, NEW quad,
           \/ Is(s, 1, Colon) /\ ~Is(s, 2, Colon)
           \/ IsRun(s, 1) /\ ~(Len(s[1]) <= 4)
    PROVE  Outcome(ReadWords(s, eow), quad) = NULL
<1>1. PICK r : ReadTurns(s, eow, len, r)
  BY RoomTurns
<1>2. eow \in Nat /\ len \in Nat /\ eow <= len + 1
  BY RoomTurns
<1> DEFINE v == WordsAll
           m == 0
           q == -1
           p == 1
           k == 0
<1>3. Legal(v) /\ \A i \in 1 .. m + 1 : v[i] \in Nat
  <2>1. \A i \in 1 .. m + 1 : i \in 1 .. 9
    OBVIOUS
  <2> QED BY <2>1, WordsAllLegal
<1>4. r[k] = StateAt(p, v, m, q)
  <2>1. m \in 0 .. 8 /\ m <= len /\ 2 * m + 1 = p /\ m = k /\ -1 = q
    BY <1>2
  <2>2. PrintedRow(s, eow, 1, m, v, 0)
    BY DEF PrintedRow
  <2> HIDE DEF v, m, k, p, q
  <2>3. r[m] = StateAt(2 * m + 1, v, m, -1)
    BY <1>1, <1>3, <2>1, <2>2, PrintedRead
  <2> QED BY <2>1, <2>3
<1>5. /\ k \in Nat /\ k < len /\ p \in Nat /\ m \in Nat /\ q \in Int /\ p < eow
      /\ (Is(s, p, Colon) /\ m = 0 /\ ~Is(s, p + 1, Colon)) \/ (IsRun(s, p) /\ ~(Len(s[p]) <= 4))
  <2> DEFINE two == p + 1
  <2>1. two = 2
    OBVIOUS
  <2> HIDE DEF two
  <2>2. (Is(s, p, Colon) /\ m = 0 /\ ~Is(s, two, Colon)) \/ (IsRun(s, p) /\ ~(Len(s[p]) <= 4))
    BY <2>1, Zenon
  <2>3. k \in Nat /\ k < len /\ p \in Nat /\ m \in Nat /\ q \in Int /\ p < eow
    BY <1>2
  <2> QED BY <2>2, <2>3 DEF two
<1> HIDE DEF v, m, q, p, k
<1> QED BY <1>1, <1>3, <1>4, <1>5, Refused

\* Something behind eight words.
LEMMA EightRefused ==
    ASSUME NEW s, NEW eow, NEW len, Room(s, eow, len), 17 < eow, NEW quad,
           NEW v, Legal(v), PrintedRow(s, eow, 1, 8, v, 0)
    PROVE  Outcome(ReadWords(s, eow), quad) = NULL
<1>1. PICK r : ReadTurns(s, eow, len, r)
  BY RoomTurns
<1>2. eow \in Nat /\ len \in Nat /\ eow <= len + 1
  BY RoomTurns
<1> DEFINE m == 8
           q == -1
           p == 17
           k == 8
<1>3. \A i \in 1 .. m + 1 : v[i] \in Nat
  BY DEF Legal
<1>4. r[k] = StateAt(p, v, m, q)
  <2>1. m \in 0 .. 8 /\ m <= len /\ 2 * m + 1 = p /\ m = k /\ -1 = q /\ PrintedRow(s, eow, 1, m, v, 0)
    BY <1>2
  <2> HIDE DEF m, k, p, q
  <2>3. r[m] = StateAt(2 * m + 1, v, m, -1)
    BY <1>1, <2>1, PrintedRead
  <2> QED BY <2>1, <2>3
<1>5. k \in Nat /\ k < len /\ p \in Nat /\ m \in Nat /\ q \in Int /\ p < eow /\ m > 7
  BY <1>2
<1> HIDE DEF m, q, p, k
<1> QED BY <1>1, <1>3, <1>4, <1>5, Refused

\* Words and "::".
Gapped(s, eow, left, v) ==
    /\ left \in 0 .. 7 /\ Legal(v) /\ PrintedRow(s, eow, 1, left, v, 0)
    /\ 2 * left + 1 < eow /\ Is(s, 2 * left + 1, Colon) /\ (left = 0 => 2 < eow /\ Is(s, 2, Colon))

\* The loop reads the words before the gap, and the gap.
LEMMA GapRead ==
    ASSUME NEW s, NEW eow, NEW len, Room(s, eow, len), NEW r, ReadTurns(s, eow, len, r),
           NEW left, NEW v, Gapped(s, eow, left, v)
    PROVE  r[left + 1] = StateAt(Behind(left), v, left, left) /\ left + 1 <= len /\ left \in 0 .. 7
<1>1. eow \in Nat /\ len \in Nat /\ eow <= len + 1
  BY RoomTurns
<1>2. /\ left \in 0 .. 7 /\ Legal(v) /\ PrintedRow(s, eow, 1, left, v, 0)
      /\ 2 * left + 1 < eow /\ Is(s, 2 * left + 1, Colon) /\ (left = 0 => 2 < eow /\ Is(s, 2, Colon))
  BY DEF Gapped
<1>3. left \in 0 .. 8 /\ left <= len /\ left < len /\ left + 1 <= len
  BY <1>1, <1>2
<1>4. r[left] = StateAt(2 * left + 1, v, left, -1)
  BY <1>2, <1>3, PrintedRead
<1>5. \A i \in 1 .. left + 1 : v[i] \in Nat
  BY <1>2 DEF Legal
<1> QED BY <1>2, <1>3, <1>4, <1>5, GapStep

\* A third colon.
LEMMA ThirdRefused ==
    ASSUME NEW s, NEW eow, NEW len, Room(s, eow, len), NEW quad,
           NEW left, NEW v, Gapped(s, eow, left, v), Is(s, Behind(left), Colon), Behind(left) < eow
    PROVE  Outcome(ReadWords(s, eow), quad) = NULL
<1>1. PICK r : ReadTurns(s, eow, len, r)
  BY RoomTurns
<1> DEFINE k == left + 1
           p == Behind(left)
<1>2. r[k] = StateAt(p, v, left, left) /\ left \in 0 .. 7
  BY <1>1, GapRead
<1>3. eow \in Nat /\ len \in Nat /\ eow <= len + 1
  BY RoomTurns
<1>4. /\ k \in Nat /\ k < len /\ p \in Nat /\ left \in Nat /\ left \in Int /\ p < eow
      /\ Is(s, p, Colon) /\ left # -1
  BY <1>2, <1>3 DEF Behind
<1>5. \A i \in 1 .. left + 1 : v[i] \in Nat
  BY <1>2 DEF Gapped, Legal
<1> HIDE DEF k, p
<1> QED BY <1>1, <1>2, <1>4, <1>5, Refused

\* Nine words, and "::".
LEMMA NineRefused ==
    ASSUME NEW s, NEW eow, NEW len, Room(s, eow, len), NEW quad,
           NEW left, NEW v, Gapped(s, eow, left, v), PrintedRow(s, eow, Behind(left), 9 - left, v, left)
    PROVE  Outcome(ReadWords(s, eow), quad) = NULL
<1>1. PICK r : ReadTurns(s, eow, len, r)
  BY RoomTurns
<1> DEFINE k == left + 1
           h == Behind(left)
           n == 8 - left
           p == h + 2 * n
           m == 8
<1>2. r[k] = StateAt(h, v, left, left) /\ left \in 0 .. 7
  BY <1>1, GapRead
<1>3. eow \in Nat /\ len \in Nat /\ eow <= len + 1 /\ \A i \in 1 .. eow - 1 : i \in DOMAIN s
  BY RoomTurns
<1>4. Legal(v)
  BY DEF Gapped
<1>5. /\ h \in Nat \ {0} /\ n \in Nat /\ left \in Nat /\ left + n = m /\ left + n <= 8 /\ left + n <= 9
      /\ k \in Nat /\ k + n = 9 /\ p \in Nat /\ h >= left + 3 /\ p = h + 2 * (9 - left) - 2 /\ p >= 18
      /\ 9 - left \in Nat /\ n <= 9 - left /\ 9 - left \in 1 .. 9 - left /\ left <= 7
  BY <1>2 DEF Behind
<1>6. p < eow
  <2> DEFINE j == 9 - left
  <2>1. \A i \in 1 .. 9 - left : h + 2 * i - 2 < eow
    BY DEF PrintedRow
  <2>2. h + 2 * j - 2 < eow
    BY <1>5, <2>1
  <2> HIDE DEF h, p
  <2> QED BY <1>5, <2>2
<1>7. Row(s, eow, h, n, v, left)
  <2>1. PrintedRow(s, eow, h, n, v, left)
    <3> DEFINE j == 9 - left
    <3>1. PrintedRow(s, eow, h, j, v, left) /\ j \in Nat /\ n <= j /\ n \in Nat
      BY <1>5
    <3> HIDE DEF j, n, h
    <3> QED BY <3>1, PartOfRow
  <2> HIDE DEF h, n
  <2> QED BY <1>3, <1>4, <1>5, <2>1, RowPrinted
<1>8. \A i \in 1 .. left + n : v[i] \in Nat
  BY <1>4, <1>5 DEF Legal
<1>9. k + n <= len
  BY <1>3, <1>5, <1>6
<1>10. r[k + n] = StateAt(p, v, m, left)
  <2> HIDE DEF k, h, n
  <2>1. r[k + n] = StateAt(h + 2 * n, v, left + n, left)
    BY <1>1, <1>2, <1>5, <1>7, <1>8, <1>9, RowRead
  <2> QED BY <1>5, <2>1
<1> DEFINE l == k + n
<1>11. l \in Nat /\ l < len /\ m \in Nat /\ m > 7 /\ left \in Int /\ \A i \in 1 .. m + 1 : v[i] \in Nat
  BY <1>3, <1>4, <1>5, <1>6 DEF Legal
<1> HIDE DEF l, p, m
<1> QED BY <1>1, <1>5, <1>6, <1>10, <1>11, Refused DEF l

\* Two of the tokens.
LEMMA TextLenTwo ==
    ASSUME NEW s, NEW n, IsText(s, n), NEW i, i \in 1 .. n - 1
    PROVE  /\ TextLen(s) \in Nat /\ Len(s[i]) \in Nat /\ Len(s[n]) \in Nat
           /\ TextLen(s) >= Len(s[i]) + Len(s[n])
<1>1. n \in Nat /\ n >= 1 /\ Len(s) = n /\ \A j \in 1 .. n : s[j] \in Seq(Nat)
  <2> DEFINE T == Seq(Nat)
  <2>1. s \in Seq(T) /\ n \in Nat /\ Len(s) = n
    BY DEF IsText, Tokens, Token
  <2> HIDE DEF T
  <2>2. n >= 1 /\ \A j \in 1 .. n : s[j] \in T
    BY <2>1
  <2> QED BY <2>1, <2>2 DEF T
<1>2. PICK sum \in [1 .. n -> Nat] :
         /\ TextLen(s) = sum[n] /\ sum[1] = Len(s[1])
         /\ \A j \in 2 .. n : sum[j] = sum[j - 1] + Len(s[j])
  BY <1>1, TextLenSum
<1> DEFINE L(j) == Len(s[j])
<1>3. \A j \in 1 .. n : L(j) \in Nat
  BY <1>1
<1> HIDE DEF L
<1>4. /\ sum[1] = L(1) /\ \A j \in 2 .. n : sum[j] = sum[j - 1] + L(j)
  BY <1>2 DEF L
<1> DEFINE T == {k \in Nat : k \in 1 .. n /\ sum[k] >= L(i)}
<1>5. i \in T
  <2>1. CASE i = 1
    <3>1. 1 \in 1 .. n /\ i \in Nat
      BY <1>1
    <3>2. sum[1] = L(1) /\ L(1) \in Nat
      BY <1>3, <1>4, <3>1
    <3>3. sum[1] >= L(1)
      BY <3>2
    <3>4. sum[i] >= L(i) /\ i \in 1 .. n
      BY <2>1, <3>1, <3>3
    <3> QED BY <3>1, <3>4
  <2>2. CASE i # 1
    <3>1. i \in 2 .. n /\ i - 1 \in 1 .. n
      BY <1>1, <2>2
    <3>2. sum[i] = sum[i - 1] + L(i) /\ sum[i - 1] \in Nat /\ L(i) \in Nat
      BY <1>3, <1>4, <3>1
    <3> QED BY <3>1, <3>2
  <2> QED BY <2>1, <2>2
<1>6. \A k \in Nat : i <= k /\ k < n /\ k \in T => k + 1 \in T
  <2> TAKE k \in Nat
  <2> HAVE i <= k /\ k < n /\ k \in T
  <2>1. k + 1 \in 2 .. n /\ (k + 1) - 1 = k /\ k \in 1 .. n /\ k + 1 \in 1 .. n
    BY <1>1
  <2>2. sum[k + 1] = sum[k] + L(k + 1) /\ L(k + 1) \in Nat /\ sum[k] \in Nat /\ sum[k] >= L(i)
    BY <1>3, <1>4, <2>1
  <2>3. L(i) \in Nat
    BY <1>1, <1>3
  <2> QED BY <2>1, <2>2, <2>3
<1>7. n - 1 \in T
  <2> HIDE DEF T
  <2>1. i \in Nat /\ n \in Nat /\ n - 1 \in Nat /\ i <= n - 1 /\ n - 1 <= n
    BY <1>1
  <2>2. \A k \in Nat : i <= k /\ k <= n => k \in T
    BY <1>5, <1>6, <2>1, Reached
  <2> QED BY <2>1, <2>2
<1>8. n \in 2 .. n /\ n \in 1 .. n /\ i \in 1 .. n
  BY <1>1
<1>9. sum[n] = sum[n - 1] + L(n) /\ sum[n - 1] >= L(i) /\ sum[n] \in Nat /\ sum[n - 1] \in Nat /\ L(i) \in Nat /\ L(n) \in Nat
  BY <1>3, <1>4, <1>7, <1>8
<1>10. sum[n] >= L(i) + L(n)
  BY <1>9
<1> QED BY <1>2, <1>9, <1>10, Zenon DEF L

\* A single colon at the end.
LEMMA TrailingRefused ==
    ASSUME NEW form, form \in Forms, Meaningful(form), NEW s, TextAt(s, form), form.mistake = "trailing"
    PROVE  Pton(s) = NULL
<1> DEFINE n == TextEnd(form)
           e == TailEnd(form)
           l == form.left
           r == form.right
           g == GapEnd(form)
<1>1. /\ l \in Nat /\ r \in Nat /\ l + r <= 9
      /\ r > 0 \/ (r = 0 /\ l > 0 /\ ~form.gap /\ ~form.quad)
  BY FormTypes
<1>2. /\ g \in Nat /\ e \in Nat /\ n = e + 1 /\ Leads(form) = 0
      /\ (r > 0 /\ ~form.quad => e = g + 2 * r - 1)
      /\ (r > 0 /\ form.quad => e >= g + 2 * r - 1 /\ e = TailAt(form) + 7)
      /\ (r = 0 => e = 2 * l - 1)
  <2>1. Leads(form) = 0 /\ Trails(form) = 1
    BY DEF Leads, Trails
  <2>2. CASE r > 0
    <3>1. Spread(r) = 2 * r - 1 /\ Spread(l) \in Nat
      BY <1>1, <2>2 DEF Spread
    <3>2. /\ Middles(form) \in Nat /\ (~form.quad => Joints(form) = 0 /\ Tails(form) = 0)
          /\ (form.quad => Joints(form) = 1 /\ Tails(form) = 7)
      BY <1>1, <2>2 DEF Joints, Tails, Middles
    <3>3. /\ g = Leads(form) + Spread(l) + Middles(form)
          /\ TailAt(form) = g + Spread(r) + Joints(form)
          /\ e = TailAt(form) + Tails(form) /\ n = e + Trails(form)
      BY PartLengths
    <3> HIDE DEF g, e, n, r, l
    <3>4. form.quad \in BOOLEAN
      BY FormTypes
    <3>5. CASE form.quad
      <4>1. /\ g \in Nat /\ e \in Nat /\ n = e + 1 /\ e = g + 2 * r + 7
            /\ e >= g + 2 * r - 1 /\ e = TailAt(form) + 7
        BY <1>1, <2>1, <2>2, <3>1, <3>2, <3>3, <3>5
      <4> QED BY <1>1, <2>1, <2>2, <3>5, <4>1
    <3>6. CASE ~form.quad
      <4>1. g \in Nat /\ e \in Nat /\ n = e + 1 /\ e = g + 2 * r - 1
        BY <1>1, <2>1, <2>2, <3>1, <3>2, <3>3, <3>6
      <4> QED BY <1>1, <2>1, <2>2, <3>6, <4>1
    <3> QED BY <3>4, <3>5, <3>6
  <2>3. CASE r = 0
    <3>1. Spread(r) = 0 /\ Spread(l) = 2 * l - 1 /\ l > 0
      BY <1>1, <2>3 DEF Spread
    <3>2. Middles(form) = 0 /\ Joints(form) = 0 /\ Tails(form) = 0
      BY <1>1, <2>3 DEF Joints, Tails, Middles
    <3>3. /\ g = Leads(form) + Spread(l) + Middles(form)
          /\ TailAt(form) = g + Spread(r) + Joints(form)
          /\ e = TailAt(form) + Tails(form) /\ n = e + Trails(form)
      BY PartLengths
    <3> HIDE DEF g, e, n, r, l
    <3> QED BY <1>1, <2>1, <2>3, <3>1, <3>2, <3>3
  <2> QED BY <1>1, <2>2, <2>3
<1>3. /\ IsText(s, n)
      /\ \A k \in 1 .. l : s[Leads(form) + 2 * k - 1] = Printed(Word(k), 16)
      /\ \A k \in 1 .. r : s[g + 2 * k - 1] = Printed(Word(l + k), 16)
      /\ \A k \in 1 .. Trails(form) : s[e + k] = Colon
      /\ form.quad => \A k \in 1 .. 7 : s[TailAt(form) + k] = Quad(<<1, 2, 3, 4>>)[k]
  BY DEF TextAt
<1> HIDE DEF n, e, l, r, g
<1>4. s[n] = Colon
  <2>1. 1 \in 1 .. Trails(form)
    BY DEF Trails
  <2> QED BY <1>2, <1>3, <2>1
<1>5. \E i \in 1 .. n - 1, w \in 1 .. 9 : s[i] = Printed(Word(w), 16)
  <2>1. CASE r > 0
    <3>1. 1 \in 1 .. r /\ l + 1 \in 1 .. 9 /\ g + 2 * 1 - 1 = g + 1 /\ g + 1 \in 1 .. n - 1
      BY <1>1, <1>2, <2>1, FormTypes
    <3>2. s[g + 1] = Printed(Word(l + 1), 16)
      BY <1>3, <3>1
    <3> QED BY <3>1, <3>2
  <2>2. CASE r = 0
    <3>1. 1 \in 1 .. l /\ Leads(form) + 2 * 1 - 1 = 1 /\ 1 \in 1 .. n - 1 /\ 1 \in 1 .. 9
      BY <1>1, <1>2, <2>2
    <3>2. s[1] = Printed(Word(1), 16)
      BY <1>3, <3>1
    <3> QED BY <3>1, <3>2
  <2> QED BY <1>1, <2>1, <2>2
<1>6. s[n - 1] # Colon
  <2>1. CASE r > 0 /\ ~form.quad
    <3>1. r \in 1 .. r /\ l + r \in 1 .. 9 /\ g + 2 * r - 1 = n - 1
      BY <1>1, <1>2, <2>1
    <3>2. s[n - 1] = Printed(Word(l + r), 16)
      BY <1>3, <3>1
    <3> QED BY <3>1, <3>2, WordPrinted
  <2>2. CASE r = 0
    <3>1. l \in 1 .. l /\ l \in 1 .. 9 /\ Leads(form) + 2 * l - 1 = n - 1
      BY <1>1, <1>2, <2>2
    <3>2. s[n - 1] = Printed(Word(l), 16)
      BY <1>3, <3>1
    <3> QED BY <3>1, <3>2, WordPrinted
  <2>3. CASE r > 0 /\ form.quad
    <3> DEFINE o == <<1, 2, 3, 4>>
    <3>1. 7 \in 1 .. 7 /\ TailAt(form) + 7 = n - 1
      BY <1>1, <1>2, <2>3
    <3>2. s[n - 1] = Quad(o)[7]
      BY <1>3, <2>3, <3>1
    <3>3. IsOctets(o)
      <4>1. \A k \in 1 .. 4 : k = 1 \/ k = 2 \/ k = 3 \/ k = 4
        OBVIOUS
      <4>2. o[1] = 1 /\ o[2] = 2 /\ o[3] = 3 /\ o[4] = 4
        OBVIOUS
      <4> HIDE DEF o
      <4> QED BY <4>1, <4>2 DEF IsOctets
    <3> HIDE DEF o
    <3>4. DecimalRun(Quad(o)[7])
      <4>1. 4 \in 1 .. 4 /\ 2 * 4 - 1 = 7
        OBVIOUS
      <4>2. DecimalRun(Quad(o)[2 * 4 - 1])
        BY <3>3, <4>1, QuadTokens
      <4> QED BY <4>1, <4>2
    <3> QED BY <3>2, <3>4, DecimalIsRun
  <2>4. form.quad \in BOOLEAN
    BY FormTypes
  <2> QED BY <1>1, <2>1, <2>2, <2>3, <2>4
<1>7. TextLen(s) > 2
  <2>1. PICK i \in 1 .. n - 1, w \in 1 .. 9 : s[i] = Printed(Word(w), 16)
    BY <1>5
  <2>2. /\ TextLen(s) \in Nat /\ Len(s[i]) \in Nat /\ Len(s[n]) \in Nat
        /\ TextLen(s) >= Len(s[i]) + Len(s[n])
    BY <1>3, TextLenTwo
  <2>3. Len(s[n]) = 1
    BY <1>4, ColonIsNotDot
  <2>4. Len(s[i]) >= 2
    BY <2>1, WordPrinted
  <2> QED BY <2>2, <2>3, <2>4
<1>8. Len(s) = n /\ n \in DOMAIN s
  BY <1>2, <1>3, TextPlaces
<1>9. Is(s, Len(s), Colon) /\ ~Is(s, Len(s) - 1, Colon)
  BY <1>4, <1>6, <1>8, Zenon DEF Is
<1> QED BY <1>7, <1>9, PtonTrailing

\* The text of a form has room for its words.
LEMMA FormRoom ==
    ASSUME NEW form, form \in Forms, Meaningful(form), NEW s, TextAt(s, form), form.mistake # "trailing"
    PROVE  /\ TailAt(form) \in Nat /\ Eow(form) = TailAt(form) + 1
           /\ \E len : Room(s, Eow(form), len)
           /\ \A i \in 1 .. TailAt(form) : i \in DOMAIN s
<1> DEFINE t == TailAt(form)
           eow == Eow(form)
<1>1. form.quad \in BOOLEAN
  BY FormTypes
<1>2. CASE form.quad
  <2> DEFINE o == <<1, 2, 3, 4>>
  <2>1. EndsWithQuad(s, eow, o)
    BY <1>2, EndsInQuad
  <2> HIDE DEF o
  <2>2. eow \in Nat \ {0} /\ Len(s) = eow + 6 /\ DOMAIN s = 1 .. eow + 6
    BY <2>1 DEF EndsWithQuad
  <2>3. Eow(form) = t + 1 /\ t \in Nat
    <3>1. Eow(form) = t + 1 /\ /\ form.left \in Nat /\ form.right \in Nat /\ Spread(form.left) \in Nat /\ Spread(form.right) \in Nat
        /\ Leads(form) \in Nat /\ Middles(form) \in Nat /\ Joints(form) \in Nat
      BY PartLengths
    <3> QED BY <3>1, PartLengths
  <2> HIDE DEF eow, t
  <2>4. Room(s, eow, eow + 6)
    BY <2>2 DEF Room, HasLen
  <2>5. \A i \in 1 .. t : i \in DOMAIN s
    BY <2>2, <2>3 DEF eow
  <2> QED BY <2>3, <2>4, <2>5 DEF eow, t
<1>3. CASE ~form.quad
  <2>1. t \in Nat /\ IsText(s, t) /\ Len(s) + 1 = eow
    BY <1>3, EndsInWords
  <2>2. Len(s) = t /\ DOMAIN s = 1 .. t
    BY <2>1, TextPlaces
  <2> HIDE DEF eow, t
  <2>3. eow = t + 1
    BY <2>1, <2>2
  <2>4. Room(s, eow, t)
    BY <2>1, <2>2, <2>3 DEF Room, HasLen
  <2> QED BY <2>1, <2>2, <2>3, <2>4 DEF eow, t
<1> QED BY <1>1, <1>2, <1>3

\* A form's text that begins with a colon, or with too long a run.
LEMMA StartOfForm ==
    ASSUME NEW form, form \in Forms, Meaningful(form), NEW s, TextAt(s, form), form.mistake \in {"leading", "long"}
    PROVE  Pton(s) = NULL
<1>1. TailAt(form) \in Nat /\ Eow(form) = TailAt(form) + 1 /\ \A i \in 1 .. TailAt(form) : i \in DOMAIN s
  BY FormRoom
<1>2. PICK len : Room(s, Eow(form), len)
  BY FormRoom
<1>3. form.left \in Nat /\ form.left > 0
  BY FormTypes
<1>4. TailAt(form) >= Leads(form) + 1 /\ Leads(form) \in Nat
  <2>1. /\ Spread(form.left) \in Nat /\ Spread(form.left) >= 1 /\ Spread(form.right) \in Nat
        /\ Leads(form) \in Nat /\ Middles(form) \in Nat /\ Joints(form) \in Nat
    BY <1>3, PartLengths
  <2>2. TailAt(form) = Leads(form) + Spread(form.left) + Middles(form) + Spread(form.right) + Joints(form)
    BY PartLengths
  <2> QED BY <2>1, <2>2
<1>5. ASSUME NEW quad PROVE Outcome(ReadWords(s, Eow(form)), quad) = NULL
  <2>1. 1 < Eow(form) /\ 1 \in DOMAIN s
    BY <1>1, <1>4
  <2>2. CASE form.mistake = "leading"
    <3>1. Leads(form) = 1 /\ 1 \in 1 .. form.left /\ Leads(form) + 2 * 1 - 1 = 2 /\ 1 \in 1 .. 9
      BY <1>3, <2>2 DEF Leads
    <3>2. s[Leads(form) + 2 * 1 - 1] = Printed(Word(1), 16)
      BY <2>2, <3>1 DEF TextAt
    <3>3. s[1] = Colon
      BY <2>2 DEF TextAt
    <3>4. Is(s, 1, Colon) /\ ~Is(s, 2, Colon)
      <4>1. s[2] # Colon
        BY <3>1, <3>2, WordPrinted
      <4> QED BY <2>1, <3>3, <4>1, Zenon DEF Is
    <3> QED BY <1>2, <2>1, <3>4, StartRefused
  <2>3. CASE form.mistake = "long"
    <3>1. s[1] = Long(Printed(Word(1), 16))
      BY <2>3 DEF TextAt
    <3>2. 1 \in 1 .. 9
      OBVIOUS
    <3>3. s[1] # Colon /\ s[1] # Dot /\ ~(Len(s[1]) <= 4)
      <4> DEFINE x == Printed(Word(1), 16)
      <4>1. x \in Token /\ Len(x) \in Nat /\ Len(x) >= 2
        BY <3>2, WordPrinted
      <4> HIDE DEF x
      <4>2. Long(x) # Colon /\ Long(x) # Dot /\ ~(Len(Long(x)) <= 4)
        BY <4>1, LongToken
      <4> QED BY <3>1, <4>2 DEF x
    <3>4. IsRun(s, 1)
      BY <2>1, <3>3 DEF IsRun
    <3> QED BY <1>2, <2>1, <3>3, <3>4, StartRefused
  <2> QED BY <2>2, <2>3
<1> QED BY <1>5, WrittenRefused

\* The gap of a form.
LEMMA FormGap ==
    ASSUME NEW form, form \in Forms, Meaningful(form), NEW s, TextAt(s, form),
           form.mistake \in {"none", "colons"}, form.gap, form.left <= 7
    PROVE  /\ Gapped(s, Eow(form), form.left, WordsAll)
           /\ form.mistake = "colons" => Is(s, Behind(form.left), Colon) /\ Behind(form.left) < Eow(form)
<1> DEFINE l == form.left
           f == FrontEnd(form)
           m == Middles(form)
           e == Eow(form)
           b == Behind(l)
<1>1. l \in Nat /\ l \in 0 .. 7
  BY FormTypes
<1>2. m = (IF form.mistake = "colons" THEN 3 ELSE 2) /\ f \in Nat /\ (l = 0 => f = 0) /\ (l > 0 => f = 2 * l - 1)
      /\ e >= f + m + 1 /\ e \in Nat
  <2>1. m = (IF form.mistake = "colons" THEN 3 ELSE 2) /\ Leads(form) = 0
    BY DEF Leads, Middles
  <2>2. (l = 0 => Spread(l) = 0) /\ (l > 0 => Spread(l) = 2 * l - 1) /\ Spread(l) \in Nat
    BY <1>1 DEF Spread
  <2>3. /\ Spread(form.right) \in Nat /\ Joints(form) \in Nat /\ m \in Nat
        /\ f = Leads(form) + Spread(l) /\ e = f + m + Spread(form.right) + Joints(form) + 1
    BY PartLengths
  <2> HIDE DEF l, f, m, e
  <2>4. f = Spread(l)
    BY <2>1, <2>2, <2>3
  <2> QED BY <2>1, <2>2, <2>3, <2>4
<1>3. \A k \in 1 .. m : s[f + k] = Colon
  BY DEF TextAt
<1>4. \A i \in 1 .. e - 1 : i \in DOMAIN s
  <2>1. e = TailAt(form) + 1 /\ TailAt(form) \in Nat /\ \A i \in 1 .. TailAt(form) : i \in DOMAIN s
    BY FormRoom
  <2>2. e - 1 = TailAt(form)
    BY <2>1
  <2> QED BY <2>1, <2>2
<1>5. PrintedRow(s, e, 1, l, WordsAll, 0)
  BY FrontRow
<1> HIDE DEF l, f, m, e
<1>6. 2 * l + 1 < e /\ s[2 * l + 1] = Colon /\ (l = 0 => 2 < e /\ s[2] = Colon)
  <2>1. CASE l = 0
    <3>1. 1 \in 1 .. m /\ 2 \in 1 .. m /\ f + 1 = 1 /\ f + 2 = 2 /\ 2 * l + 1 = 1
      BY <1>1, <1>2, <2>1
    <3>2. s[f + 1] = Colon /\ s[f + 2] = Colon
      BY <1>3, <3>1
    <3> QED BY <1>2, <2>1, <3>1, <3>2
  <2>2. CASE l # 0
    <3>1. 2 \in 1 .. m /\ f + 2 = 2 * l + 1
      BY <1>1, <1>2, <2>2
    <3>2. s[f + 2] = Colon
      BY <1>3, <3>1
    <3> QED BY <1>1, <1>2, <2>2, <3>1, <3>2
  <2> QED BY <2>1, <2>2
<1>7. Is(s, 2 * l + 1, Colon) /\ (l = 0 => Is(s, 2, Colon))
  <2>1. 2 * l + 1 \in 1 .. e - 1 /\ (l = 0 => 2 \in 1 .. e - 1)
    BY <1>1, <1>2, <1>6
  <2> QED BY <1>4, <1>6, <2>1 DEF Is
<1>8. form.mistake = "colons" => Is(s, b, Colon) /\ b < e
  <2> HAVE form.mistake = "colons"
  <2>1. 3 \in 1 .. m /\ f + 3 = b /\ b \in 1 .. e - 1
    <3>1. CASE l = 0
      <4>1. b = 3
        BY <3>1 DEF Behind
      <4> HIDE DEF b
      <4> QED BY <1>2, <3>1, <4>1
    <3>2. CASE l # 0
      <4>1. b = 2 * l + 2
        BY <3>2 DEF Behind
      <4> HIDE DEF b
      <4> QED BY <1>1, <1>2, <3>2, <4>1
    <3> QED BY <3>1, <3>2
  <2>2. s[f + 3] = Colon
    BY <1>3, <2>1
  <2> HIDE DEF b
  <2>3. b < e
    BY <1>2, <2>1
  <2> QED BY <1>4, <2>1, <2>2, <2>3 DEF Is
<1> QED BY <1>1, <1>5, <1>6, <1>7, <1>8, WordsAllLegal DEF Gapped, l, e

\* Three colons.
LEMMA ColonsOfForm ==
    ASSUME NEW form, form \in Forms, Meaningful(form), NEW s, TextAt(s, form),
           form.mistake = "colons", form.left <= 7
    PROVE  Pton(s) = NULL
<1>1. form.gap
  BY FormTypes
<1>2. PICK len : Room(s, Eow(form), len)
  BY FormRoom
<1>3. /\ Gapped(s, Eow(form), form.left, WordsAll)
      /\ Is(s, Behind(form.left), Colon) /\ Behind(form.left) < Eow(form)
  BY <1>1, FormGap
<1>4. ASSUME NEW quad PROVE Outcome(ReadWords(s, Eow(form)), quad) = NULL
  BY <1>2, <1>3, ThirdRefused
<1> QED BY <1>4, WrittenRefused

\* Something behind eight words.
LEMMA EightOfForm ==
    ASSUME NEW form, form \in Forms, Meaningful(form), NEW s, TextAt(s, form),
           form.mistake \in {"none", "colons"}, form.left = 9 \/ (form.left = 8 /\ form.gap)
    PROVE  Pton(s) = NULL
<1>1. PICK len : Room(s, Eow(form), len)
  BY FormRoom
<1>2. PrintedRow(s, Eow(form), 1, form.left, WordsAll, 0)
  BY FrontRow
<1>3. PrintedRow(s, Eow(form), 1, 8, WordsAll, 0)
  <2> DEFINE n == form.left
             l == 8
             zero == 0
             one == 1
  <2>1. n \in Nat /\ l \in Nat /\ l <= n /\ PrintedRow(s, Eow(form), one, n, WordsAll, zero)
    BY <1>2
  <2> HIDE DEF n, l, zero, one
  <2>2. PrintedRow(s, Eow(form), one, l, WordsAll, zero)
    BY <2>1, PartOfRow
  <2> QED BY <2>2 DEF l, zero, one
<1>4. 17 < Eow(form)
  <2>1. Leads(form) = 0 /\ (form.gap => Middles(form) >= 2)
    BY DEF Leads, Middles
  <2>2. /\ Spread(form.left) = 2 * form.left - 1 /\ Spread(form.right) \in Nat
        /\ Middles(form) \in Nat /\ Joints(form) \in Nat
    BY PartLengths
  <2>3. Eow(form) = Leads(form) + Spread(form.left) + Middles(form) + Spread(form.right) + Joints(form) + 1
    BY PartLengths
  <2>4. CASE form.left = 9
    <3>1. Spread(form.left) = 17
      BY <2>2, <2>4
    <3> QED BY <2>1, <2>2, <2>3, <3>1
  <2>5. CASE form.left = 8 /\ form.gap
    <3>1. Spread(form.left) = 15 /\ Middles(form) >= 2
      BY <2>1, <2>2, <2>5
    <3> QED BY <2>1, <2>2, <2>3, <3>1
  <2> QED BY <2>4, <2>5
<1>5. ASSUME NEW quad PROVE Outcome(ReadWords(s, Eow(form)), quad) = NULL
  BY <1>1, <1>3, <1>4, WordsAllLegal, EightRefused
<1> QED BY <1>5, WrittenRefused

\* Nine words, some of them behind the gap.
LEMMA NineOfForm ==
    ASSUME NEW form, form \in Forms, Meaningful(form), NEW s, TextAt(s, form),
           form.mistake = "none", form.gap, form.left <= 7, form.left + form.right = 9
    PROVE  Pton(s) = NULL
<1>1. PICK len : Room(s, Eow(form), len)
  BY FormRoom
<1>2. Gapped(s, Eow(form), form.left, WordsAll)
  BY FormGap
<1>3. form.right = 9 - form.left
  BY FormTypes
<1>4. PrintedRow(s, Eow(form), Behind(form.left), form.right, WordsAll, form.left)
  BY BackRow
<1>5. PrintedRow(s, Eow(form), Behind(form.left), 9 - form.left, WordsAll, form.left)
  BY <1>3, <1>4
<1>6. ASSUME NEW quad PROVE Outcome(ReadWords(s, Eow(form)), quad) = NULL
  <2> DEFINE l == form.left
             e == Eow(form)
  <2>1. Gapped(s, e, l, WordsAll) /\ PrintedRow(s, e, Behind(l), 9 - l, WordsAll, l) /\ Room(s, e, len)
    BY <1>1, <1>2, <1>5
  <2> HIDE DEF l, e
  <2>2. Outcome(ReadWords(s, e), quad) = NULL
    BY <2>1, NineRefused
  <2> QED BY <2>2 DEF e
<1> QED BY <1>6, WrittenRefused

\* A form without a mistake, and with room for its words.
Sound(form) ==
    /\ form \in Forms /\ Meaningful(form) /\ form.mistake = "none"
    /\ form.left + form.right <= 8 /\ (form.gap => form.left <= 7)

\* The places of its parts.
SoundAt(form, l, r, f, g, e, t) ==
    /\ l = form.left /\ r = form.right /\ f = FrontEnd(form) /\ g = GapEnd(form)
    /\ e = RowEnd(form) /\ t = TailAt(form)
    /\ l \in Nat /\ r \in Nat /\ l + r <= 8
    /\ f \in Nat /\ (l = 0 => f = 0) /\ (l > 0 => f = 2 * l - 1)
    /\ (form.gap => g = f + 2)
    /\ (~form.gap => r = 0 /\ g = f + (IF l > 0 /\ form.quad THEN 1 ELSE 0))
    /\ e \in Nat /\ (r = 0 => e = g) /\ (r > 0 => e = g + 2 * r - 1)
    /\ (t = e + (IF r > 0 /\ form.quad THEN 1 ELSE 0)) /\ t \in Nat

\* A form without a mistake has all its places.
LEMMA SoundPlaces ==
    ASSUME NEW form, Sound(form)
    PROVE  \E l, r, f, g, e, t : SoundAt(form, l, r, f, g, e, t)
<1> DEFINE l == form.left
           r == form.right
           f == FrontEnd(form)
           g == GapEnd(form)
           e == RowEnd(form)
           t == TailAt(form)
<1>0. form \in Forms /\ Meaningful(form) /\ form.mistake = "none" /\ l + r <= 8
  BY DEF Sound
<1>1. /\ l \in Nat /\ r \in Nat /\ form.gap \in BOOLEAN /\ form.quad \in BOOLEAN /\ (~form.gap => r = 0)
  BY <1>0, FormTypes
<1>2. /\ f = Leads(form) + Spread(l) /\ g = f + Middles(form) /\ e = g + Spread(r) /\ t = e + Joints(form)
  BY <1>0, PartLengths
<1>3. /\ Leads(form) = 0
      /\ (form.gap => Middles(form) = 2)
      /\ (~form.gap => Middles(form) = IF l # 0 /\ form.quad THEN 1 ELSE 0)
      /\ Joints(form) = IF r # 0 /\ form.quad THEN 1 ELSE 0
  BY <1>0, <1>1 DEF Leads, Middles, Joints
<1>4. /\ (l = 0 => Spread(l) = 0) /\ (l > 0 => Spread(l) = 2 * l - 1)
      /\ (r = 0 => Spread(r) = 0) /\ (r > 0 => Spread(r) = 2 * r - 1)
  BY DEF Spread
<1> HIDE DEF l, r, f, g, e, t
<1>5. f \in Nat /\ (l = 0 => f = 0) /\ (l > 0 => f = 2 * l - 1)
  BY <1>1, <1>2, <1>3, <1>4
<1>6. g \in Nat /\ (form.gap => g = f + 2)
              /\ (~form.gap => r = 0 /\ g = f + (IF l > 0 /\ form.quad THEN 1 ELSE 0))
  BY <1>1, <1>2, <1>3, <1>5
<1>7. e \in Nat /\ (r = 0 => e = g) /\ (r > 0 => e = g + 2 * r - 1)
  BY <1>1, <1>2, <1>4, <1>6
<1>8. (t = e + (IF r > 0 /\ form.quad THEN 1 ELSE 0)) /\ t \in Nat
  BY <1>1, <1>2, <1>3, <1>7
<1>9. l = form.left /\ r = form.right /\ f = FrontEnd(form) /\ g = GapEnd(form) /\ e = RowEnd(form) /\ t = TailAt(form)
  BY DEF l, r, f, g, e, t
<1> QED BY <1>0, <1>1, <1>5, <1>6, <1>7, <1>8, <1>9 DEF SoundAt

\* The text of a form without a mistake has the shape the form says.
LEMMA ShapeOfForm ==
    ASSUME NEW form, Sound(form), NEW s, TextAt(s, form)
    PROVE  Shape(s, Eow(form), form.left, form.gap, form.right, WordsAll)
<1>0. /\ form \in Forms /\ Meaningful(form) /\ form.mistake = "none"
      /\ form.left + form.right <= 8 /\ (form.gap => form.left <= 7)
  BY DEF Sound
<1>1. /\ form.left \in Nat /\ form.right \in Nat /\ form.gap \in BOOLEAN /\ form.quad \in BOOLEAN
      /\ (~form.gap => form.right = 0)
  BY <1>0, FormTypes
<1>2. Eow(form) = TailAt(form) + 1 /\ TailAt(form) \in Nat /\ \A i \in 1 .. TailAt(form) : i \in DOMAIN s
  BY <1>0, FormRoom
<1>3. Eow(form) \in Nat \ {0} /\ \A i \in 1 .. Eow(form) - 1 : i \in DOMAIN s
  <2>1. Eow(form) - 1 = TailAt(form)
    BY <1>2
  <2> QED BY <1>2, <2>1
<1>4. PrintedRow(s, Eow(form), 1, form.left, WordsAll, 0)
  BY <1>0, FrontRow
<1>5. form.gap =>
         /\ form.left <= 7 /\ 2 * form.left + 1 < Eow(form) /\ s[2 * form.left + 1] = Colon
         /\ form.left = 0 => 2 < Eow(form) /\ s[2] = Colon
         /\ PrintedRow(s, Eow(form), Behind(form.left), form.right, WordsAll, form.left)
         /\ Behind(form.left) + 2 * form.right >= Eow(form)
  <2> HAVE form.gap
  <2>1. Gapped(s, Eow(form), form.left, WordsAll)
    BY <1>0, FormGap
  <2>2. /\ 2 * form.left + 1 < Eow(form) /\ s[2 * form.left + 1] = Colon
        /\ form.left = 0 => 2 < Eow(form) /\ s[2] = Colon
    BY <2>1 DEF Gapped, Is
  <2>3. /\ PrintedRow(s, Eow(form), Behind(form.left), form.right, WordsAll, form.left)
        /\ Behind(form.left) + 2 * form.right >= Eow(form)
    BY <1>0, BackRow
  <2> QED BY <1>0, <2>2, <2>3
<1>6. ~form.gap => form.right = 0 /\ 2 * form.left + 1 >= Eow(form)
  <2> HAVE ~form.gap
  <2>0. PICK l, r, f, g, e, t : SoundAt(form, l, r, f, g, e, t)
    BY SoundPlaces
  <2>1. /\ l = form.left /\ r = form.right /\ t = TailAt(form) /\ l \in Nat /\ r \in Nat
        /\ f \in Nat /\ (l = 0 => f = 0) /\ (l > 0 => f = 2 * l - 1)
        /\ r = 0 /\ g = f + (IF l > 0 /\ form.quad THEN 1 ELSE 0)
        /\ (r = 0 => e = g) /\ (t = e + (IF r > 0 /\ form.quad THEN 1 ELSE 0))
    BY <2>0 DEF SoundAt
  <2>2. t = f + (IF l > 0 /\ form.quad THEN 1 ELSE 0)
    BY <2>1
  <2>3. t <= 2 * l
    BY <2>1, <2>2
  <2>4. Eow(form) = t + 1 /\ form.left = l /\ form.right = r
    BY <1>2, <2>1
  <2> QED BY <2>1, <2>3, <2>4
<1> QED BY <1>0, <1>1, <1>3, <1>4, <1>5, <1>6, WordsAllLegal DEF Shape

\* What is read from the text of a form without a quad.
LEMMA PlainForm ==
    ASSUME NEW form, Sound(form), NEW s, TextAt(s, form), ~form.quad
    PROVE  Pton(s) = PlainReading(form.left, form.gap, form.right, WordsAll)
<1>0. /\ form \in Forms /\ Meaningful(form) /\ form.mistake = "none"
      /\ form.left + form.right <= 8
  BY DEF Sound
<1>1. TailAt(form) \in Nat /\ IsText(s, TailAt(form)) /\ Eow(form) = TailAt(form) + 1
  BY <1>0, EndsInWords, FormRoom
<1> DEFINE len == TailAt(form)
<1>2. len \in Nat /\ HasLen(s, len) /\ DOMAIN s = 1 .. len
  BY <1>1, TextPlaces DEF HasLen
<1>3. Shape(s, len + 1, form.left, form.gap, form.right, WordsAll)
  BY <1>1, ShapeOfForm
<1>4. Is(s, len, Colon) => Is(s, len - 1, Colon)
  <2>0. PICK l, r, f, g, e, t : SoundAt(form, l, r, f, g, e, t)
    BY SoundPlaces
  <2>1. /\ l = form.left /\ r = form.right /\ f = FrontEnd(form) /\ g = GapEnd(form)
        /\ e = RowEnd(form) /\ t = TailAt(form)
        /\ l \in Nat /\ r \in Nat /\ l + r <= 8
        /\ f \in Nat /\ (l = 0 => f = 0) /\ (l > 0 => f = 2 * l - 1)
        /\ (form.gap => g = f + 2)
        /\ (~form.gap => r = 0 /\ g = f + (IF l > 0 /\ form.quad THEN 1 ELSE 0))
        /\ e \in Nat /\ (r = 0 => e = g) /\ (r > 0 => e = g + 2 * r - 1)
        /\ (t = e + (IF r > 0 /\ form.quad THEN 1 ELSE 0)) /\ t \in Nat
    BY <2>0 DEF SoundAt
  <2>2. t = e /\ (~form.gap => g = f)
    BY <2>1
  <2>3. /\ \A k \in 1 .. l : s[Leads(form) + 2 * k - 1] = Printed(Word(k), 16)
        /\ \A k \in 1 .. Middles(form) : s[f + k] = Colon
        /\ \A k \in 1 .. r : s[g + 2 * k - 1] = Printed(Word(l + k), 16)
    BY <1>0, <2>1 DEF TextAt
  <2>4. form.gap \in BOOLEAN /\ Leads(form) = 0 /\ (form.gap => Middles(form) = 2)
    BY <1>0, FormTypes DEF Leads, Middles
  <2>5. len = t
    BY <2>1
  <2> HIDE DEF len
  <2>6. CASE r > 0
    <3>1. r \in 1 .. r /\ l + r \in 1 .. 9 /\ g + 2 * r - 1 = len
      <4>1. e = g + 2 * r - 1 /\ e = len
        BY <2>1, <2>2, <2>5, <2>6
      <4>2. r \in 1 .. r /\ l + r \in 1 .. 9
        <5>1. l \in Nat /\ r \in Nat /\ l + r <= 8
          BY <2>1
        <5> QED BY <2>6, <5>1
      <4> QED BY <4>1, <4>2
    <3>2. s[len] = Printed(Word(l + r), 16)
      BY <2>3, <3>1
    <3> QED BY <3>1, <3>2, WordPrinted DEF Is
  <2>7. CASE r = 0 /\ form.gap
    <3>1. 1 \in 1 .. Middles(form) /\ 2 \in 1 .. Middles(form) /\ f + 1 = len - 1 /\ f + 2 = len
          /\ len - 1 \in 1 .. len
      BY <2>1, <2>2, <2>4, <2>5, <2>7
    <3>2. s[len - 1] = Colon
      BY <2>3, <3>1
    <3> QED BY <1>2, <3>1, <3>2 DEF Is
  <2>8. CASE r = 0 /\ ~form.gap /\ l > 0
    <3>1. l \in 1 .. l /\ l \in 1 .. 9 /\ Leads(form) + 2 * l - 1 = len
      BY <2>1, <2>2, <2>4, <2>5, <2>8
    <3>2. s[len] = Printed(Word(l), 16)
      BY <2>3, <3>1
    <3> QED BY <3>1, <3>2, WordPrinted DEF Is
  <2>9. CASE r = 0 /\ ~form.gap /\ l = 0
    <3>1. len = 0
      BY <2>1, <2>2, <2>5, <2>9
    <3>2. len \notin DOMAIN s
      BY <1>2, <3>1
    <3> QED BY <3>2 DEF Is
  <2> QED BY <2>1, <2>4, <2>6, <2>7, <2>8, <2>9
<1> HIDE DEF len
<1> QED BY <1>2, <1>3, <1>4, PlainRead

\* Nothing before the quad.
LEMMA BareQuad ==
    ASSUME NEW form, Sound(form), NEW s, TextAt(s, form), form.quad, ~form.gap, form.left = 0
    PROVE  Pton(s) = NULL
<1> DEFINE o == <<1, 2, 3, 4>>
<1>0. form \in Forms /\ Meaningful(form) /\ form.mistake = "none" /\ form.right = 0
  BY FormTypes DEF Sound
<1>1. EndsWithQuad(s, Eow(form), o)
  BY <1>0, EndsInQuad
<1> HIDE DEF o
<1>2. Eow(form) = 1
  <2>1. Leads(form) = 0 /\ Middles(form) = 0 /\ Joints(form) = 0 /\ Spread(form.left) = 0 /\ Spread(form.right) = 0
    BY <1>0 DEF Leads, Middles, Joints, Spread
  <2>2. Eow(form) = Leads(form) + Spread(form.left) + Middles(form) + Spread(form.right) + Joints(form) + 1
    BY <1>0, PartLengths
  <2> QED BY <2>1, <2>2
<1>3. DOMAIN s = 1 .. Eow(form) + 6
  BY <1>1 DEF EndsWithQuad
<1>4. Eow(form) - 1 \notin DOMAIN s
  BY <1>2, <1>3
<1>5. ~Is(s, Eow(form) - 1, Colon)
  BY <1>4 DEF Is
<1>6. Pton(s) = IF Is(s, Eow(form) - 1, Colon) THEN Outcome(ReadWords(s, Eow(form)), QuadWords(o)) ELSE NULL
  BY <1>1, PtonWithQuad
<1> QED BY <1>5, <1>6

\* What is read from the text of a form with words, or a gap, and a quad.
LEMMA QuadForm ==
    ASSUME NEW form, Sound(form), NEW s, TextAt(s, form), form.quad, form.gap \/ form.left > 0
    PROVE  Pton(s) = QuadReading(form.left, form.gap, form.right, WordsAll, <<1, 2, 3, 4>>)
<1> DEFINE o == <<1, 2, 3, 4>>
           eow == Eow(form)
<1>0. form \in Forms /\ Meaningful(form) /\ form.mistake = "none"
  BY DEF Sound
<1>1. EndsWithQuad(s, eow, o)
  BY <1>0, EndsInQuad
<1> HIDE DEF o
<1>2. /\ IsOctets(o) /\ HasLen(s, eow + 6) /\ DOMAIN s = 1 .. eow + 6
      /\ \A j \in 1 .. 7 : s[eow + j - 1] = Quad(o)[j]
  BY <1>1 DEF EndsWithQuad, HasLen
<1>3. Shape(s, eow, form.left, form.gap, form.right, WordsAll)
  BY ShapeOfForm
<1>4. eow = TailAt(form) + 1 /\ TailAt(form) \in Nat /\ \A i \in 1 .. TailAt(form) : i \in DOMAIN s
  BY <1>0, FormRoom
<1>5. Is(s, eow - 1, Colon)
  <2>0. PICK l, r, f, g, e, t : SoundAt(form, l, r, f, g, e, t)
    BY SoundPlaces
  <2>1. /\ l = form.left /\ r = form.right /\ f = FrontEnd(form) /\ g = GapEnd(form)
        /\ e = RowEnd(form) /\ t = TailAt(form)
        /\ l \in Nat /\ r \in Nat /\ l + r <= 8
        /\ f \in Nat /\ (l = 0 => f = 0) /\ (l > 0 => f = 2 * l - 1)
        /\ (form.gap => g = f + 2)
        /\ (~form.gap => r = 0 /\ g = f + (IF l > 0 /\ form.quad THEN 1 ELSE 0))
        /\ e \in Nat /\ (r = 0 => e = g) /\ (r > 0 => e = g + 2 * r - 1)
        /\ (t = e + (IF r > 0 /\ form.quad THEN 1 ELSE 0)) /\ t \in Nat
    BY <2>0 DEF SoundAt
  <2>2. eow - 1 = t
    BY <1>4, <2>1
  <2>3. /\ \A k \in 1 .. Middles(form) : s[f + k] = Colon
        /\ \A k \in 1 .. Joints(form) : s[e + k] = Colon
    BY <2>1 DEF TextAt
  <2>4. form.gap \in BOOLEAN
    BY <1>0, FormTypes
  <2>5. s[t] = Colon /\ t >= 1
    <3>1. CASE r > 0
      <4>1. Joints(form) = 1
        BY <2>1, <3>1 DEF Joints
      <4>2. 1 \in 1 .. Joints(form) /\ e + 1 = t
        BY <2>1, <3>1, <4>1
      <4> QED BY <2>1, <2>3, <4>2
    <3>2. CASE r = 0 /\ form.gap
      <4>1. Middles(form) = 2
        BY <1>0, <3>2 DEF Middles
      <4>2. 2 \in 1 .. Middles(form) /\ f + 2 = t
        BY <2>1, <3>2, <4>1
      <4> QED BY <2>1, <2>3, <4>2
    <3>3. CASE r = 0 /\ ~form.gap
      <4>1. l > 0
        BY <2>1, <3>3
      <4>2. Middles(form) = 1
        BY <2>1, <3>3, <4>1 DEF Middles
      <4>3. 1 \in 1 .. Middles(form) /\ f + 1 = t
        BY <2>1, <3>3, <4>1, <4>2
      <4> QED BY <2>1, <2>3, <4>3
    <3> QED BY <2>1, <2>4, <3>1, <3>2, <3>3
  <2>6. t \in 1 .. TailAt(form)
    BY <2>1, <2>5
  <2> QED BY <1>4, <2>2, <2>5, <2>6 DEF Is
<1> HIDE DEF eow
<1>6. Pton(s) = QuadReading(form.left, form.gap, form.right, WordsAll, o)
  BY <1>2, <1>3, <1>5, QuadRead
<1> QED BY <1>6 DEF o

\* The words of a form, before and behind its gap.
LEMMA WordsAllOf ==
    ASSUME NEW l, l \in Nat, NEW r, r \in Nat, l + r <= 9
    PROVE  /\ WordsOf(WordsAll, l) = [i \in 1 .. l |-> Word(i)]
           /\ WordsBehind(WordsAll, l, r) = [i \in 1 .. r |-> Word(l + i)]
<1>1. \A i \in 1 .. l : WordsAll[i] = Word(i)
  <2>1. \A i \in 1 .. l : i \in 1 .. 9
    OBVIOUS
  <2> QED BY <2>1, WordsAllLegal
<1>2. \A i \in 1 .. r : WordsAll[l + i] = Word(l + i)
  <2>1. \A i \in 1 .. r : l + i \in 1 .. 9
    OBVIOUS
  <2> QED BY <2>1, WordsAllLegal
<1> QED BY <1>1, <1>2 DEF WordsOf, WordsBehind

\* The words of a form that fill eight.
DenotedWords(l, r, quad) ==
    [i \in 1 .. l |-> Word(i)] \o [i \in 1 .. 8 - (l + r) - Len(quad) |-> 0] \o [i \in 1 .. r |-> Word(l + i)] \o quad

\* Filling the gap of a form.
LEMMA FilledWords ==
    ASSUME NEW l, l \in Nat, NEW r, r \in Nat, l + r <= 8, NEW quad
    PROVE  Filled(WordsOf(WordsAll, l + r), l, quad) = DenotedWords(l, r, quad)
<1>1. \A i \in 1 .. 9 : WordsAll[i] \in Nat
  BY WordsAllLegal
<1>2. Filled(WordsOf(WordsAll, l + r), l, quad) = GapFilled(WordsAll, l, r, quad)
  <2> DEFINE v == WordsAll
  <2>1. \A i \in 1 .. 9 : v[i] \in Nat
    BY <1>1
  <2> HIDE DEF v
  <2>2. Filled(WordsOf(v, l + r), l, quad) = GapFilled(v, l, r, quad)
    BY <2>1, FilledGap
  <2> QED BY <2>2 DEF v
<1>3. /\ WordsOf(WordsAll, l) = [i \in 1 .. l |-> Word(i)]
      /\ WordsBehind(WordsAll, l, r) = [i \in 1 .. r |-> Word(l + i)]
  <2>1. l + r <= 9
    OBVIOUS
  <2> QED BY <2>1, WordsAllOf, Zenon
<1> QED BY <1>2, <1>3, Zenon DEF DenotedWords, GapFilled

\* Eight words without a gap.
LEMMA WholeWords ==
    ASSUME NEW l, l \in Nat, l <= 8, NEW quad, quad \in Seq(Nat), l + Len(quad) = 8
    PROVE  Filled(WordsOf(WordsAll, l + 0), -1, quad) = DenotedWords(l, 0, quad)
<1> DEFINE w == [i \in 1 .. l |-> Word(i)]
           k == 8 - (l + 0) - Len(quad)
<1>1. w \in Seq(Nat)
  <2>1. \A i \in 1 .. l : i \in 1 .. 9
    OBVIOUS
  <2>2. \A i \in 1 .. l : Word(i) \in Nat
    BY <2>1, WordLegal
  <2> QED BY <2>2
<1>2. l + 0 = l /\ WordsOf(WordsAll, l) = w
  <2> DEFINE zero == 0
  <2>1. zero \in Nat /\ l + zero <= 9 /\ l + zero = l
    OBVIOUS
  <2> HIDE DEF zero
  <2>2. WordsOf(WordsAll, l) = [i \in 1 .. l |-> Word(i)]
    BY <2>1, WordsAllOf
  <2> QED BY <2>2
<1>3. [i \in 1 .. k |-> 0] = <<>>
  <2>1. k = 0
    OBVIOUS
  <2> HIDE DEF k
  <2> QED BY <2>1
<1>4. [i \in 1 .. 0 |-> Word(l + i)] = <<>>
  OBVIOUS
<1>5. w \o <<>> \o <<>> \o quad = w \o quad
  <2> HIDE DEF w
  <2>1. w \o <<>> = w
    BY <1>1
  <2> QED BY <2>1, Zenon
<1> HIDE DEF w, k
<1>6. DenotedWords(l, 0, quad) = w \o quad
  BY <1>3, <1>4, <1>5, Zenon DEF DenotedWords, w, k
<1> QED BY <1>2, <1>6, FilledPlain

\* The address of a form without a mistake.
QuadOf(form) == IF form.quad THEN <<258, 772>> ELSE <<>>

\* What a form without a mistake denotes.
LEMMA DenotedSound ==
    ASSUME NEW form, form \in Forms, Meaningful(form), form.mistake = "none"
    PROVE  Denoted(form) = IF form.gap # (8 - (form.left + form.right) - Len(QuadOf(form)) > 0)
                              \/ 8 - (form.left + form.right) - Len(QuadOf(form)) < 0
                           THEN NULL ELSE DenotedWords(form.left, form.right, QuadOf(form))
<1> DEFINE quad == QuadOf(form)
           l == form.left
           r == form.right
           q == Len(quad)
<1>1. l \in Nat /\ r \in Nat
  BY FormTypes
<1>2. q \in Nat
  <2>1. CASE form.quad
    BY <2>1 DEF QuadOf
  <2>2. CASE ~form.quad
    BY <2>2 DEF QuadOf
  <2> QED BY <2>1, <2>2
<1>3. 8 - l - r - q = 8 - (l + r) - q
  <2> HIDE DEF l, r, q
  <2> QED BY <1>1, <1>2
<1>4. Denoted(form) = IF form.mistake # "none" \/ (form.gap # (8 - l - r - q > 0)) \/ 8 - l - r - q < 0 THEN NULL
        ELSE [i \in 1 .. l |-> Word(i)]
                \o [i \in 1 .. 8 - l - r - q |-> 0]
                \o [i \in 1 .. r |-> Word(l + i)] \o quad
  BY Zenon DEF Denoted, QuadOf
<1> HIDE DEF l, r, q, quad
<1>5. DenotedWords(l, r, quad) = [i \in 1 .. l |-> Word(i)] \o [i \in 1 .. 8 - (l + r) - q |-> 0] \o [i \in 1 .. r |-> Word(l + i)] \o quad
  BY Zenon DEF DenotedWords, q
<1> DEFINE z == 8 - (l + r) - q
<1>6. Denoted(form) = IF form.mistake # "none" \/ (form.gap # (z > 0)) \/ z < 0 THEN NULL
        ELSE DenotedWords(l, r, quad)
  BY <1>3, <1>4, <1>5, Zenon
<1> HIDE DEF z
<1>7. Denoted(form) = IF form.gap # (z > 0) \/ z < 0 THEN NULL ELSE DenotedWords(l, r, quad)
  BY <1>6, Zenon
<1> QED BY <1>7, Zenon DEF l, r, q, z, quad

\* A form without a quad is read as what it denotes.
LEMMA PlainDenoted ==
    ASSUME NEW form, Sound(form), ~form.quad
    PROVE  PlainReading(form.left, form.gap, form.right, WordsAll) = Denoted(form)
<1> DEFINE l == form.left
           r == form.right
           q == QuadOf(form)
           z == 8 - (l + r) - Len(q)
<1>1. form \in Forms /\ Meaningful(form) /\ form.mistake = "none" /\ l + r <= 8
  BY DEF Sound
<1>2. l \in Nat /\ r \in Nat /\ form.gap \in BOOLEAN /\ (~form.gap => r = 0)
  BY <1>1, FormTypes
<1>3. q = <<>> /\ Len(q) = 0
  BY DEF QuadOf
<1>4. Denoted(form) = IF form.gap # (z > 0) \/ z < 0 THEN NULL ELSE DenotedWords(l, r, q)
  BY <1>1, DenotedSound, Zenon
<1> HIDE DEF l, r, q
<1>5. z = 8 - (l + r)
  BY <1>2, <1>3
<1> HIDE DEF z
<1>6. CASE (l + r = 8) # ~form.gap
  <2>1. form.gap # (z > 0)
    BY <1>1, <1>2, <1>5, <1>6
  <2> QED BY <1>4, <1>6, <2>1 DEF PlainReading, l, r
<1>7. CASE ~((l + r = 8) # ~form.gap) /\ form.gap
  <2>1. z > 0 /\ ~(z < 0)
    BY <1>1, <1>2, <1>5, <1>7
  <2>2. Denoted(form) = DenotedWords(l, r, q)
    BY <1>4, <1>7, <2>1
  <2>3. Filled(WordsOf(WordsAll, l + r), l, q) = DenotedWords(l, r, q)
    BY <1>1, <1>2, FilledWords
  <2>4. PlainReading(l, form.gap, r, WordsAll) = Filled(WordsOf(WordsAll, l + r), l, <<>>)
    BY <1>7, Zenon DEF PlainReading, GapAt
  <2> QED BY <1>3, <2>2, <2>3, <2>4 DEF l, r
<1>8. CASE ~((l + r = 8) # ~form.gap) /\ ~form.gap
  <2>1. z = 0 /\ r = 0 /\ l = 8 /\ ~(z > 0) /\ ~(z < 0)
    BY <1>1, <1>2, <1>5, <1>8
  <2>2. Denoted(form) = DenotedWords(l, r, q)
    <3>1. ~(form.gap # (z > 0) \/ z < 0)
      <4>1. form.gap = FALSE /\ (z > 0) = FALSE
        BY <1>2, <1>8, <2>1
      <4> QED BY <2>1, <4>1, Zenon
    <3> QED BY <1>4, <3>1, Zenon
  <2>3. Filled(WordsOf(WordsAll, l + 0), -1, q) = DenotedWords(l, 0, q)
    <3>1. q \in Seq(Nat) /\ l + Len(q) = 8 /\ l <= 8
      BY <1>2, <1>3, <2>1
    <3> QED BY <1>2, <3>1, WholeWords
  <2>4. PlainReading(l, form.gap, r, WordsAll) = Filled(WordsOf(WordsAll, l + r), -1, <<>>)
    BY <1>8, Zenon DEF PlainReading, GapAt
  <2> QED BY <1>3, <2>1, <2>2, <2>3, <2>4, Zenon DEF l, r
<1> QED BY <1>2, <1>6, <1>7, <1>8

\* A form with a quad is read as what it denotes.
LEMMA QuadDenoted ==
    ASSUME NEW form, Sound(form), form.quad
    PROVE  /\ QuadReading(form.left, form.gap, form.right, WordsAll, <<1, 2, 3, 4>>) = Denoted(form)
           /\ ~form.gap /\ form.left = 0 => Denoted(form) = NULL
<1> DEFINE l == form.left
           r == form.right
           q == QuadOf(form)
           o == <<1, 2, 3, 4>>
           z == 8 - (l + r) - Len(q)
<1>1. form \in Forms /\ Meaningful(form) /\ form.mistake = "none" /\ l + r <= 8
  BY DEF Sound
<1>2. l \in Nat /\ r \in Nat /\ form.gap \in BOOLEAN /\ (~form.gap => r = 0)
  BY <1>1, FormTypes
<1>3. q = <<258, 772>> /\ Len(q) = 2 /\ q \in Seq(Nat)
  BY DEF QuadOf
<1>9. QuadWords(o) = q
  <2>1. QuadWords(o) = <<258, 772>>
    BY DEF QuadWords
  <2> QED BY <1>3, <2>1
<1>4. Denoted(form) = IF form.gap # (z > 0) \/ z < 0 THEN NULL ELSE DenotedWords(l, r, q)
  BY <1>1, DenotedSound, Zenon
<1> HIDE DEF l, r, q, o
<1>5. z = 6 - (l + r)
  BY <1>2, <1>3
<1> HIDE DEF z
<1>10. ~form.gap /\ l = 0 => Denoted(form) = NULL
  <2> HAVE ~form.gap /\ l = 0
  <2>1. z > 0
    BY <1>2, <1>5
  <2> QED BY <1>4, <2>1
<1>6. CASE l + r > 6 \/ (l + r = 6) # ~form.gap
  <2>1. form.gap # (z > 0) \/ z < 0
    BY <1>1, <1>2, <1>5, <1>6
  <2>2. QuadReading(l, form.gap, r, WordsAll, o) = NULL
    BY <1>6, Zenon DEF QuadReading
  <2> QED BY <1>4, <1>10, <2>1, <2>2 DEF l, r, o
<1>7. CASE ~(l + r > 6 \/ (l + r = 6) # ~form.gap) /\ form.gap
  <2>1. z > 0 /\ ~(z < 0)
    BY <1>1, <1>2, <1>5, <1>7
  <2>2. Denoted(form) = DenotedWords(l, r, q)
    BY <1>4, <1>7, <2>1
  <2>3. Filled(WordsOf(WordsAll, l + r), l, q) = DenotedWords(l, r, q)
    BY <1>1, <1>2, FilledWords
  <2>4. QuadReading(l, form.gap, r, WordsAll, o) = Filled(WordsOf(WordsAll, l + r), l, QuadWords(o))
    BY <1>7, Zenon DEF QuadReading, GapAt
  <2> QED BY <1>9, <1>10, <2>2, <2>3, <2>4 DEF l, r, o
<1>8. CASE ~(l + r > 6 \/ (l + r = 6) # ~form.gap) /\ ~form.gap
  <2>1. z = 0 /\ r = 0 /\ l = 6 /\ ~(z > 0) /\ ~(z < 0)
    BY <1>1, <1>2, <1>5, <1>8
  <2>2. Denoted(form) = DenotedWords(l, r, q)
    <3>1. ~(form.gap # (z > 0) \/ z < 0)
      <4>1. form.gap = FALSE /\ (z > 0) = FALSE
        BY <1>2, <1>8, <2>1
      <4> QED BY <2>1, <4>1, Zenon
    <3> QED BY <1>4, <3>1, Zenon
  <2>3. Filled(WordsOf(WordsAll, l + 0), -1, q) = DenotedWords(l, 0, q)
    <3>1. q \in Seq(Nat) /\ l + Len(q) = 8 /\ l <= 8
      BY <1>2, <1>3, <2>1
    <3> QED BY <1>2, <3>1, WholeWords
  <2>4. QuadReading(l, form.gap, r, WordsAll, o) = Filled(WordsOf(WordsAll, l + r), -1, QuadWords(o))
    BY <1>8, Zenon DEF QuadReading, GapAt
  <2>5. QuadReading(l, form.gap, r, WordsAll, o) = Denoted(form)
    BY <1>9, <2>1, <2>2, <2>3, <2>4, Zenon
  <2> QED BY <1>10, <2>5 DEF l, r, o
<1> QED BY <1>2, <1>6, <1>7, <1>8

\* tor_inet_pton reads the words of a text and refuses every other.
LEMMA PtonReads ==
    ASSUME NEW form \in Forms, Meaningful(form)
    PROVE  Pton(Written(form)) = Denoted(form)
<1> DEFINE s == Written(form)
<1>1. TextAt(s, form)
  BY WrittenText
<1> HIDE DEF s
<1>2. /\ form.left \in 0 .. 9 /\ form.right \in 0 .. 9 /\ form.gap \in BOOLEAN /\ form.quad \in BOOLEAN
      /\ form.left + form.right <= 9
      /\ form.mistake \in {"none", "leading", "trailing", "colons", "long"}
      /\ ~form.gap => form.right = 0 /\ form.mistake # "colons"
  BY FormTypes
<1>3. form.mistake # "none" => Denoted(form) = NULL
  BY Zenon DEF Denoted
<1>4. CASE form.mistake = "trailing"
  BY <1>1, <1>3, <1>4, TrailingRefused DEF s
<1>5. CASE form.mistake \in {"leading", "long"}
  BY <1>1, <1>3, <1>5, StartOfForm DEF s
<1>6. CASE form.mistake = "colons" /\ form.left <= 7
  BY <1>1, <1>3, <1>6, ColonsOfForm DEF s
<1>7. CASE form.mistake = "colons" /\ ~(form.left <= 7)
  <2>1. form.left = 9 \/ (form.left = 8 /\ form.gap)
    BY <1>2, <1>7
  <2>2. Pton(s) = NULL
    BY <1>1, <1>7, <2>1, EightOfForm
  <2> QED BY <1>3, <1>7, <2>2 DEF s
<1>8. CASE form.mistake = "none"
  <2> DEFINE l == form.left
             r == form.right
             q == QuadOf(form)
             z == 8 - (l + r) - Len(q)
  <2>1. Denoted(form) = IF form.gap # (z > 0) \/ z < 0 THEN NULL ELSE DenotedWords(l, r, q)
    BY <1>8, DenotedSound, Zenon
  <2>2. Len(q) \in {0, 2}
    BY DEF QuadOf
  <2>3. l \in 0 .. 9 /\ r \in 0 .. 9 /\ l + r <= 9 /\ (~form.gap => r = 0)
    BY <1>2
  <2>4. CASE l = 9 \/ (l = 8 /\ form.gap)
    <3>1. Pton(s) = NULL
      BY <1>1, <1>8, <2>4, EightOfForm
    <3>2. form.gap # (z > 0) \/ z < 0
      <4> DEFINE n == Len(q)
      <4>1. z = 8 - (l + r) - n /\ n \in {0, 2}
        BY <2>2
      <4> HIDE DEF l, r, q, n, z
      <4>2. l = 9 => z < 0
        BY <2>3, <4>1
      <4>3. l = 8 /\ form.gap => form.gap # (z > 0)
        <5>1. l = 8 => ~(z > 0)
          BY <2>3, <4>1
        <5> QED BY <5>1, Zenon
      <4> QED BY <2>4, <4>2, <4>3
    <3> QED BY <2>1, <3>1, <3>2 DEF s
  <2>5. CASE form.gap /\ l <= 7 /\ l + r = 9
    <3>1. Pton(s) = NULL
      BY <1>1, <1>8, <2>5, NineOfForm
    <3>2. z < 0
      <4> HIDE DEF l, r, q
      <4> QED BY <2>2, <2>3, <2>5
    <3> QED BY <2>1, <3>1, <3>2 DEF s
  <2>6. CASE l + r <= 8 /\ (form.gap => l <= 7)
    <3>1. Sound(form)
      BY <1>8, <2>6 DEF Sound
    <3>2. CASE ~form.quad
      <4>1. Pton(s) = PlainReading(form.left, form.gap, form.right, WordsAll)
        BY <1>1, <3>1, <3>2, PlainForm
      <4>2. PlainReading(form.left, form.gap, form.right, WordsAll) = Denoted(form)
        BY <3>1, <3>2, PlainDenoted
      <4> QED BY <4>1, <4>2 DEF s
    <3>3. CASE form.quad /\ (form.gap \/ form.left > 0)
      <4>1. Pton(s) = QuadReading(form.left, form.gap, form.right, WordsAll, <<1, 2, 3, 4>>)
        BY <1>1, <3>1, <3>3, QuadForm
      <4>2. QuadReading(form.left, form.gap, form.right, WordsAll, <<1, 2, 3, 4>>) = Denoted(form)
        BY <3>1, <3>3, QuadDenoted
      <4> QED BY <4>1, <4>2 DEF s
    <3>4. CASE form.quad /\ ~(form.gap \/ form.left > 0)
      <4>1. form.left = 0 /\ ~form.gap
        BY <1>2, <3>4
      <4>2. Pton(s) = NULL
        BY <1>1, <3>1, <3>4, <4>1, BareQuad
      <4>3. Denoted(form) = NULL
        BY <3>1, <3>4, <4>1, QuadDenoted
      <4> QED BY <4>2, <4>3 DEF s
    <3> QED BY <1>2, <3>2, <3>3, <3>4
  <2>7. (l = 9 \/ (l = 8 /\ form.gap)) \/ (form.gap /\ l <= 7 /\ l + r = 9) \/ (l + r <= 8 /\ (form.gap => l <= 7))
    <3> HIDE DEF l, r
    <3> QED BY <1>2, <2>3
  <2> QED BY <2>4, <2>5, <2>6, <2>7
<1> QED BY <1>2, <1>4, <1>5, <1>6, <1>7, <1>8

-----------------------------------------------------------------------------
(* The texts that are printed.                                             *)

\* Lists that are put one behind the other, and the places where they end.
Ends(lists, n, len, end) ==
    /\ end[0] = 0
    /\ \A i \in 1 .. n : /\ IsText(lists[i], len[i]) /\ end[i] = end[i - 1] + len[i]
                         /\ end[i - 1] \in Nat /\ end[i] \in Nat /\ end[i - 1] <= end[i]

\* Each of the first k lists at its place in s.
PiecesTo(s, lists, k, len, end) ==
    /\ IsText(s, end[k])
    /\ \A i \in 1 .. k : end[i] <= end[k] /\ Piece(s, end[i - 1], lists[i], len[i])

\* A piece of a piece at the front.
LEMMA PieceOfFront ==
    ASSUME NEW s, NEW x, NEW m, Piece(s, 0, x, m), NEW off, NEW y, NEW n, Piece(x, off, y, n), off + n <= m
    PROVE  Piece(s, off, y, n)
<1>1. m \in Nat /\ \A i \in 1 .. m : s[0 + i] = x[i]
  BY DEF Piece
<1>2. off \in Nat /\ n \in Nat /\ y \in Tokens /\ Len(y) = n /\ \A i \in 1 .. n : x[off + i] = y[i]
  BY DEF Piece
<1>3. \A i \in 1 .. n : s[off + i] = y[i]
  <2> TAKE i \in 1 .. n
  <2>1. off + i \in 1 .. m /\ 0 + (off + i) = off + i
    BY <1>1, <1>2
  <2>2. s[0 + (off + i)] = x[off + i]
    BY <1>1, <2>1
  <2> QED BY <1>2, <2>1, <2>2
<1> QED BY <1>2, <1>3 DEF Piece

\* FlattenSeq puts each list where the ones before it end.
LEMMA FlatPieces ==
    ASSUME NEW lists, NEW n, n \in Nat \ {0}, HasLen(lists, n), NEW len, NEW end, Ends(lists, n, len, end)
    PROVE  PiecesTo(FlattenSeq(lists), lists, n, len, end)
<1>1. PICK g : FlatBy(lists, n, g)
  BY FlatSteps
<1>2. /\ FlattenSeq(lists) = g[n] /\ g[1] = lists[1]
      /\ \A i \in 2 .. n : g[i] = g[i - 1] \o lists[i]
  BY <1>1 DEF FlatBy
<1>3. /\ end[0] = 0
      /\ \A i \in 1 .. n : /\ IsText(lists[i], len[i]) /\ end[i] = end[i - 1] + len[i]
                         /\ end[i - 1] \in Nat /\ end[i] \in Nat /\ end[i - 1] <= end[i]
  BY DEF Ends
<1> DEFINE T == {k \in Nat : k <= n /\ PiecesTo(g[k], lists, k, len, end)}
<1>4. 1 \in T
  <2>1. 1 \in 1 .. n /\ 1 - 1 = 0 /\ \A i \in 1 .. 1 : i = 1
    OBVIOUS
  <2>2. IsText(lists[1], len[1]) /\ end[1] = end[1 - 1] + len[1] /\ end[1] \in Nat
    BY <1>3, <2>1
  <2>3. len[1] \in Nat
    BY <2>2 DEF IsText
  <2>4. end[1] = len[1] /\ end[1] <= end[1]
    BY <1>3, <2>1, <2>2, <2>3
  <2>5. Piece(lists[1], 0, lists[1], len[1])
    BY <2>2, PieceWhole
  <2>6. PiecesTo(g[1], lists, 1, len, end)
    <3>1. IsText(g[1], end[1])
      BY <1>2, <2>2, <2>4
    <3>2. end[1 - 1] = 0
      BY <1>3, <2>1
    <3>3. \A i \in 1 .. 1 : end[i] <= end[1] /\ Piece(g[1], end[i - 1], lists[i], len[i])
      BY <1>2, <2>1, <2>4, <2>5, <3>2
    <3> QED BY <3>1, <3>3 DEF PiecesTo
  <2> QED BY <2>1, <2>6
<1>5. \A k \in Nat : 1 <= k /\ k < n /\ k \in T => k + 1 \in T
  <2> TAKE k \in Nat
  <2> HAVE 1 <= k /\ k < n /\ k \in T
  <2> DEFINE m == k + 1
             s == g[m]
  <2>1. m \in 1 .. n /\ m \in 2 .. n /\ m - 1 = k /\ k \in 1 .. n /\ m \in Nat
        /\ (\A i \in 1 .. m : i = m \/ i \in 1 .. k) /\ \A i \in 1 .. m : i \in 1 .. n
    OBVIOUS
  <2>2. /\ IsText(g[k], end[k])
        /\ \A i \in 1 .. k : end[i] <= end[k] /\ Piece(g[k], end[i - 1], lists[i], len[i])
    BY DEF PiecesTo
  <2> HIDE DEF m
  <2>3. s = g[k] \o lists[m] /\ IsText(lists[m], len[m]) /\ end[m] = end[k] + len[m]
        /\ end[k] \in Nat /\ end[m] \in Nat /\ end[k] <= end[m]
    BY <1>2, <1>3, <2>1
  <2>4. IsText(s, end[m])
    <3>1. IsText(g[k] \o lists[m], end[k] + len[m])
      BY <2>2, <2>3, TextJoined
    <3> QED BY <2>3, <3>1
  <2>5. Piece(s, 0, g[k], end[k]) /\ Piece(s, end[k], lists[m], len[m])
    <3> DEFINE zero == 0
    <3>1. Piece(s, zero, s, end[m])
      BY <2>4, PieceWhole
    <3>2. Piece(s, zero, g[k] \o lists[m], end[k] + len[m])
      BY <2>3, <3>1
    <3> HIDE DEF zero, s
    <3>3. Piece(s, zero, g[k], end[k]) /\ Piece(s, zero + end[k], lists[m], len[m])
      BY <2>2, <2>3, <3>2, PieceSplit
    <3>4. zero + end[k] = end[k]
      BY <2>3 DEF zero
    <3> QED BY <3>3, <3>4 DEF zero
  <2> HIDE DEF s
  <2>6. \A i \in 1 .. m : end[i] <= end[m] /\ Piece(s, end[i - 1], lists[i], len[i])
    <3> TAKE i \in 1 .. m
    <3>1. CASE i = m
      <4>1. end[m] <= end[m]
        BY <2>3
      <4>2. Piece(s, end[m - 1], lists[m], len[m])
        BY <2>1, <2>5
      <4> QED BY <3>1, <4>1, <4>2
    <3>2. CASE i \in 1 .. k
      <4>1. end[i] <= end[k] /\ Piece(g[k], end[i - 1], lists[i], len[i])
        BY <2>2, <3>2
      <4>2. i \in 1 .. n
        BY <2>1
      <4>3. end[i] = end[i - 1] + len[i] /\ end[i] \in Nat
        BY <1>3, <4>2
      <4>4. end[i] <= end[m]
        BY <2>3, <4>1, <4>3
      <4>5. end[i - 1] + len[i] <= end[k]
        BY <4>1, <4>3
      <4> DEFINE off == end[i - 1]
      <4> HIDE DEF off
      <4>6. Piece(s, off, lists[i], len[i])
        BY <2>5, <4>1, <4>5, PieceOfFront DEF off
      <4> QED BY <4>4, <4>6 DEF off
    <3> QED BY <2>1, <3>1, <3>2
  <2>7. PiecesTo(s, lists, m, len, end)
    BY <2>4, <2>6 DEF PiecesTo
  <2>8. m <= n /\ m \in Nat
    BY <2>1
  <2> QED BY <2>7, <2>8 DEF s, m
<1>6. n \in T
  <2> HIDE DEF T
  <2>1. \A i \in Nat : 1 <= i /\ i <= n => i \in T
    BY <1>4, <1>5, Reached
  <2> QED BY <2>1
<1> QED BY <1>2, <1>6

\* The gap at place a of an address, of l words, or none.
GapIs(w, a, l) ==
    /\ (a = 0 /\ l = 0) \/ (a \in 1 .. 8 /\ l \in 2 .. 8 /\ a + l <= 9 /\ \A i \in a .. a + l - 1 : w[i] = 0)
    /\ \A h \in Gaps(w) : h[2] > 1 => h[2] <= l

\* A gap is within the address, and its words are zero.
LEMMA GapPairs ==
    ASSUME NEW w, NEW h, h \in Gaps(w)
    PROVE  /\ h[1] \in 1 .. 8 /\ h[2] \in 1 .. 8 /\ h[1] + h[2] <= 9
           /\ \A i \in h[1] .. h[1] + h[2] - 1 : w[i] = 0
  BY DEF Gaps

\* The gap that is chosen is one of the longest.
LEMMA GapChosen ==
    ASSUME NEW w
    PROVE  \E a, l : LongestGap(w)[1] = a /\ LongestGap(w)[2] = l /\ GapIs(w, a, l)
<1> DEFINE G == Gaps(w)
           Best(g) == \A h \in G : g[2] > h[2] \/ (g[2] = h[2] /\ g[1] <= h[1])
           key(g) == 16 * (8 - g[2]) + g[1]
<1>1. \A h \in G : h[1] \in 1 .. 8 /\ h[2] \in 1 .. 8 /\ h[1] + h[2] <= 9 /\ \A i \in h[1] .. h[1] + h[2] - 1 : w[i] = 0
  BY GapPairs
<1>2. CASE ~\E g \in G : g[2] > 1
  <2>1. LongestGap(w) = <<0, 0>>
    BY <1>2 DEF LongestGap
  <2>2. GapIs(w, 0, 0)
    BY <1>2 DEF GapIs
  <2> QED BY <2>1, <2>2
<1>3. CASE \E g \in G : g[2] > 1
  <2>0. LongestGap(w) = CHOOSE g \in G : Best(g)
    BY <1>3 DEF LongestGap
  <2>1. \E g \in G : Best(g)
    <3> DEFINE K == {key(g) : g \in G}
    <3> HIDE DEF G
    <3>1. K \subseteq Nat /\ K # {}
      BY <1>1, <1>3
    <3>2. \E k \in K : \A m \in K : k <= m
      <4> HIDE DEF K
      <4> QED BY <3>1, LeastNumber
    <3>3. PICK g \in G : \A h \in G : key(g) <= key(h)
      BY <3>2
    <3>4. Best(g)
      <4> SUFFICES ASSUME NEW h \in G PROVE g[2] > h[2] \/ (g[2] = h[2] /\ g[1] <= h[1])
        OBVIOUS
      <4>1. g[1] \in 1 .. 8 /\ g[2] \in 1 .. 8 /\ h[1] \in 1 .. 8 /\ h[2] \in 1 .. 8
        BY <1>1
      <4>2. 16 * (8 - g[2]) + g[1] <= 16 * (8 - h[2]) + h[1]
        BY <3>3
      <4> QED BY <4>1, <4>2
    <3> QED BY <3>4
  <2> DEFINE c == LongestGap(w)
  <2>2. c \in G /\ Best(c)
    <3> HIDE DEF G
    <3> QED BY <2>0, <2>1
  <2> HIDE DEF c
  <2>3. \A h \in G : h[2] <= c[2]
    <3> TAKE h \in G
    <3>1. c[2] > h[2] \/ c[2] = h[2]
      BY <2>2
    <3>2. c[2] \in 1 .. 8 /\ h[2] \in 1 .. 8
      BY <1>1, <2>2
    <3> QED BY <3>1, <3>2
  <2>4. c[1] \in 1 .. 8 /\ c[2] \in 1 .. 8 /\ c[1] + c[2] <= 9 /\ \A i \in c[1] .. c[1] + c[2] - 1 : w[i] = 0
    BY <1>1, <2>2
  <2>5. c[2] \in 2 .. 8
    <3>1. PICK g \in G : g[2] > 1
      BY <1>3
    <3>2. g[2] <= c[2] /\ g[2] \in 1 .. 8
      BY <1>1, <2>3
    <3> QED BY <2>4, <3>1, <3>2
  <2>6. GapIs(w, c[1], c[2])
    BY <2>3, <2>4, <2>5 DEF GapIs
  <2> QED BY <2>6 DEF c
<1> QED BY <1>2, <1>3

\* What is printed for a word of an address with a gap, and where it ends.
PieceAt(w, a, l, i) ==
    IF i = a THEN IF i = 1 THEN <<Colon, Colon>> ELSE <<Colon>>
    ELSE IF i > a /\ i < a + l THEN <<>>
    ELSE IF i = 8 THEN <<Printed(w[i], 16)>>
    ELSE <<Printed(w[i], 16), Colon>>

\* How many tokens are printed for a word.
PieceLen(a, l, i) ==
    IF i = a THEN IF i = 1 THEN 2 ELSE 1 ELSE IF i > a /\ i < a + l THEN 0 ELSE IF i = 8 THEN 1 ELSE 2

\* Where the tokens of the gap end.
GapBehind(a) == IF a = 1 THEN 2 ELSE 2 * a - 1

\* Where the tokens of a word end.
PieceEnd(a, l, i) ==
    IF a = 0 \/ i < a THEN IF i = 8 THEN 15 ELSE 2 * i
    ELSE IF i < a + l THEN GapBehind(a)
    ELSE IF i = 8 THEN GapBehind(a) + 2 * (9 - (a + l)) - 1 ELSE GapBehind(a) + 2 * (i + 1 - (a + l))

\* The words of an address have 16 bits.
WordRange(w) == \A i \in 1 .. 8 : w[i] \in Nat /\ w[i] < 16 ^ 4

\* The tokens that tor_inet_ntop prints for one word.
LEMMA PieceTexts ==
    ASSUME NEW w, WordRange(w), NEW a, NEW l, NEW i, i \in 1 .. 8
    PROVE  IsText(PieceAt(w, a, l, i), PieceLen(a, l, i))
<1> DEFINE p == Printed(w[i], 16)
           c == Colon
<1>1. p \in Token
  <2>1. w[i] \in Nat /\ w[i] < 16 ^ 4
    BY DEF WordRange
  <2> QED BY <2>1, HexToken
<1>2. c \in Token /\ <<>> \in Tokens
  BY TokenSorts
<1> HIDE DEF p, c
<1>3. IsText(<<p>>, 1) /\ IsText(<<p, c>>, 2) /\ IsText(<<c>>, 1) /\ IsText(<<c, c>>, 2) /\ IsText(<<>>, 0)
  BY <1>1, <1>2, OneToken, TwoTokens DEF IsText
<1> QED BY <1>3, Zenon DEF PieceAt, PieceLen, p, c

\* A gap, or none.
GapPlace(a, l) == (a = 0 /\ l = 0) \/ (a \in 1 .. 8 /\ l \in 2 .. 8 /\ a + l <= 9)

\* Where the tokens of a word end.
LEMMA PieceEnds ==
    ASSUME NEW a, NEW l, GapPlace(a, l)
    PROVE  /\ PieceEnd(a, l, 0) = 0
           /\ \A i \in 1 .. 8 : /\ PieceEnd(a, l, i) = PieceEnd(a, l, i - 1) + PieceLen(a, l, i)
                                /\ PieceEnd(a, l, i - 1) \in Nat /\ PieceEnd(a, l, i) \in Nat
                                /\ PieceEnd(a, l, i - 1) <= PieceEnd(a, l, i)
<1>1. CASE a = 0 /\ l = 0
  <2>1. \A i \in 0 .. 8 : PieceEnd(a, l, i) = IF i = 8 THEN 15 ELSE 2 * i
    BY <1>1 DEF PieceEnd
  <2>2. \A i \in 1 .. 8 : PieceLen(a, l, i) = IF i = 8 THEN 1 ELSE 2
    BY <1>1 DEF PieceLen
  <2> QED BY <2>1, <2>2
<1>2. CASE a \in 1 .. 8 /\ l \in 2 .. 8 /\ a + l <= 9
  <2> DEFINE b == GapBehind(a)
  <2>1. b \in Nat /\ (a = 1 => b = 2) /\ (a # 1 => b = 2 * a - 1)
    BY <1>2 DEF GapBehind
  <2> HIDE DEF b
  <2>2. \A i \in 0 .. 8 :
           /\ i < a => PieceEnd(a, l, i) = 2 * i
           /\ i >= a /\ i < a + l => PieceEnd(a, l, i) = b
           /\ i >= a + l => PieceEnd(a, l, i) = b + 2 * (i + 1 - (a + l)) - (IF i = 8 THEN 1 ELSE 0)
    BY <1>2, <2>1 DEF PieceEnd, b
  <2>3. \A i \in 1 .. 8 :
           /\ i < a => PieceLen(a, l, i) = 2
           /\ i = a => PieceLen(a, l, i) = IF a = 1 THEN 2 ELSE 1
           /\ i > a /\ i < a + l => PieceLen(a, l, i) = 0
           /\ i >= a + l => PieceLen(a, l, i) = IF i = 8 THEN 1 ELSE 2
    BY <1>2 DEF PieceLen
  <2>4. PieceEnd(a, l, 0) = 0
    BY <1>2, <2>2
  <2>5. ASSUME NEW i \in 1 .. 8
        PROVE  /\ PieceEnd(a, l, i) = PieceEnd(a, l, i - 1) + PieceLen(a, l, i)
               /\ PieceEnd(a, l, i - 1) \in Nat /\ PieceEnd(a, l, i) \in Nat
               /\ PieceEnd(a, l, i - 1) <= PieceEnd(a, l, i)
    <3> DEFINE h == i - 1
               x == PieceEnd(a, l, h)
               y == PieceEnd(a, l, i)
               z == PieceLen(a, l, i)
    <3>1. h \in 0 .. 8 /\ i \in 0 .. 8 /\ h + 1 = i
      OBVIOUS
    <3>2. /\ h < a => x = 2 * h
          /\ h >= a /\ h < a + l => x = b
          /\ h >= a + l => x = b + 2 * (h + 1 - (a + l)) - (IF h = 8 THEN 1 ELSE 0)
      BY <2>2, <3>1
    <3>3. /\ i < a => y = 2 * i
          /\ i >= a /\ i < a + l => y = b
          /\ i >= a + l => y = b + 2 * (i + 1 - (a + l)) - (IF i = 8 THEN 1 ELSE 0)
      BY <2>2, <3>1
    <3>4. /\ i < a => z = 2
          /\ i = a => z = IF a = 1 THEN 2 ELSE 1
          /\ i > a /\ i < a + l => z = 0
          /\ i >= a + l => z = IF i = 8 THEN 1 ELSE 2
      BY <2>3
    <3> HIDE DEF h, x, y, z
    <3>5. y = x + z /\ x \in Nat /\ y \in Nat /\ x <= y
      <4>1. CASE i < a
        BY <1>2, <2>1, <3>1, <3>2, <3>3, <3>4, <4>1
      <4>2. CASE i = a
        BY <1>2, <2>1, <3>1, <3>2, <3>3, <3>4, <4>2
      <4>3. CASE i > a /\ i < a + l
        BY <1>2, <2>1, <3>1, <3>2, <3>3, <3>4, <4>3
      <4>4. CASE i >= a + l
        BY <1>2, <2>1, <3>1, <3>2, <3>3, <3>4, <4>4
      <4> QED BY <1>2, <3>1, <4>1, <4>2, <4>3, <4>4
    <3> QED BY <3>5 DEF h, x, y, z
  <2> QED BY <2>4, <2>5
<1> QED BY <1>1, <1>2 DEF GapPlace

\* The pieces of the text of an address.
LEMMA WordsPieces ==
    ASSUME NEW w, WordRange(w), NEW a, NEW l, LongestGap(w)[1] = a, LongestGap(w)[2] = l, GapPlace(a, l)
    PROVE  /\ IsText(Words(w), PieceEnd(a, l, 8))
           /\ \A i \in 1 .. 8 : Piece(Words(w), PieceEnd(a, l, i - 1), PieceAt(w, a, l, i), PieceLen(a, l, i))
<1> DEFINE lists == [i \in 1 .. 8 |-> PieceAt(w, a, l, i)]
           len == [i \in 1 .. 8 |-> PieceLen(a, l, i)]
           end == [i \in 0 .. 8 |-> PieceEnd(a, l, i)]
           s == Words(w)
           n == 8
<1>1. s = FlattenSeq(lists)
  BY DEF Words, PieceAt
<1>2. /\ \A i \in 1 .. 8 : lists[i] = PieceAt(w, a, l, i) /\ len[i] = PieceLen(a, l, i)
      /\ \A i \in 0 .. 8 : end[i] = PieceEnd(a, l, i)
      /\ HasLen(lists, n) /\ n \in Nat \ {0}
      /\ \A i \in 1 .. 8 : i - 1 \in 0 .. 8 /\ i \in 0 .. 8
  BY DEF HasLen
<1> HIDE DEF lists, len, end, s
<1>3. Ends(lists, n, len, end)
  <2>1. end[0] = 0
    BY <1>2, PieceEnds
  <2>2. ASSUME NEW i \in 1 .. 8
        PROVE  /\ IsText(lists[i], len[i]) /\ end[i] = end[i - 1] + len[i]
               /\ end[i - 1] \in Nat /\ end[i] \in Nat /\ end[i - 1] <= end[i]
    <3>1. lists[i] = PieceAt(w, a, l, i) /\ len[i] = PieceLen(a, l, i)
          /\ end[i] = PieceEnd(a, l, i) /\ end[i - 1] = PieceEnd(a, l, i - 1)
      BY <1>2
    <3>2. IsText(PieceAt(w, a, l, i), PieceLen(a, l, i))
      BY PieceTexts
    <3>3. /\ PieceEnd(a, l, i) = PieceEnd(a, l, i - 1) + PieceLen(a, l, i)
          /\ PieceEnd(a, l, i - 1) \in Nat /\ PieceEnd(a, l, i) \in Nat
          /\ PieceEnd(a, l, i - 1) <= PieceEnd(a, l, i)
      BY PieceEnds
    <3> QED BY <3>1, <3>2, <3>3
  <2> QED BY <2>1, <2>2 DEF Ends
<1> HIDE DEF n
<1>4. PiecesTo(s, lists, n, len, end)
  BY <1>1, <1>2, <1>3, FlatPieces
<1>5. IsText(s, end[n]) /\ \A i \in 1 .. n : Piece(s, end[i - 1], lists[i], len[i])
  BY <1>4 DEF PiecesTo
<1> QED BY <1>2, <1>5 DEF n, s

\* The tokens of the text s of an address, n of them.
PrintedAt(s, w, a, l, n) ==
    /\ IsText(s, n) /\ GapPlace(a, l)
    /\ a = 0 => n = 15
    /\ a # 0 => n = IF a + l = 9 THEN GapBehind(a) ELSE GapBehind(a) + 2 * (9 - (a + l)) - 1
    /\ \A i \in 1 .. 8 : a = 0 \/ i < a => s[2 * i - 1] = Printed(w[i], 16) /\ (i < 8 => s[2 * i] = Colon)
    /\ a # 0 => s[2 * a - 1] = Colon /\ (a = 1 => s[2] = Colon)
    /\ \A i \in 1 .. 8 : a # 0 /\ i >= a + l =>
          /\ s[GapBehind(a) + 2 * (i - (a + l)) + 1] = Printed(w[i], 16)
          /\ i < 8 => s[GapBehind(a) + 2 * (i - (a + l)) + 2] = Colon

\* The tokens of a piece.
LEMMA PieceOne ==
    ASSUME NEW s, NEW off, NEW x, NEW n, Piece(s, off, x, n), n >= 1
    PROVE  s[off + 1] = x[1] /\ (n >= 2 => s[off + 2] = x[2])
<1>1. n \in Nat /\ \A i \in 1 .. n : s[off + i] = x[i]
  BY DEF Piece
<1>2. 1 \in 1 .. n /\ (n >= 2 => 2 \in 1 .. n)
  BY <1>1
<1> QED BY <1>1, <1>2

\* The text of an address without a quad, token by token.
LEMMA WordsPrinted ==
    ASSUME NEW w, WordRange(w), NEW a, NEW l, LongestGap(w)[1] = a, LongestGap(w)[2] = l, GapPlace(a, l)
    PROVE  \E n : PrintedAt(Words(w), w, a, l, n)
<1> DEFINE s == Words(w)
           n == PieceEnd(a, l, 8)
           b == GapBehind(a)
<1>1. IsText(s, n) /\ \A i \in 1 .. 8 : Piece(s, PieceEnd(a, l, i - 1), PieceAt(w, a, l, i), PieceLen(a, l, i))
  BY WordsPieces
<1> HIDE DEF s
<1>2. (a = 0 /\ l = 0) \/ (a \in 1 .. 8 /\ l \in 2 .. 8 /\ a + l <= 9)
  BY DEF GapPlace
<1>3. a # 0 => b \in Nat /\ (a = 1 => b = 2) /\ (a # 1 => b = 2 * a - 1)
  BY <1>2 DEF GapBehind
<1>4. a = 0 => n = 15
  BY DEF PieceEnd
<1>5. a # 0 => n = IF a + l = 9 THEN b ELSE b + 2 * (9 - (a + l)) - 1
  <2> HAVE a # 0
  <2>1. ~(8 < a)
    BY <1>2
  <2>2. 8 < a + l <=> a + l = 9
    BY <1>2
  <2> QED BY <2>1, <2>2 DEF PieceEnd
<1>6. \A i \in 1 .. 8 : a = 0 \/ i < a => s[2 * i - 1] = Printed(w[i], 16) /\ (i < 8 => s[2 * i] = Colon)
  <2> TAKE i \in 1 .. 8
  <2> HAVE a = 0 \/ i < a
  <2> DEFINE x == PieceAt(w, a, l, i)
             k == PieceLen(a, l, i)
             off == PieceEnd(a, l, i - 1)
  <2>1. i # a /\ ~(i > a /\ i < a + l)
    BY <1>2
  <2>2. x = (IF i = 8 THEN <<Printed(w[i], 16)>> ELSE <<Printed(w[i], 16), Colon>>) /\ k = IF i = 8 THEN 1 ELSE 2
    BY <2>1, Zenon DEF PieceAt, PieceLen
  <2>3. off = 2 * i - 2
    <3>1. (a = 0 \/ i - 1 < a) /\ i - 1 # 8
      BY <1>2
    <3> QED BY <3>1 DEF PieceEnd
  <2>4. Piece(s, off, x, k)
    BY <1>1
  <2> HIDE DEF x, k, off
  <2>5. k >= 1 /\ x[1] = Printed(w[i], 16) /\ (i < 8 => k >= 2 /\ x[2] = Colon)
    BY <2>2
  <2>6. s[off + 1] = x[1] /\ (k >= 2 => s[off + 2] = x[2])
    BY <2>4, <2>5, PieceOne
  <2>7. off + 1 = 2 * i - 1 /\ off + 2 = 2 * i
    BY <2>3
  <2> QED BY <2>5, <2>6, <2>7
<1>7. a # 0 => s[2 * a - 1] = Colon /\ (a = 1 => s[2] = Colon)
  <2> HAVE a # 0
  <2> DEFINE x == PieceAt(w, a, l, a)
             k == PieceLen(a, l, a)
             off == PieceEnd(a, l, a - 1)
  <2>1. a \in 1 .. 8
    BY <1>2
  <2>2. x = (IF a = 1 THEN <<Colon, Colon>> ELSE <<Colon>>) /\ k = IF a = 1 THEN 2 ELSE 1
    BY Zenon DEF PieceAt, PieceLen
  <2>3. off = 2 * a - 2
    <3>1. a - 1 < a /\ a - 1 # 8
      BY <2>1
    <3> QED BY <2>1, <3>1 DEF PieceEnd
  <2>4. Piece(s, off, x, k)
    BY <1>1, <2>1
  <2> HIDE DEF x, k, off
  <2>5. k >= 1 /\ x[1] = Colon /\ (a = 1 => k >= 2 /\ x[2] = Colon)
    BY <2>2
  <2>6. s[off + 1] = x[1] /\ (k >= 2 => s[off + 2] = x[2])
    BY <2>4, <2>5, PieceOne
  <2>7. off + 1 = 2 * a - 1 /\ (a = 1 => off + 2 = 2)
    BY <2>1, <2>3
  <2> QED BY <2>5, <2>6, <2>7
<1>8. \A i \in 1 .. 8 : a # 0 /\ i >= a + l =>
          /\ s[b + 2 * (i - (a + l)) + 1] = Printed(w[i], 16)
          /\ i < 8 => s[b + 2 * (i - (a + l)) + 2] = Colon
  <2> TAKE i \in 1 .. 8
  <2> HAVE a # 0 /\ i >= a + l
  <2> DEFINE x == PieceAt(w, a, l, i)
             k == PieceLen(a, l, i)
             off == PieceEnd(a, l, i - 1)
  <2>0. a \in 1 .. 8 /\ l \in 2 .. 8 /\ a + l <= 9
    BY <1>2
  <2>1. i # a /\ ~(i > a /\ i < a + l)
    BY <2>0
  <2>2. x = (IF i = 8 THEN <<Printed(w[i], 16)>> ELSE <<Printed(w[i], 16), Colon>>) /\ k = IF i = 8 THEN 1 ELSE 2
    BY <2>1, Zenon DEF PieceAt, PieceLen
  <2>3. off = b + 2 * (i - (a + l))
    <3>1. a # 0 /\ ~(i - 1 < a) /\ i - 1 # 8 /\ (i - 1 < a + l <=> i = a + l) /\ (i - 1) + 1 = i
      BY <2>0
    <3>2. CASE i = a + l
      <4>1. off = b
        BY <3>1, <3>2 DEF PieceEnd
      <4>2. b \in Nat /\ i - (a + l) = 0
        BY <1>3, <2>0, <3>2
      <4> HIDE DEF off, b
      <4> QED BY <4>1, <4>2
    <3>3. CASE i # a + l
      <4>1. off = b + 2 * (i - 1 + 1 - (a + l))
        BY <3>1, <3>3 DEF PieceEnd
      <4>2. i - 1 + 1 - (a + l) = i - (a + l)
        BY <2>0
      <4> HIDE DEF off, b
      <4> QED BY <4>1, <4>2
    <3> QED BY <3>2, <3>3
  <2>4. Piece(s, off, x, k)
    BY <1>1
  <2> HIDE DEF x, k, off
  <2>5. k >= 1 /\ x[1] = Printed(w[i], 16) /\ (i < 8 => k >= 2 /\ x[2] = Colon)
    BY <2>2
  <2>6. s[off + 1] = x[1] /\ (k >= 2 => s[off + 2] = x[2])
    BY <2>4, <2>5, PieceOne
  <2> QED BY <2>3, <2>5, <2>6
<1> HIDE DEF n
<1>9. PrintedAt(s, w, a, l, n)
  BY <1>1, <1>4, <1>5, <1>6, <1>7, <1>8 DEF PrintedAt
<1> QED BY <1>9 DEF s

\* The words before and behind the gap of an address, as they are read.
WordsLeft(a) == IF a = 0 THEN 8 ELSE a - 1
WordsRight(a, l) == IF a = 0 THEN 0 ELSE 9 - (a + l)
ReadOf(w, a, l) == [i \in 1 .. 9 |-> IF i > 8 THEN 0 ELSE IF a = 0 \/ i < a THEN w[i]
                                     ELSE IF i + l <= 8 THEN w[i + l] ELSE 0]

\* The words that are read from the text of an address are words.
LEMMA ReadOfLegal ==
    ASSUME NEW w, WordRange(w), NEW a, NEW l, GapPlace(a, l)
    PROVE  Legal(ReadOf(w, a, l))
<1>0. (a = 0 /\ l = 0) \/ (a \in 1 .. 8 /\ l \in 2 .. 8 /\ a + l <= 9)
  BY DEF GapPlace
<1>1. 0 \in Nat /\ 0 < 16 ^ 4
  BY Powers
<1> SUFFICES ASSUME NEW i \in 1 .. 9
             PROVE  ReadOf(w, a, l)[i] \in Nat /\ ReadOf(w, a, l)[i] < 16 ^ 4
  BY DEF Legal
<1>2. CASE i > 8
  BY <1>1, <1>2 DEF ReadOf
<1>3. CASE ~(i > 8) /\ (a = 0 \/ i < a)
  <2>1. i \in 1 .. 8 /\ ReadOf(w, a, l)[i] = w[i]
    BY <1>3 DEF ReadOf
  <2> QED BY <2>1 DEF WordRange
<1>4. CASE ~(i > 8) /\ ~(a = 0 \/ i < a) /\ i + l <= 8
  <2>1. i + l \in 1 .. 8
    BY <1>0, <1>4
  <2>2. ReadOf(w, a, l)[i] = w[i + l]
    BY <1>4 DEF ReadOf
  <2> QED BY <2>1, <2>2 DEF WordRange
<1>5. CASE ~(i > 8) /\ ~(a = 0 \/ i < a) /\ ~(i + l <= 8)
  <2>1. ReadOf(w, a, l)[i] = 0
    BY <1>5 DEF ReadOf
  <2> QED BY <1>1, <2>1
<1> QED BY <1>2, <1>3, <1>4, <1>5

\* The text of an address has a shape that is read.
LEMMA WordsShape ==
    ASSUME NEW w, WordRange(w), NEW a, NEW l, NEW s, NEW n, PrintedAt(s, w, a, l, n)
    PROVE  Shape(s, n + 1, WordsLeft(a), a # 0, WordsRight(a, l), ReadOf(w, a, l))
<1> DEFINE v == ReadOf(w, a, l)
           e == n + 1
           x == WordsLeft(a)
           y == WordsRight(a, l)
           b == GapBehind(a)
<1>1. (a = 0 /\ l = 0) \/ (a \in 1 .. 8 /\ l \in 2 .. 8 /\ a + l <= 9)
  BY DEF PrintedAt, GapPlace
<1>2. Legal(v)
  BY ReadOfLegal DEF PrintedAt
<1>3. n \in Nat /\ Len(s) = n /\ DOMAIN s = 1 .. n
  BY TextPlaces DEF PrintedAt
<1>4. /\ (a = 0 => x = 8 /\ y = 0) /\ (a # 0 => x = a - 1 /\ y = 9 - (a + l))
      /\ x \in Nat /\ y \in Nat /\ x + y <= 8 /\ (a # 0 => x <= 7)
  BY <1>1 DEF WordsLeft, WordsRight
<1>5. a # 0 => b \in Nat /\ (a = 1 => b = 2) /\ (a # 1 => b = 2 * a - 1) /\ Behind(x) = b + 1
  <2> HAVE a # 0
  <2>1. b \in Nat /\ (a = 1 => b = 2) /\ (a # 1 => b = 2 * a - 1)
    BY <1>1 DEF GapBehind
  <2>2. Behind(x) = b + 1
    <3>1. CASE a = 1
      <4>1. x = 0
        BY <1>4, <3>1
      <4>2. Behind(x) = 3
        BY <4>1 DEF Behind
      <4> QED BY <2>1, <3>1, <4>2
    <3>2. CASE a # 1
      <4>1. x # 0 /\ x = a - 1
        BY <1>1, <1>4, <3>2
      <4>2. Behind(x) = 2 * x + 2
        BY <4>1 DEF Behind
      <4> HIDE DEF x, b
      <4> QED BY <1>1, <2>1, <3>2, <4>1, <4>2
    <3> QED BY <3>1, <3>2
  <2> QED BY <2>1, <2>2
<1>6. /\ a = 0 => n = 15
      /\ a # 0 => n = IF a + l = 9 THEN b ELSE b + 2 * (9 - (a + l)) - 1
      /\ \A i \in 1 .. 8 : a = 0 \/ i < a => s[2 * i - 1] = Printed(w[i], 16) /\ (i < 8 => s[2 * i] = Colon)
      /\ a # 0 => s[2 * a - 1] = Colon /\ (a = 1 => s[2] = Colon)
      /\ \A i \in 1 .. 8 : a # 0 /\ i >= a + l =>
          /\ s[b + 2 * (i - (a + l)) + 1] = Printed(w[i], 16)
          /\ i < 8 => s[b + 2 * (i - (a + l)) + 2] = Colon
  BY DEF PrintedAt
<1>7. \A i \in 1 .. 8 : /\ a = 0 \/ i < a => v[i] = w[i]
                        /\ a # 0 /\ i >= a /\ i + l <= 8 => v[i] = w[i + l]
  <2> TAKE i \in 1 .. 8
  <2>1. ~(i > 8) /\ i \in 1 .. 9 /\ (a # 0 /\ i >= a => ~(a = 0 \/ i < a))
    BY <1>1
  <2> QED BY <2>1 DEF ReadOf
<1> HIDE DEF v, x, y, b, e
<1>8. PrintedRow(s, e, 1, x, v, 0)
  <2> SUFFICES ASSUME NEW j \in 1 .. x
               PROVE  /\ s[1 + 2 * j - 2] = Printed(v[0 + j], 16) /\ 1 + 2 * j - 2 < e
                      /\ 1 + 2 * j - 1 = e \/ s[1 + 2 * j - 1] = Colon
    BY DEF PrintedRow
  <2>1. /\ j \in 1 .. 8 /\ 1 + 2 * j - 2 = 2 * j - 1 /\ 1 + 2 * j - 1 = 2 * j /\ 0 + j = j
        /\ a = 0 \/ j < a
    BY <1>1, <1>4
  <2>2. s[2 * j - 1] = Printed(v[j], 16)
    BY <1>6, <1>7, <2>1
  <2>3. 2 * j - 1 < e /\ (j < 8 \/ 2 * j = e)
    <3>1. CASE a = 0
      BY <1>3, <1>6, <2>1, <3>1 DEF e
    <3>2. CASE a # 0
      <4>1. 2 * j - 1 <= b /\ j < 8
        BY <1>1, <1>5, <2>1, <3>2
      <4>2. b <= n
        BY <1>1, <1>5, <1>6, <3>2
      <4> QED BY <1>3, <1>5, <2>1, <3>2, <4>1, <4>2 DEF e
    <3> QED BY <3>1, <3>2
  <2>4. 2 * j = e \/ s[2 * j] = Colon
    BY <1>6, <2>1, <2>3
  <2> QED BY <2>1, <2>2, <2>3, <2>4
<1>9. a # 0 => /\ 2 * x + 1 < e /\ s[2 * x + 1] = Colon
               /\ x = 0 => 2 < e /\ s[2] = Colon
               /\ PrintedRow(s, e, Behind(x), y, v, x)
               /\ Behind(x) + 2 * y >= e
  <2> HAVE a # 0
  <2>1. x = a - 1 /\ y = 9 - (a + l) /\ a \in 1 .. 8 /\ l \in 2 .. 8 /\ a + l <= 9 /\ b \in Nat /\ Behind(x) = b + 1
    BY <1>1, <1>4, <1>5
  <2>2. (y = 0 => n = b) /\ (y > 0 => n = b + 2 * y - 1) /\ e = n + 1
    BY <1>6, <2>1 DEF e
  <2>3. 2 * x + 1 = 2 * a - 1 /\ 2 * a - 1 <= b /\ (x = 0 => b = 2 /\ a = 1)
    BY <1>5, <2>1
  <2>4. 2 * x + 1 < e /\ (x = 0 => 2 < e)
    BY <2>1, <2>2, <2>3
  <2>5. s[2 * x + 1] = Colon /\ (x = 0 => s[2] = Colon)
    BY <1>6, <2>3
  <2>6. Behind(x) + 2 * y >= e
    BY <2>1, <2>2
  <2> DEFINE p == Behind(x)
  <2>7. p = b + 1
    BY <2>1
  <2> HIDE DEF p
  <2>8. PrintedRow(s, e, p, y, v, x)
    <3> SUFFICES ASSUME NEW j \in 1 .. y
                 PROVE  /\ s[p + 2 * j - 2] = Printed(v[x + j], 16) /\ p + 2 * j - 2 < e
                        /\ p + 2 * j - 1 = e \/ s[p + 2 * j - 1] = Colon
      BY DEF PrintedRow
    <3> DEFINE i == a + l + j - 1
               k == x + j
    <3>1. /\ i \in 1 .. 8 /\ i >= a + l /\ b + 2 * (i - (a + l)) + 1 = p + 2 * j - 2
          /\ b + 2 * (i - (a + l)) + 2 = p + 2 * j - 1 /\ k \in 1 .. 8 /\ k >= a /\ k + l = i
          /\ i < 8 \/ j = y
      BY <2>1, <2>7
    <3> HIDE DEF i, k
    <3>2. s[p + 2 * j - 2] = Printed(w[i], 16) /\ (i < 8 => s[p + 2 * j - 1] = Colon)
      <4> DEFINE h == p + 2 * j - 2
                 g == p + 2 * j - 1
      <4>1. h = b + 2 * (i - (a + l)) + 1 /\ g = b + 2 * (i - (a + l)) + 2
        BY <3>1
      <4> HIDE DEF h, g
      <4>2. s[h] = Printed(w[i], 16) /\ (i < 8 => s[g] = Colon)
        BY <1>6, <3>1, <4>1
      <4> QED BY <4>2 DEF h, g
    <3>3. v[k] = w[i]
      BY <1>7, <2>1, <3>1
    <3>4. p + 2 * j - 2 < e /\ (j = y => p + 2 * j - 1 = e)
      BY <2>1, <2>2, <2>7
    <3>5. v[x + j] = v[k]
      BY DEF k
    <3> QED BY <3>1, <3>2, <3>3, <3>4, <3>5
  <2> QED BY <2>4, <2>5, <2>6, <2>8 DEF p
<1>10. a = 0 => y = 0 /\ 2 * x + 1 >= e
  BY <1>3, <1>4, <1>6 DEF e
<1>11. e \in Nat \ {0} /\ \A i \in 1 .. e - 1 : i \in DOMAIN s
  BY <1>3 DEF e
<1>12. Shape(s, e, x, a # 0, y, v)
  BY <1>2, <1>4, <1>8, <1>9, <1>10, <1>11 DEF Shape
<1> QED BY <1>12 DEF e, x, y, v

\* x is n numbers.
IsRow(x, n) == x \in Seq(Nat) /\ n \in Nat /\ Len(x) = n

\* z is x, and y behind it.
Appended(z, x, m, y, n) ==
    /\ IsRow(z, m + n)
    /\ \A i \in 1 .. m : z[i] = x[i]
    /\ \A i \in 1 .. n : z[m + i] = y[i]

\* Two rows of numbers, one behind the other.
LEMMA RowJoined ==
    ASSUME NEW x, NEW m, IsRow(x, m), NEW y, NEW n, IsRow(y, n)
    PROVE  Appended(x \o y, x, m, y, n)
<1> DEFINE T == Nat
<1>1. x \in Seq(T) /\ y \in Seq(T) /\ Len(x) = m /\ Len(y) = n /\ m \in Nat /\ n \in Nat
  BY DEF IsRow
<1> HIDE DEF T
<1>2. /\ x \o y \in Seq(T) /\ Len(x \o y) = Len(x) + Len(y)
      /\ \A k \in 1 .. Len(x) : (x \o y)[k] = x[k]
      /\ \A k \in 1 .. Len(y) : (x \o y)[Len(x) + k] = y[k]
  BY ONLY <1>1
<1> DEFINE z == x \o y
<1> HIDE DEF z
<1>3. /\ z \in Seq(T) /\ Len(z) = m + n
      /\ \A k \in 1 .. m : z[k] = x[k]
      /\ \A k \in 1 .. n : z[m + k] = y[k]
  BY ONLY <1>1, <1>2, Zenon DEF z
<1>4. m + n \in Nat
  BY <1>1
<1>5. IsRow(z, m + n)
  BY <1>3, <1>4, Zenon DEF IsRow, T
<1> QED BY <1>3, <1>5, Zenon DEF z, Appended

\* A row is a function.
LEMMA RowMade ==
    ASSUME NEW n \in Nat, NEW x, x = [i \in 1 .. n |-> x[i]], \A i \in 1 .. n : x[i] \in Nat
    PROVE  IsRow(x, n)
<1>1. x \in Seq(Nat)
  OBVIOUS
<1>2. Len(x) = n
  OBVIOUS
<1> QED BY <1>1, <1>2 DEF IsRow

\* x is the n numbers of w behind the first k.
PartIs(x, w, k, n) == IsRow(x, n) /\ \A i \in 1 .. n : x[i] = w[k + i]

\* Two parts of an address that follow each other are one part.
LEMMA PartsJoined ==
    ASSUME NEW w, NEW x, NEW m, NEW y, NEW n, PartIs(x, w, 0, m), PartIs(y, w, m, n)
    PROVE  PartIs(x \o y, w, 0, m + n)
<1> DEFINE z == x \o y
<1>1. IsRow(x, m) /\ IsRow(y, n)
  BY DEF PartIs
<1>2. /\ IsRow(z, m + n)
      /\ \A i \in 1 .. m : z[i] = x[i]
      /\ \A i \in 1 .. n : z[m + i] = y[i]
  <2>1. Appended(z, x, m, y, n)
    BY <1>1, RowJoined, Zenon
  <2> QED BY <2>1, Zenon DEF Appended
<1>3. m \in Nat /\ n \in Nat
  BY <1>1 DEF IsRow
<1>4. (\A i \in 1 .. m : x[i] = w[0 + i]) /\ \A i \in 1 .. n : y[i] = w[m + i]
  BY DEF PartIs
<1> HIDE DEF z
<1>5. \A i \in 1 .. m + n : z[i] = w[0 + i]
  <2> TAKE i \in 1 .. m + n
  <2>1. CASE i <= m
    BY <1>2, <1>3, <1>4, <2>1
  <2>2. CASE ~(i <= m)
    <3>1. i - m \in 1 .. n /\ m + (i - m) = i /\ 0 + i = i
      BY <1>3, <2>2
    <3> QED BY <1>2, <1>4, <3>1
  <2> QED BY <2>1, <2>2
<1> QED BY <1>2, <1>5, Zenon DEF z, PartIs

\* The part of all eight words is the address.
LEMMA WholeIs ==
    ASSUME NEW x, NEW w \in [1 .. 8 -> Nat], PartIs(x, w, 0, 8)
    PROVE  x = w
<1>1. x \in Seq(Nat) /\ Len(x) = 8 /\ \A i \in 1 .. 8 : x[i] = w[0 + i]
  BY DEF PartIs, IsRow
<1>2. x \in [1 .. 8 -> Nat]
  BY <1>1
<1>3. \A i \in 1 .. 8 : x[i] = w[i]
  BY <1>1
<1> QED BY <1>2, <1>3

\* l words of v, z zeros, r words of v and q words of quad are the words of w.
Fills(w, v, l, z, r, quad, q) ==
    /\ w \in [1 .. 8 -> Nat] /\ l \in Nat /\ z \in Nat /\ r \in Nat /\ l + z + r + q = 8
    /\ \A i \in 1 .. l : v[i] = w[i]
    /\ \A i \in 1 .. z : w[l + i] = 0
    /\ \A i \in 1 .. r : v[l + i] = w[l + z + i]
    /\ PartIs(quad, w, l + z + r, q)

\* The words that are read are those of w.
LEMMA FilledIs ==
    ASSUME NEW w, NEW v, NEW l, NEW z, NEW r, NEW q, NEW quad, Fills(w, v, l, z, r, quad, q)
    PROVE  GapFilled(v, l, r, quad) = w
<1> DEFINE a == WordsOf(v, l)
           b == [i \in 1 .. z |-> 0]
           c == WordsBehind(v, l, r)
<1>20. w \in [1 .. 8 -> Nat] /\ l \in Nat /\ z \in Nat /\ r \in Nat /\ l + z + r + q = 8
  BY DEF Fills
<1>21. \A i \in 1 .. l : v[i] = w[i]
  BY DEF Fills
<1>22. \A i \in 1 .. z : w[l + i] = 0
  BY DEF Fills
<1>23. \A i \in 1 .. r : v[l + i] = w[l + z + i]
  BY DEF Fills
<1>24. PartIs(quad, w, l + z + r, q)
  BY DEF Fills
<1>0. q \in Nat /\ Len(quad) = q
  BY <1>24 DEF PartIs, IsRow
<1>1. PartIs(a, w, 0, l)
  <2>1. \A i \in 1 .. l : i \in 1 .. 8 /\ 0 + i = i
    BY <1>0, <1>20
  <2>2. a = [i \in 1 .. l |-> a[i]] /\ \A i \in 1 .. l : a[i] = w[0 + i] /\ a[i] \in Nat
    BY <1>20, <1>21, <2>1 DEF WordsOf
  <2> HIDE DEF a
  <2> QED BY <1>20, <2>2, RowMade DEF PartIs
<1>2. PartIs(b, w, l, z)
  <2>1. b = [i \in 1 .. z |-> b[i]] /\ \A i \in 1 .. z : b[i] = w[l + i] /\ b[i] \in Nat
    BY <1>22
  <2> HIDE DEF b
  <2> QED BY <1>20, <2>1, RowMade DEF PartIs
<1>3. PartIs(c, w, l + z, r)
  <2>1. \A i \in 1 .. r : l + z + i \in 1 .. 8
    BY <1>0, <1>20
  <2>2. c = [i \in 1 .. r |-> c[i]] /\ \A i \in 1 .. r : c[i] = w[l + z + i] /\ c[i] \in Nat
    BY <1>20, <1>23, <2>1 DEF WordsBehind
  <2> HIDE DEF c
  <2> QED BY <1>20, <2>2, RowMade DEF PartIs
<1>4. GapFilled(v, l, r, quad) = a \o b \o c \o quad
  <2>1. 8 - (l + r) - Len(quad) = z
    BY <1>0, <1>20
  <2> QED BY <2>1, Zenon DEF GapFilled
<1> HIDE DEF a, b, c
<1>5. PartIs(a \o b, w, 0, l + z)
  BY ONLY <1>1, <1>2, PartsJoined, Zenon
<1>6. PartIs(a \o b \o c, w, 0, l + z + r)
  BY ONLY <1>3, <1>5, PartsJoined, Zenon
<1>7. PartIs(a \o b \o c \o quad, w, 0, l + z + r + q)
  BY <1>6, <1>24, PartsJoined, Zenon
<1>9. l + z + r + q = 8
  BY <1>20
<1>8. a \o b \o c \o quad = w
  BY <1>7, <1>9, <1>20, WholeIs, Zenon
<1> QED BY <1>4, <1>8, Zenon

\* The words that are left, and where they were.
LEMMA ReadOfPlaces ==
    ASSUME NEW w, NEW a, NEW l, GapPlace(a, l)
    PROVE  /\ \A i \in 1 .. 8 : a = 0 => ReadOf(w, a, l)[i] = w[i]
           /\ a # 0 => /\ \A i \in 1 .. a - 1 : ReadOf(w, a, l)[i] = w[i]
                       /\ \A i \in 1 .. 9 - (a + l) : ReadOf(w, a, l)[a - 1 + i] = w[a - 1 + l + i]
<1>1. (a = 0 /\ l = 0) \/ (a \in 1 .. 8 /\ l \in 2 .. 8 /\ a + l <= 9)
  BY DEF GapPlace
<1>2. ASSUME NEW i \in 1 .. 8, a = 0 \/ i < a
      PROVE  ReadOf(w, a, l)[i] = w[i]
  <2>1. i \in 1 .. 9 /\ ~(i > 8)
    OBVIOUS
  <2> QED BY <1>2, <2>1 DEF ReadOf
<1>3. ASSUME a # 0, NEW i \in 1 .. 9 - (a + l)
      PROVE  ReadOf(w, a, l)[a - 1 + i] = w[a - 1 + l + i]
  <2> DEFINE k == a - 1 + i
  <2>1. k \in 1 .. 9 /\ ~(k > 8) /\ ~(a = 0 \/ k < a) /\ k + l <= 8 /\ k + l = a - 1 + l + i
    BY <1>1, <1>3
  <2> HIDE DEF k
  <2>2. ReadOf(w, a, l)[k] = w[k + l]
    BY <2>1 DEF ReadOf
  <2> QED BY <2>1, <2>2 DEF k
<1>4. ASSUME a # 0, NEW i \in 1 .. a - 1
      PROVE  i \in 1 .. 8 /\ i < a
  BY <1>1, <1>4
<1> QED BY <1>2, <1>3, <1>4

\* The reading of the words and of nothing else is the address.
LEMMA ReadingIs ==
    ASSUME NEW w \in [1 .. 8 -> Nat], WordRange(w), NEW a, NEW l, GapIs(w, a, l)
    PROVE  PlainReading(WordsLeft(a), a # 0, WordsRight(a, l), ReadOf(w, a, l)) = w
<1> DEFINE v == ReadOf(w, a, l)
           x == WordsLeft(a)
           y == WordsRight(a, l)
           q == 0
           quad == <<>>
<1>1. (a = 0 /\ l = 0) \/ (a \in 1 .. 8 /\ l \in 2 .. 8 /\ a + l <= 9 /\ \A i \in a .. a + l - 1 : w[i] = 0)
  BY DEF GapIs
<1>2. GapPlace(a, l)
  BY <1>1 DEF GapPlace
<1>3. \A i \in 1 .. 9 : v[i] \in Nat
  BY <1>2, ReadOfLegal DEF Legal
<1>4. /\ \A i \in 1 .. 8 : a = 0 => v[i] = w[i]
      /\ a # 0 => /\ \A i \in 1 .. a - 1 : v[i] = w[i]
                  /\ \A i \in 1 .. 9 - (a + l) : v[a - 1 + i] = w[a - 1 + l + i]
  BY <1>2, ReadOfPlaces
<1>5. (a = 0 => x = 8 /\ y = 0) /\ (a # 0 => x = a - 1 /\ y = 9 - (a + l))
  BY DEF WordsLeft, WordsRight
<1>6. PlainReading(x, a # 0, y, v) = IF (x + y = 8) # ~(a # 0) THEN NULL
                                    ELSE Filled(WordsOf(v, x + y), GapAt(a # 0, x), quad)
  BY Zenon DEF PlainReading
<1> HIDE DEF v, x, y
<1>7. CASE a = 0
  <2>1. x + y = 8
    BY <1>5, <1>7
  <2>2. PlainReading(x, a # 0, y, v) = Filled(WordsOf(v, x + y), GapAt(a # 0, x), quad)
    BY <1>6, <1>7, <2>1, Zenon
  <2>3. GapAt(a # 0, x) = -1
    BY <1>7, Zenon DEF GapAt
  <2>4. WordsOf(v, x + y) = w
    <3>1. WordsOf(v, 8) = w
      BY <1>4, <1>7 DEF WordsOf
    <3> QED BY <2>1, <3>1, Zenon
  <2>5. w \o <<>> = w
    <3>1. w \in Seq(Nat)
      <4>1. w = [i \in 1 .. 8 |-> w[i]] /\ \A i \in 1 .. 8 : w[i] \in Nat
        OBVIOUS
      <4> QED BY <4>1, RowMade DEF IsRow
    <3> QED BY <3>1
  <2>6. Filled(w, -1, quad) = w \o quad
    BY FilledPlain, Zenon
  <2> QED BY <2>2, <2>3, <2>4, <2>5, <2>6, Zenon DEF v, x, y
<1>8. CASE a # 0
  <2>1. x + y # 8 /\ x \in Nat /\ y \in Nat /\ l \in Nat /\ x + y <= 8 /\ x + l + y + 0 = 8
    BY <1>1, <1>5, <1>8
  <2>2. PlainReading(x, a # 0, y, v) = Filled(WordsOf(v, x + y), GapAt(a # 0, x), quad)
    BY <1>6, <1>8, <2>1, Zenon
  <2>3. GapAt(a # 0, x) = x
    BY <1>8, Zenon DEF GapAt
  <2>4. PartIs(quad, w, x + l + y, q)
    BY DEF PartIs, IsRow
  <2> HIDE DEF q, quad
  <2>5. x + l + y + q = 8
    BY <2>1 DEF q
  <2>6. (\A i \in 1 .. x : v[i] = w[i]) /\ (\A i \in 1 .. l : w[x + i] = 0) /\ \A i \in 1 .. y : v[x + i] = w[x + l + i]
    <3>1. \A i \in 1 .. l : x + i \in a .. a + l - 1
      BY <1>1, <1>5, <1>8
    <3>2. \A i \in 1 .. l : w[x + i] = 0
      BY <1>1, <1>8, <3>1
    <3>3. x = a - 1 /\ y = 9 - (a + l)
      BY <1>5, <1>8
    <3> QED BY <1>4, <1>8, <3>2, <3>3
  <2>7. GapFilled(v, x, y, quad) = w
    <3>1. Fills(w, v, x, l, y, quad, q)
      BY <2>1, <2>4, <2>5, <2>6 DEF Fills
    <3> QED BY ONLY <3>1, FilledIs
  <2>8. Filled(WordsOf(v, x + y), x, quad) = GapFilled(v, x, y, quad)
    BY <1>3, <2>1, FilledGap
  <2> QED BY <2>2, <2>3, <2>7, <2>8, Zenon DEF v, x, y
<1> QED BY <1>7, <1>8

\* A colon at the end of a text is one of two.
LEMMA EndOfWords ==
    ASSUME NEW w, WordRange(w), NEW a, NEW l, NEW s, NEW n, PrintedAt(s, w, a, l, n)
    PROVE  n \in Nat /\ n >= 2 /\ (Is(s, n, Colon) => Is(s, n - 1, Colon))
<1> DEFINE b == GapBehind(a)
<1>1. (a = 0 /\ l = 0) \/ (a \in 1 .. 8 /\ l \in 2 .. 8 /\ a + l <= 9)
  BY DEF PrintedAt, GapPlace
<1>2. a # 0 => b \in Nat /\ (a = 1 => b = 2) /\ (a # 1 => b = 2 * a - 1)
  BY <1>1 DEF GapBehind
<1>3. n \in Nat /\ DOMAIN s = 1 .. n
  BY TextPlaces DEF PrintedAt
<1>4. /\ a = 0 => n = 15
      /\ a # 0 => n = IF a + l = 9 THEN b ELSE b + 2 * (9 - (a + l)) - 1
      /\ \A i \in 1 .. 8 : a = 0 \/ i < a => s[2 * i - 1] = Printed(w[i], 16) /\ (i < 8 => s[2 * i] = Colon)
      /\ a # 0 => s[2 * a - 1] = Colon /\ (a = 1 => s[2] = Colon)
      /\ \A i \in 1 .. 8 : a # 0 /\ i >= a + l =>
          /\ s[b + 2 * (i - (a + l)) + 1] = Printed(w[i], 16)
          /\ i < 8 => s[b + 2 * (i - (a + l)) + 2] = Colon
  BY DEF PrintedAt
<1> HIDE DEF b
<1>5. n >= 2
  BY <1>1, <1>2, <1>4
<1>6. Printed(w[8], 16) # Colon
  <2>1. w[8] \in Nat /\ w[8] < 16 ^ 4
    BY DEF WordRange
  <2> QED BY <2>1, HexToken
<1>7. CASE a = 0
  <2>1. s[15] = Printed(w[8], 16)
    <3>1. s[2 * 8 - 1] = Printed(w[8], 16)
      BY <1>4, <1>7
    <3> QED BY <3>1
  <2> QED BY <1>3, <1>4, <1>5, <1>6, <1>7, <2>1 DEF Is
<1>8. CASE a # 0 /\ a + l # 9
  <2>1. s[b + 2 * (8 - (a + l)) + 1] = Printed(w[8], 16) /\ n = b + 2 * (8 - (a + l)) + 1
    BY <1>1, <1>2, <1>4, <1>8
  <2> QED BY <1>3, <1>5, <1>6, <2>1 DEF Is
<1>9. CASE a # 0 /\ a + l = 9
  <2>1. s[n - 1] = Colon
    <3>1. CASE a = 1
      <4>1. n = 2 /\ s[1] = Colon
        BY <1>2, <1>4, <1>9, <3>1
      <4> QED BY <4>1
    <3>2. CASE a # 1
      <4> DEFINE i == a - 1
      <4>1. i \in 1 .. 8 /\ i < a /\ i < 8 /\ 2 * i = n - 1
        BY <1>1, <1>2, <1>4, <1>9, <3>2
      <4> HIDE DEF i
      <4>2. s[2 * i] = Colon
        BY <1>4, <4>1
      <4> QED BY <4>1, <4>2
    <3> QED BY <3>1, <3>2
  <2>2. n - 1 \in 1 .. n
    BY <1>3, <1>5
  <2> QED BY <1>3, <1>5, <2>1, <2>2 DEF Is
<1> QED BY <1>3, <1>5, <1>7, <1>8, <1>9

\* tor_inet_pton reads the text of an address.
LEMMA TextRead ==
    ASSUME NEW w \in [1 .. 8 -> Nat], WordRange(w), NEW a, NEW l, NEW n,
           GapIs(w, a, l), PrintedAt(Words(w), w, a, l, n)
    PROVE  Pton(Words(w)) = w
<1> DEFINE s == Words(w)
           v == ReadOf(w, a, l)
           x == WordsLeft(a)
           y == WordsRight(a, l)
<1>1. Shape(s, n + 1, x, a # 0, y, v)
  BY WordsShape, Zenon
<1>2. n \in Nat /\ (Is(s, n, Colon) => Is(s, n - 1, Colon))
  BY EndOfWords, Zenon
<1>3. HasLen(s, n) /\ DOMAIN s = 1 .. n
  BY TextPlaces DEF PrintedAt, HasLen
<1>4. PlainReading(x, a # 0, y, v) = w
  BY ReadingIs, Zenon
<1> HIDE DEF s, v, x, y
<1>5. Pton(s) = PlainReading(x, a # 0, y, v)
  <2>1. n \in Nat /\ HasLen(s, n) /\ DOMAIN s = 1 .. n
    BY <1>2, <1>3
  <2> QED BY <1>1, <1>2, <2>1, PlainRead
<1> QED BY <1>4, <1>5, Zenon DEF s

\* A colon, or a word that is the first token or has a colon before it.
WordAfterColon(s, w, i) ==
    s[i] = Colon \/ ((\E j \in 1 .. 8 : s[i] = Printed(w[j], 16)) /\ (i = 1 \/ s[i - 1] = Colon))

\* The text of an address is words and colons, and not longer than its gap allows.
LEMMA WordTokens ==
    ASSUME NEW w, NEW a, NEW l, NEW s, NEW n, PrintedAt(s, w, a, l, n)
    PROVE  /\ \A i \in 1 .. n : WordAfterColon(s, w, i)
           /\ n \in 1 .. 15 /\ (a # 0 /\ l <= 7 => n <= 2 * (8 - l) + 1)
<1> DEFINE b == GapBehind(a)
<1>1. (a = 0 /\ l = 0) \/ (a \in 1 .. 8 /\ l \in 2 .. 8 /\ a + l <= 9)
  BY DEF PrintedAt, GapPlace
<1>2. a # 0 => b \in Nat /\ (a = 1 => b = 2) /\ (a # 1 => b = 2 * a - 1)
  BY <1>1 DEF GapBehind
<1>3. /\ a = 0 => n = 15
      /\ a # 0 => n = IF a + l = 9 THEN b ELSE b + 2 * (9 - (a + l)) - 1
  BY DEF PrintedAt
<1>4. \A i \in 1 .. 8 : a = 0 \/ i < a => s[2 * i - 1] = Printed(w[i], 16) /\ (i < 8 => s[2 * i] = Colon)
  BY DEF PrintedAt
<1>5. a # 0 => s[2 * a - 1] = Colon /\ (a = 1 => s[2] = Colon)
  BY DEF PrintedAt
<1>6. \A i \in 1 .. 8 : a # 0 /\ i >= a + l =>
          /\ s[b + 2 * (i - (a + l)) + 1] = Printed(w[i], 16)
          /\ i < 8 => s[b + 2 * (i - (a + l)) + 2] = Colon
  BY DEF PrintedAt
<1> HIDE DEF b
<1>7. n \in 1 .. 15 /\ (a # 0 /\ l <= 7 => n <= 2 * (8 - l) + 1)
  BY <1>1, <1>2, <1>3
<1>8. ASSUME NEW j \in 1 .. 8, a = 0 \/ j < a
      PROVE  WordAfterColon(s, w, 2 * j - 1) /\ (j < 8 => s[2 * j] = Colon)
  <2> DEFINE i == 2 * j - 1
             k == j - 1
  <2>1. j # 1 => k \in 1 .. 8 /\ (a = 0 \/ k < a) /\ k < 8 /\ 2 * k = i - 1
    BY <1>1, <1>8
  <2>2. j = 1 => i = 1
    OBVIOUS
  <2>3. s[i] = Printed(w[j], 16) /\ (j < 8 => s[2 * j] = Colon)
    BY <1>4, <1>8
  <2> HIDE DEF i, k
  <2>4. j # 1 => s[i - 1] = Colon
    <3>1. j # 1 => s[2 * k] = Colon
      BY <1>4, <2>1
    <3> QED BY <2>1, <3>1
  <2>5. WordAfterColon(s, w, i)
    BY <2>2, <2>3, <2>4 DEF WordAfterColon
  <2> QED BY <2>3, <2>5 DEF i
<1>9. ASSUME a # 0, NEW j \in 1 .. 8, j >= a + l
      PROVE  /\ WordAfterColon(s, w, b + 2 * (j - (a + l)) + 1)
             /\ j < 8 => s[b + 2 * (j - (a + l)) + 2] = Colon
  <2> DEFINE i == b + 2 * (j - (a + l)) + 1
             k == j - 1
             h == b + 2 * (k - (a + l)) + 2
  <2>1. j # a + l => k \in 1 .. 8 /\ k >= a + l /\ k < 8 /\ h = i - 1
    BY <1>1, <1>2, <1>9
  <2>2. j = a + l => i - 1 = b
    BY <1>1, <1>2, <1>9
  <2>3. s[i] = Printed(w[j], 16) /\ (j < 8 => s[b + 2 * (j - (a + l)) + 2] = Colon)
    BY <1>6, <1>9
  <2>4. s[b] = Colon
    BY <1>1, <1>2, <1>5, <1>9
  <2>5. j # a + l => s[h] = Colon
    <3> HIDE DEF k
    <3> QED BY <1>6, <1>9, <2>1
  <2> HIDE DEF i, h, k
  <2>6. s[i - 1] = Colon
    BY <2>1, <2>2, <2>4, <2>5
  <2>7. WordAfterColon(s, w, i)
    BY <2>3, <2>6 DEF WordAfterColon
  <2> QED BY <2>3, <2>7 DEF i
<1>10. ASSUME NEW i \in 1 .. n
       PROVE  WordAfterColon(s, w, i)
  <2>0. i \in 1 .. 15 /\ n \in 1 .. 15 /\ i <= n
    BY <1>7
  <2>1. CASE (a = 0 /\ i <= 15) \/ (a # 0 /\ i < 2 * a - 1)
    <3>1. PICK j \in 1 .. 8 : i = 2 * j - 1 \/ i = 2 * j
      <4>1. i \in 1 .. 15
        BY <2>0
      <4>2. \E j \in 1 .. 8 : i = 2 * j - 1 \/ i = 2 * j
        BY <4>1
      <4> QED BY <4>2
    <3>2. (a = 0 \/ j < a) /\ (i = 2 * j => j < 8)
      BY <1>1, <2>0, <2>1, <3>1
    <3>3. WordAfterColon(s, w, 2 * j - 1) /\ (j < 8 => s[2 * j] = Colon)
      BY <1>8, <3>2
    <3> QED BY <3>1, <3>2, <3>3 DEF WordAfterColon
  <2>2. CASE a # 0 /\ i >= 2 * a - 1 /\ i <= b
    <3>1. i = 2 * a - 1 \/ (a = 1 /\ i = 2)
      BY <1>1, <1>2, <2>0, <2>2
    <3> QED BY <1>5, <2>2, <3>1 DEF WordAfterColon
  <2>3. CASE a # 0 /\ i > b
    <3> DEFINE d == i - b
    <3>1. d \in 1 .. 15 /\ i = b + d
      BY <1>1, <1>2, <2>0, <2>3
    <3> HIDE DEF d
    <3>2. PICK k \in 0 .. 7 : d = 2 * k + 1 \/ d = 2 * k + 2
      <4>1. \E k \in 0 .. 7 : d = 2 * k + 1 \/ d = 2 * k + 2
        BY <3>1
      <4> QED BY <4>1
    <3> DEFINE j == a + l + k
    <3>3. j \in 1 .. 8 /\ j >= a + l /\ (d = 2 * k + 2 => j < 8) /\ j - (a + l) = k
      BY <1>1, <1>2, <1>3, <2>0, <2>3, <3>1, <3>2
    <3> HIDE DEF j
    <3>4. WordAfterColon(s, w, b + 2 * (j - (a + l)) + 1) /\ (j < 8 => s[b + 2 * (j - (a + l)) + 2] = Colon)
      BY <1>9, <2>3, <3>3
    <3>5. WordAfterColon(s, w, b + 2 * k + 1) /\ (j < 8 => s[b + 2 * k + 2] = Colon)
      BY <3>3, <3>4, Zenon
    <3>6. (d = 2 * k + 1 => i = b + 2 * k + 1) /\ (d = 2 * k + 2 => i = b + 2 * k + 2)
      BY <1>2, <2>3, <3>1, <3>2
    <3>7. CASE d = 2 * k + 1
      BY <3>5, <3>6, <3>7
    <3>8. CASE d = 2 * k + 2
      BY <3>3, <3>5, <3>6, <3>8 DEF WordAfterColon
    <3> QED BY <3>2, <3>7, <3>8
  <2>4. (a = 0 /\ i <= 15) \/ (a # 0 /\ i < 2 * a - 1) \/ (a # 0 /\ i >= 2 * a - 1 /\ i <= b) \/ (a # 0 /\ i > b)
    BY <1>1, <1>2, <2>0
  <2> QED BY <2>1, <2>2, <2>3, <2>4
<1> QED BY <1>7, <1>10

\* The text of an address fits 39 characters.
LEMMA WordsFit ==
    ASSUME NEW w, WordRange(w), NEW a, NEW l, NEW s, NEW n, PrintedAt(s, w, a, l, n)
    PROVE  TextLen(s) \in Nat /\ TextLen(s) <= 39
<1> DEFINE c == 4
<1>1. n \in 1 .. 15 /\ \A i \in 1 .. n : WordAfterColon(s, w, i)
  BY WordTokens
<1>2. Len(s) = n
  BY TextPlaces DEF PrintedAt
<1>3. Colon \in Seq(Nat) /\ Len(Colon) = 1
  BY DEF Colon
<1>4. \A j \in 1 .. 8 : Printed(w[j], 16) \in Seq(Nat) /\ Len(Printed(w[j], 16)) <= 4
  <2> TAKE j \in 1 .. 8
  <2>1. w[j] \in Nat /\ w[j] < 16 ^ 4
    BY DEF WordRange
  <2> QED BY <2>1, HexToken DEF Token
<1>5. \A i \in 1 .. n : s[i] \in Seq(Nat) /\ Len(s[i]) <= c
  <2> TAKE i \in 1 .. n
  <2>1. CASE s[i] = Colon
    <3>1. Len(s[i]) = 1 /\ s[i] \in Seq(Nat)
      BY <1>3, <2>1, Zenon
    <3>2. 1 <= c
      OBVIOUS
    <3> QED BY <3>1, <3>2, Zenon
  <2>2. CASE s[i] # Colon
    <3>1. \E j \in 1 .. 8 : s[i] = Printed(w[j], 16)
      BY <1>1, <2>2, Zenon DEF WordAfterColon
    <3> QED BY <1>4, <3>1, Zenon
  <2> QED BY <2>1, <2>2
<1>6. \A i \in 2 .. n : Len(s[i - 1]) <= 1 \/ Len(s[i]) <= 1
  <2> TAKE i \in 2 .. n
  <2>1. i \in 1 .. n /\ i # 1 /\ 1 <= 1
    BY <1>1
  <2>2. s[i] = Colon \/ s[i - 1] = Colon
    BY <1>1, <2>1, Zenon DEF WordAfterColon
  <2> QED BY <1>3, <2>1, <2>2, Zenon
<1>7. c \in {3, 4} /\ n \in Nat /\ n >= 1
  BY <1>1
<1> HIDE DEF c
<1>8. TextLen(s) \in Nat /\ 2 * TextLen(s) <= (c + 1) * n + c - 1
  BY <1>2, <1>5, <1>6, <1>7, TextLenBound
<1> DEFINE t == TextLen(s)
<1> HIDE DEF t
<1>9. t \in Nat /\ 2 * t <= 5 * n + 3
  BY <1>1, <1>8 DEF c, t
<1>10. t <= 39
  BY <1>1, <1>9
<1> QED BY <1>9, <1>10 DEF t

\* The octets that two words are printed as.
LEMMA Halves ==
    ASSUME NEW n \in Nat
    PROVE  /\ n \div 256 \in Nat /\ n % 256 \in Nat /\ n % 256 < 256
           /\ n % 256 = n - 256 * (n \div 256)
<1>1. n \div 256 \in Nat /\ n % 256 \in Nat /\ n % 256 < 256
  BY SMT
<1>2. n % 256 = n - 256 * (n \div 256)
  BY SMT
<1> QED BY <1>1, <1>2, Zenon

\* The two octets of a word.
LEMMA OctetsOfWord ==
    ASSUME NEW n, n \in Nat, n < 16 ^ 4
    PROVE  /\ n \div 256 \in Nat /\ n \div 256 < 256 /\ n % 256 \in Nat /\ n % 256 < 256
           /\ n % 256 = n - 256 * (n \div 256)
<1> DEFINE x == n \div 256
           y == n % 256
<1>1. x \in Nat /\ y \in Nat /\ y < 256 /\ y = n - 256 * x
  BY Halves, Zenon
<1>2. n < 65536
  BY Powers
<1> HIDE DEF x, y
<1>3. x < 256
  BY <1>1, <1>2
<1>4. x \in Nat /\ x < 256
  BY <1>1, <1>3
<1>5. y \in Nat /\ y < 256
  BY <1>1
<1>7. n \div 256 \in Nat /\ n \div 256 < 256
  BY <1>4, Zenon DEF x
<1>8. n % 256 \in Nat /\ n % 256 < 256
  BY <1>5, Zenon DEF y
<1> QED BY <1>7, <1>8, Halves, Zenon

\* The octets of the last two words, and the words they make.
LEMMA OctetsOfWords ==
    ASSUME NEW w, WordRange(w)
    PROVE  IsOctets(WordOctets(w)) /\ QuadWords(WordOctets(w)) = <<w[7], w[8]>>
<1> DEFINE o == WordOctets(w)
           x == w[7]
           y == w[8]
<1>1. x \in Nat /\ x < 16 ^ 4 /\ y \in Nat /\ y < 16 ^ 4
  BY DEF WordRange
<1>2. o[1] = x \div 256 /\ o[2] = x % 256 /\ o[3] = y \div 256 /\ o[4] = y % 256
  BY DEF WordOctets
<1> HIDE DEF o, x, y
<1>3. /\ o[1] \in Nat /\ o[1] < 256 /\ o[2] \in Nat /\ o[2] < 256 /\ o[1] * 256 + o[2] = x
      /\ o[3] \in Nat /\ o[3] < 256 /\ o[4] \in Nat /\ o[4] < 256 /\ o[3] * 256 + o[4] = y
  <2>1. /\ o[1] \in Nat /\ o[1] < 256 /\ o[2] \in Nat /\ o[2] < 256 /\ o[2] = x - 256 * o[1]
        /\ o[3] \in Nat /\ o[3] < 256 /\ o[4] \in Nat /\ o[4] < 256 /\ o[4] = y - 256 * o[3]
    BY <1>1, <1>2, OctetsOfWord
  <2> QED BY <1>1, <2>1
<1>4. IsOctets(o)
  <2>1. \A k \in 1 .. 4 : k = 1 \/ k = 2 \/ k = 3 \/ k = 4
    OBVIOUS
  <2> QED BY <1>3, <2>1 DEF IsOctets
<1>5. QuadWords(o) = <<x, y>>
  BY <1>3, Zenon DEF QuadWords
<1> QED BY <1>4, <1>5 DEF o, x, y

\* The text of an address with a dotted quad behind r words, 0 or 1.
QuadTextAt(s, w, r) ==
    /\ r \in {0, 1} /\ IsText(s, 9 + 2 * r)
    /\ s[1] = Colon /\ s[2] = Colon
    /\ r = 1 => s[3] = Printed(w[6], 16) /\ s[4] = Colon
    /\ \A j \in 1 .. 7 : s[2 + 2 * r + j] = Quad(WordOctets(w))[j]

\* The types that the text of an address with a quad has.
LEMMA QuadTextTypes ==
    ASSUME NEW s, NEW w, NEW r, QuadTextAt(s, w, r)
    PROVE  HasLen(s, 9 + 2 * r) /\ DOMAIN s = 1 .. 9 + 2 * r /\ r \in {0, 1}
<1> DEFINE n == 9 + 2 * r
<1>1. IsText(s, n) /\ r \in {0, 1}
  BY DEF QuadTextAt
<1> HIDE DEF n
<1>2. HasLen(s, n) /\ DOMAIN s = 1 .. n
  BY <1>1, TextPlaces DEF HasLen
<1> QED BY <1>1, <1>2 DEF n

\* The words before the dotted quad.
Before(w) == [i \in 1 .. 9 |-> w[6]]

\* The tokens before the quad have a shape that is read.
LEMMA QuadShape ==
    ASSUME NEW s, NEW w, NEW r, WordRange(w), QuadTextAt(s, w, r)
    PROVE  Shape(s, 3 + 2 * r, 0, TRUE, r, Before(w))
<1> DEFINE v == Before(w)
           e == 3 + 2 * r
           p == Behind(0)
<1>1. DOMAIN s = 1 .. 9 + 2 * r /\ r \in {0, 1}
  BY QuadTextTypes
<1>2. Legal(v) /\ \A i \in 1 .. 9 : v[i] = w[6]
  BY DEF Legal, WordRange, Before
<1>3. p = 3
  BY DEF Behind
<1>4. s[1] = Colon /\ s[2] = Colon /\ (r = 1 => s[3] = Printed(w[6], 16) /\ s[4] = Colon)
  BY DEF QuadTextAt
<1>5. e \in Nat \ {0} /\ 2 < e /\ 2 * 0 + 1 < e /\ 0 + r <= 8 /\ r \in Nat
  BY <1>1
<1>6. \A i \in 1 .. e - 1 : i \in DOMAIN s
  BY <1>1
<1> HIDE DEF v, p
<1>7. PrintedRow(s, e, 1, 0, v, 0)
  BY DEF PrintedRow
<1>8. PrintedRow(s, e, p, r, v, 0)
  <2>1. CASE r = 0
    BY <2>1 DEF PrintedRow
  <2>2. CASE r = 1
    <3> SUFFICES ASSUME NEW j \in 1 .. r
                 PROVE  /\ s[p + 2 * j - 2] = Printed(v[0 + j], 16) /\ p + 2 * j - 2 < e
                        /\ p + 2 * j - 1 = e \/ s[p + 2 * j - 1] = Colon
      BY DEF PrintedRow
    <3>1. j = 1 /\ p + 2 * j - 2 = 3 /\ p + 2 * j - 1 = 4 /\ 0 + j = 1 /\ 3 < e
      BY <1>3, <2>2
    <3>2. v[1] = w[6]
      BY <1>2
    <3> QED BY <1>4, <2>2, <3>1, <3>2
  <2> QED BY <1>1, <2>1, <2>2
<1>9. s[2 * 0 + 1] = Colon /\ p + 2 * r >= e
  BY <1>1, <1>3, <1>4
<1> HIDE DEF e
<1>10. Shape(s, e, 0, TRUE, r, v)
  BY <1>2, <1>4, <1>5, <1>6, <1>7, <1>8, <1>9 DEF Shape, p
<1> QED BY <1>10 DEF e, v

\* The reading of a dotted quad behind "::" is the address.
LEMMA QuadIs ==
    ASSUME NEW w \in [1 .. 8 -> Nat], WordRange(w), NEW r, r \in {0, 1},
           \A i \in 1 .. 6 - r : w[i] = 0
    PROVE  QuadReading(0, TRUE, r, Before(w), WordOctets(w)) = w
<1> DEFINE v == Before(w)
           o == WordOctets(w)
           quad == QuadWords(o)
           x == 0
           q == 2
           z == 6 - r
<1>1. QuadReading(x, TRUE, r, v, o) = Filled(WordsOf(v, x + r), x, quad)
  <2>1. ~(x + r > 6) /\ x + r # 6
    OBVIOUS
  <2> QED BY <2>1, Zenon DEF QuadReading, GapAt
<1>2. \A i \in 1 .. 9 : v[i] = w[6] /\ v[i] \in Nat
  BY DEF Before
<1>3. quad = <<w[7], w[8]>>
  BY OctetsOfWords
<1>4. w[7] \in Nat /\ w[8] \in Nat
  OBVIOUS
<1> HIDE DEF v, o, quad
<1>5. PartIs(quad, w, x + z + r, q)
  <2>1. x + z + r = 6
    OBVIOUS
  <2>2. IsRow(quad, q)
    BY <1>3, <1>4 DEF IsRow
  <2>3. \A i \in 1 .. q : quad[i] = w[6 + i]
    <3>1. quad[1] = w[6 + 1] /\ quad[2] = w[6 + 2]
      BY <1>3
    <3>2. \A i \in 1 .. q : i = 1 \/ i = 2
      OBVIOUS
    <3> QED BY <3>1, <3>2
  <2> QED BY <2>1, <2>2, <2>3 DEF PartIs
<1>6. x \in Nat /\ z \in Nat /\ r \in Nat /\ x + z + r + q = 8
  OBVIOUS
<1>7. /\ \A i \in 1 .. x : v[i] = w[i]
      /\ \A i \in 1 .. z : w[x + i] = 0
  OBVIOUS
<1>8. \A i \in 1 .. r : v[x + i] = w[x + z + i]
  <2>1. \A i \in 1 .. r : x + i \in 1 .. 9 /\ x + z + i = 6
    OBVIOUS
  <2> QED BY <1>2, <2>1
<1>9. x + r <= 8
  OBVIOUS
<1> HIDE DEF x, z, q
<1>10. Fills(w, v, x, z, r, quad, q)
  BY <1>5, <1>6, <1>7, <1>8 DEF Fills
<1>11. GapFilled(v, x, r, quad) = w
  BY ONLY <1>10, FilledIs
<1>12. Filled(WordsOf(v, x + r), x, quad) = GapFilled(v, x, r, quad)
  BY <1>2, <1>6, <1>9, FilledGap
<1> QED BY <1>1, <1>11, <1>12, Zenon DEF v, o, x

\* tor_inet_pton reads the text of an address with a quad.
LEMMA QuadTextRead ==
    ASSUME NEW w \in [1 .. 8 -> Nat], WordRange(w), NEW s, NEW r, QuadTextAt(s, w, r),
           \A i \in 1 .. 6 - r : w[i] = 0
    PROVE  Pton(s) = w
<1> DEFINE v == Before(w)
           o == WordOctets(w)
           e == 3 + 2 * r
           x == 0
<1>1. HasLen(s, 9 + 2 * r) /\ DOMAIN s = 1 .. 9 + 2 * r /\ r \in {0, 1}
  BY QuadTextTypes
<1>2. Shape(s, e, x, TRUE, r, v)
  BY QuadShape
<1>3. IsOctets(o)
  BY OctetsOfWords
<1>4. QuadReading(x, TRUE, r, v, o) = w
  BY <1>1, QuadIs
<1>5. Is(s, e - 1, Colon)
  <2>1. s[2] = Colon /\ (r = 1 => s[4] = Colon)
    BY DEF QuadTextAt
  <2> QED BY <1>1, <2>1 DEF Is
<1>6. e + 6 = 9 + 2 * r
  BY <1>1
<1>7. \A j \in 1 .. 7 : s[e + j - 1] = Quad(o)[j]
  <2> TAKE j \in 1 .. 7
  <2>1. s[2 + 2 * r + j] = Quad(o)[j]
    BY DEF QuadTextAt
  <2>2. 2 + 2 * r + j = e + j - 1
    BY <1>1
  <2> QED BY <2>1, <2>2, Zenon
<1> HIDE DEF v, o, e, x
<1>8. HasLen(s, e + 6) /\ DOMAIN s = 1 .. e + 6
  BY <1>1, <1>6, Zenon
<1>9. Pton(s) = QuadReading(x, TRUE, r, v, o)
  BY <1>2, <1>3, <1>5, <1>7, <1>8, QuadRead
<1> QED BY <1>4, <1>9, Zenon

\* A text of four tokens.
LEMMA FourTokens ==
    ASSUME NEW a \in Token, NEW b \in Token, NEW c \in Token, NEW d \in Token
    PROVE  /\ IsText(<<a, b, c, d>>, 4)
           /\ <<a, b, c, d>>[1] = a /\ <<a, b, c, d>>[2] = b /\ <<a, b, c, d>>[3] = c /\ <<a, b, c, d>>[4] = d
  BY DEF Tokens, IsText

\* s is the n tokens x and a dotted quad.
QuadAfter(s, x, n, o) ==
    /\ IsText(s, n + 7)
    /\ \A i \in 1 .. n : s[i] = x[i]
    /\ \A j \in 1 .. 7 : s[n + j] = Quad(o)[j]

\* A text with a dotted quad behind it.
LEMMA QuadBehind ==
    ASSUME NEW x, NEW n, IsText(x, n), NEW o, IsOctets(o)
    PROVE  QuadAfter(x \o Quad(o), x, n, o)
<1> DEFINE y == Quad(o)
           s == x \o y
           m == 7
<1>1. IsText(y, m)
  BY QuadTokens DEF IsText, Tokens, Token
<1> HIDE DEF y, m
<1>2. IsText(s, n + m)
  BY <1>1, TextJoined
<1>3. Piece(s, 0, s, n + m)
  BY <1>2, PieceWhole
<1>4. Piece(s, 0, x, n) /\ Piece(s, 0 + n, y, m)
  BY <1>1, <1>3, PieceSplit
<1> HIDE DEF s
<1>5. \A i \in 1 .. n : s[i] = x[i]
  <2>1. \A i \in 1 .. n : s[0 + i] = x[i]
    BY <1>4, Zenon DEF Piece
  <2> QED BY <2>1
<1>6. \A j \in 1 .. m : s[n + j] = y[j]
  <2>1. n \in Nat /\ \A j \in 1 .. m : s[0 + n + j] = y[j]
    BY <1>4, Zenon DEF Piece, IsText
  <2>2. 0 + n = n
    BY <2>1
  <2> QED BY <2>1, <2>2, Zenon
<1> QED BY <1>2, <1>5, <1>6, Zenon DEF s, y, m, QuadAfter

\* The text of an IPv4-compatible address.
LEMMA CompatibleText ==
    ASSUME NEW w, WordRange(w)
    PROVE  QuadTextAt(<<Colon, Colon>> \o Quad(WordOctets(w)), w, 0)
<1> DEFINE o == WordOctets(w)
           y == Quad(o)
           c == Colon
           x == <<c, c>>
           s == x \o y
           n == 2
<1>1. IsOctets(o)
  BY OctetsOfWords
<1>2. c \in Token
  BY TokenSorts
<1> HIDE DEF c
<1>3. IsText(x, n) /\ x[1] = c /\ x[2] = c
  BY <1>2, TwoTokens DEF IsText
<1> HIDE DEF x, o, n
<1>4. /\ IsText(s, n + 7)
      /\ \A i \in 1 .. n : s[i] = x[i]
      /\ \A j \in 1 .. 7 : s[n + j] = y[j]
  <2>1. QuadAfter(s, x, n, o)
    BY <1>1, <1>3, QuadBehind, Zenon
  <2> QED BY <2>1, Zenon DEF QuadAfter
<1> HIDE DEF s, y
<1>5. s[1] = c /\ s[2] = c
  BY <1>3, <1>4 DEF n
<1> DEFINE r == 0
<1>6. r \in {0, 1} /\ n + 7 = 9 + 2 * r /\ n = 2 + 2 * r /\ r # 1
  BY DEF n
<1> HIDE DEF r
<1>7. QuadTextAt(s, w, r)
  BY <1>4, <1>5, <1>6, Zenon DEF QuadTextAt, c, y, o
<1> QED BY <1>7, Zenon DEF s, x, y, c, o, r

\* The text of an IPv4-mapped address.
LEMMA MappedText ==
    ASSUME NEW w, WordRange(w)
    PROVE  QuadTextAt(<<Colon, Colon, Printed(w[6], 16), Colon>> \o Quad(WordOctets(w)), w, 1)
<1> DEFINE o == WordOctets(w)
           y == Quad(o)
           c == Colon
           p == Printed(w[6], 16)
           x == <<c, c, p, c>>
           s == x \o y
           n == 4
<1>1. IsOctets(o)
  BY OctetsOfWords
<1>2. c \in Token /\ p \in Token
  <2>1. w[6] \in Nat /\ w[6] < 16 ^ 4
    BY DEF WordRange
  <2> QED BY <2>1, TokenSorts, HexToken
<1> HIDE DEF c, p
<1>3. IsText(x, n) /\ x[1] = c /\ x[2] = c /\ x[3] = p /\ x[4] = c
  BY <1>2, FourTokens
<1> HIDE DEF x, o, n
<1>4. /\ IsText(s, n + 7)
      /\ \A i \in 1 .. n : s[i] = x[i]
      /\ \A j \in 1 .. 7 : s[n + j] = y[j]
  <2>1. QuadAfter(s, x, n, o)
    BY <1>1, <1>3, QuadBehind, Zenon
  <2> QED BY <2>1, Zenon DEF QuadAfter
<1> HIDE DEF s, y
<1>5. s[1] = c /\ s[2] = c /\ s[3] = p /\ s[4] = c
  BY <1>3, <1>4 DEF n
<1> DEFINE r == 1
<1>6. r \in {0, 1} /\ n + 7 = 9 + 2 * r /\ n = 2 + 2 * r
  BY DEF n
<1> HIDE DEF r
<1>7. QuadTextAt(s, w, r)
  BY <1>4, <1>5, <1>6, Zenon DEF QuadTextAt, c, y, o, p
<1> QED BY <1>7, Zenon DEF s, x, y, c, o, p, r

\* The text of an address with a dotted quad fits 39 characters.
LEMMA QuadTextFits ==
    ASSUME NEW w, WordRange(w), NEW s, NEW r, QuadTextAt(s, w, r)
    PROVE  TextLen(s) \in Nat /\ TextLen(s) <= 39
<1> DEFINE c == 4
           n == 9 + 2 * r
           o == WordOctets(w)
           y == Quad(o)
<1>1. /\ r \in {0, 1} /\ s[1] = Colon /\ s[2] = Colon
      /\ r = 1 => s[3] = Printed(w[6], 16) /\ s[4] = Colon
      /\ \A j \in 1 .. 7 : s[2 + 2 * r + j] = y[j]
  BY DEF QuadTextAt
<1>2. Len(s) = n
  BY QuadTextTypes DEF HasLen
<1>3. IsOctets(o)
  BY OctetsOfWords
<1>4. Colon \in Seq(Nat) /\ Len(Colon) = 1 /\ Dot \in Seq(Nat) /\ Len(Dot) = 1
  BY DEF Colon, Dot
<1>5. Printed(w[6], 16) \in Seq(Nat) /\ Len(Printed(w[6], 16)) <= 4
  <2>1. w[6] \in Nat /\ w[6] < 16 ^ 4
    BY DEF WordRange
  <2> QED BY <2>1, HexToken DEF Token
<1> DEFINE Short(t) == t \in Seq(Nat) /\ Len(t) <= 4
           Single(t) == Len(t) <= 1
<1>6. Short(Colon) /\ Short(Dot) /\ Single(Colon) /\ Single(Dot) /\ Short(Printed(w[6], 16))
  BY <1>4, <1>5
<1>7. \A t : DecimalRun(t) => Short(t)
  <2> SUFFICES ASSUME NEW t, DecimalRun(t) PROVE Short(t)
    OBVIOUS
  <2>1. t \in Seq(Nat) /\ Len(t) \in 1 .. 3
    BY DEF DecimalRun
  <2>2. \A k \in 1 .. 3 : k <= 4
    OBVIOUS
  <2>3. Len(t) <= 4
    BY <2>1, <2>2, Zenon
  <2> QED BY <2>1, <2>3, Zenon
<1>8. /\ \A k \in 1 .. 4 : DecimalRun(y[2 * k - 1])
      /\ \A k \in 1 .. 3 : y[2 * k] = Dot
  BY <1>3, QuadTokens
<1> HIDE DEF Short, Single, y, o
<1>9. \A j \in 1 .. 7 : Short(y[j]) /\ (j \in {2, 4, 6} => Single(y[j]))
  <2> TAKE j \in 1 .. 7
  <2>1. CASE j \in {2, 4, 6}
    <3>1. PICK k \in 1 .. 3 : j = 2 * k
      <4>1. \E k \in 1 .. 3 : j = 2 * k
        BY <2>1
      <4> QED BY <4>1
    <3>2. y[j] = Dot
      BY <1>8, <3>1
    <3> QED BY <1>6, <3>2
  <2>2. CASE j \notin {2, 4, 6}
    <3>1. PICK k \in 1 .. 4 : j = 2 * k - 1
      <4>1. \E k \in 1 .. 4 : j = 2 * k - 1
        BY <2>2
      <4> QED BY <4>1
    <3>2. DecimalRun(y[j])
      BY <1>8, <3>1
    <3> QED BY <1>7, <2>2, <3>2
  <2> QED BY <2>1, <2>2
<1>10. \A i \in 1 .. n : Short(s[i]) /\ (i \in {2, 4, 6, 8, 10} => Single(s[i]))
  <2> TAKE i \in 1 .. n
  <2>1. CASE i <= 2 + 2 * r
    <3>1. i = 1 \/ i = 2 \/ (r = 1 /\ i = 3) \/ (r = 1 /\ i = 4)
      BY <1>1, <2>1
    <3>2. CASE i = 1
      BY <1>1, <1>6, <3>2
    <3>3. CASE i = 2
      BY <1>1, <1>6, <3>3
    <3>4. CASE r = 1 /\ i = 3
      BY <1>1, <1>6, <3>4
    <3>5. CASE r = 1 /\ i = 4
      BY <1>1, <1>6, <3>5
    <3> QED BY <3>1, <3>2, <3>3, <3>4, <3>5
  <2>2. CASE ~(i <= 2 + 2 * r)
    <3> DEFINE j == i - (2 + 2 * r)
    <3>1. j \in 1 .. 7 /\ 2 + 2 * r + j = i /\ (i \in {2, 4, 6, 8, 10} => j \in {2, 4, 6})
      BY <1>1, <2>2
    <3> HIDE DEF j
    <3>2. s[i] = y[j]
      BY <1>1, <3>1
    <3> QED BY <1>9, <3>1, <3>2
  <2> QED BY <2>1, <2>2
<1>11. n \in Nat /\ n >= 1 /\ n <= 11
  BY <1>1
<1>12. \A i \in 1 .. n : s[i] \in Seq(Nat) /\ Len(s[i]) <= c
  BY <1>10 DEF Short
<1> HIDE DEF n, c
<1>13. \A i \in 2 .. n : Len(s[i - 1]) <= 1 \/ Len(s[i]) <= 1
  <2> TAKE i \in 2 .. n
  <2>1. i \in 1 .. n /\ i - 1 \in 1 .. n /\ (i \in {2, 4, 6, 8, 10} \/ i - 1 \in {2, 4, 6, 8, 10})
    BY <1>11
  <2> QED BY <1>10, <2>1, Zenon DEF Single
<1>14. c \in {3, 4}
  BY DEF c
<1>15. TextLen(s) \in Nat /\ 2 * TextLen(s) <= (c + 1) * n + c - 1
  BY <1>2, <1>11, <1>12, <1>13, <1>14, TextLenBound
<1> DEFINE t == TextLen(s)
<1> HIDE DEF t
<1>16. t \in Nat /\ 2 * t <= 5 * n + 3
  BY <1>11, <1>15 DEF c, t
<1>17. t <= 39
  BY <1>11, <1>16
<1> QED BY <1>16, <1>17 DEF t

\* What holds of the text that is printed for an address.
TextOf(w, t) ==
    /\ \A len : Ntop(w, len) = Buffered(t, len)
    /\ t # NULL /\ TextLen(t) \in Nat /\ TextLen(t) <= 39
    /\ Pton(t) = w
    /\ \A g \in Gaps(w) : g[2] \in 2 .. 7 => HasQuad(w) \/ Len(t) <= 2 * (8 - g[2]) + 1

\* NULL is no text.
LEMMA LongIsNotNull ==
    ASSUME NEW t, NEW n, IsText(t, n), n >= 2
    PROVE  t # NULL
<1>1. Len(NULL) = 1
  BY DEF NULL
<1>2. Len(t) = n /\ n \in Nat
  BY DEF IsText
<1>3. n # 1
  BY <1>2
<1> QED BY <1>1, <1>2, <1>3, Zenon

\* The gap is eight words only if there is no shorter one.
LEMMA GapOfAll ==
    ASSUME NEW w, NEW a, GapIs(w, a, 8), NEW g, g \in Gaps(w), g[2] \in 2 .. 7
    PROVE  FALSE
<1>1. a = 1 /\ \A i \in 1 .. 8 : w[i] = 0
  <2>1. a \in 1 .. 8 /\ a + 8 <= 9 /\ \A i \in a .. a + 8 - 1 : w[i] = 0
    BY DEF GapIs
  <2>2. a = 1
    BY <2>1
  <2> QED BY <2>1, <2>2
<1> DEFINE x == g[1]
           y == g[2]
<1>2. x \in 1 .. 8 /\ y \in 1 .. 8 /\ x + y <= 9
  BY GapPairs
<1>3. (x = 1 \/ w[x - 1] # 0) /\ (x + y = 9 \/ w[x + y] # 0)
  BY DEF Gaps
<1>4. y \in 2 .. 7
  OBVIOUS
<1> HIDE DEF x, y
<1>5. x = 1
  <2>1. x # 1 => x - 1 \in 1 .. 8
    BY <1>2
  <2> QED BY <1>1, <1>3, <2>1
<1>6. x + y # 9 /\ x + y \in 1 .. 8
  BY <1>4, <1>5
<1> QED BY <1>1, <1>3, <1>6

\* What holds of the text of an address without a quad.
LEMMA TextOfWords ==
    ASSUME NEW w \in [1 .. 8 -> Nat], WordRange(w), ~HasQuad(w)
    PROVE  TextOf(w, Words(w))
<1> DEFINE t == Words(w)
<1>1. PICK a, l : LongestGap(w)[1] = a /\ LongestGap(w)[2] = l /\ GapIs(w, a, l)
  BY GapChosen
<1>2. GapPlace(a, l)
  BY <1>1 DEF GapIs, GapPlace
<1>3. PICK n : PrintedAt(t, w, a, l, n)
  BY <1>1, <1>2, WordsPrinted
<1>4. Pton(t) = w
  BY <1>1, <1>3, TextRead
<1>5. \A len : Ntop(w, len) = Buffered(t, len)
  BY Zenon DEF Ntop
<1> HIDE DEF t
<1>6. TextLen(t) \in Nat /\ TextLen(t) <= 39
  BY <1>3, WordsFit
<1>7. n \in 1 .. 15 /\ (a # 0 /\ l <= 7 => n <= 2 * (8 - l) + 1)
  BY <1>3, WordTokens
<1>8. IsText(t, n) /\ n >= 2
  BY <1>3, EndOfWords DEF PrintedAt
<1>9. t # NULL
  BY <1>8, LongIsNotNull
<1>10. Len(t) = n
  BY <1>8 DEF IsText
<1>11. ASSUME NEW g \in Gaps(w), g[2] \in 2 .. 7
       PROVE  Len(t) <= 2 * (8 - g[2]) + 1
  <2> DEFINE y == g[2]
  <2>1. y \in 2 .. 7
    BY <1>11
  <2>2. y > 1 => y <= l
    BY <1>1 DEF GapIs
  <2>3. (a = 0 /\ l = 0) \/ (a \in 1 .. 8 /\ l \in 2 .. 8)
    BY <1>2 DEF GapPlace
  <2>4. l # 8
    BY <1>1, <1>11, GapOfAll
  <2> HIDE DEF y
  <2>5. n <= 2 * (8 - y) + 1
    BY <1>7, <2>1, <2>2, <2>3, <2>4
  <2> QED BY <1>10, <2>5 DEF y
<1>12. TextOf(w, t)
  BY <1>4, <1>5, <1>6, <1>9, <1>11, Zenon DEF TextOf
<1> QED BY <1>12 DEF t

\* What holds of the text of an address with a quad.
LEMMA TextOfQuad ==
    ASSUME NEW w \in [1 .. 8 -> Nat], WordRange(w), HasQuad(w)
    PROVE  \E t : TextOf(w, t)
<1> DEFINE Quads(t, r) == /\ QuadTextAt(t, w, r) /\ (\A i \in 1 .. 6 - r : w[i] = 0)
                          /\ \A len : Ntop(w, len) = Buffered(t, len)
<1>1. (\A i \in 1 .. 5 : w[i] = 0) /\ (w[6] = 0 \/ w[6] = 65535)
  BY DEF HasQuad
<1>2. \E t, r : Quads(t, r)
  <2>1. CASE w[6] = 0
    <3> DEFINE t == <<Colon, Colon>> \o Quad(WordOctets(w))
               r == 0
    <3>1. QuadTextAt(t, w, r)
      BY CompatibleText
    <3>2. \A i \in 1 .. 6 - r : w[i] = 0
      <4>1. \A i \in 1 .. 6 : i \in 1 .. 5 \/ i = 6
        OBVIOUS
      <4> QED BY <1>1, <2>1, <4>1
    <3>3. \A len : Ntop(w, len) = Buffered(t, len)
      BY <2>1, Zenon DEF Ntop
    <3> HIDE DEF t, r
    <3> QED BY <3>1, <3>2, <3>3
  <2>2. CASE w[6] # 0
    <3> DEFINE t == <<Colon, Colon, Printed(w[6], 16), Colon>> \o Quad(WordOctets(w))
               r == 1
    <3>1. QuadTextAt(t, w, r)
      BY MappedText
    <3>2. \A i \in 1 .. 6 - r : w[i] = 0
      BY <1>1
    <3>3. \A len : Ntop(w, len) = Buffered(t, len)
      BY <2>2, Zenon DEF Ntop
    <3> HIDE DEF t, r
    <3> QED BY <3>1, <3>2, <3>3
  <2> QED BY <2>1, <2>2
<1>3. PICK t, r : Quads(t, r)
  BY <1>2
<1>4. QuadTextAt(t, w, r)
  BY <1>3
<1>5. Pton(t) = w
  BY <1>3, QuadTextRead
<1>6. TextLen(t) \in Nat /\ TextLen(t) <= 39
  BY <1>4, QuadTextFits
<1>7. t # NULL
  <2> DEFINE n == 9 + 2 * r
  <2>1. IsText(t, n) /\ r \in {0, 1}
    BY <1>4 DEF QuadTextAt
  <2>2. n >= 2
    BY <2>1
  <2> HIDE DEF n
  <2> QED BY <2>1, <2>2, LongIsNotNull
<1>8. \A len : Ntop(w, len) = Buffered(t, len)
  BY <1>3
<1>9. TextOf(w, t)
  BY <1>5, <1>6, <1>7, <1>8, Zenon DEF TextOf
<1> QED BY <1>9

\* tor_inet_ntop prints what tor_inet_pton reads.
LEMMA NtopReads ==
    ASSUME NEW w, w \in [1 .. 8 -> Nat], WordRange(w), NEW len, len \in Nat
    PROVE  IF Ntop(w, len) = NULL THEN TextLen(Ntop(w, 40)) >= len
           ELSE /\ Pton(Ntop(w, len)) = w
                /\ \A g \in Gaps(w) :
                      g[2] \in 2 .. 7 => HasQuad(w) \/ Len(Ntop(w, len)) <= 2 * (8 - g[2]) + 1
<1>1. PICK t : TextOf(w, t)
  BY TextOfWords, TextOfQuad
<1>2. t # NULL /\ TextLen(t) \in Nat /\ TextLen(t) <= 39
  BY <1>1, Zenon DEF TextOf
<1>3. Ntop(w, len) = Buffered(t, len) /\ Ntop(w, 40) = Buffered(t, 40)
  BY <1>1, Zenon DEF TextOf
<1> DEFINE k == TextLen(t)
<1>4. Ntop(w, 40) = t
  <2>1. ~(k + 1 > 40)
    BY <1>2
  <2> QED BY <1>3, <2>1, Zenon DEF Buffered
<1>5. CASE k + 1 > len
  <2>1. Ntop(w, len) = NULL
    BY <1>3, <1>5, Zenon DEF Buffered
  <2>2. k \in Nat
    BY <1>2
  <2>3. k >= len
    <3> HIDE DEF k
    <3> QED BY <1>5, <2>2
  <2> QED BY <1>4, <2>1, <2>3, Zenon
<1>6. CASE ~(k + 1 > len)
  <2>1. Ntop(w, len) = t
    BY <1>3, <1>6, Zenon DEF Buffered
  <2> QED BY <1>1, <1>2, <2>1, Zenon DEF TextOf
<1> QED BY <1>5, <1>6

-----------------------------------------------------------------------------
(* The theorem.                                                            *)

\* The library calls keep AddressesRead: what an address is printed as is read
\* back and leaves out a longest run of zero words, a text is read as the address
\* it stands for or refused, and tor_inet_aton accepts what tor_inet_ntoa prints,
\* for every word, every run of digits and every length of a buffer.
THEOREM AddressesCorrect == LibSpec => []AddressesRead
<1>1. VersionsInit => AddressesRead
  BY DEF VersionsInit, AddressesRead
<1>2. AddressesRead /\ [LibNext]_versionVars => AddressesRead'
  <2> SUFFICES ASSUME AddressesRead, [LibNext]_versionVars PROVE AddressesRead'
    OBVIOUS
  <2>1. ASSUME last'.call \notin {"ntop", "pton", "aton"}
        PROVE  AddressesRead'
    BY <2>1 DEF AddressesRead
  <2>2. ASSUME NEW protocols, NEW version, SummarizeProtoverFlags(protocols, version)
        PROVE  AddressesRead'
    <3>1. last'.call = "summarize"
      BY <2>2 DEF SummarizeProtoverFlags
    <3> QED BY <2>1, <3>1
  <2>3. CASE ProtoverSummaryCacheFreeAll
    <3>1. last'.call = "free"
      BY <2>3 DEF ProtoverSummaryCacheFreeAll
    <3> QED BY <2>1, <3>1
  <2>4. ASSUME NEW mine, NEW list, TorVersionIsObsolete(mine, list)
        PROVE  AddressesRead'
    <3>1. last'.call = "is_obsolete"
      BY <2>4 DEF TorVersionIsObsolete
    <3> QED BY <2>1, <3>1
  <2>5. ASSUME NEW list, NEW remove_duplicates, SortVersionList(list, remove_duplicates)
        PROVE  AddressesRead'
    <3>1. last'.call = "sort"
      BY <2>5 DEF SortVersionList
    <3> QED BY <2>1, <3>1
  <2>6. ASSUME NEW w \in [1 .. 8 -> WordValues], NEW len \in BufferSizes, InetNtop(w, len)
        PROVE  AddressesRead'
    <3>1. last' = [call |-> "ntop", addr |-> w, len |-> len, out |-> Ntop(w, len)]
      BY <2>6 DEF InetNtop
    <3>2. len \in Nat
      BY BufferSizesAssumption
    <3>3. w \in [1 .. 8 -> Nat] /\ WordRange(w)
      <4>1. \A i \in 1 .. 8 : w[i] \in Nat /\ w[i] < 16 ^ 4
        BY WordsAssumption
      <4>2. w \in [1 .. 8 -> Nat]
        BY <4>1
      <4> QED BY <4>1, <4>2, Zenon DEF WordRange
    <3>4. IF Ntop(w, len) = NULL THEN TextLen(Ntop(w, 40)) >= len
          ELSE /\ Pton(Ntop(w, len)) = w
               /\ \A g \in Gaps(w) :
                     g[2] \in 2 .. 7 => HasQuad(w) \/ Len(Ntop(w, len)) <= 2 * (8 - g[2]) + 1
      BY <3>2, <3>3, NtopReads
    <3>5. /\ last'.call = "ntop" /\ last'.call # "pton" /\ last'.call # "aton"
          /\ last'.addr = w /\ last'.len = len /\ last'.out = Ntop(w, len)
      BY <3>1
    <3> QED BY <3>4, <3>5, Zenon DEF AddressesRead
  <2>7. ASSUME NEW form \in Forms, Meaningful(form), InetPton(form)
        PROVE  AddressesRead'
    <3>1. last' = [call |-> "pton", form |-> form, out |-> Pton(Written(form))]
      BY <2>7 DEF InetPton
    <3>2. Pton(Written(form)) = Denoted(form)
      BY <2>7, PtonReads
    <3>3. /\ last'.call = "pton" /\ last'.call # "ntop" /\ last'.call # "aton"
          /\ last'.form = form /\ last'.out = Pton(Written(form))
      BY <3>1
    <3> QED BY <3>2, <3>3, Zenon DEF AddressesRead
  <2>8. ASSUME NEW runs \in [1 .. 4 -> OctetRuns], InetAton(runs)
        PROVE  AddressesRead'
    <3> DEFINE s == <<runs[1], Dot, runs[2], Dot, runs[3], Dot, runs[4]>>
    <3>1. last' = [call |-> "aton", text |-> s, out |-> Aton(s)]
      BY <2>8 DEF InetAton
    <3>2. \A k \in 1 .. 4 : runs[k] \in Seq(0 .. 15) \ {<<>>}
      BY RunsAssumption
    <3>3. /\ (Aton(s) # NULL) = \A k \in {1, 3, 5, 7} : \E n \in 0 .. 255 : s[k] = Printed(n, 10)
          /\ Aton(s) # NULL => Ntoa(Aton(s), 16) = s
      BY <3>2, AtonReads
    <3> HIDE DEF s
    <3>4. /\ last'.call = "aton" /\ last'.call # "ntop" /\ last'.call # "pton"
          /\ last'.text = s /\ last'.out = Aton(s)
      BY <3>1
    <3> QED BY <3>3, <3>4, Zenon DEF AddressesRead
  <2>9. CASE UNCHANGED versionVars
    BY <2>9 DEF versionVars, AddressesRead
  <2> QED BY <2>2, <2>3, <2>4, <2>5, <2>6, <2>7, <2>8, <2>9 DEF LibNext, VersionsNext
<1> QED BY <1>1, <1>2, PTL DEF LibSpec
=============================================================================

------------------------------- MODULE SeqArith -------------------------------
(* Arithmetic of sequence counters that wrap, for the proofs.               *)
EXTENDS Integers, TLAPS

\* A counter alternates between even and odd.
LEMMA ParityStep ==
  ASSUME NEW v \in Nat
  PROVE  /\ (v + 1) % 2 = 0 <=> v % 2 # 0
         /\ (v + 2) % 2 = 0 <=> v % 2 = 0
OBVIOUS

\* Division with remainder.
LEMMA DivMod ==
  ASSUME NEW m \in Nat, m > 0, NEW x \in Nat
  PROVE  x = m * (x \div m) + (x % m) /\ x \div m \in Int /\ x % m \in Int
OBVIOUS

\* A multiple of m between -m and m is 0.
LEMMA SmallMultiple ==
  ASSUME NEW m \in Nat, m > 0, NEW d \in Int, m * d < m, m * d >= 0
  PROVE  d = 0
<1>1. ASSUME d >= 1 PROVE m * d >= m BY <1>1
<1>2. ASSUME d <= -1 PROVE m * d < 0 BY <1>2
<1> QED BY <1>1, <1>2

\* Two counts less than m apart that agree modulo m are equal: a comparison of
\* truncated counters is exact unless the counter has gone all the way round.
LEMMA ModInjective ==
  ASSUME NEW m \in Nat, m > 0, NEW x \in Nat, NEW y \in Nat,
         x <= y, y - x < m, x % m = y % m
  PROVE  x = y
<1>1. PICK a \in Int, c \in Int : x = m * a + c /\ c = x % m
  BY DivMod
<1>2. PICK b \in Int, e \in Int : y = m * b + e /\ e = y % m
  BY DivMod
<1>3. c = e BY <1>1, <1>2
<1>4. y - x = m * (b - a) /\ b - a \in Int BY <1>1, <1>2, <1>3
<1>5. m * (b - a) < m /\ m * (b - a) >= 0 BY <1>4
<1>6. b - a = 0 BY <1>4, <1>5, SmallMultiple
<1> QED BY <1>4, <1>6

\* A whole turn of m does not change the remainder.
LEMMA ModPeriod ==
  ASSUME NEW m \in Nat, m > 0, NEW x \in Nat
  PROVE  (x + m) % m = x % m
<1>1. PICK a \in Int, c \in Int : x = m * a + c /\ c = x % m
  BY DivMod
<1>2. x + m \in Nat OBVIOUS
<1>3. PICK b \in Int, e \in Int : x + m = m * b + e /\ e = (x + m) % m
  BY <1>2, DivMod
<1>4. c \in 0 .. (m - 1) /\ e \in 0 .. (m - 1) BY <1>1, <1>2, <1>3
<1>5. c - e = m * (b - a - 1) /\ e - c = m * (a + 1 - b)
  BY <1>1, <1>3
<1>6. CASE c >= e
  <2>1. b - a - 1 \in Int /\ m * (b - a - 1) < m /\ m * (b - a - 1) >= 0
    BY <1>4, <1>5, <1>6
  <2>2. b - a - 1 = 0 BY <2>1, SmallMultiple
  <2> QED BY <1>1, <1>3, <1>5, <2>2
<1>7. CASE c < e
  <2>1. a + 1 - b \in Int /\ m * (a + 1 - b) < m /\ m * (a + 1 - b) >= 0
    BY <1>4, <1>5, <1>7
  <2>2. a + 1 - b = 0 BY <2>1, SmallMultiple
  <2> QED BY <1>1, <1>3, <1>5, <2>2
<1> QED BY <1>4, <1>6, <1>7
=============================================================================

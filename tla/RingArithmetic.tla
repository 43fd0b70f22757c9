--------------------------- MODULE RingArithmetic ---------------------------
(***************************************************************************)
(* Counters that wrap around and index a ring: the pipe's nread and nwrite *)
(* (pipe.c) and the console's r, w and e (console.c) are unsigned integers  *)
(* that only ever grow, modulo 2^32, and a counter modulo the size of the  *)
(* ring is a place in it.  The lemmas hold for every size U of the         *)
(* counters and every size m of the ring; the operators keep the modulo,   *)
(* which the provers find hard, out of the proofs that use them.           *)
(***************************************************************************)
EXTENDS Integers, TLAPS

\* A counter moved on by d, how far counter w is ahead of counter r, and the
\* place of a counter in the ring.
Advance(U, r, d) == (r + d) % U
Ahead(U, w, r)   == (w + U - r) % U
Slot(m, x)       == x % m

-----------------------------------------------------------------------------
(* The modulo *)

\* A number has one remainder.
LEMMA DivUnique ==
  ASSUME NEW m \in Nat \ {0}, NEW q1 \in Int, NEW q2 \in Int,
         NEW r1 \in 0 .. m - 1, NEW r2 \in 0 .. m - 1,
         m * q1 + r1 = m * q2 + r2
  PROVE  r1 = r2
<1>1. CASE q1 = q2
  BY <1>1
<1>2. CASE q1 < q2
  <2>1. m * (q2 - q1) >= m
    BY <1>2
  <2>2. m * (q2 - q1) = m * q2 - m * q1
    OBVIOUS
  <2>3. m * q1 \in Int /\ m * q2 \in Int
    OBVIOUS
  <2>. QED
    BY <2>1, <2>2, <2>3
<1>3. CASE q2 < q1
  <2>1. m * (q1 - q2) >= m
    BY <1>3
  <2>2. m * (q1 - q2) = m * q1 - m * q2
    OBVIOUS
  <2>3. m * q1 \in Int /\ m * q2 \in Int
    OBVIOUS
  <2>. QED
    BY <2>1, <2>2, <2>3
<1>. QED
  BY <1>1, <1>2, <1>3

\* The modulo is a remainder ...
LEMMA ModDef ==
  ASSUME NEW m \in Nat \ {0}, NEW x \in Nat
  PROVE  x % m \in 0 .. m - 1 /\ \E q \in Nat : x = m * q + (x % m)
<1>1. x % m \in 0 .. m - 1
  OBVIOUS
<1>2. x = m * (x \div m) + (x % m)
  OBVIOUS
<1>3. x \div m \in Nat
  OBVIOUS
<1>. QED
  BY <1>1, <1>2, <1>3

\* ... and the only one.
LEMMA ModIs ==
  ASSUME NEW m \in Nat \ {0}, NEW x \in Nat, NEW q \in Nat, NEW r \in 0 .. m - 1,
         x = m * q + r
  PROVE  x % m = r
<1>1. PICK q2 \in Nat : x = m * q2 + (x % m)
  BY ModDef
<1>2. x % m \in 0 .. m - 1
  BY ModDef
<1>3. m * q + r = m * q2 + (x % m) /\ q \in Int /\ q2 \in Int
  BY <1>1
<1>. QED
  BY <1>2, <1>3, DivUnique, Zenon

\* Numbers below twice the modulus.
LEMMA ModSmall ==
  ASSUME NEW m \in Nat \ {0}, NEW r \in 0 .. m - 1
  PROVE  r % m = r /\ (r + m) % m = r
<1>1. /\ r = m * 0 + r /\ r \in Nat /\ 0 \in Nat
      /\ r + m = m * 1 + r /\ r + m \in Nat /\ 1 \in Nat
  OBVIOUS
<1>. QED
  BY <1>1, ModIs, Zenon

\* Adding a multiple of the modulus changes nothing.
LEMMA ModMultiple ==
  ASSUME NEW m \in Nat \ {0}, NEW x \in Nat, NEW y \in Nat, y % m = 0
  PROVE  (x + y) % m = x % m
<1>1. PICK q \in Nat : x = m * q + (x % m)
  BY ModDef
<1>2. PICK t \in Nat : y = m * t + (y % m)
  BY ModDef
<1>3. x + y = m * (q + t) + (x % m) /\ x + y \in Nat /\ q + t \in Nat /\ x % m \in 0 .. m - 1
  BY <1>1, <1>2, ModDef
<1>. QED
  BY <1>3, ModIs, Zenon

\* Numbers less than the modulus apart have different remainders.
LEMMA ModApart ==
  ASSUME NEW m \in Nat \ {0}, NEW x \in Nat, NEW d \in 1 .. m - 1
  PROVE  (x + d) % m # x % m
<1>1. PICK q \in Nat : x = m * q + (x % m)
  BY ModDef
<1>2. PICK r \in 0 .. m - 1 : r = x % m
  BY ModDef
<1>3. CASE r + d < m
  <2>1. x + d = m * q + (r + d) /\ r + d \in 0 .. m - 1 /\ x + d \in Nat
    BY <1>1, <1>2, <1>3
  <2>2. (x + d) % m = r + d
    BY <2>1, ModIs, Zenon
  <2>. QED
    BY <2>2, <1>2
<1>4. CASE r + d >= m
  <2>1. /\ x + d = m * (q + 1) + (r + d - m) /\ r + d - m \in 0 .. m - 1
        /\ x + d \in Nat /\ q + 1 \in Nat
    BY <1>1, <1>2, <1>4
  <2>2. (x + d) % m = r + d - m
    BY <2>1, ModIs, Zenon
  <2>. QED
    BY <2>2, <1>2
<1>. QED
  BY <1>2, <1>3, <1>4

-----------------------------------------------------------------------------
(* Counters *)

\* Moving a counter on, without the modulo.
LEMMA AdvanceIs ==
  ASSUME NEW U \in Nat \ {0}, NEW r \in 0 .. U - 1, NEW d \in 0 .. U - 1
  PROVE  Advance(U, r, d) = IF r + d < U THEN r + d ELSE r + d - U
<1>1. CASE r + d < U
  <2>1. r + d \in 0 .. U - 1
    BY <1>1
  <2>2. (r + d) % U = r + d
    BY <2>1, ModSmall, Zenon
  <2>. QED
    BY <1>1, <2>2 DEF Advance
<1>2. CASE r + d >= U
  <2>1. /\ r + d - U \in 0 .. U - 1 /\ r + d = (r + d - U) + U
        /\ ~(r + d < U)
    BY <1>2
  <2>2. ((r + d - U) + U) % U = r + d - U
    BY <2>1, ModSmall, Zenon
  <2>. QED
    BY <2>1, <2>2 DEF Advance
<1>. QED
  BY <1>1, <1>2

\* The distance of two counters, without the modulo.
LEMMA AheadIs ==
  ASSUME NEW U \in Nat \ {0}, NEW r \in 0 .. U - 1, NEW w \in 0 .. U - 1
  PROVE  Ahead(U, w, r) = IF r <= w THEN w - r ELSE w + U - r
<1>1. CASE r <= w
  <2>1. w - r \in 0 .. U - 1 /\ w + U - r = (w - r) + U
    BY <1>1
  <2>2. ((w - r) + U) % U = w - r
    BY <2>1, ModSmall, Zenon
  <2>. QED
    BY <1>1, <2>1, <2>2 DEF Ahead
<1>2. CASE r > w
  <2>1. w + U - r \in 0 .. U - 1 /\ ~(r <= w)
    BY <1>2
  <2>2. (w + U - r) % U = w + U - r
    BY <2>1, ModSmall, Zenon
  <2>. QED
    BY <2>1, <2>2 DEF Ahead
<1>. QED
  BY <1>1, <1>2

\* What moving one of two counters on by one does to their distance.
LEMMA Counters ==
  ASSUME NEW U \in Nat \ {0}, NEW m \in 1 .. U - 1, NEW r \in 0 .. U - 1, NEW w \in 0 .. U - 1
  PROVE  /\ Ahead(U, w, r) \in 0 .. U - 1
         /\ Ahead(U, w, r) = 0 <=> r = w
         /\ Ahead(U, w, r) = m <=> w = Advance(U, r, m)
         /\ w = Advance(U, r, Ahead(U, w, r))
         /\ Advance(U, w, 1) \in 0 .. U - 1
         /\ Ahead(U, w, r) < m => Ahead(U, Advance(U, w, 1), r) = Ahead(U, w, r) + 1
         /\ Ahead(U, w, r) > 0 => Ahead(U, w, Advance(U, r, 1)) = Ahead(U, w, r) - 1
<1>1. Ahead(U, w, r) = IF r <= w THEN w - r ELSE w + U - r
  BY AheadIs
<1>2. Ahead(U, w, r) \in 0 .. U - 1 /\ (Ahead(U, w, r) = 0 <=> r = w)
  BY <1>1
<1>3. Ahead(U, w, r) = m <=> w = Advance(U, r, m)
  <2>1. Advance(U, r, m) = IF r + m < U THEN r + m ELSE r + m - U
    BY AdvanceIs
  <2>. QED
    BY <1>1, <2>1
<1>4. w = Advance(U, r, Ahead(U, w, r))
  BY <1>1, <1>2, AdvanceIs
<1>5. Advance(U, w, 1) \in 0 .. U - 1 /\ Advance(U, r, 1) \in 0 .. U - 1
  <2>1. 1 \in 0 .. U - 1
    OBVIOUS
  <2>2. /\ Advance(U, w, 1) = IF w + 1 < U THEN w + 1 ELSE w + 1 - U
        /\ Advance(U, r, 1) = IF r + 1 < U THEN r + 1 ELSE r + 1 - U
    BY <2>1, AdvanceIs
  <2>. QED
    BY <2>2
<1>6. Ahead(U, w, r) < m => Ahead(U, Advance(U, w, 1), r) = Ahead(U, w, r) + 1
  <2>1. Ahead(U, Advance(U, w, 1), r) =
          IF r <= Advance(U, w, 1) THEN Advance(U, w, 1) - r ELSE Advance(U, w, 1) + U - r
    BY <1>5, AheadIs
  <2>2. Advance(U, w, 1) = IF w + 1 < U THEN w + 1 ELSE w + 1 - U
    BY AdvanceIs
  <2>. QED
    BY <1>1, <2>1, <2>2
<1>7. Ahead(U, w, r) > 0 => Ahead(U, w, Advance(U, r, 1)) = Ahead(U, w, r) - 1
  <2>1. Ahead(U, w, Advance(U, r, 1)) =
          IF Advance(U, r, 1) <= w THEN w - Advance(U, r, 1) ELSE w + U - Advance(U, r, 1)
    BY <1>5, AheadIs
  <2>2. Advance(U, r, 1) = IF r + 1 < U THEN r + 1 ELSE r + 1 - U
    BY AdvanceIs
  <2>. QED
    BY <1>1, <2>1, <2>2
<1>. QED
  BY <1>2, <1>3, <1>4, <1>5, <1>6, <1>7

\* Three counters in the order r, w, e, and what moving e back by k does.
LEMMA ThreeCounters ==
  ASSUME NEW U \in Nat \ {0}, NEW r \in 0 .. U - 1, NEW w \in 0 .. U - 1, NEW e \in 0 .. U - 1,
         Ahead(U, w, r) <= Ahead(U, e, r)
  PROVE  /\ Ahead(U, e, r) = Ahead(U, w, r) + Ahead(U, e, w)
         /\ \A k \in 0 .. Ahead(U, e, w) :
              /\ Ahead(U, e, k) \in 0 .. U - 1
              /\ Ahead(U, Ahead(U, e, k), w) = Ahead(U, e, w) - k
              /\ Ahead(U, Ahead(U, e, k), r) = Ahead(U, e, r) - k
              /\ Ahead(U, e, k) = Advance(U, w, Ahead(U, e, w) - k)
<1>1. /\ Ahead(U, w, r) = IF r <= w THEN w - r ELSE w + U - r
      /\ Ahead(U, e, r) = IF r <= e THEN e - r ELSE e + U - r
      /\ Ahead(U, e, w) = IF w <= e THEN e - w ELSE e + U - w
  BY AheadIs
<1>2. Ahead(U, e, r) = Ahead(U, w, r) + Ahead(U, e, w)
  BY <1>1
<1>3. ASSUME NEW k \in 0 .. Ahead(U, e, w)
      PROVE  /\ Ahead(U, e, k) \in 0 .. U - 1
             /\ Ahead(U, Ahead(U, e, k), w) = Ahead(U, e, w) - k
             /\ Ahead(U, Ahead(U, e, k), r) = Ahead(U, e, r) - k
             /\ Ahead(U, e, k) = Advance(U, w, Ahead(U, e, w) - k)
  <2>1. k \in 0 .. U - 1 /\ Ahead(U, e, w) - k \in 0 .. U - 1
    BY <1>1
  <2>2. Ahead(U, e, k) = IF k <= e THEN e - k ELSE e + U - k
    BY <2>1, AheadIs
  <2>3. Ahead(U, e, k) \in 0 .. U - 1
    BY <2>1, <2>2
  <2>4. PICK x \in 0 .. U - 1 : x = Ahead(U, e, k)
    BY <2>3
  <2>5. /\ Ahead(U, x, w) = IF w <= x THEN x - w ELSE x + U - w
        /\ Ahead(U, x, r) = IF r <= x THEN x - r ELSE x + U - r
    BY AheadIs
  <2>6. PICK d \in 0 .. U - 1 : d = Ahead(U, e, w) - k
    BY <2>1
  <2>7. Advance(U, w, d) = IF w + d < U THEN w + d ELSE w + d - U
    BY AdvanceIs
  <2>. QED
    BY <1>1, <2>2, <2>4, <2>5, <2>6, <2>7
<1>. QED
  BY <1>2, <1>3

-----------------------------------------------------------------------------
(* Places in the ring *)

\* A place is in the ring.
LEMMA SlotType ==
  ASSUME NEW m \in Nat \ {0}, NEW x \in Nat
  PROVE  Slot(m, x) \in 0 .. m - 1
  BY ModDef, Zenon DEF Slot

\* What is less than the ring apart has places of its own.
LEMMA SlotApart ==
  ASSUME NEW m \in Nat \ {0}, NEW x \in Nat, NEW d \in 1 .. m - 1
  PROVE  Slot(m, x + d) # Slot(m, x)
  BY ModApart, Zenon DEF Slot

\* The counters wrap around at a multiple of the ring's size: a place does not
\* depend on whether its counter has.
LEMMA SameSlot ==
  ASSUME NEW m \in Nat \ {0}, NEW U \in Nat \ {0}, Slot(m, U) = 0,
         NEW r \in 0 .. U - 1, NEW d \in 0 .. U - 1, NEW k \in Nat
  PROVE  Slot(m, Advance(U, r, d) + k) = Slot(m, r + d + k)
<1>1. CASE r + d < U
  BY <1>1, AdvanceIs
<1>2. CASE r + d >= U
  <2>1. Advance(U, r, d) = r + d - U
    BY <1>2, AdvanceIs
  <2>2. /\ r + d - U + k \in Nat /\ U \in Nat
        /\ (r + d - U + k) + U = r + d + k
    BY <1>2
  <2>3. ((r + d - U + k) + U) % m = (r + d - U + k) % m
    BY <2>2, ModMultiple, Zenon DEF Slot
  <2>. QED
    BY <2>1, <2>2, <2>3 DEF Slot
<1>. QED
  BY <1>1, <1>2
=============================================================================

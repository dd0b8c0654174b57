--------------------------- MODULE StarFillProofs ---------------------------
(***************************************************************************)
(* A star filling up, for every nursery, hole, step and split the          *)
(* assumptions allow.  FillInv says that the mass never leaves the step    *)
(* lattice nor the hole, and that the pot is exactly its share of what     *)
(* landed.  The last is what makes the odds fair: with nothing lost to     *)
(* rounding, pot and mass are both multiples of the same number of steps.  *)
(***************************************************************************)
EXTENDS StarFill, GameMathProofs

\* What the house and the pot get of one step.
StepCut == (PUSH_STEP * PROTOCOL_BPS) \div BPS
StepPrize == PUSH_STEP - StepCut

\* A step is split without remainder, and the pot gets some of it.
LEMMA StepSplits ==
  /\ StepCut \in Nat /\ PUSH_STEP * PROTOCOL_BPS = BPS * StepCut
  /\ StepPrize \in Nat \ {0}
<1> DEFINE n == PUSH_STEP * PROTOCOL_BPS
           c == n \div BPS
<1>1. /\ PUSH_STEP \in Nat \ {0} /\ BPS \in Nat \ {0}
      /\ PROTOCOL_BPS \in Nat /\ PROTOCOL_BPS + 1 <= BPS /\ n % BPS = 0
  BY MathAssumption, FillAssumption
<1>2. n \in Nat
  BY <1>1, ProductGrows
<1>3. n = BPS * c + (n % BPS) /\ c \in Nat
  <2> HIDE DEF n
  <2> QED
    BY <1>1, <1>2, DivParts
<1>4. n = BPS * c
  <2> HIDE DEF n, c
  <2> QED
    BY <1>1, <1>3
<1>5. PUSH_STEP - c \in Nat \ {0}
  <2>1. n + PUSH_STEP <= PUSH_STEP * BPS
    BY <1>1
  <2>2. SUFFICES ASSUME c >= PUSH_STEP PROVE FALSE
    BY <1>1, <1>3
  <2>3. BPS * PUSH_STEP <= BPS * c
    <3> HIDE DEF c
    <3> QED
      BY <1>1, <1>3, <2>2, ProductGrows
  <2>4. BPS * PUSH_STEP = PUSH_STEP * BPS
    BY <1>1
  <2> HIDE DEF n, c
  <2> QED
    BY <1>1, <1>2, <1>4, <2>1, <2>3, <2>4
<1> QED
  BY <1>3, <1>4, <1>5 DEF StepCut, StepPrize

\* A whole number of steps is split as many times a step is.
LEMMA StepsSplit ==
  ASSUME NEW k \in Nat
  PROVE  PrizeCut(PUSH_STEP * k) = StepPrize * k
<1>1. /\ PUSH_STEP \in Nat \ {0} /\ BPS \in Nat \ {0} /\ PROTOCOL_BPS \in Nat
  BY MathAssumption
<1>2. /\ StepCut \in Nat /\ StepPrize \in Nat
      /\ PUSH_STEP * PROTOCOL_BPS = BPS * StepCut
      /\ StepPrize = PUSH_STEP - StepCut
  BY StepSplits DEF StepPrize
<1>3. PUSH_STEP * k * PROTOCOL_BPS = BPS * (StepCut * k)
  <2>1. PUSH_STEP * k * PROTOCOL_BPS = (PUSH_STEP * PROTOCOL_BPS) * k
    BY <1>1
  <2>2. (BPS * StepCut) * k = BPS * (StepCut * k)
    BY <1>1, <1>2
  <2> QED
    BY <1>2, <2>1, <2>2
<1>4. StepCut * k \in Nat
  BY <1>2
<1>5. (BPS * (StepCut * k)) \div BPS = StepCut * k
  <2> DEFINE q == StepCut * k
  <2> HIDE DEF q
  <2>1. q \in Nat
    BY <1>4 DEF q
  <2>2. (BPS * q) \div BPS = q
    BY <1>1, <2>1
  <2> QED
    BY <2>2 DEF q
<1>6. ProtocolCut(PUSH_STEP * k) = StepCut * k
  BY <1>3, <1>5 DEF ProtocolCut
<1>7. PUSH_STEP * k - StepCut * k = StepPrize * k
  BY <1>1, <1>2
<1> QED
  BY <1>6, <1>7 DEF PrizeCut

\* The pot's share of two amounts on the lattice is the share of their sum.
LEMMA CutAdds ==
  ASSUME NEW a \in Nat, NEW b \in Nat, OnStep(a), OnStep(b)
  PROVE  PrizeCut(a + b) = PrizeCut(a) + PrizeCut(b)
<1>1. PUSH_STEP \in Nat /\ StepPrize \in Nat
  BY MathAssumption, StepSplits
<1>2. PICK i \in Nat : a = PUSH_STEP * i
  BY OnStepMultiple
<1>3. PICK j \in Nat : b = PUSH_STEP * j
  BY OnStepMultiple
<1>4. a + b = PUSH_STEP * (i + j) /\ i + j \in Nat
  BY <1>1, <1>2, <1>3
<1>5. /\ PrizeCut(a) = StepPrize * i /\ PrizeCut(b) = StepPrize * j
      /\ PrizeCut(a + b) = StepPrize * (i + j)
  BY <1>2, <1>3, <1>4, StepsSplit
<1> QED
  BY <1>1, <1>5

\* An amount of the lattice that is not nothing is at least a step.
LEMMA LegalIsAStep ==
  ASSUME NEW a \in Nat, LegalPush(a)
  PROVE  a >= PUSH_STEP
<1>1. PUSH_STEP \in Nat
  BY MathAssumption
<1>2. PICK k \in Nat : a = PUSH_STEP * k
  BY OnStepMultiple DEF LegalPush
<1>3. k >= 1
  BY <1>1, <1>2 DEF LegalPush
<1>4. PUSH_STEP * 1 <= PUSH_STEP * k
  BY <1>1, <1>3, ProductGrows
<1> QED
  BY <1>1, <1>2, <1>4

-----------------------------------------------------------------------------
(* The inductive invariant                                                 *)

FillInv ==
  /\ gift \in Nat /\ OnStep(gift)
  /\ mass \in Nat /\ OnStep(mass) /\ gift <= mass /\ mass <= HOLE_MASS
  /\ PotIsExactShare

\* A star is born on the lattice.
LEMMA InitFill == Init => FillInv
<1> SUFFICES ASSUME Init PROVE FillInv
  OBVIOUS
<1>1. HOLE_MASS \in Nat /\ BPS \in Nat \ {0}
  BY MathAssumption
<1>2. gift \in 0..HOLE_MASS /\ OnStep(gift) /\ mass = gift /\ pot = gift
  BY FillAssumption DEF Init
<1>3. PrizeCut(0) = 0
  BY CutRange
<1> QED
  BY <1>1, <1>2, <1>3 DEF FillInv, PotIsExactShare

\* What one amount does: it lands in whole steps, within the room there is.
LEMMA Lands ==
  ASSUME FillInv, NEW a \in Signed, Grow(a)
  PROVE  LET amount == AcceptPushAmount(a, RoomAt(mass))
         IN /\ amount \in Nat /\ LegalPush(amount)
            /\ mass' = mass + amount /\ pot' = pot + PrizeCut(amount)
            /\ gift' = gift
            /\ mass < FEED_MASS => mass' <= FEED_MASS
            /\ mass' <= HOLE_MASS
<1> DEFINE amount == AcceptPushAmount(a, RoomAt(mass))
<1>1. a \in Nat /\ LegalPush(a) /\ mass < HOLE_MASS
  BY FillAssumption DEF Grow
<1>2. /\ FEED_MASS \in Nat /\ HOLE_MASS \in Nat /\ FEED_MASS < HOLE_MASS
  BY MathAssumption
<1>3. /\ RoomAt(mass) \in Nat /\ OnStep(RoomAt(mass)) /\ RoomAt(mass) > 0
      /\ mass < FEED_MASS => RoomAt(mass) = FEED_MASS - mass
      /\ mass >= FEED_MASS => RoomAt(mass) = HOLE_MASS - mass
  BY <1>1, <1>2, RoomFacts DEF FillInv
<1>4. /\ amount \in Nat \ {0} /\ OnStep(amount) /\ amount <= RoomAt(mass)
  BY <1>1, <1>3, AcceptFacts, AcceptPositive
<1>5. /\ mass' = mass + amount /\ pot' = pot + PrizeCut(amount)
      /\ gift' = gift
  BY DEF Grow
<1>6. LegalPush(amount)
  BY <1>4 DEF LegalPush
<1> HIDE DEF amount
<1> QED
  BY <1>2, <1>3, <1>4, <1>5, <1>6 DEF FillInv, amount

\* One amount keeps the star on the lattice and its pot exact.
LEMMA FillStep == FillInv /\ [Next]_vars => FillInv'
<1> SUFFICES ASSUME FillInv, [Next]_vars PROVE FillInv'
  OBVIOUS
<1>1. ASSUME NEW a \in Signed, Grow(a) PROVE FillInv'
  <2> DEFINE amount == AcceptPushAmount(a, RoomAt(mass))
  <2>1. /\ amount \in Nat /\ LegalPush(amount)
        /\ mass' = mass + amount /\ pot' = pot + PrizeCut(amount)
        /\ gift' = gift /\ mass' <= HOLE_MASS
    BY <1>1, Lands
  <2> HIDE DEF amount
  <2>2. OnStep(mass') /\ mass' \in Nat
    BY <2>1, OnStepSum DEF FillInv, LegalPush
  <2>3. mass - gift \in Nat /\ OnStep(mass - gift)
    BY OnStepSum DEF FillInv
  <2>4. PrizeCut((mass - gift) + amount)
          = PrizeCut(mass - gift) + PrizeCut(amount)
    BY <2>1, <2>3, CutAdds DEF LegalPush
  <2>5. mass' - gift' = (mass - gift) + amount
    BY <2>1 DEF FillInv
  <2>6. PrizeCut(mass - gift) \in Nat /\ PrizeCut(amount) \in Nat
    BY <2>1, <2>3, CutRange
  <2>7. PotIsExactShare'
    <3>1. pot = gift + PrizeCut(mass - gift)
      BY DEF FillInv, PotIsExactShare
    <3>2. pot' = gift' + PrizeCut(mass' - gift')
      BY <2>1, <2>4, <2>5, <2>6, <3>1 DEF FillInv
    <3> QED
      BY <3>2 DEF PotIsExactShare
  <2>8. gift' \in Nat /\ OnStep(gift)' /\ gift' <= mass'
    BY <2>1 DEF FillInv, OnStep
  <2> QED
    BY <2>1, <2>2, <2>7, <2>8 DEF FillInv
<1>2. CASE UNCHANGED vars
  BY <1>2 DEF vars, FillInv, PotIsExactShare
<1> QED
  BY <1>1, <1>2 DEF Next

\* FillInv holds throughout.
LEMMA FillAlways == Spec => []FillInv
  BY InitFill, FillStep, PTL DEF Spec

\* Splitting each amount between pot and house on its own loses nothing: at any
\* time the pot is exactly the pot's share of everything that landed
\* (game_config.rs, split).
THEOREM PotAlwaysExact == Spec => []PotIsExactShare
<1>1. FillInv => PotIsExactShare
  BY DEF FillInv
<1> QED
  BY <1>1, FillAlways, PTL

-----------------------------------------------------------------------------
(* Where a fill stops                                                      *)

\* What is left of the room is itself a legal amount.
LEMMA RoomIsLegal ==
  ASSUME NEW m \in Nat, OnStep(m), m < HOLE_MASS
  PROVE  LegalPush(RoomAt(m))
<1>1. /\ FEED_MASS \in Nat /\ HOLE_MASS \in Nat /\ FEED_MASS < HOLE_MASS
  BY MathAssumption
<1>2. /\ RoomAt(m) \in Nat /\ OnStep(RoomAt(m))
      /\ m < FEED_MASS => RoomAt(m) = FEED_MASS - m
      /\ m >= FEED_MASS => RoomAt(m) = HOLE_MASS - m
  BY <1>1, RoomFacts
<1> QED
  BY <1>1, <1>2 DEF LegalPush

\* Whatever amounts are signed, a fill lands at least a step, stops at the nursery
\* cap and at the hole cap, and leaves room only for whole steps
\* (accept_push_amount, room_at).
THEOREM FillsAlwaysStop == Spec => FillsStopAtBoundaries
<1>1. ASSUME FillInv, FillInv', [Next]_vars
      PROVE  [/\ mass' >= mass + PUSH_STEP
              /\ mass < FEED_MASS => mass' <= FEED_MASS
              /\ mass' <= HOLE_MASS
              /\ mass' < HOLE_MASS => LegalPush(RoomAt(mass'))]_vars
  <2>1. ASSUME NEW a \in Signed, Grow(a)
        PROVE  /\ mass' >= mass + PUSH_STEP
               /\ mass < FEED_MASS => mass' <= FEED_MASS
               /\ mass' <= HOLE_MASS
               /\ mass' < HOLE_MASS => LegalPush(RoomAt(mass'))
    <3> DEFINE amount == AcceptPushAmount(a, RoomAt(mass))
    <3>1. /\ amount \in Nat /\ LegalPush(amount) /\ mass' = mass + amount
          /\ mass < FEED_MASS => mass' <= FEED_MASS
          /\ mass' <= HOLE_MASS
      BY <1>1, <2>1, Lands
    <3> HIDE DEF amount
    <3>2. amount >= PUSH_STEP
      BY <3>1, LegalIsAStep
    <3>3. mass \in Nat /\ PUSH_STEP \in Nat
      BY <1>1, MathAssumption DEF FillInv
    <3>4. mass' \in Nat /\ OnStep(mass')
      BY <1>1, <3>1, OnStepSum DEF FillInv, LegalPush
    <3>5. mass' < HOLE_MASS => LegalPush(RoomAt(mass'))
      BY <3>4, RoomIsLegal
    <3> QED
      BY <3>1, <3>2, <3>3, <3>5
  <2> QED
    BY <1>1, <2>1 DEF Next
<1> QED
  BY <1>1, FillAlways, PTL DEF Spec, FillsStopAtBoundaries

-----------------------------------------------------------------------------
(* The odds                                                                *)

\* A chance is the quotient of an amount and the mass it makes, in units of one
\* ppb-th: the whole of it is reached only by an amount that is the whole mass.
LEMMA ChanceIs ==
  ASSUME NEW a \in Nat \ {0}, NEW m \in Nat, a <= m
  PROVE  /\ NovaChance(a, m, Ppb) \in Nat
         /\ m * NovaChance(a, m, Ppb) <= a * Ppb
         /\ a * Ppb < m * (NovaChance(a, m, Ppb) + 1)
<1> DEFINE n == a * Ppb
           q == n \div m
<1>1. Ppb \in Nat
  BY FillAssumption
<1>2. n \in Nat /\ n <= m * Ppb
  BY <1>1, ProductGrows
<1>3. q \in Nat /\ n % m \in Nat /\ n % m < m /\ n = m * q + (n % m)
  <2> HIDE DEF n
  <2> QED
    BY <1>2, DivParts
<1>4. m * q <= n /\ n < m * (q + 1)
  <2> HIDE DEF n, q
  <2>1. m * q \in Nat /\ m * (q + 1) = m * q + m
    BY <1>3
  <2> QED
    BY <1>2, <1>3, <2>1
<1>5. q <= Ppb
  <2> HIDE DEF n, q
  <2>1. SUFFICES ASSUME q >= Ppb + 1 PROVE FALSE
    BY <1>1, <1>3
  <2>2. m * (Ppb + 1) <= m * q
    BY <1>1, <1>3, <2>1, ProductGrows
  <2>3. m * (Ppb + 1) = m * Ppb + m
    BY <1>1
  <2>4. m * q \in Nat /\ m * Ppb \in Nat
    BY <1>1, <1>3
  <2> QED
    BY <1>2, <1>4, <2>2, <2>3, <2>4
<1>6. NovaChance(a, m, Ppb) = q
  <2>1. Least(q, Ppb) = q
    BY <1>1, <1>3, <1>5 DEF Least
  <2> QED
    BY <2>1 DEF NovaChance
<1> HIDE DEF q
<1> QED
  BY <1>3, <1>4, <1>6 DEF n

\* A common factor takes nothing from an inequality.
LEMMA FactorOut ==
  ASSUME NEW p \in Nat \ {0}, NEW x \in Nat, NEW y \in Nat
  PROVE  /\ p * x <= p * y => x <= y
         /\ p * x < p * y => x < y
<1>1. ASSUME x >= y + 1 PROVE p * x > p * y
  <2>1. p * (y + 1) <= p * x
    BY <1>1, ProductGrows
  <2>2. p * (y + 1) = p * y + p /\ p * y \in Nat /\ p * x \in Nat
    OBVIOUS
  <2> QED
    BY <2>1, <2>2
<1>2. ASSUME x >= y PROVE p * x >= p * y
  BY <1>2, ProductGrows
<1>3. p * x \in Nat /\ p * y \in Nat
  OBVIOUS
<1> QED
  BY <1>1, <1>2, <1>3

\* A chance of two numbers of steps, times the prize of the larger, is the prize of
\* the smaller, short by less than one unit.
LEMMA FairInSteps ==
  ASSUME NEW i \in Nat, NEW j \in Nat, NEW c \in Nat, NEW b \in Nat,
         NEW p \in Nat \ {0}, NEW d \in Nat \ {0},
         (p * j) * c <= (p * i) * b, (p * i) * b < (p * j) * (c + 1)
  PROVE  /\ c * (d * j) <= (d * i) * b
         /\ (c + 1) * (d * j) > (d * i) * b
<1> DEFINE low == j * c
           mid == i * b
           high == j * (c + 1)
<1>1. low \in Nat /\ mid \in Nat /\ high \in Nat
  BY ProductGrows
<1>2. /\ (p * j) * c = p * low /\ (p * i) * b = p * mid
      /\ (p * j) * (c + 1) = p * high
  OBVIOUS
<1>3. /\ c * (d * j) = d * low /\ (d * i) * b = d * mid
      /\ (c + 1) * (d * j) = d * high
  OBVIOUS
<1> HIDE DEF low, mid, high
<1>4. low <= mid /\ mid < high
  BY <1>1, <1>2, FactorOut
<1>5. d * low <= d * mid
  BY <1>1, <1>4, ProductGrows
<1>6. d * mid < d * high
  <2>1. mid + 1 <= high
    BY <1>1, <1>4
  <2>2. d * (mid + 1) <= d * high
    BY <1>1, <2>1, ProductGrows
  <2>3. d * (mid + 1) = d * mid + d /\ d * mid \in Nat /\ d * high \in Nat
    BY <1>1
  <2> QED
    BY <2>2, <2>3
<1> QED
  BY <1>3, <1>5, <1>6

\* On a star born with nothing no last hit is better than another: whatever its
\* size and whatever the mass, its chance times the pot it would win is its own
\* share, short by less than one unit of chance (game_config.rs, nova_chance_ppb
\* and split).
THEOREM OddsAlwaysFair == Spec => []OddsAreFair
<1>1. ASSUME FillInv PROVE OddsAreFair
  <2> SUFFICES ASSUME gift = 0, mass >= FEED_MASS, NEW a \in Signed,
                      LegalPush(a), mass + a <= HOLE_MASS
               PROVE  LET chance == NovaChance(a, mass + a, Ppb)
                          win == pot + PrizeCut(a)
                      IN /\ chance * win <= PrizeCut(a) * Ppb
                         /\ (chance + 1) * win > PrizeCut(a) * Ppb
    BY DEF OddsAreFair
  <2>1. /\ a \in Nat \ {0} /\ OnStep(a) /\ Ppb \in Nat
        /\ mass \in Nat /\ OnStep(mass)
    BY <1>1, FillAssumption DEF FillInv, LegalPush
  <2>2. mass + a \in Nat /\ OnStep(mass + a)
    BY <2>1, OnStepSum
  <2>3. pot = PrizeCut(mass)
    <3>1. pot = 0 + PrizeCut(mass - 0) /\ mass - 0 = mass
      BY <1>1, <2>1 DEF FillInv, PotIsExactShare
    <3> QED
      BY <2>1, <3>1, CutRange
  <2>4. pot + PrizeCut(a) = PrizeCut(mass + a)
    BY <2>1, <2>3, CutAdds
  <2>5. PICK i \in Nat : a = PUSH_STEP * i
    BY <2>1, OnStepMultiple
  <2>6. PICK j \in Nat : mass + a = PUSH_STEP * j
    BY <2>2, OnStepMultiple
  <2>7. PrizeCut(a) = StepPrize * i /\ pot + PrizeCut(a) = StepPrize * j
    BY <2>4, <2>5, <2>6, StepsSplit
  <2>8. /\ NovaChance(a, mass + a, Ppb) \in Nat
        /\ (mass + a) * NovaChance(a, mass + a, Ppb) <= a * Ppb
        /\ a * Ppb < (mass + a) * (NovaChance(a, mass + a, Ppb) + 1)
    BY <2>1, <2>2, ChanceIs
  <2> DEFINE chance == NovaChance(a, mass + a, Ppb)
  <2> HIDE DEF chance
  <2>9. /\ chance \in Nat /\ (PUSH_STEP * j) * chance <= (PUSH_STEP * i) * Ppb
        /\ (PUSH_STEP * i) * Ppb < (PUSH_STEP * j) * (chance + 1)
    BY <2>5, <2>6, <2>8 DEF chance
  <2>10. PUSH_STEP \in Nat \ {0} /\ StepPrize \in Nat \ {0}
    BY MathAssumption, StepSplits
  <2>11. /\ chance * (StepPrize * j) <= (StepPrize * i) * Ppb
         /\ (chance + 1) * (StepPrize * j) > (StepPrize * i) * Ppb
    BY <2>1, <2>9, <2>10, FairInSteps
  <2> QED
    BY <2>7, <2>11 DEF chance
<1> QED
  BY <1>1, FillAlways, PTL

-----------------------------------------------------------------------------
(* The reward for a stake                                                  *)

\* A heavier star multiplies a stake by no more.
LEMMA MultTapers ==
  ASSUME NEW m \in Nat, NEW w \in Nat, m <= w
  PROVE  /\ StardustMult(m) \in Nat /\ StardustMult(w) \in Nat
         /\ StardustMult(w) <= StardustMult(m)
<1> DEFINE i == StageForMass(m, StageMins)
           j == StageForMass(w, StageMins)
<1>1. /\ StageMins \in Seq(Nat) /\ Len(StageMins) > 0
      /\ StageMults \in [1..Len(StageMins) -> Nat]
      /\ \A x, y \in 1..Len(StageMins) :
           x <= y => StageMults[y] <= StageMults[x]
  BY StageAssumption
<1>2. i \in 0..Len(StageMins) - 1 /\ j \in 0..Len(StageMins) - 1 /\ i <= j
  BY <1>1, StageGrows
<1>3. StardustMult(m) = StageMults[i + 1] /\ StardustMult(w) = StageMults[j + 1]
  BY DEF StardustMult
<1> HIDE DEF i, j
<1>4. /\ i + 1 \in 1..Len(StageMins) /\ j + 1 \in 1..Len(StageMins)
      /\ i + 1 <= j + 1
  BY <1>1, <1>2
<1> QED
  BY <1>1, <1>3, <1>4

\* A stake that is no larger, multiplied by no more, on no better a chance, earns
\* no more.
LEMMA StardustGrows ==
  ASSUME NEW a \in Nat, NEW b \in Nat, NEW p \in Nat, NEW q \in Nat,
         NEW x \in Nat, NEW y \in Nat, a <= b, p <= q, x <= y
  PROVE  /\ StardustFor(a, p, x) \in Nat /\ StardustFor(b, q, y) \in Nat
         /\ StardustFor(a, p, x) <= StardustFor(b, q, y)
<1> DEFINE A == a \div StardustAt
           B == b \div StardustAt
           P == (A * p) \div 10000
           Q == (B * q) \div 10000
           X == ChanceStardust(x)
           Y == ChanceStardust(y)
<1>1. A \in Nat /\ B \in Nat /\ A <= B
  BY StageAssumption, QuotientGrows
<1>2. P \in Nat /\ Q \in Nat /\ P <= Q
  <2> HIDE DEF A, B
  <2>1. A * p <= A * q /\ q * A <= q * B
    BY <1>1, ProductGrows
  <2>2. /\ A * p \in Nat /\ B * q \in Nat /\ A * q \in Nat
        /\ q * A = A * q /\ q * B = B * q
    BY <1>1
  <2>3. A * p <= B * q
    BY <2>1, <2>2
  <2> QED
    BY <2>2, <2>3, QuotientGrows
<1>3. X \in Nat /\ Y \in Nat /\ X <= Y
  BY SweetenerGrows
<1>4. /\ (P * X) \div 10000 \in Nat /\ (Q * Y) \div 10000 \in Nat
      /\ (P * X) \div 10000 <= (Q * Y) \div 10000
  <2> HIDE DEF P, Q, X, Y
  <2>1. P * X <= P * Y /\ Y * P <= Y * Q
    BY <1>2, <1>3, ProductGrows
  <2>2. /\ P * X \in Nat /\ Q * Y \in Nat /\ P * Y \in Nat
        /\ Y * P = P * Y /\ Y * Q = Q * Y
    BY <1>2, <1>3
  <2>3. P * X <= Q * Y
    BY <2>1, <2>2
  <2> QED
    BY <2>2, <2>3, QuotientGrows
<1>5. /\ StardustFor(a, p, x) = (P * X) \div 10000
      /\ StardustFor(b, q, y) = (Q * Y) \div 10000
  BY DEF StardustFor
<1> QED
  BY <1>4, <1>5

\* Two stakes at the same multiplier and chance earn no more than the two in one.
LEMMA StardustFits ==
  ASSUME NEW a \in Nat, NEW b \in Nat, NEW p \in Nat, NEW x \in Nat
  PROVE  StardustFor(a, p, x) + StardustFor(b, p, x) <= StardustFor(a + b, p, x)
<1> DEFINE A == a \div StardustAt
           B == b \div StardustAt
           C == (a + b) \div StardustAt
           P == (A * p) \div 10000
           Q == (B * p) \div 10000
           R == (C * p) \div 10000
           X == ChanceStardust(x)
<1>1. A \in Nat /\ B \in Nat /\ C \in Nat /\ A + B <= C
  <2>1. StardustAt \in Nat \ {0} /\ a + b \in Nat
    BY StageAssumption
  <2> QED
    BY <2>1, QuotientGrows, QuotientsFit
<1>2. P \in Nat /\ Q \in Nat /\ R \in Nat /\ P + Q <= R
  <2> HIDE DEF A, B, C
  <2>1. p * (A + B) <= p * C
    BY <1>1, ProductGrows
  <2>2. /\ A * p \in Nat /\ B * p \in Nat /\ C * p \in Nat
        /\ p * (A + B) = A * p + B * p /\ p * C = C * p
    BY <1>1
  <2>3. A * p + B * p <= C * p /\ A * p + B * p \in Nat
    BY <2>1, <2>2
  <2>4. P + Q <= (A * p + B * p) \div 10000
    BY <2>2, QuotientsFit
  <2>5. /\ (A * p + B * p) \div 10000 \in Nat /\ R \in Nat
        /\ (A * p + B * p) \div 10000 <= R
    BY <2>2, <2>3, QuotientGrows
  <2>6. P \in Nat /\ Q \in Nat
    BY <2>2, QuotientGrows
  <2> HIDE DEF P, Q, R
  <2> QED
    BY <2>4, <2>5, <2>6
<1>3. X \in Nat
  BY SweetenerGrows
<1>4. (P * X) \div 10000 + (Q * X) \div 10000 <= (R * X) \div 10000
  <2> HIDE DEF P, Q, R, X
  <2>1. X * (P + Q) <= X * R
    BY <1>2, <1>3, ProductGrows
  <2>2. /\ P * X \in Nat /\ Q * X \in Nat /\ R * X \in Nat
        /\ X * (P + Q) = P * X + Q * X /\ X * R = R * X
    BY <1>2, <1>3
  <2>3. P * X + Q * X <= R * X /\ P * X + Q * X \in Nat
    BY <2>1, <2>2
  <2>4. (P * X) \div 10000 + (Q * X) \div 10000 <= (P * X + Q * X) \div 10000
    BY <2>2, QuotientsFit
  <2>5. /\ (P * X + Q * X) \div 10000 \in Nat /\ (R * X) \div 10000 \in Nat
        /\ (P * X + Q * X) \div 10000 <= (R * X) \div 10000
    BY <2>2, <2>3, QuotientGrows
  <2>6. (P * X) \div 10000 \in Nat /\ (Q * X) \div 10000 \in Nat
    BY <2>2, QuotientGrows
  <2> QED
    BY <2>4, <2>5, <2>6
<1>5. /\ StardustFor(a, p, x) = (P * X) \div 10000
      /\ StardustFor(b, p, x) = (Q * X) \div 10000
      /\ StardustFor(a + b, p, x) = (R * X) \div 10000
  BY DEF StardustFor
<1> QED
  BY <1>4, <1>5

\* The same stake on a heavier star earns no more.
LEMMA EarnsTapers ==
  ASSUME NEW a \in Nat \ {0}, NEW m \in Nat, NEW w \in Nat, m <= w
  PROVE  Earns(a, w) <= Earns(a, m)
<1>1. a * (m + a) <= a * (w + a)
  BY ProductGrows
<1>2. m + a \in Nat \ {0} /\ w + a \in Nat \ {0} /\ 1000 \in Nat
  OBVIOUS
<1>3. /\ NovaChance(a, m + a, 1000) \in Nat /\ NovaChance(a, w + a, 1000) \in Nat
      /\ NovaChance(a, w + a, 1000) <= NovaChance(a, m + a, 1000)
  BY <1>1, <1>2, ChanceGrows
<1>4. /\ StardustMult(m) \in Nat /\ StardustMult(w) \in Nat
      /\ StardustMult(w) <= StardustMult(m)
  BY MultTapers
<1> DEFINE c == NovaChance(a, m + a, 1000)
           d == NovaChance(a, w + a, 1000)
           p == StardustMult(m)
           q == StardustMult(w)
<1>5. Earns(a, m) = StardustFor(a, p, c) /\ Earns(a, w) = StardustFor(a, q, d)
  BY DEF Earns
<1>6. /\ c \in Nat /\ d \in Nat /\ d <= c /\ p \in Nat /\ q \in Nat /\ q <= p
      /\ a \in Nat /\ a <= a
  BY <1>3, <1>4
<1> HIDE DEF c, d, p, q
<1> QED
  BY <1>5, <1>6, StardustGrows

\* A stake laid in two parts, one upon the other, earns no more than in one.
LEMMA EarnsFit ==
  ASSUME NEW a \in Nat \ {0}, NEW b \in Nat \ {0}, NEW m \in Nat
  PROVE  Earns(a, m) + Earns(b, m + a) <= Earns(a + b, m)
<1> DEFINE w == m + (a + b)
           c == NovaChance(a, m + a, 1000)
           d == NovaChance(b, (m + a) + b, 1000)
           e == NovaChance(a + b, w, 1000)
           p == StardustMult(m)
           q == StardustMult(m + a)
<1>1. /\ m + a \in Nat \ {0} /\ w \in Nat \ {0} /\ 1000 \in Nat
      /\ a + b \in Nat \ {0} /\ (m + a) + b = w
  OBVIOUS
<1>2. a * w <= (a + b) * (m + a)
  <2>1. /\ a * w = a * m + a * a + a * b
        /\ (a + b) * (m + a) = a * m + a * a + a * b + b * m
        /\ a * m \in Nat /\ a * a \in Nat /\ a * b \in Nat /\ b * m \in Nat
    OBVIOUS
  <2> DEFINE am == a * m
             aa == a * a
             ab == a * b
             bm == b * m
  <2>2. am + aa + ab <= am + aa + ab + bm
    <3>1. am \in Nat /\ aa \in Nat /\ ab \in Nat /\ bm \in Nat
      BY <2>1
    <3> HIDE DEF am, aa, ab, bm
    <3> QED
      BY <3>1
  <2> HIDE DEF w
  <2> QED
    BY <2>1, <2>2
<1>3. b * w <= (a + b) * w
  <2>1. w * b <= w * (a + b)
    BY <1>1, ProductGrows
  <2>2. w * b = b * w /\ w * (a + b) = (a + b) * w
    BY <1>1
  <2> HIDE DEF w
  <2> QED
    BY <2>1, <2>2
<1>4. c \in Nat /\ e \in Nat /\ c <= e
  <2> HIDE DEF w
  <2> QED
    BY <1>1, <1>2, ChanceGrows
<1>5. d \in Nat /\ d <= e
  <2>1. d = NovaChance(b, w, 1000)
    BY <1>1
  <2> HIDE DEF w, d
  <2> QED
    BY <1>1, <1>3, <2>1, ChanceGrows
<1>6. p \in Nat /\ q \in Nat /\ q <= p
  BY <1>1, MultTapers
<1>7. /\ Earns(a, m) = StardustFor(a, p, c)
      /\ Earns(b, m + a) = StardustFor(b, q, d)
      /\ Earns(a + b, m) = StardustFor(a + b, p, e)
  BY DEF Earns
<1> HIDE DEF c, d, e, p, q
<1> DEFINE sum == a + b
<1>8. /\ a \in Nat /\ b \in Nat /\ sum \in Nat /\ a <= a /\ b <= b /\ p <= p
      /\ sum <= sum /\ e <= e
  BY <1>4, <1>6
<1>9. /\ StardustFor(a, p, c) <= StardustFor(a, p, e)
      /\ StardustFor(a, p, c) \in Nat /\ StardustFor(a, p, e) \in Nat
  BY <1>4, <1>6, <1>8, StardustGrows
<1>10. /\ StardustFor(b, q, d) <= StardustFor(b, p, e)
      /\ StardustFor(b, q, d) \in Nat /\ StardustFor(b, p, e) \in Nat
  BY <1>4, <1>5, <1>6, <1>8, StardustGrows
<1>11. StardustFor(a, p, e) + StardustFor(b, p, e) <= StardustFor(sum, p, e)
  BY <1>4, <1>6, <1>8, StardustFits
<1>12. StardustFor(sum, p, e) \in Nat
  <2> HIDE DEF sum
  <2> QED
    BY <1>4, <1>6, <1>8, StardustGrows
<1> QED
  BY <1>7, <1>9, <1>10, <1>11, <1>12

\* For every table of stages that pays less and less, a stake earns no more by
\* waiting for a heavier star and no more cut in two, at any mass: the roundings of
\* stardust_for and the steps of chance_stardust_bps give nothing back
\* (game_config.rs).
THEOREM StardustAlwaysTapers == Spec => []StardustTapers
<1>1. ASSUME FillInv PROVE StardustTapers
  <2>1. mass \in Nat /\ PUSH_STEP \in Nat
    BY <1>1, MathAssumption DEF FillInv
  <2>2. ASSUME NEW a \in Signed, LegalPush(a)
        PROVE  Earns(a, mass + PUSH_STEP) <= Earns(a, mass)
    <3>1. a \in Nat \ {0} /\ mass + PUSH_STEP \in Nat /\ mass <= mass + PUSH_STEP
      BY <2>1, <2>2, FillAssumption DEF LegalPush
    <3> QED
      BY <2>1, <3>1, EarnsTapers
  <2>3. ASSUME NEW a \in Signed, LegalPush(a), NEW b \in Signed, LegalPush(b)
        PROVE  Earns(a, mass) + Earns(b, mass + a) <= Earns(a + b, mass)
    <3>1. a \in Nat \ {0} /\ b \in Nat \ {0}
      BY <2>3, FillAssumption DEF LegalPush
    <3> QED
      BY <2>1, <3>1, EarnsFit
  <2> QED
    BY <2>2, <2>3 DEF StardustTapers
<1> QED
  BY <1>1, FillAlways, PTL
=============================================================================

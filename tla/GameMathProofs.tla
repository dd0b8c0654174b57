--------------------------- MODULE GameMathProofs ---------------------------
(***************************************************************************)
(* The facts about amounts the proofs rest on, for every value of the      *)
(* constants MathAssumption allows.                                        *)
(***************************************************************************)
EXTENDS GameMath, FiniteSetTheorems, TLAPS

-----------------------------------------------------------------------------
(* Division and remainder                                                  *)

\* A quotient is the largest whole number of times the divisor fits.
LEMMA DivMod ==
  ASSUME NEW a \in Nat, NEW b \in Nat \ {0}
  PROVE  /\ a \div b \in Nat
         /\ a % b \in 0..b - 1
         /\ a = b * (a \div b) + (a % b)
  OBVIOUS

\* The same with the remainder's range spelt out.
LEMMA DivParts ==
  ASSUME NEW a \in Nat, NEW b \in Nat, b > 0
  PROVE  /\ a \div b \in Nat
         /\ a % b \in Nat /\ a % b < b
         /\ a = b * (a \div b) + (a % b)
  OBVIOUS

\* A product of naturals is a natural, and grows with its factors.
LEMMA ProductGrows ==
  ASSUME NEW a \in Nat, NEW b \in Nat, NEW c \in Nat, b <= c
  PROVE  /\ a * b \in Nat
         /\ a * b <= a * c
  OBVIOUS

\* floor_to_step only ever takes away.
LEMMA FloorRange ==
  ASSUME NEW v \in Nat
  PROVE  FloorToStep(v) \in 0..v
<1>1. PUSH_STEP \in Nat \ {0}
  BY MathAssumption
<1>2. v % PUSH_STEP \in Nat /\ v \div PUSH_STEP \in Nat
  BY <1>1, DivMod
<1>3. v = PUSH_STEP * (v \div PUSH_STEP) + (v % PUSH_STEP)
  BY <1>1, DivMod
<1>4. PUSH_STEP * (v \div PUSH_STEP) \in Nat
  BY <1>1, <1>2, ProductGrows
<1> QED
  BY <1>2, <1>3, <1>4 DEF FloorToStep

\* The house's cut of an amount is a part of it, and the pot gets the rest.
LEMMA CutRange ==
  ASSUME NEW a \in Nat
  PROVE  /\ ProtocolCut(a) \in 0..a
         /\ PrizeCut(a) \in 0..a
         /\ PrizeCut(a) + ProtocolCut(a) = a
<1> DEFINE q == (a * PROTOCOL_BPS) \div BPS
<1>1. BPS \in Nat \ {0} /\ PROTOCOL_BPS \in Nat /\ PROTOCOL_BPS <= BPS
  BY MathAssumption
<1>2. a * PROTOCOL_BPS \in Nat /\ a * PROTOCOL_BPS <= a * BPS
  BY <1>1, ProductGrows
<1>3. q \in Nat /\ BPS * q <= a * PROTOCOL_BPS
  <2> DEFINE n == a * PROTOCOL_BPS
  <2>1. n \in Nat
    BY <1>2
  <2> HIDE DEF n
  <2>2. n \div BPS \in Nat /\ n % BPS \in Nat
    BY <1>1, <2>1, DivMod
  <2>3. n = BPS * (n \div BPS) + (n % BPS)
    BY <1>1, <2>1, DivMod
  <2>4. BPS * (n \div BPS) \in Nat
    BY <1>1, <2>2, ProductGrows
  <2>5. n \div BPS \in Nat /\ BPS * (n \div BPS) <= n
    BY <2>1, <2>2, <2>3, <2>4
  <2> QED
    BY <2>5 DEF n
<1>4. ~(q >= a + 1)
  <2>1. SUFFICES ASSUME q >= a + 1 PROVE FALSE
    OBVIOUS
  <2>2. BPS * (a + 1) <= BPS * q
    BY <1>1, <1>3, <2>1, ProductGrows
  <2>3. BPS * (a + 1) = a * BPS + BPS
    BY <1>1
  <2> QED
    BY <1>1, <1>2, <1>3, <2>2, <2>3
<1>5. q \in 0..a
  BY <1>3, <1>4
<1> QED
  BY <1>5 DEF ProtocolCut, PrizeCut

\* The smaller of two amounts is a number no larger than either.
LEMMA LeastFacts ==
  ASSUME NEW a \in Nat, NEW b \in Nat
  PROVE  Least(a, b) \in Nat /\ Least(a, b) <= a /\ Least(a, b) <= b
  BY DEF Least

\* A saturating difference never exceeds what it is taken from.
LEMMA SatSubFacts ==
  ASSUME NEW a \in Nat, NEW b \in Nat
  PROVE  SatSub(a, b) \in 0..a
  BY DEF SatSub

\* The room left at a mass is a whole number of lamports.
LEMMA RoomType ==
  ASSUME NEW mass \in Nat
  PROVE  RoomAt(mass) \in Nat
<1>1. FEED_MASS \in Nat /\ HOLE_MASS \in Nat
  BY MathAssumption
<1>2. mass < FEED_MASS => FEED_MASS - mass \in Nat
  BY <1>1
<1>3. SatSub(HOLE_MASS, mass) \in Nat
  BY <1>1, SatSubFacts
<1> QED
  BY <1>2, <1>3, FloorRange DEF RoomAt

\* Clipping never enlarges an amount.
LEMMA AcceptRange ==
  ASSUME NEW a \in Nat, NEW room \in Nat
  PROVE  AcceptPushAmount(a, room) \in 0..a
<1>1. FloorToStep(room) \in Nat
  BY FloorRange
<1>2. Least(a, FloorToStep(room)) \in 0..a
  BY <1>1 DEF Least
<1> QED
  BY <1>2 DEF AcceptPushAmount

\* At most the stake lands.
LEMMA SettleRange ==
  ASSUME NEW a \in Nat, NEW mass \in Nat
  PROVE  AcceptedSettleAmount(a, mass) \in 0..a
<1>1. Least(a, RoomAt(mass)) \in 0..a
  BY RoomType, LeastFacts
<1> QED
  BY <1>1 DEF AcceptedSettleAmount

-----------------------------------------------------------------------------
(* The step lattice                                                        *)

\* A whole number of steps is on the lattice.
LEMMA MultipleOnStep ==
  ASSUME NEW k \in Int, NEW n \in Nat, n = PUSH_STEP * k
  PROVE  OnStep(n)
<1> DEFINE q == n \div PUSH_STEP
           r == n % PUSH_STEP
<1>1. PUSH_STEP \in Nat /\ PUSH_STEP > 0
  BY MathAssumption
<1>2. /\ q \in Nat /\ r \in Nat /\ r < PUSH_STEP
      /\ n = PUSH_STEP * q + r
  BY <1>1, DivMod
<1> HIDE DEF q, r
<1>3. r = PUSH_STEP * (k - q)
  BY <1>1, <1>2
<1>4. ~(k - q >= 1)
  <2>1. SUFFICES ASSUME k - q >= 1 PROVE FALSE
    OBVIOUS
  <2>2. PUSH_STEP * 1 <= PUSH_STEP * (k - q)
    <3>1. k - q \in Nat
      BY <1>2, <2>1
    <3> QED
      BY <1>1, <2>1, <3>1, ProductGrows
  <2> QED
    BY <1>1, <1>2, <1>3, <2>2
<1>5. ~(k - q <= -1)
  <2>1. SUFFICES ASSUME k - q <= -1 PROVE FALSE
    OBVIOUS
  <2>2. PUSH_STEP * 1 <= PUSH_STEP * (q - k)
    <3>1. q - k \in Nat /\ 1 <= q - k
      BY <1>2, <2>1
    <3> QED
      BY <1>1, <3>1, ProductGrows
  <2>3. PUSH_STEP * (q - k) = -(PUSH_STEP * (k - q))
    BY <1>1, <1>2
  <2> QED
    BY <1>1, <1>2, <1>3, <2>2, <2>3
<1>6. r = 0
  <2>1. k - q = 0
    BY <1>2, <1>4, <1>5
  <2> QED
    BY <1>1, <1>3, <2>1
<1> QED
  BY <1>6 DEF OnStep, r

\* An amount on the lattice is a number of steps.
LEMMA OnStepMultiple ==
  ASSUME NEW n \in Nat, OnStep(n)
  PROVE  \E k \in Nat : n = PUSH_STEP * k
<1>1. PUSH_STEP \in Nat \ {0}
  BY MathAssumption
<1>2. /\ n \div PUSH_STEP \in Nat
      /\ n = PUSH_STEP * (n \div PUSH_STEP) + (n % PUSH_STEP)
  BY <1>1, DivMod
<1>3. n % PUSH_STEP = 0
  BY DEF OnStep
<1> DEFINE q == n \div PUSH_STEP
<1> HIDE DEF q
<1>4. q \in Nat /\ n = PUSH_STEP * q
  <2>1. PUSH_STEP * q \in Int
    BY <1>1, <1>2 DEF q
  <2> QED
    BY <1>2, <1>3, <2>1 DEF q
<1> QED
  BY <1>4

\* The lattice is closed under sums and differences.
LEMMA OnStepSum ==
  ASSUME NEW a \in Nat, NEW b \in Nat, OnStep(a), OnStep(b)
  PROVE  /\ OnStep(a + b)
         /\ b <= a => OnStep(a - b)
<1>1. PUSH_STEP \in Nat
  BY MathAssumption
<1>2. PICK x \in Nat : a = PUSH_STEP * x
  BY OnStepMultiple
<1>3. PICK y \in Nat : b = PUSH_STEP * y
  BY OnStepMultiple
<1>4. a + b = PUSH_STEP * (x + y) /\ a - b = PUSH_STEP * (x - y)
  BY <1>1, <1>2, <1>3
<1>5. OnStep(a + b)
  <2>1. a + b \in Nat /\ x + y \in Int
    OBVIOUS
  <2> QED
    BY <1>4, <2>1, MultipleOnStep
<1>6. ASSUME b <= a PROVE OnStep(a - b)
  <2>1. a - b \in Nat /\ x - y \in Int
    BY <1>6
  <2> QED
    BY <1>4, <2>1, MultipleOnStep
<1> QED
  BY <1>5, <1>6

\* Nothing is on the lattice.
LEMMA ZeroOnStep == OnStep(0)
<1>1. 0 = PUSH_STEP * 0
  BY MathAssumption
<1> QED
  BY <1>1, MultipleOnStep

\* floor_to_step lands on the lattice and leaves what is on it alone.
LEMMA FloorOnStep ==
  ASSUME NEW v \in Nat
  PROVE  /\ OnStep(FloorToStep(v))
         /\ OnStep(v) => FloorToStep(v) = v
<1> DEFINE q == v \div PUSH_STEP
           r == v % PUSH_STEP
<1>1. PUSH_STEP \in Nat \ {0}
  BY MathAssumption
<1>2. q \in Nat /\ r \in Nat /\ v = PUSH_STEP * q + r
  BY <1>1, DivMod
<1>3. FloorToStep(v) = v - r
  BY DEF FloorToStep
<1>4. r = 0 => FloorToStep(v) = v
  BY <1>3
<1>5. OnStep(v) => r = 0
  BY DEF OnStep
<1> HIDE DEF q, r
<1>6. FloorToStep(v) = PUSH_STEP * q
  <2>1. PUSH_STEP * q \in Int
    BY <1>1, <1>2
  <2> QED
    BY <1>2, <1>3, <2>1
<1>7. FloorToStep(v) \in Nat /\ q \in Int
  BY <1>2, FloorRange
<1>8. OnStep(FloorToStep(v))
  BY <1>6, <1>7, MultipleOnStep
<1> QED
  BY <1>4, <1>5, <1>8

\* From a mass on the lattice, the room left is exactly the distance to the next
\* boundary, and itself on the lattice.
LEMMA RoomFacts ==
  ASSUME NEW mass \in Nat, OnStep(mass), mass <= HOLE_MASS
  PROVE  /\ RoomAt(mass) \in Nat
         /\ OnStep(RoomAt(mass))
         /\ mass < FEED_MASS => RoomAt(mass) = FEED_MASS - mass
         /\ mass >= FEED_MASS => RoomAt(mass) = HOLE_MASS - mass
<1>1. /\ FEED_MASS \in Nat /\ HOLE_MASS \in Nat /\ FEED_MASS < HOLE_MASS
      /\ OnStep(FEED_MASS) /\ OnStep(HOLE_MASS)
  BY MathAssumption DEF OnStep
<1>2. CASE mass < FEED_MASS
  <2>1. FEED_MASS - mass \in Nat /\ OnStep(FEED_MASS - mass)
    BY <1>1, <1>2, OnStepSum
  <2>2. RoomAt(mass) = FEED_MASS - mass
    BY <1>2, <2>1, FloorOnStep DEF RoomAt
  <2> QED
    BY <1>1, <1>2, <2>1, <2>2
<1>3. CASE mass >= FEED_MASS
  <2>1. HOLE_MASS - mass \in Nat /\ OnStep(HOLE_MASS - mass)
    BY <1>1, OnStepSum
  <2>2. SatSub(HOLE_MASS, mass) = HOLE_MASS - mass /\ ~(mass < FEED_MASS)
    BY <1>1, <1>3 DEF SatSub
  <2>3. FloorToStep(HOLE_MASS - mass) = HOLE_MASS - mass
    BY <2>1, FloorOnStep
  <2>4. RoomAt(mass) = HOLE_MASS - mass
    BY <2>2, <2>3 DEF RoomAt
  <2> QED
    BY <1>1, <1>3, <2>1, <2>4
<1> QED
  BY <1>1, <1>2, <1>3

\* A legal amount clipped to room on the lattice stays on the lattice and within
\* the room.
LEMMA AcceptFacts ==
  ASSUME NEW a \in Nat, LegalPush(a), NEW room \in Nat, OnStep(room), room > 0
  PROVE  /\ AcceptPushAmount(a, room) \in Nat
         /\ OnStep(AcceptPushAmount(a, room))
         /\ AcceptPushAmount(a, room) <= room
<1>1. FloorToStep(room) = room
  BY FloorOnStep
<1>2. AcceptPushAmount(a, room) = Least(a, room)
  BY <1>1 DEF AcceptPushAmount
<1> QED
  BY <1>2 DEF Least, LegalPush

\* Nothing legal is clipped away altogether while there is room.
LEMMA AcceptPositive ==
  ASSUME NEW a \in Nat, LegalPush(a), NEW room \in Nat, OnStep(room), room > 0
  PROVE  AcceptPushAmount(a, room) \in Nat \ {0}
<1>1. FloorToStep(room) = room
  BY FloorOnStep
<1>2. AcceptPushAmount(a, room) = Least(a, room)
  BY <1>1 DEF AcceptPushAmount
<1> QED
  BY <1>2 DEF Least, LegalPush

-----------------------------------------------------------------------------
(* Sums over finite sets.  The library's induction theorems take an        *)
(* operator, which the provers cannot instantiate, so every induction here *)
(* goes by way of a set: of the subsets a claim is false of, if there are  *)
(* any, one is minimal.                                                    *)

\* A non-empty set of finite sets has a member none of whose proper subsets is in
\* it.
LEMMA MinimalSubset ==
  ASSUME NEW S, IsFiniteSet(S), NEW Bad \in SUBSET (SUBSET S), Bad # {}
  PROVE  \E m \in Bad : \A y \in Bad : ~(y \subseteq m /\ y # m)
<1>1. IsWellFoundedOn(StrictSubsetOrdering(S), SUBSET S)
  BY FS_StrictSubsetOrderingWellFounded, FS_FiniteSubsetsOfFinite
<1>2. \E m \in Bad : \A y \in Bad : ~(<<y, m>> \in StrictSubsetOrdering(S))
  BY <1>1, WFMin
<1> QED
  BY <1>2 DEF StrictSubsetOrdering

\* The element the library's fold takes first.
First(s) == CHOOSE x \in s : TRUE

\* First takes an element.
LEMMA FirstIn ==
  ASSUME NEW s, s # {}
  PROVE  First(s) \in s
  BY DEF First

\* g is the table of the partial sums of f over the subsets of S.
Sums(f, S, g) ==
  g = [s \in SUBSET S |->
         IF s = {} THEN 0 ELSE f[First(s)] + g[s \ {First(s)}]]

\* A sum is read off such a table.
LEMMA TotalDef ==
  ASSUME NEW f, NEW S
  PROVE  Total(f, S) = (CHOOSE g : Sums(f, S, g))[S]
  BY DEF Total, SumFunctionOnSet, FoldFunctionOnSet, MapThenFoldSet, Sums, First

\* Two tables agree wherever both are defined.
LEMMA SumsAgree ==
  ASSUME NEW f, NEW S, NEW T, IsFiniteSet(S), IsFiniteSet(T),
         NEW g, NEW h, Sums(f, S, g), Sums(f, T, h),
         NEW u \in SUBSET S, u \in SUBSET T
  PROVE  g[u] = h[u]
<1> DEFINE Bad == {s \in SUBSET (S \cap T) : g[s] # h[s]}
<1>1. SUFFICES ASSUME Bad # {} PROVE FALSE
  OBVIOUS
<1>2. IsFiniteSet(S \cap T)
  BY FS_Intersection
<1>3. PICK m \in Bad : \A y \in Bad : ~(y \subseteq m /\ y # m)
  <2>1. Bad \in SUBSET (SUBSET (S \cap T))
    OBVIOUS
  <2> HIDE DEF Bad
  <2> QED
    BY <1>1, <1>2, <2>1, MinimalSubset
<1>4. m \in SUBSET S /\ m \in SUBSET T /\ g[m] # h[m]
  OBVIOUS
<1> DEFINE r == m \ {First(m)}
<1>5. g[m] = IF m = {} THEN 0 ELSE f[First(m)] + g[r]
  BY <1>4 DEF Sums
<1>6. h[m] = IF m = {} THEN 0 ELSE f[First(m)] + h[r]
  BY <1>4 DEF Sums
<1>7. m # {}
  BY <1>4, <1>5, <1>6
<1>8. r \subseteq m /\ r # m /\ r \in SUBSET (S \cap T)
  BY <1>7, FirstIn
<1>9. g[r] = h[r]
  BY <1>3, <1>8
<1> QED
  BY <1>4, <1>5, <1>6, <1>7, <1>9

\* A finite set has a table: the least set without one would get one from the
\* tables of its proper subsets.
LEMMA SumsExist ==
  ASSUME NEW f, NEW S, IsFiniteSet(S)
  PROVE  \E g : Sums(f, S, g)
<1> DEFINE Bad == {T \in SUBSET S : ~ \E g : Sums(f, T, g)}
<1>1. SUFFICES ASSUME Bad # {} PROVE FALSE
  OBVIOUS
<1>2. PICK m \in Bad : \A y \in Bad : ~(y \subseteq m /\ y # m)
  <2>1. Bad \in SUBSET (SUBSET S)
    OBVIOUS
  <2> HIDE DEF Bad
  <2> QED
    BY <1>1, <2>1, MinimalSubset
<1> DEFINE v(u) == (CHOOSE g : Sums(f, u, g))[u]
           rest(s) == s \ {First(s)}
           h == [s \in SUBSET m |->
                   IF s = {} THEN 0 ELSE f[First(s)] + v(rest(s))]
<1>3. \A u \in SUBSET S : IsFiniteSet(u)
  BY FS_Subset
<1>4. ASSUME NEW u \in SUBSET m, u # m
      PROVE  Sums(f, u, CHOOSE g : Sums(f, u, g))
  BY <1>2, <1>4
<1>5. ASSUME NEW u \in SUBSET m, u # m
      PROVE  h[u] = v(u)
  <2> DEFINE g == CHOOSE g : Sums(f, u, g)
             r == u \ {First(u)}
  <2>1. Sums(f, u, g)
    BY <1>4, <1>5
  <2>2. g[u] = IF u = {} THEN 0 ELSE f[First(u)] + g[r]
    BY <2>1 DEF Sums
  <2>3. h[u] = IF u = {} THEN 0 ELSE f[First(u)] + v(r)
    OBVIOUS
  <2>4. CASE u = {}
    BY <2>2, <2>3, <2>4
  <2>5. CASE u # {}
    <3>1. r \in SUBSET u /\ r \in SUBSET m /\ r # m
      BY <1>5, <2>5, FirstIn
    <3>2. Sums(f, r, CHOOSE g1 : Sums(f, r, g1))
      BY <1>4, <3>1
    <3>3. IsFiniteSet(u) /\ IsFiniteSet(r)
      BY <1>3, <3>1
    <3> HIDE DEF g, r
    <3>4. g[r] = v(r)
      BY <2>1, <3>1, <3>2, <3>3, SumsAgree
    <3> QED
      BY <2>2, <2>3, <2>5, <3>4 DEF g
  <2> QED
    BY <2>4, <2>5
<1>6. \A s \in SUBSET m : s # {} => h[rest(s)] = v(rest(s))
  <2> SUFFICES ASSUME NEW s \in SUBSET m, s # {}
               PROVE  h[rest(s)] = v(rest(s))
    OBVIOUS
  <2>1. rest(s) \in SUBSET m /\ rest(s) # m
    BY FirstIn
  <2> QED
    BY <1>5, <2>1
<1> DEFINE k == [s \in SUBSET m |->
                   IF s = {} THEN 0 ELSE f[First(s)] + h[rest(s)]]
<1>7. h = k
  <2>1. ASSUME NEW s \in SUBSET m PROVE h[s] = k[s]
    <3>1. h[s] = IF s = {} THEN 0 ELSE f[First(s)] + v(rest(s))
      OBVIOUS
    <3>2. k[s] = IF s = {} THEN 0 ELSE f[First(s)] + h[rest(s)]
      OBVIOUS
    <3> HIDE DEF h, k, v, rest
    <3> QED
      BY <1>6, <3>1, <3>2
  <2> QED
    BY <2>1
<1>8. Sums(f, m, h)
  BY <1>7 DEF Sums
<1> QED
  BY <1>2, <1>8

\* A sum is nothing, or one summand and the sum of the rest.
LEMMA TotalUnfolds ==
  ASSUME NEW f, NEW S, IsFiniteSet(S)
  PROVE  /\ Total(f, {}) = 0
         /\ S # {} => Total(f, S) = f[First(S)] + Total(f, S \ {First(S)})
<1> DEFINE g(T) == CHOOSE h : Sums(f, T, h)
           r == S \ {First(S)}
<1>1. IsFiniteSet({}) /\ IsFiniteSet(r)
  BY FS_EmptySet, FS_Subset
<1>2. Sums(f, S, g(S)) /\ Sums(f, {}, g({})) /\ Sums(f, r, g(r))
  BY <1>1, SumsExist
<1>3. /\ Total(f, S) = g(S)[S] /\ Total(f, {}) = g({})[{}]
      /\ Total(f, r) = g(r)[r]
  BY TotalDef
<1>4. g({})[{}] = 0
  BY <1>2 DEF Sums
<1>5. S # {} => g(S)[S] = f[First(S)] + g(S)[r]
  BY <1>2 DEF Sums
<1>6. g(S)[r] = g(r)[r]
  <2>1. r \in SUBSET S /\ r \in SUBSET r
    OBVIOUS
  <2> HIDE DEF g, r
  <2> QED
    BY <1>1, <1>2, <2>1, SumsAgree
<1> QED
  BY <1>3, <1>4, <1>5, <1>6

\* A sum of integers is an integer.
LEMMA TotalInt ==
  ASSUME NEW f, NEW S, IsFiniteSet(S), \A x \in S : f[x] \in Int
  PROVE  Total(f, S) \in Int
<1> DEFINE Bad == {T \in SUBSET S : Total(f, T) \notin Int}
<1>1. SUFFICES ASSUME Bad # {} PROVE FALSE
  OBVIOUS
<1>2. PICK m \in Bad : \A y \in Bad : ~(y \subseteq m /\ y # m)
  <2>1. Bad \in SUBSET (SUBSET S)
    OBVIOUS
  <2> HIDE DEF Bad
  <2> QED
    BY <1>1, <2>1, MinimalSubset
<1> DEFINE r == m \ {First(m)}
<1>3. IsFiniteSet(m) /\ Total(f, m) \notin Int
  BY FS_Subset
<1>4. m # {} /\ Total(f, m) = f[First(m)] + Total(f, r)
  <2>1. Total(f, {}) = 0
    BY <1>3, TotalUnfolds
  <2>2. m # {}
    BY <1>3, <2>1
  <2> QED
    BY <1>3, <2>2, TotalUnfolds
<1>5. First(m) \in S /\ r \in SUBSET S /\ r \subseteq m /\ r # m
  BY <1>4, FirstIn
<1>6. Total(f, r) \in Int
  BY <1>2, <1>5
<1> QED
  BY <1>3, <1>4, <1>5, <1>6

\* Any summand can be taken out, not only the first.
LEMMA TotalSplits ==
  ASSUME NEW f, NEW S, IsFiniteSet(S), \A y \in S : f[y] \in Int, NEW x \in S
  PROVE  Total(f, S) = f[x] + Total(f, S \ {x})
<1> DEFINE Splits(T) == \A z \in T : Total(f, T) = f[z] + Total(f, T \ {z})
           Bad == {T \in SUBSET S : ~Splits(T)}
<1>1. SUFFICES ASSUME Bad # {} PROVE FALSE
  OBVIOUS
<1>2. PICK m \in Bad : \A y \in Bad : ~(y \subseteq m /\ y # m)
  <2>1. Bad \in SUBSET (SUBSET S)
    OBVIOUS
  <2> HIDE DEF Bad
  <2> QED
    BY <1>1, <2>1, MinimalSubset
<1>3. PICK z \in m : Total(f, m) # f[z] + Total(f, m \ {z})
  OBVIOUS
<1>4. PICK c : c \in m /\ Total(f, m) = f[c] + Total(f, m \ {c})
  <2>1. IsFiniteSet(m)
    BY FS_Subset
  <2> QED
    BY <1>3, <2>1, TotalUnfolds, FirstIn
<1>5. c # z
  BY <1>3, <1>4
<1>6. ASSUME NEW T \in SUBSET m, T # m, NEW y \in T
      PROVE  Total(f, T) = f[y] + Total(f, T \ {y})
  BY <1>2, <1>6
<1>7. Total(f, m \ {c}) = f[z] + Total(f, (m \ {c}) \ {z})
  BY <1>4, <1>5, <1>6
<1>8. Total(f, m \ {z}) = f[c] + Total(f, (m \ {z}) \ {c})
  BY <1>4, <1>5, <1>6
<1> DEFINE rest == (m \ {c}) \ {z}
<1>9. rest = (m \ {z}) \ {c} /\ rest \in SUBSET S
  OBVIOUS
<1>10. Total(f, rest) \in Int /\ f[c] \in Int /\ f[z] \in Int
  <2>1. IsFiniteSet(rest)
    BY <1>9, FS_Subset
  <2> HIDE DEF rest
  <2> QED
    BY <1>4, <1>9, <2>1, TotalInt
<1>11. /\ Total(f, m \ {c}) = f[z] + Total(f, rest)
       /\ Total(f, m \ {z}) = f[c] + Total(f, rest)
  BY <1>7, <1>8, <1>9
<1> HIDE DEF rest
<1> QED
  BY <1>3, <1>4, <1>10, <1>11

\* A sum only reads its summands.
LEMMA TotalCongruent ==
  ASSUME NEW f, NEW g, NEW S, IsFiniteSet(S), \A x \in S : f[x] = g[x]
  PROVE  Total(f, S) = Total(g, S)
<1> DEFINE Bad == {T \in SUBSET S : Total(f, T) # Total(g, T)}
<1>1. SUFFICES ASSUME Bad # {} PROVE FALSE
  OBVIOUS
<1>2. PICK m \in Bad : \A y \in Bad : ~(y \subseteq m /\ y # m)
  <2>1. Bad \in SUBSET (SUBSET S)
    OBVIOUS
  <2> HIDE DEF Bad
  <2> QED
    BY <1>1, <2>1, MinimalSubset
<1> DEFINE r == m \ {First(m)}
<1>3. IsFiniteSet(m)
  BY FS_Subset
<1>4. /\ m # {}
      /\ Total(f, m) = f[First(m)] + Total(f, r)
      /\ Total(g, m) = g[First(m)] + Total(g, r)
  BY <1>3, TotalUnfolds
<1>5. First(m) \in S /\ r \in SUBSET S /\ r \subseteq m /\ r # m
  BY <1>4, FirstIn
<1>6. Total(f, r) = Total(g, r)
  BY <1>2, <1>5
<1> QED
  BY <1>4, <1>5, <1>6

\* A sum of naturals is a natural, and at least every summand.
LEMMA TotalNat ==
  ASSUME NEW f, NEW S, IsFiniteSet(S), \A x \in S : f[x] \in Nat
  PROVE  Total(f, S) \in Nat /\ \A x \in S : f[x] <= Total(f, S)
<1> DEFINE Bad == {T \in SUBSET S : Total(f, T) \notin Nat}
<1>1. ASSUME Bad # {} PROVE FALSE
  <2>1. PICK m \in Bad : \A y \in Bad : ~(y \subseteq m /\ y # m)
    <3>1. Bad \in SUBSET (SUBSET S)
      OBVIOUS
    <3> HIDE DEF Bad
    <3> QED
      BY <1>1, <3>1, MinimalSubset
  <2> DEFINE r == m \ {First(m)}
  <2>2. IsFiniteSet(m) /\ Total(f, m) \notin Nat
    BY FS_Subset
  <2>3. m # {} /\ Total(f, m) = f[First(m)] + Total(f, r)
    <3>1. Total(f, {}) = 0
      BY TotalUnfolds
    <3>2. m # {}
      BY <2>2, <3>1
    <3> QED
      BY <2>2, <3>2, TotalUnfolds
  <2>4. First(m) \in S /\ r \in SUBSET S /\ r \subseteq m /\ r # m
    BY <2>3, FirstIn
  <2>5. Total(f, r) \in Nat
    BY <2>1, <2>4
  <2> QED
    BY <2>2, <2>3, <2>4, <2>5
<1>2. \A T \in SUBSET S : Total(f, T) \in Nat
  BY <1>1
<1>3. ASSUME NEW x \in S PROVE f[x] <= Total(f, S)
  <2>1. Total(f, S) = f[x] + Total(f, S \ {x})
    BY TotalSplits
  <2> QED
    BY <1>2, <2>1
<1> QED
  BY <1>2, <1>3

\* One summand more.
LEMMA TotalGrows ==
  ASSUME NEW f, NEW S, IsFiniteSet(S), \A y \in S : f[y] \in Int,
         NEW x, x \notin S, f[x] \in Int
  PROVE  Total(f, S \cup {x}) = Total(f, S) + f[x]
<1> DEFINE T == S \cup {x}
<1>1. IsFiniteSet(T) /\ x \in T /\ \A y \in T : f[y] \in Int
  BY FS_AddElement
<1>2. T \ {x} = S
  OBVIOUS
<1> HIDE DEF T
<1>3. Total(f, T) = f[x] + Total(f, T \ {x})
  BY <1>1, TotalSplits
<1>4. Total(f, T) = f[x] + Total(f, S)
  BY <1>2, <1>3
<1>5. Total(f, S) \in Int
  BY TotalInt
<1> QED
  BY <1>4, <1>5 DEF T

\* One summand changed.
LEMMA TotalChanges ==
  ASSUME NEW f, NEW g, NEW S, IsFiniteSet(S), NEW x \in S,
         \A y \in S : f[y] \in Int /\ g[y] \in Int,
         \A y \in S \ {x} : g[y] = f[y]
  PROVE  Total(g, S) = Total(f, S) - f[x] + g[x]
<1>1. IsFiniteSet(S \ {x})
  BY FS_Subset
<1>2. /\ Total(f, S) = f[x] + Total(f, S \ {x})
      /\ Total(g, S) = g[x] + Total(g, S \ {x})
  BY TotalSplits
<1>3. Total(f, S \ {x}) = Total(g, S \ {x})
  BY <1>1, TotalCongruent
<1>4. Total(f, S \ {x}) \in Int /\ f[x] \in Int /\ g[x] \in Int
  BY <1>1, TotalInt
<1> QED
  BY <1>2, <1>3, <1>4

\* A part of a set is worth at most what the set is.
LEMMA TotalPart ==
  ASSUME NEW f, NEW S, IsFiniteSet(S), \A x \in S : f[x] \in Nat,
         NEW T \in SUBSET S
  PROVE  Total(f, T) <= Total(f, S)
<1> DEFINE Bad == {R \in SUBSET S : ~(Total(f, S \ R) <= Total(f, S))}
<1>1. ASSUME Bad # {} PROVE FALSE
  <2>1. PICK m \in Bad : \A y \in Bad : ~(y \subseteq m /\ y # m)
    <3>1. Bad \in SUBSET (SUBSET S)
      OBVIOUS
    <3> HIDE DEF Bad
    <3> QED
      BY <1>1, <3>1, MinimalSubset
  <2>2. ASSUME NEW R \in SUBSET S PROVE Total(f, S \ R) \in Nat
    <3>1. IsFiniteSet(S \ R)
      BY FS_Subset
    <3> QED
      BY <3>1, TotalNat
  <2>3. Total(f, S) \in Nat
    BY TotalNat
  <2>4. PICK z : z \in m
    <3>1. m # {}
      <4>1. S \ {} = S
        OBVIOUS
      <4> QED
        BY <2>3, <4>1
    <3> QED
      BY <3>1
  <2> DEFINE less == m \ {z}
             more == S \ less
  <2>5. less \in SUBSET S /\ less \subseteq m /\ less # m
    BY <2>4
  <2>6. Total(f, more) <= Total(f, S)
    BY <2>1, <2>5
  <2>7. z \in more /\ more \ {z} = S \ m /\ IsFiniteSet(more)
        /\ \A x \in more : f[x] \in Int
    BY <2>4, FS_Subset
  <2> HIDE DEF more, less
  <2>8. Total(f, more) = f[z] + Total(f, S \ m)
    BY <2>7, TotalSplits
  <2>9. Total(f, S \ m) \in Nat /\ f[z] \in Nat
    BY <2>2, <2>4
  <2>10. ~(Total(f, S \ m) <= Total(f, S))
    BY <2>1
  <2> QED
    BY <2>3, <2>6, <2>8, <2>9, <2>10
<1>2. S \ (S \ T) = T /\ S \ T \in SUBSET S
  OBVIOUS
<1> QED
  BY <1>1, <1>2

\* The parts of a whole, each rounded down, come to no more than the whole: with
\* f[x] out of e each, g[x] is the part of w that is.
LEMMA RoundedParts ==
  ASSUME NEW f, NEW g, NEW S, IsFiniteSet(S), NEW e \in Nat \ {0}, NEW w \in Nat,
         \A x \in S : f[x] \in Nat /\ g[x] \in Nat /\ e * g[x] <= f[x] * w
  PROVE  e * Total(g, S) <= Total(f, S) * w
<1> DEFINE Bad == {T \in SUBSET S : ~(e * Total(g, T) <= Total(f, T) * w)}
<1>1. SUFFICES ASSUME Bad # {} PROVE FALSE
  OBVIOUS
<1>2. PICK m \in Bad : \A y \in Bad : ~(y \subseteq m /\ y # m)
  <2>1. Bad \in SUBSET (SUBSET S)
    OBVIOUS
  <2> HIDE DEF Bad
  <2> QED
    BY <1>1, <2>1, MinimalSubset
<1>3. IsFiniteSet(m) /\ ~(e * Total(g, m) <= Total(f, m) * w)
  BY FS_Subset
<1>4. m # {}
  <2>1. Total(f, {}) = 0 /\ Total(g, {}) = 0
    BY TotalUnfolds
  <2>2. e * 0 <= 0 * w
    OBVIOUS
  <2> QED
    BY <1>3, <2>1, <2>2
<1> DEFINE x == First(m)
           r == m \ {First(m)}
<1>5. /\ Total(f, m) = f[x] + Total(f, r)
      /\ Total(g, m) = g[x] + Total(g, r)
  BY <1>3, <1>4, TotalUnfolds
<1>6. x \in S /\ r \in SUBSET S /\ r \subseteq m /\ r # m
  BY <1>4, FirstIn
<1>7. e * Total(g, r) <= Total(f, r) * w
  BY <1>2, <1>6
<1>8. /\ Total(f, r) \in Nat /\ Total(g, r) \in Nat
      /\ f[x] \in Nat /\ g[x] \in Nat /\ e * g[x] <= f[x] * w
  <2>1. IsFiniteSet(r)
    BY <1>6, FS_Subset
  <2> HIDE DEF r, x
  <2> QED
    BY <1>6, <2>1, TotalNat
<1> HIDE DEF x, r
<1>9. ASSUME NEW a \in Nat, NEW b \in Nat, NEW c \in Nat, NEW d \in Nat,
             e * a <= c * w, e * b <= d * w
      PROVE  e * (a + b) <= (c + d) * w
  <2>1. e * (a + b) = e * a + e * b /\ (c + d) * w = c * w + d * w
    OBVIOUS
  <2>2. e * a \in Nat /\ e * b \in Nat /\ c * w \in Nat /\ d * w \in Nat
    BY ProductGrows
  <2> QED
    BY <1>9, <2>1, <2>2
<1>10. e * (g[x] + Total(g, r)) <= (f[x] + Total(f, r)) * w
  BY <1>7, <1>8, <1>9
<1> QED
  BY <1>3, <1>5, <1>10

\* A part of w, rounded down, and rounded down it is.
LEMMA PartRange ==
  ASSUME NEW a \in Nat, NEW w \in Nat, NEW e \in Nat \ {0}
  PROVE  (a * w) \div e \in Nat /\ e * ((a * w) \div e) <= a * w
<1> DEFINE n == a * w
<1>1. n \in Nat
  OBVIOUS
<1> HIDE DEF n
<1>2. /\ n \div e \in Nat /\ n % e \in Nat
      /\ n = e * (n \div e) + (n % e)
  BY <1>1, DivParts
<1>3. e * (n \div e) \in Nat
  BY <1>2, ProductGrows
<1>4. n \div e \in Nat /\ e * (n \div e) <= n
  BY <1>1, <1>2, <1>3
<1> QED
  BY <1>4 DEF n

\* Whoever's parts come to no more than e are together paid no more than w.
LEMMA PartsFit ==
  ASSUME NEW f, NEW g, NEW S, IsFiniteSet(S), NEW e \in Nat \ {0}, NEW w \in Nat,
         \A x \in S : f[x] \in Nat /\ g[x] = (f[x] * w) \div e,
         Total(f, S) <= e
  PROVE  /\ \A x \in S : g[x] \in Nat
         /\ Total(g, S) \in Nat
         /\ Total(g, S) <= w
<1>1. \A a \in Nat : (a * w) \div e \in Nat /\ e * ((a * w) \div e) <= a * w
  BY PartRange
<1>2. \A x \in S : f[x] \in Nat /\ g[x] \in Nat /\ e * g[x] <= f[x] * w
  BY <1>1
<1>3. e * Total(g, S) <= Total(f, S) * w
  BY <1>2, RoundedParts
<1>4. Total(f, S) \in Nat /\ Total(g, S) \in Nat
  BY <1>2, TotalNat
<1>5. ASSUME NEW a \in Nat, NEW b \in Nat, a <= e, e * b <= a * w PROVE b <= w
  <2>1. a * w <= e * w
    <3>1. w * a <= w * e /\ w * a = a * w /\ w * e = e * w
      BY <1>5, ProductGrows
    <3> QED
      BY <3>1
  <2>2. ~(w + 1 <= b)
    <3> SUFFICES ASSUME w + 1 <= b PROVE FALSE
      OBVIOUS
    <3>1. e * (w + 1) <= e * b /\ e * (w + 1) = e * w + e
      BY ProductGrows
    <3>2. e * w \in Nat /\ e * b \in Nat /\ a * w \in Nat
      BY ProductGrows
    <3> QED
      BY <1>5, <2>1, <3>1, <3>2
  <2> QED
    BY <2>2
<1> QED
  BY <1>2, <1>3, <1>4, <1>5

\* The house's cut of a part of a stake is within its share of the stake.
LEMMA CutWithinShare ==
  ASSUME NEW stake \in Nat, NEW accepted \in 0..stake
  PROVE  ProtocolCut(accepted) * BPS <= stake * PROTOCOL_BPS
<1> DEFINE n == accepted * PROTOCOL_BPS
<1>1. BPS \in Nat \ {0} /\ PROTOCOL_BPS \in Nat
  BY MathAssumption
<1>2. n \in Nat /\ n <= stake * PROTOCOL_BPS
  BY <1>1, ProductGrows
<1>3. ProtocolCut(accepted) = n \div BPS
  BY DEF ProtocolCut
<1> HIDE DEF n
<1>4. /\ n \div BPS \in Nat /\ n % BPS \in Nat
      /\ n = BPS * (n \div BPS) + (n % BPS)
  BY <1>1, <1>2, DivMod
<1>5. BPS * (n \div BPS) = (n \div BPS) * BPS /\ BPS * (n \div BPS) \in Nat
  BY <1>1, <1>4, ProductGrows
<1>6. stake * PROTOCOL_BPS \in Nat
  BY <1>1, ProductGrows
<1> QED
  BY <1>2, <1>3, <1>4, <1>5, <1>6

\* What the pot gets of two amounts is at least what it gets of their sum: the
\* house's cut rounds down each time.
LEMMA CutSplits ==
  ASSUME NEW a \in Nat, NEW b \in Nat
  PROVE  PrizeCut(a + b) <= PrizeCut(a) + PrizeCut(b)
<1> DEFINE p == PROTOCOL_BPS
           x == a * p
           y == b * p
<1>1. BPS \in Nat /\ BPS > 0 /\ p \in Nat
  BY MathAssumption
<1>2. x \in Nat /\ y \in Nat /\ (a + b) * p = x + y
  BY <1>1, ProductGrows
<1>3. /\ ProtocolCut(a) = x \div BPS /\ ProtocolCut(b) = y \div BPS
      /\ ProtocolCut(a + b) = (x + y) \div BPS
  BY <1>2 DEF ProtocolCut
<1> HIDE DEF p, x, y
<1>4. ASSUME NEW m \in Nat, NEW n \in Nat
      PROVE  m \div BPS + n \div BPS <= (m + n) \div BPS
  <2> DEFINE q == m \div BPS
             r == n \div BPS
             t == (m + n) \div BPS
             u == (m + n) % BPS
  <2>1. /\ q \in Nat /\ m % BPS \in Nat /\ m = BPS * q + (m % BPS)
        /\ r \in Nat /\ n % BPS \in Nat /\ n = BPS * r + (n % BPS)
    BY <1>1, DivParts
  <2>2. t \in Nat /\ u \in Nat /\ u < BPS /\ m + n = BPS * t + u
    <3>1. m + n \in Nat
      OBVIOUS
    <3> QED
      BY <1>1, <3>1, DivParts
  <2>3. BPS * q \in Nat /\ BPS * r \in Nat /\ BPS * t \in Nat
        /\ BPS * (q + r) = BPS * q + BPS * r
    BY <1>1, <2>1, <2>2, ProductGrows
  <2> HIDE DEF q, r, t, u
  <2>4. BPS * (q + r) <= m + n
    BY <2>1, <2>3
  <2>5. ~(t + 1 <= q + r)
    <3> SUFFICES ASSUME t + 1 <= q + r PROVE FALSE
      OBVIOUS
    <3>1. BPS * (t + 1) <= BPS * (q + r) /\ BPS * (t + 1) = BPS * t + BPS
      BY <1>1, <2>1, <2>2, ProductGrows
    <3> QED
      BY <1>1, <2>2, <2>3, <2>4, <3>1
  <2>6. q + r <= t
    BY <2>1, <2>2, <2>5
  <2> QED
    BY <2>6 DEF q, r, t
<1>5. ProtocolCut(a) + ProtocolCut(b) <= ProtocolCut(a + b)
  BY <1>2, <1>3, <1>4
<1>6. /\ ProtocolCut(a) \in Nat /\ ProtocolCut(b) \in Nat
      /\ ProtocolCut(a + b) \in Nat
  <2>1. a + b \in Nat
    OBVIOUS
  <2> QED
    BY <2>1, CutRange
<1> QED
  BY <1>5, <1>6 DEF PrizeCut

\* A whole step's part of a pot that holds the prize side of what was fed is not
\* nothing, if the pot's share of one step times a step is worth a step.
LEMMA ShareWorth ==
  ASSUME BPS <= PUSH_STEP * (BPS - PROTOCOL_BPS),
         NEW a \in Nat \ {0}, OnStep(a), NEW e \in Nat \ {0}, NEW w \in Nat,
         PrizeCut(e) <= w
  PROVE  (a * w) \div e >= 1
<1> DEFINE net == BPS - PROTOCOL_BPS
           c == ProtocolCut(e)
           z == PrizeCut(e)
<1>1. /\ BPS \in Nat /\ BPS > 0 /\ PROTOCOL_BPS \in Nat /\ net \in Nat
      /\ PUSH_STEP \in Nat
  BY MathAssumption
<1>2. PUSH_STEP <= a
  <2>1. PICK k \in Nat : a = PUSH_STEP * k
    BY OnStepMultiple
  <2>2. k # 0
    BY <1>1, <2>1
  <2>3. PUSH_STEP * 1 <= PUSH_STEP * k
    BY <1>1, <2>2, ProductGrows
  <2> QED
    BY <1>1, <2>1, <2>3
<1>3. z \in Nat /\ c \in Nat /\ z = e - c
  BY CutRange DEF PrizeCut
<1>4. BPS * c <= e * PROTOCOL_BPS
  <2>1. c \in 0..e /\ e \in Nat
    BY CutRange
  <2>2. e \in 0..e
    OBVIOUS
  <2>3. c * BPS <= e * PROTOCOL_BPS
    BY <2>2, CutWithinShare
  <2> QED
    BY <1>1, <1>3, <2>3
<1> HIDE DEF net, c, z
<1>5. e * net <= BPS * z
  <2>1. BPS * z = BPS * e - BPS * c /\ e * net = BPS * e - e * PROTOCOL_BPS
    BY <1>1, <1>3 DEF net
  <2>2. BPS * c \in Nat /\ e * PROTOCOL_BPS \in Nat /\ BPS * e \in Nat
    BY <1>1, <1>3, ProductGrows
  <2> QED
    BY <1>4, <2>1, <2>2
<1>6. /\ e * BPS <= e * (a * net)
      /\ a * (e * net) <= a * (BPS * z)
  <2>1. /\ PUSH_STEP * net <= a * net /\ a * net \in Nat
        /\ e * net \in Nat /\ BPS * z \in Nat
    <3>1. net * PUSH_STEP <= net * a /\ net * a \in Nat
      BY <1>1, <1>2, ProductGrows
    <3> QED
      BY <1>1, <1>3, <3>1, ProductGrows
  <2>2. BPS <= a * net
    <3>1. PUSH_STEP * net \in Nat
      BY <1>1, ProductGrows
    <3> QED
      BY <1>1, <2>1, <3>1 DEF net
  <2> QED
    BY <1>1, <1>5, <2>1, <2>2, ProductGrows
<1>7. BPS * e <= BPS * (a * z)
  <2>1. /\ e * BPS = BPS * e /\ e * (a * net) = a * (e * net)
        /\ a * (BPS * z) = BPS * (a * z)
    BY <1>1, <1>3
  <2>2. /\ a * z \in Nat /\ a * net \in Nat /\ e * net \in Nat
        /\ BPS * z \in Nat
    BY <1>1, <1>3, ProductGrows
  <2>3. /\ BPS * e \in Nat /\ e * (a * net) \in Nat /\ BPS * (a * z) \in Nat
    BY <1>1, <2>2, ProductGrows
  <2> QED
    BY <1>6, <2>1, <2>3
<1>8. e <= a * z
  <2>1. a * z \in Nat
    BY <1>3, ProductGrows
  <2>2. ~(a * z + 1 <= e)
    <3> SUFFICES ASSUME a * z + 1 <= e PROVE FALSE
      OBVIOUS
    <3> DEFINE y == a * z
    <3>1. y \in Nat /\ y + 1 <= e /\ BPS * e <= BPS * y
      BY <1>7, <2>1
    <3> HIDE DEF y
    <3>2. BPS * (y + 1) <= BPS * e /\ BPS * (y + 1) = BPS * y + BPS
      BY <1>1, <3>1, ProductGrows
    <3>3. BPS * y \in Nat /\ BPS * e \in Nat
      BY <1>1, <3>1, ProductGrows
    <3> QED
      BY <1>1, <3>1, <3>2, <3>3
  <2> QED
    BY <2>1, <2>2
<1>9. e <= a * w /\ a * w \in Nat
  <2>1. a * z <= a * w /\ a * z \in Nat /\ a * w \in Nat
    BY <1>3, ProductGrows DEF z
  <2> QED
    BY <1>8, <2>1
<1> DEFINE n == a * w
<1>10. n \in Nat /\ e <= n
  BY <1>9
<1> HIDE DEF n
<1>11. /\ n \div e \in Nat /\ n % e \in Nat /\ n % e < e
       /\ n = e * (n \div e) + (n % e)
  BY <1>10, DivParts
<1>12. n \div e # 0
  <2> SUFFICES ASSUME n \div e = 0 PROVE FALSE
    OBVIOUS
  <2>1. e * 0 = 0
    OBVIOUS
  <2> QED
    BY <1>10, <1>11, <2>1
<1> QED
  BY <1>11, <1>12 DEF n

\* Nothing adds up to nothing.
LEMMA TotalZero ==
  ASSUME NEW f, NEW S, IsFiniteSet(S), \A x \in S : f[x] = 0
  PROVE  Total(f, S) = 0
<1>1. \A x \in S : f[x] \in Nat /\ 1 * f[x] <= f[x] * 0
  OBVIOUS
<1>2. 1 * Total(f, S) <= Total(f, S) * 0
  BY <1>1, RoundedParts
<1>3. Total(f, S) \in Nat
  BY <1>1, TotalNat
<1> QED
  BY <1>2, <1>3

-----------------------------------------------------------------------------
(* Odds, sweeteners and stages                                             *)

\* A quotient grows with what is divided.
LEMMA QuotientGrows ==
  ASSUME NEW x \in Nat, NEW y \in Nat, NEW d \in Nat \ {0}, x <= y
  PROVE  /\ x \div d \in Nat /\ y \div d \in Nat
         /\ x \div d <= y \div d
<1> DEFINE p == x \div d
           q == y \div d
<1>1. /\ p \in Nat /\ x % d \in Nat /\ x = d * p + (x % d)
      /\ q \in Nat /\ y % d < d /\ y % d \in Nat /\ y = d * q + (y % d)
  BY DivParts
<1>2. SUFFICES ASSUME p >= q + 1 PROVE FALSE
  <2> HIDE DEF p, q
  <2> QED
    BY <1>1 DEF p, q
<1> HIDE DEF p, q
<1>3. d * (q + 1) <= d * p
  BY <1>1, <1>2, ProductGrows
<1>4. d * (q + 1) = d * q + d /\ d * q \in Nat /\ d * p \in Nat
  BY <1>1
<1> QED
  BY <1>1, <1>3, <1>4

\* Two quotients, each rounded down, come to no more than the quotient of the sum.
LEMMA QuotientsFit ==
  ASSUME NEW x \in Nat, NEW y \in Nat, NEW d \in Nat \ {0}
  PROVE  x \div d + y \div d <= (x + y) \div d
<1> DEFINE p == x \div d
           q == y \div d
           r == (x + y) \div d
<1>1. /\ p \in Nat /\ x % d \in Nat /\ x = d * p + (x % d)
      /\ q \in Nat /\ y % d \in Nat /\ y = d * q + (y % d)
  BY DivParts
<1>2. /\ r \in Nat /\ (x + y) % d < d /\ (x + y) % d \in Nat
      /\ x + y = d * r + ((x + y) % d)
  BY DivParts
<1>3. SUFFICES ASSUME p + q >= r + 1 PROVE FALSE
  <2> HIDE DEF p, q, r
  <2> QED
    BY <1>1, <1>2 DEF p, q, r
<1> HIDE DEF p, q, r
<1>4. d * (r + 1) <= d * (p + q)
  BY <1>1, <1>2, <1>3, ProductGrows
<1>5. /\ d * (r + 1) = d * r + d /\ d * (p + q) = d * p + d * q
      /\ d * r \in Nat /\ d * p \in Nat /\ d * q \in Nat
  BY <1>1, <1>2
<1> QED
  BY <1>1, <1>2, <1>4, <1>5

\* A quotient is no smaller than another whose fraction it exceeds.
LEMMA FractionGrows ==
  ASSUME NEW x \in Nat, NEW d \in Nat \ {0}, NEW y \in Nat, NEW e \in Nat \ {0},
         x * e <= y * d
  PROVE  /\ x \div d \in Nat /\ y \div e \in Nat
         /\ x \div d <= y \div e
<1> DEFINE p == x \div d
           q == y \div e
<1>1. /\ p \in Nat /\ x % d \in Nat /\ x = d * p + (x % d)
      /\ q \in Nat /\ y % e < e /\ y % e \in Nat /\ y = e * q + (y % e)
  BY DivParts
<1>2. SUFFICES ASSUME p >= q + 1 PROVE FALSE
  <2> HIDE DEF p, q
  <2> QED
    BY <1>1 DEF p, q
<1> HIDE DEF p, q
<1>3. d * p <= x /\ y + 1 <= e * (q + 1)
  <2>1. d * p \in Nat /\ e * q \in Nat /\ e * (q + 1) = e * q + e
    BY <1>1
  <2> QED
    BY <1>1, <2>1
<1>4. e * (d * p) <= e * x
  <2>1. d * p \in Nat
    BY <1>1
  <2> QED
    BY <1>3, <2>1, ProductGrows
<1>5. d * (y + 1) <= d * (e * (q + 1))
  <2>1. e * (q + 1) \in Nat
    BY <1>1
  <2> QED
    BY <1>3, <2>1, ProductGrows
<1>6. (d * e) * (q + 1) <= (d * e) * p
  <2>1. d * e \in Nat
    OBVIOUS
  <2> QED
    BY <1>1, <1>2, <2>1, ProductGrows
<1>7. /\ (d * e) * (q + 1) = d * (e * (q + 1)) /\ (d * e) * p = e * (d * p)
      /\ d * (y + 1) = y * d + d /\ e * x = x * e
      /\ y * d \in Nat /\ x * e \in Nat
  BY <1>1
<1>8. e * (d * p) \in Nat /\ d * (e * (q + 1)) \in Nat
  BY <1>1
<1> DEFINE low == e * (d * p)
           high == d * (e * (q + 1))
           xe == x * e
           yd == y * d
<1>9. /\ low <= xe /\ yd + d <= high /\ high <= low
      /\ low \in Nat /\ high \in Nat /\ xe \in Nat /\ yd \in Nat
      /\ xe <= yd
  <2>1. low <= xe /\ yd + d <= high /\ high <= low
    BY Zenon, <1>4, <1>5, <1>6, <1>7
  <2> QED
    BY Zenon, <1>7, <1>8, <2>1
<1> HIDE DEF low, high, xe, yd
<1> QED
  BY <1>9

\* A stake that is more of the mass it makes has no smaller a chance.
LEMMA ChanceGrows ==
  ASSUME NEW a \in Nat \ {0}, NEW m \in Nat \ {0}, NEW b \in Nat \ {0},
         NEW n \in Nat \ {0}, NEW ppb \in Nat, a * n <= b * m
  PROVE  /\ NovaChance(a, m, ppb) \in Nat /\ NovaChance(b, n, ppb) \in Nat
         /\ NovaChance(a, m, ppb) <= NovaChance(b, n, ppb)
<1> DEFINE x == a * ppb
           y == b * ppb
<1>1. x \in Nat /\ y \in Nat
  OBVIOUS
<1>2. x * n <= y * m
  <2>1. x * n = ppb * (a * n) /\ y * m = ppb * (b * m)
    OBVIOUS
  <2>2. ppb * (a * n) <= ppb * (b * m)
    <3>1. a * n \in Nat /\ b * m \in Nat
      OBVIOUS
    <3> QED
      BY <3>1, ProductGrows
  <2> HIDE DEF x, y
  <2> QED
    BY <2>1, <2>2
<1>3. /\ NovaChance(a, m, ppb) = Least(x \div m, ppb)
      /\ NovaChance(b, n, ppb) = Least(y \div n, ppb)
  BY DEF NovaChance
<1> HIDE DEF x, y
<1>4. /\ x \div m \in Nat /\ y \div n \in Nat /\ x \div m <= y \div n
  BY <1>1, <1>2, FractionGrows
<1>5. /\ Least(x \div m, ppb) \in Nat /\ Least(y \div n, ppb) \in Nat
      /\ Least(x \div m, ppb) <= Least(y \div n, ppb)
  BY <1>4 DEF Least
<1> QED
  BY <1>3, <1>5

\* The sweetener as a case for each segment of its curve.
LEMMA SweetenerIs ==
  ASSUME NEW x \in Nat
  PROVE  ChanceStardust(x) =
           IF x <= 10 THEN 10000
           ELSE IF x <= 20 THEN 10000 + (300 * (x - 10)) \div 10
           ELSE IF x <= 50 THEN 10300 + (700 * (x - 20)) \div 30
           ELSE IF x <= 100 THEN 11000 + (1000 * (x - 50)) \div 50
           ELSE 12000
<1> DEFINE in(i) == /\ SweetenerCurve[i][1] < x /\ x <= SweetenerCurve[i][2]
           on(i) == LET c == SweetenerCurve[i]
                    IN c[3] + ((c[4] - c[3]) * (x - c[1])) \div (c[2] - c[1])
           at == CHOOSE i \in 1..3 : in(i)
<1>1. ChanceStardust(x) =
        IF x <= 10 THEN 10000 ELSE IF x > 100 THEN 12000 ELSE on(at)
  BY DEF ChanceStardust
<1>2. /\ in(1) <=> 10 < x /\ x <= 20
      /\ in(2) <=> 20 < x /\ x <= 50
      /\ in(3) <=> 50 < x /\ x <= 100
  BY DEF SweetenerCurve
<1>3. /\ on(1) = 10000 + (300 * (x - 10)) \div 10
      /\ on(2) = 10300 + (700 * (x - 20)) \div 30
      /\ on(3) = 11000 + (1000 * (x - 50)) \div 50
  BY DEF SweetenerCurve
<1>4. ASSUME NEW i \in 1..3, in(i) PROVE at = i
  <2>1. \A j \in 1..3 : in(j) => j = i
    <3> HIDE DEF in
    <3> QED
      BY <1>2, <1>4
  <2> HIDE DEF in
  <2> QED
    BY <1>4, <2>1
<1> HIDE DEF in, on, at
<1>5. /\ in(1) => at = 1
      /\ in(2) => at = 2
      /\ in(3) => at = 3
  BY <1>4
<1> QED
  BY <1>1, <1>2, <1>3, <1>5

\* A better chance earns no less (game_config.rs tests the curve for it:
\* chance_sweetener_matches_the_old_anchors).
LEMMA SweetenerGrows ==
  ASSUME NEW x \in Nat, NEW y \in Nat, x <= y
  PROVE  /\ ChanceStardust(x) \in Nat /\ ChanceStardust(y) \in Nat
         /\ ChanceStardust(x) <= ChanceStardust(y)
  BY SweetenerIs

\* The stage of a mass is the last whose boundary the mass has reached, counted from
\* nothing, and the first if it has reached none.
LEMMA StageIs ==
  ASSUME NEW mins \in Seq(Nat), NEW m \in Nat
  PROVE  \E n \in 1..Len(mins) + 1 :
           /\ n <= Len(mins) => m < mins[n]
           /\ \A j \in 1..n - 1 : m >= mins[j]
           /\ StageForMass(m, mins) = IF n = 1 THEN 0 ELSE n - 2
<1> DEFINE last == Len(mins) + 1
           stop(i) == i = last \/ m < mins[i]
           is(i) == stop(i) /\ \A j \in 1..i - 1 : m >= mins[j]
           Bad == {T \in SUBSET (1..last) : \E i \in 1..last : T = 1..i /\ stop(i)}
<1>1. last \in Nat /\ last \in 1..last /\ \A i \in 1..Len(mins) : mins[i] \in Nat
  OBVIOUS
<1>2. PICK S \in Bad : \A y \in Bad : ~(y \subseteq S /\ y # S)
  <2>1. 1..last \in Bad
    BY <1>1
  <2>2. IsFiniteSet(1..last)
    BY <1>1, FS_Interval
  <2>3. Bad \in SUBSET (SUBSET (1..last))
    OBVIOUS
  <2> DEFINE Stages == 1..last
  <2>4. Bad \in SUBSET (SUBSET Stages) /\ IsFiniteSet(Stages) /\ Bad # {}
    BY <2>1, <2>2, <2>3
  <2> HIDE DEF Bad, Stages
  <2> QED
    BY <2>4, MinimalSubset
<1>3. PICK i \in 1..last : S = 1..i /\ stop(i)
  OBVIOUS
<1>4. is(i)
  <2>1. SUFFICES ASSUME NEW j \in 1..i - 1, m < mins[j] PROVE FALSE
    BY <1>1, <1>3
  <2>2. j \in 1..last /\ 1..j \in SUBSET (1..last) /\ 1..j \subseteq 1..i
    BY <1>1, <1>3
  <2>3. 1..j # 1..i
    BY <1>3, <2>1
  <2>4. 1..j \in Bad
    BY <2>1, <2>2
  <2> HIDE DEF Bad
  <2> QED
    BY <1>2, <1>3, <2>2, <2>3, <2>4
<1> DEFINE n == CHOOSE k \in 1..last : is(k)
<1>5. n \in 1..last /\ is(n)
  <2> HIDE DEF is
  <2> QED
    BY <1>3, <1>4
<1>6. StageForMass(m, mins) = IF n = 1 THEN 0 ELSE n - 2
  BY Zenon DEF StageForMass
<1> HIDE DEF n
<1> QED
  BY <1>1, <1>5, <1>6

\* A heavier star is in no earlier stage.
LEMMA StageGrows ==
  ASSUME NEW mins \in Seq(Nat), Len(mins) > 0, NEW m \in Nat, NEW w \in Nat,
         m <= w
  PROVE  /\ StageForMass(m, mins) \in 0..Len(mins) - 1
         /\ StageForMass(w, mins) \in 0..Len(mins) - 1
         /\ StageForMass(m, mins) <= StageForMass(w, mins)
<1>1. PICK i \in 1..Len(mins) + 1 :
        /\ i <= Len(mins) => m < mins[i]
        /\ \A j \in 1..i - 1 : m >= mins[j]
        /\ StageForMass(m, mins) = IF i = 1 THEN 0 ELSE i - 2
  BY StageIs
<1>2. PICK k \in 1..Len(mins) + 1 :
        /\ k <= Len(mins) => w < mins[k]
        /\ \A j \in 1..k - 1 : w >= mins[j]
        /\ StageForMass(w, mins) = IF k = 1 THEN 0 ELSE k - 2
  BY StageIs
<1>3. i <= k
  <2>1. SUFFICES ASSUME k \in 1..i - 1, k \in 1..Len(mins) PROVE FALSE
    OBVIOUS
  <2>2. m >= mins[k] /\ w < mins[k] /\ mins[k] \in Nat
    BY <1>1, <1>2, <2>1
  <2> QED
    BY <2>2
<1> QED
  BY <1>1, <1>2, <1>3
=============================================================================

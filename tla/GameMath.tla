------------------------------ MODULE GameMath ------------------------------
(***************************************************************************)
(* The locked economics of a star (game_config.rs, constants.rs,           *)
(* math.rs): which amounts are legal, how much of one a star still has     *)
(* room for, how an amount is split between the pot and the house, and the *)
(* odds and sweeteners keyed on a push's share of the mass it creates.     *)
(*                                                                         *)
(* Every operator is a closed form over the naturals.  The program uses    *)
(* u64 and u128 intermediates; the largest product it forms is             *)
(* HOLE_MASS * PPB, below 2^65, so a width is only modelled where an       *)
(* operator saturates.                                                     *)
(***************************************************************************)
EXTENDS Integers, Sequences, Functions

CONSTANTS
  FEED_MASS,     \* nursery cap: below it a push is a feed
  HOLE_MASS,     \* hole cap: surviving to it collapses the star
  PUSH_STEP,     \* the lattice every amount lies on
  BPS,           \* denominator of the revenue split
  PROTOCOL_BPS   \* the house's share of a landed amount, over BPS

\* constants.rs states the two caps as whole numbers of steps; game_config.rs
\* takes the house's share as a fraction.
ASSUME MathAssumption ==
  /\ PUSH_STEP \in Nat \ {0}
  /\ FEED_MASS \in Nat /\ HOLE_MASS \in Nat
  /\ FEED_MASS % PUSH_STEP = 0
  /\ HOLE_MASS % PUSH_STEP = 0
  /\ PUSH_STEP <= FEED_MASS /\ FEED_MASS < HOLE_MASS
  /\ BPS \in Nat \ {0}
  /\ PROTOCOL_BPS \in 0..BPS

-----------------------------------------------------------------------------
(* Amounts and room                                                        *)

\* u64::saturating_sub
SatSub(a, b) == IF b <= a THEN a - b ELSE 0

\* The smaller of two amounts (u64::min).
Least(a, b) == IF a <= b THEN a ELSE b

\* The sum of f[x] over the x in S.
Total(f, S) == SumFunctionOnSet(f, S)

FloorToStep(v) == v - (v % PUSH_STEP)

OnStep(v) == v % PUSH_STEP = 0

\* Mutant: the nursery cap itself still counts as nursery.
RoomAt_AtCap(mass) ==
  FloorToStep(IF mass <= FEED_MASS THEN FEED_MASS - mass
                                   ELSE SatSub(HOLE_MASS, mass))

\* Mutant: the nursery cap is no boundary.
RoomAt_HoleOnly(mass) == FloorToStep(SatSub(HOLE_MASS, mass))

\* Whole steps left before mass reaches the next boundary.
RoomAt(mass) ==
  FloorToStep(IF mass < FEED_MASS THEN FEED_MASS - mass
                                  ELSE SatSub(HOLE_MASS, mass))

\* Mutant: an amount off the lattice is let in.
LegalPush_AnyAmount(amount) == amount > 0

\* The two rejections of accept_push_amount...
LegalPush(amount) == amount > 0 /\ OnStep(amount)

\* ... and what it lets through: oversize clips to the room, no room overshoots.
AcceptPushAmount(amount, room) ==
  IF FloorToStep(room) = 0 THEN amount ELSE Least(amount, FloorToStep(room))

AcceptedSettleAmount(amount, mass) ==
  IF RoomAt(mass) = 0 THEN amount ELSE Least(amount, RoomAt(mass))

-----------------------------------------------------------------------------
(* The split between the pot and the house                                 *)

\* Mutant: the split handed the wrong way round.
ProtocolCut_Swapped(amount) == (amount * (BPS - PROTOCOL_BPS)) \div BPS

\* Mutant: numerator and denominator swapped.
ProtocolCut_Inverted(amount) == (amount * BPS) \div (PROTOCOL_BPS + 1)

ProtocolCut(amount) == (amount * PROTOCOL_BPS) \div BPS

PrizeCut(amount) == amount - ProtocolCut(amount)

-----------------------------------------------------------------------------
(* Odds and sweeteners.  ppb is the denominator of a chance, a parameter   *)
(* here so that it can be scaled.                                          *)

\* Mutant: the chance taken of the mass before the push.
NovaChance_MassBefore(accepted, mass_after, ppb) ==
  IF accepted = 0 \/ mass_after = accepted
  THEN 0
  ELSE Least((accepted * ppb) \div (mass_after - accepted), ppb)

NovaChance(accepted, mass_after, ppb) ==
  IF accepted = 0 \/ mass_after = 0
  THEN 0
  ELSE Least((accepted * ppb) \div mass_after, ppb)

\* Mutant: the second segment starts again from the bottom of the first.
SweetenerCurve_Broken == << <<10, 20, 10000, 10300>>,
                            <<20, 50, 10000, 11000>>,
                            <<50, 100, 11000, 12000>> >>

\* chance_stardust_bps, with x the chance in thousandths: each segment of the
\* curve is <<from, up to, value at from, value at the end>>.
SweetenerCurve == << <<10, 20, 10000, 10300>>,
                     <<20, 50, 10300, 11000>>,
                     <<50, 100, 11000, 12000>> >>

ChanceStardust(x) ==
  LET in(i) == /\ SweetenerCurve[i][1] < x
               /\ x <= SweetenerCurve[i][2]
      on(i) == LET c == SweetenerCurve[i]
               IN c[3] + ((c[4] - c[3]) * (x - c[1])) \div (c[2] - c[1])
  IN IF x <= 10 THEN 10000
     ELSE IF x > 100 THEN 12000
     ELSE on(CHOOSE i \in 1..3 : in(i))

\* stage_for_mass: the last stage whose boundary the mass has reached.  The loop
\* stops at the first boundary it has not.
StageForMass(mass, mins) ==
  LET n == CHOOSE i \in 1..Len(mins) + 1 :
             /\ i = Len(mins) + 1 \/ mass < mins[i]
             /\ \A j \in 1..i - 1 : mass >= mins[j]
  IN IF n = 1 THEN 0 ELSE n - 2
=============================================================================

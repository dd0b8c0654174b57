------------------------------ MODULE StarFill ------------------------------
(***************************************************************************)
(* One star filling up, amount after amount, with nothing but GameMath:    *)
(* every amount is clipped to the room left and split between pot and      *)
(* house.  Checked here is the arithmetic over the whole life of a star at *)
(* the deployed proportions, which the small lattice of MCSoldust cannot   *)
(* show: that nothing is lost to rounding, that fills stop at the          *)
(* boundaries, that the odds are fair at every mass and the reward for a   *)
(* stake is not improved by waiting or by cutting it up.                   *)
(***************************************************************************)
EXTENDS GameMath, FiniteSets

CONSTANTS
  Signed,     \* amounts a player may sign
  Gifts,      \* endowments a star may be born with
  StageMins,  \* the lifecycle's boundaries
  StageMults, \* and what a stake of each stage is multiplied by, over 10000
  StardustAt, \* what earns one stardust before it is multiplied
  Ppb         \* denominator of a chance

\* A player signs a whole number of lamports; a star is born with whole steps that
\* fit under its cap.  The house's share leaves something to the pot and takes
\* whole lamports of a step: game_config.rs tests that its own share does
\* (split_is_exact_on_the_lattice).
ASSUME FillAssumption ==
  /\ Signed \subseteq Nat /\ Ppb \in Nat
  /\ \A g \in Gifts : g \in 0..HOLE_MASS /\ OnStep(g)
  /\ PROTOCOL_BPS < BPS /\ (PUSH_STEP * PROTOCOL_BPS) % BPS = 0

\* There is a stage, a boundary per stage and a multiplier per stage, and no stage
\* pays more than the one before it: game_config.rs' table is of seven, and tests
\* that they pay less and less (stardust_declines_across_stages).
ASSUME StageAssumption ==
  /\ StardustAt \in Nat \ {0}
  /\ StageMins \in Seq(Nat) /\ Len(StageMins) > 0
  /\ StageMults \in [1..Len(StageMins) -> Nat]
  /\ \A i, j \in 1..Len(StageMins) : i <= j => StageMults[j] <= StageMults[i]

VARIABLES gift, mass, pot

vars == <<gift, mass, pot>>

\* create_next_star: endowed mass carries no cut.
Init ==
  /\ gift \in Gifts
  /\ mass = gift
  /\ pot = gift

Grow(signed) ==
  LET amount == AcceptPushAmount(signed, RoomAt(mass))
  IN
  /\ mass < HOLE_MASS
  /\ LegalPush(signed)
  /\ mass' = mass + amount
  /\ pot' = pot + PrizeCut(amount)
  /\ UNCHANGED gift

StardustMult(m) == StageMults[StageForMass(m, StageMins) + 1]

StardustFor(amount, mult, chance) ==
  ((((amount \div StardustAt) * mult) \div 10000) * ChanceStardust(chance))
    \div 10000

\* What feed and resolve_push hand to it for a stake that meets the mass it was
\* quoted at, chances counted in thousandths.
Earns(amount, m) ==
  StardustFor(amount, StardustMult(m), NovaChance(amount, m + amount, 1000))

Next == \E a \in Signed : Grow(a)

Spec == Init /\ [][Next]_vars

-----------------------------------------------------------------------------

\* The pot is exactly the pot's share of everything that landed: splitting each
\* amount separately loses nothing to rounding, in any order of amounts.
PotIsExactShare == pot = gift + PrizeCut(mass - gift)

\* A fill always lands at least one step, never jumps over the nursery cap or
\* the hole cap, and what is left is itself a legal amount.
FillsStopAtBoundaries ==
  [][/\ mass' >= mass + PUSH_STEP
     /\ mass < FEED_MASS => mass' <= FEED_MASS
     /\ mass' <= HOLE_MASS
     /\ mass' < HOLE_MASS => LegalPush(RoomAt(mass'))]_vars

\* A last hit is fair on a star born with nothing: its chance times the pot it
\* would win is its own prize share, short by less than one unit of chance.
OddsAreFair ==
  gift = 0 /\ mass >= FEED_MASS =>
    \A a \in Signed : LegalPush(a) /\ mass + a <= HOLE_MASS =>
      LET chance == NovaChance(a, mass + a, Ppb)
          win == pot + PrizeCut(a)
      IN /\ chance * win <= PrizeCut(a) * Ppb
         /\ (chance + 1) * win > PrizeCut(a) * Ppb

\* A stake earns no more stardust on a heavier star, and no more when it is cut in
\* two: three roundings, a stage table and a curve on its chance lie in between.
StardustTapers ==
  \A a \in Signed :
    LegalPush(a) /\ a <= RoomAt(mass) =>
      /\ Earns(a, mass + PUSH_STEP) <= Earns(a, mass)
      /\ \A b \in Signed :
           LegalPush(b) /\ a + b <= RoomAt(mass) =>
             Earns(a, mass) + Earns(b, mass + a) <= Earns(a + b, mass)
=============================================================================

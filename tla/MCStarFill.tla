----------------------------- MODULE MCStarFill -----------------------------
(* StarFill at the deployed proportions: a nursery of 100 steps, a hole of  *)
(* 2100, the house's 314/10000 as 157/5000, stage boundaries at 0, 2, 6,    *)
(* 10, 14, 18 and 21 nurseries.  The unit is 2000 lamports, in which every  *)
(* cut is a whole number as it is in lamports, and a chance is counted in   *)
(* thousandths, which leaves TLC's integers room for chance times pot.      *)
EXTENDS StarFill

Steps(n) == n * PUSH_STEP

\* The second amount is off the lattice.
MCSigned ==
  {Steps(1), Steps(1) + PUSH_STEP \div 2, Steps(7), Steps(30), Steps(210)}
MCGifts == {0, Steps(1), Steps(99)}
MCStageMins ==
  [i \in 1..7 |-> FEED_MASS * <<0, 2, 6, 10, 14, 18, 21>>[i]]
MCStageMults == <<25000, 15000, 13000, 11500, 10000, 9000, 8000>>
=============================================================================

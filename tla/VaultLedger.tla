----------------------------- MODULE VaultLedger -----------------------------
(***************************************************************************)
(* What the vault promises (vault.rs, admin.rs): one balance, four claims  *)
(* on it that always add up to it, and a short list of ways money may      *)
(* move.  Stake leaves the escrow only back to its owner or into a pot,    *)
(* less the house's share; pots and the reserve only trade with each other *)
(* or pay claims; the house only ever spends its own balance.              *)
(***************************************************************************)
EXTENDS Integers

CONSTANTS
  Idle,                  \* lamports in the vault no bucket claims
  BPS, PROTOCOL_BPS      \* the house's largest share of a landed amount

VARIABLES pending, prize, accrued, reserve, vault

ledger == <<pending, prize, accrued, reserve, vault>>

\* Every lamport in the vault is covered by exactly one claim.
Covered == vault = Idle + pending + prize + accrued + reserve

Init ==
  /\ pending = 0 /\ prize = 0 /\ accrued = 0 /\ reserve = 0
  /\ vault = Idle

\* The house's cut of an amount that landed.
WithinShare(cut, amount) == cut * BPS <= amount * PROTOCOL_BPS

\* A stake is escrowed.
Escrow ==
  /\ pending' >= pending
  /\ UNCHANGED <<prize, accrued, reserve>>

\* Money lands in a pot directly, less the house's share.
Pour ==
  /\ prize' >= prize
  /\ accrued' >= accrued
  /\ WithinShare(accrued' - accrued, vault' - vault)
  /\ UNCHANGED <<pending, reserve>>

\* Someone gives money to the house.
Donate ==
  /\ accrued' >= accrued
  /\ UNCHANGED <<pending, prize, reserve>>

\* A stake leaves the escrow: back to its owner, into a pot less the house's
\* share, or some of each.
Release ==
  /\ pending' <= pending
  /\ vault' <= vault
  /\ prize' + reserve' >= prize + reserve
  /\ reserve' >= reserve
  /\ accrued' >= accrued
  /\ WithinShare(accrued' - accrued, pending - pending')

\* A pot is recycled, or a star is endowed from the reserve.
Reclassify ==
  /\ prize' + reserve' = prize + reserve
  /\ UNCHANGED <<pending, accrued, vault>>

\* A winner or a feeder collects.
PayPrize ==
  /\ prize' <= prize
  /\ UNCHANGED <<pending, accrued, reserve>>

\* A cranker is reimbursed or the treasury is paid.
HousePays ==
  /\ accrued' <= accrued
  /\ UNCHANGED <<pending, prize, reserve>>

Next ==
  /\ Covered'
  /\ pending' >= 0 /\ prize' >= 0 /\ accrued' >= 0 /\ reserve' >= 0
  /\ \/ Escrow \/ Pour \/ Donate
     \/ Release \/ Reclassify
     \/ PayPrize \/ HousePays

Spec == Init /\ [][Next]_ledger
=============================================================================

------------------------------- MODULE Soldust -------------------------------
(***************************************************************************)
(* The on-chain program (onchain/programs/soldust): one game               *)
(* configuration, one vault, and per star a queue of pushes batched into   *)
(* rounds that each share one VRF draw.                                    *)
(*                                                                         *)
(* A transaction is atomic and its instruction either happens in full or   *)
(* reverts, so every instruction is one action: the guards are its         *)
(* require!s, account constraints and checked subtractions, in the code's  *)
(* order, and the primed variables are the accounts it writes.  Every      *)
(* instruction is permissionless unless its action says otherwise, so Next *)
(* is the interleaving of all the callers.                                 *)
(*                                                                         *)
(* Time.  The program compares the cluster's slot and second with stamps   *)
(* it stored.  The model keeps the differences instead: round.age is the   *)
(* number of slots since stalled_since(), star.quiet the seconds since     *)
(* last_mass_ts, each counted no further than the last value any guard     *)
(* tells apart.  Slots and seconds advance independently.                  *)
(*                                                                         *)
(* Left out: player statistics and STARDUST, event logs, account rents,    *)
(* seeds and hashes (a roll is a free choice), and the u64 upper bound     *)
(* (all the lamports that exist fit in it).                                *)
(***************************************************************************)
EXTENDS GameMath

CONSTANTS
  Players,               \* wallets
  Seeds,                 \* client_seeds a player may name
  NoPlayer,              \* the default public key
  MaxStars,              \* bound: stars ever created
  MaxPushes,             \* bound: push ids handed out per star
  ROUND_WINDOW_SLOTS, ROUND_TARGET_MEMBERS, ROUND_EXPIRY_SLOTS,
  NURSERY_STALL_SECS, STALL_SECS,
  VRF_REQUEST_FEE,       \* what the program prices a draw at
  Outlays,               \* what the oracle may really charge
  DRAW_FLOAT_FLOOR,
  RENT,                  \* rent-exempt minimum of the vault
  PREFUND,               \* lamports in the vault before initialize
  MaxAccrued,            \* bound: what donations may bring the house to
  PushAmounts,           \* amounts a player may sign
  FundAmounts,           \* amounts someone may donate to the house
  WithdrawAmounts        \* amounts someone may try to withdraw

ASSUME SoldustAssumption ==
  /\ NoPlayer \notin Players
  /\ MaxStars \in Nat /\ MaxPushes \in Nat
  /\ ROUND_WINDOW_SLOTS \in Nat /\ ROUND_TARGET_MEMBERS \in Nat
  /\ ROUND_EXPIRY_SLOTS \in Nat
  /\ ROUND_WINDOW_SLOTS <= ROUND_EXPIRY_SLOTS
  /\ NURSERY_STALL_SECS \in Nat /\ STALL_SECS \in Nat
  /\ NURSERY_STALL_SECS <= STALL_SECS
  /\ VRF_REQUEST_FEE \in Nat /\ Outlays \subseteq Nat
  /\ DRAW_FLOAT_FLOOR \in Nat /\ RENT \in Nat /\ PREFUND \in Nat
  /\ MaxAccrued \in Nat
  /\ PushAmounts \subseteq Nat /\ FundAmounts \subseteq Nat
  /\ WithdrawAmounts \subseteq Nat

StarIds == 1..MaxStars
RoundIds == 0..MaxPushes
PushKeys == Players \X Seeds      \* a PendingPush PDA: <<player, client_seed>>

VARIABLES
  current_star_id,    \* Config: 0 until the first star exists
  pending_liability,  \* Config: stake escrowed by unresolved pushes
  prize_liability,    \* Config: prize money owed, claimed from or not
  protocol_accrued,   \* Config: house revenue and draw float
  next_star_reserve,  \* Config: recycled prize waiting for the next star
  vault,              \* lamports held by the vault account
  star,               \* Star accounts, by star id
  star_feed,          \* StarFeed accounts, by star id
  feed_share,         \* FeedShare accounts, by star id and player
  round,              \* Round accounts, by star id and round id
  pending_push        \* PendingPush accounts, by player and client_seed

buckets == <<pending_liability, prize_liability, protocol_accrued,
             next_star_reserve>>
money == <<buckets, vault>>
feeds == <<star_feed, feed_share>>
vars == <<current_star_id, money, star, feeds, round, pending_push>>

-----------------------------------------------------------------------------
(* Accounts                                                                *)

StarStatus == {"Unborn", "Alive", "Dead", "BlackHole", "Stalled"}
RoundStatus == {"Absent", "Open", "Requested", "Drawn", "Expired"}
PushStatus == {"Absent", "Pending", "Survived", "Killed", "Cancelled"}

StarRecord ==
  [status : StarStatus, total_mass : Nat, prize_pool : Nat,
   push_counter : Nat, settle_cursor : Nat, current_round : Nat,
   pending_pushes : Nat, pending_lamports : Nat,
   successful_pushes : Nat, cancelled_pushes : Nat,
   killer : Players \cup {NoPlayer}, final_prize : Nat,
   prize_claimed : BOOLEAN, next_star_created : BOOLEAN, quiet : Nat]

RoundRecord ==
  [status : RoundStatus, member_count : Nat, stake : Nat,
   first_push_id : Nat, age : Nat]

\* An account that does not exist ("Unborn", "Absent") reads as all zeroes.
NewStar(status, endowment) ==
  [status |-> status, total_mass |-> endowment, prize_pool |-> endowment,
   push_counter |-> 0, settle_cursor |-> 0, current_round |-> 0,
   pending_pushes |-> 0, pending_lamports |-> 0,
   successful_pushes |-> 0, cancelled_pushes |-> 0,
   killer |-> NoPlayer, final_prize |-> 0,
   prize_claimed |-> FALSE, next_star_created |-> FALSE, quiet |-> 0]

NoRound == [status |-> "Absent", member_count |-> 0, stake |-> 0,
            first_push_id |-> 0, age |-> 0]
NoPush == [status |-> "Absent", star_id |-> 0, push_id |-> 0,
           round_id |-> 0, amount |-> 0]

PushRecord ==
  {NoPush} \cup [status : PushStatus \ {"Absent"}, star_id : StarIds,
                push_id : Nat, round_id : RoundIds, amount : Nat]

-----------------------------------------------------------------------------
(* Predicates on accounts (state.rs)                                       *)

Reserved == pending_liability + prize_liability + next_star_reserve

IsAlive(st) == st.status = "Alive"
IsFinished(st) == st.status \in {"Dead", "BlackHole", "Stalled"}
CommittedMass(st) == st.total_mass + st.pending_lamports

\* Mutant: a star retires at the wrong cap.
IsClosed_Early(st) == IsFinished(st) \/ CommittedMass(st) >= FEED_MASS

IsClosed(st) == IsFinished(st) \/ CommittedMass(st) >= HOLE_MASS

\* Mutant: stake in line is not counted.
IsFullAndLive_Settled(st) == IsAlive(st) /\ st.total_mass >= HOLE_MASS

IsFullAndLive(st) == IsAlive(st) /\ CommittedMass(st) >= HOLE_MASS

StallSecs(st) ==
  IF st.total_mass > FEED_MASS THEN STALL_SECS ELSE NURSERY_STALL_SECS

\* Mutant: only a nursery can be called off.
IsStalled_NurseryOnly(st) ==
  /\ IsAlive(st)
  /\ st.pending_pushes = 0
  /\ st.total_mass < FEED_MASS
  /\ st.quiet >= StallSecs(st)

IsStalled(st) ==
  /\ IsAlive(st)
  /\ st.pending_pushes = 0
  /\ st.quiet >= StallSecs(st)

\* Mutant: the dead end is never looked for.
Stranded_Unchecked(s, st) == FALSE

\* Alive, nothing queued, and no longer the star that takes pushes.
Stranded(s, st) ==
  /\ IsAlive(st)
  /\ st.pending_pushes = 0
  /\ s # current_star_id

IsOpen(rd) == rd.status = "Open"

CloseableAt(rd) ==
  /\ IsOpen(rd)
  /\ rd.member_count > 0
  /\ \/ rd.member_count >= ROUND_TARGET_MEMBERS
     \/ rd.age >= ROUND_WINDOW_SLOTS

\* Mutant: only a round that was never sealed can be voided.
ExpirableAt_OpenOnly(rd) ==
  /\ rd.member_count > 0
  /\ IsOpen(rd)
  /\ rd.age >= ROUND_EXPIRY_SLOTS

ExpirableAt(rd) ==
  /\ rd.member_count > 0
  /\ rd.status \in {"Open", "Requested"}
  /\ rd.age >= ROUND_EXPIRY_SLOTS

Rake(rd) == ProtocolCut(rd.stake)
CoversDraw(rd) == Rake(rd) >= VRF_REQUEST_FEE

\* Mutant: drained one member too soon.
IsDrained_Early(rd, settle_cursor) ==
  settle_cursor + 1 >= rd.first_push_id + rd.member_count

IsDrained(rd, settle_cursor) ==
  settle_cursor >= rd.first_push_id + rd.member_count

-----------------------------------------------------------------------------
(* How an instruction rewrites a star                                      *)

\* Mutant: the star does not count the stake.
Joined_NoLamports(st, amount) ==
  [st EXCEPT !.push_counter = @ + 1, !.pending_pushes = @ + 1]

\* request_push: the stake joins the line.
Joined(st, amount) ==
  [st EXCEPT !.push_counter = @ + 1,
             !.pending_pushes = @ + 1,
             !.pending_lamports = @ + amount]

\* Mutant: the pot misses what a feed brings.
Fed_NoPot(st, amount) ==
  [st EXCEPT !.total_mass = @ + amount,
             !.push_counter = @ + 1,
             !.successful_pushes = @ + 1,
             !.settle_cursor = @ + 1,
             !.quiet = 0]

\* feed: the amount lands at once and takes a push id with it.
Fed(st, amount) ==
  [st EXCEPT !.total_mass = @ + amount,
             !.prize_pool = @ + PrizeCut(amount),
             !.push_counter = @ + 1,
             !.successful_pushes = @ + 1,
             !.settle_cursor = @ + 1,
             !.quiet = 0]

\* Mutant: the star keeps counting a stake it handed back.
Refunded_KeepsStake(st, amount) ==
  [st EXCEPT !.pending_pushes = @ - 1,
             !.cancelled_pushes = @ + 1,
             !.settle_cursor = @ + 1]

\* resolve_push, refund path.
Refunded(st, amount) ==
  [st EXCEPT !.pending_pushes = @ - 1,
             !.pending_lamports = @ - amount,
             !.cancelled_pushes = @ + 1,
             !.settle_cursor = @ + 1]

\* Mutant: the star grows by the pot's share only.
Landed_PotMass(st, stake, accepted) ==
  [st EXCEPT !.total_mass = @ + PrizeCut(accepted),
             !.prize_pool = @ + PrizeCut(accepted),
             !.successful_pushes = @ + 1,
             !.settle_cursor = @ + 1,
             !.pending_pushes = @ - 1,
             !.pending_lamports = @ - stake,
             !.quiet = 0]

\* resolve_push, settle path: of the stake queued, accepted lands and the excess
\* is handed back.
Landed(st, stake, accepted) ==
  [st EXCEPT !.total_mass = @ + accepted,
             !.prize_pool = @ + PrizeCut(accepted),
             !.successful_pushes = @ + 1,
             !.settle_cursor = @ + 1,
             !.pending_pushes = @ - 1,
             !.pending_lamports = @ - stake,
             !.quiet = 0]

\* Mutant: the whole pot is the prize, whatever recycled.
Finish_WholePot(st, status, prize) ==
  [st EXCEPT !.status = status, !.final_prize = st.prize_pool, !.quiet = 0]

\* A star ends: the stall clock is never read again.
Finish(st, status, prize) ==
  [st EXCEPT !.status = status, !.final_prize = prize, !.quiet = 0]

Kill(st, player) ==
  [Finish(st, "Dead", st.prize_pool) EXCEPT !.killer = player]

\* collapse_into_hole: the pot goes to the feeders, or to the next star if
\* nobody fed.
Recycled(st, early_volume) == IF early_volume = 0 THEN st.prize_pool ELSE 0

CollapseIntoHole(st, early_volume) ==
  Finish(st, "BlackHole", st.prize_pool - Recycled(st, early_volume))

-----------------------------------------------------------------------------
(* Money out of the vault (vault.rs)                                       *)

PayOut(amount) == amount <= vault /\ vault' = vault - amount

-----------------------------------------------------------------------------
(* initialize.  It only runs once, signed by the upgrade authority, and    *)
(* tops the vault up to the rent-exempt minimum.                           *)

InitialVault == IF PREFUND < RENT THEN RENT ELSE PREFUND

Init ==
  /\ current_star_id = 0
  /\ pending_liability = 0
  /\ prize_liability = 0
  /\ protocol_accrued = 0
  /\ next_star_reserve = 0
  /\ vault = InitialVault
  /\ star = [s \in StarIds |-> NewStar("Unborn", 0)]
  /\ star_feed = [s \in StarIds |-> [exists |-> FALSE, early_volume |-> 0]]
  /\ feed_share = [s \in StarIds |->
                     [p \in Players |-> [amount |-> 0, claimed |-> FALSE]]]
  /\ round = [s \in StarIds |-> [r \in RoundIds |-> NoRound]]
  /\ pending_push = [k \in PushKeys |-> NoPush]

-----------------------------------------------------------------------------
(* Stars                                                                   *)

CreateFirstStar ==
  /\ current_star_id = 0
  /\ 1 \in StarIds
  /\ star' = [star EXCEPT ![1] = NewStar("Alive", 0)]
  /\ current_star_id' = 1
  /\ UNCHANGED <<money, feeds, round, pending_push>>

\* Mutant: an endowment may fill the nursery.
Endowment_Uncapped == FloorToStep(next_star_reserve)

\* Whole steps of the reserve, one step short of filling the nursery.
Endowment == Least(FloorToStep(next_star_reserve), FEED_MASS - PUSH_STEP)

CreateNextStar ==
  LET prev == current_star_id
      new == current_star_id + 1
  IN
  /\ prev \in StarIds
  /\ new \in StarIds                       \* bound MaxStars
  /\ star[new].status = "Unborn"
  /\ IsClosed(star[prev])
  /\ ~star[prev].next_star_created
  /\ Endowment <= next_star_reserve
  /\ star' = [star EXCEPT ![new] = NewStar("Alive", Endowment),
                          ![prev].next_star_created = TRUE]
  /\ prize_liability' = prize_liability + Endowment
  /\ next_star_reserve' = next_star_reserve - Endowment
  /\ current_star_id' = new
  /\ UNCHANGED <<pending_liability, protocol_accrued, vault, feeds, round,
                 pending_push>>

\* feed: instant, no draw, clipped to what the nursery still takes.
Feed(s, p, signed) ==
  LET st == star[s]
      amount == AcceptPushAmount(signed, RoomAt(st.total_mass))
  IN
  /\ current_star_id = s
  /\ IsAlive(st)
  /\ st.total_mass < FEED_MASS
  /\ RoomAt(st.total_mass) > 0
  /\ LegalPush(signed)
  /\ st.push_counter < MaxPushes           \* bound MaxPushes
  /\ vault' = vault + amount
  /\ protocol_accrued' = protocol_accrued + ProtocolCut(amount)
  /\ prize_liability' = prize_liability + PrizeCut(amount)
  /\ star' = [star EXCEPT ![s] = Fed(st, amount)]
  /\ star_feed' = [star_feed EXCEPT
                     ![s] = [exists |-> TRUE,
                             early_volume |-> @.early_volume + amount]]
  /\ feed_share' = [feed_share EXCEPT ![s][p].amount = @ + amount]
  /\ UNCHANGED <<current_star_id, pending_liability, next_star_reserve,
                 round, pending_push>>

\* collapse_stalled_star: the feeders get back the pot's share of what they fed,
\* the rest recycles.
CollapseStalledStar(s) ==
  LET st == star[s]
      claimable == Least(PrizeCut(star_feed[s].early_volume), st.prize_pool)
      recycled == st.prize_pool - claimable
  IN
  /\ star_feed[s].exists
  /\ IsStalled(st)
  /\ recycled <= prize_liability
  /\ star' = [star EXCEPT ![s] = Finish(st, "Stalled", claimable)]
  /\ prize_liability' = prize_liability - recycled
  /\ next_star_reserve' = next_star_reserve + recycled
  /\ UNCHANGED <<current_star_id, pending_liability, protocol_accrued, vault,
                 feeds, round, pending_push>>

-----------------------------------------------------------------------------
(* Pushes                                                                  *)

\* Mutant: the room quoted forgets what is already in line.
QueueRoom_Settled(st) == RoomAt(st.total_mass)

\* What the star can still promise: its room once the whole line has landed.
QueueRoom(st) == RoomAt(CommittedMass(st))

\* request_push: escrow the stake and join the star's current round, opening it
\* if this is its first member.  The PendingPush account must not exist yet.
RequestPush(s, k, signed) ==
  LET st == star[s]
      r == st.current_round
      amount == AcceptPushAmount(signed, QueueRoom(st))
      rd == IF round[s][r].member_count = 0
            THEN [NoRound EXCEPT !.status = "Open",
                                 !.first_push_id = st.push_counter]
            ELSE round[s][r]
  IN
  /\ current_star_id = s
  /\ pending_push[k].status = "Absent"
  /\ st.total_mass >= FEED_MASS
  /\ CommittedMass(st) < HOLE_MASS
  /\ LegalPush(signed)
  /\ IsAlive(st)
  /\ st.push_counter < MaxPushes           \* bound MaxPushes
  /\ r \in RoundIds                        \* follows from it
  /\ IsOpen(rd)
  /\ vault' = vault + amount
  /\ pending_liability' = pending_liability + amount
  /\ star' = [star EXCEPT ![s] = Joined(st, amount)]
  /\ star_feed' = [star_feed EXCEPT ![s].exists = TRUE]
  /\ round' = [round EXCEPT ![s][r] = [rd EXCEPT !.member_count = @ + 1,
                                                 !.stake = @ + amount]]
  /\ pending_push' = [pending_push EXCEPT
                        ![k] = [status |-> "Pending", star_id |-> s,
                                push_id |-> st.push_counter, round_id |-> r,
                                amount |-> amount]]
  /\ UNCHANGED <<current_star_id, prize_liability, protocol_accrued,
                 next_star_reserve, feed_share>>

\* Mutant: no place in line is checked.
AtCursor_AnyOrder(k) ==
  LET p == pending_push[k]
  IN /\ p.status = "Pending"
     /\ round[p.star_id][p.round_id].status # "Absent"

\* What both paths of resolve_push require: the push is pending, its round's
\* account is there to read, and it is next in line.
AtCursor(k) ==
  LET p == pending_push[k]
  IN /\ p.status = "Pending"
     /\ round[p.star_id][p.round_id].status # "Absent"
     /\ p.push_id = star[p.star_id].settle_cursor

\* Mutant: a finished star refunds nobody.
Refundable_VoidedOnly(k) ==
  LET p == pending_push[k]
  IN round[p.star_id][p.round_id].status = "Expired"

\* Refund path: the star finished first, or the push's round was voided.
Refundable(k) ==
  LET p == pending_push[k]
  IN IsFinished(star[p.star_id])
     \/ round[p.star_id][p.round_id].status = "Expired"

RefundPush(k) ==
  LET p == pending_push[k]
      s == p.star_id
      early == star_feed[s].early_volume
      rest == Refunded(star[s], p.amount)
      deadEnd == Stranded(s, rest)
      recycled == IF deadEnd THEN Recycled(rest, early) ELSE 0
  IN
  /\ AtCursor(k)
  /\ Refundable(k)
  /\ PayOut(p.amount)
  /\ p.amount <= pending_liability
  /\ star[s].pending_pushes >= 1
  /\ p.amount <= star[s].pending_lamports
  /\ recycled <= prize_liability
  /\ pending_liability' = pending_liability - p.amount
  /\ prize_liability' = prize_liability - recycled
  /\ next_star_reserve' = next_star_reserve + recycled
  /\ star' = [star EXCEPT
                ![s] = IF deadEnd THEN CollapseIntoHole(rest, early) ELSE rest]
  /\ pending_push' = [pending_push EXCEPT ![k].status = "Cancelled"]
  /\ UNCHANGED <<current_star_id, protocol_accrued, feeds, round>>

\* Settle path: the star is live and the round's draw landed.  The roll is under
\* the push's threshold or not (rolls); below the nursery cap the threshold is 0.
SettlePush(k, rolls) ==
  LET p == pending_push[k]
      s == p.star_id
      st == star[s]
      nursery == st.total_mass < FEED_MASS
      accepted == AcceptedSettleAmount(p.amount, st.total_mass)
      landed == Landed(st, p.amount, accepted)
      early == star_feed[s].early_volume + IF nursery THEN accepted ELSE 0
      lethal == rolls /\ ~nursery
      hole == ~lethal /\ (landed.total_mass >= HOLE_MASS \/ Stranded(s, landed))
      recycled == IF hole THEN Recycled(landed, early) ELSE 0
  IN
  /\ AtCursor(k)
  /\ ~Refundable(k)
  /\ round[s][p.round_id].status = "Drawn"
  /\ PayOut(p.amount - accepted)
  /\ p.amount <= pending_liability
  /\ st.pending_pushes >= 1
  /\ p.amount <= st.pending_lamports
  /\ recycled <= prize_liability + PrizeCut(accepted)
  /\ pending_liability' = pending_liability - p.amount
  /\ protocol_accrued' = protocol_accrued + ProtocolCut(accepted)
  /\ prize_liability' = prize_liability + PrizeCut(accepted) - recycled
  /\ next_star_reserve' = next_star_reserve + recycled
  /\ star' = [star EXCEPT
                ![s] = IF lethal THEN Kill(landed, k[1])
                       ELSE IF hole THEN CollapseIntoHole(landed, early)
                       ELSE landed]
  /\ star_feed' = [star_feed EXCEPT ![s].early_volume = early]
  /\ feed_share' = [feed_share EXCEPT
                      ![s][k[1]].amount = @ + IF nursery THEN accepted ELSE 0]
  /\ pending_push' = [pending_push EXCEPT
                        ![k].status = IF lethal THEN "Killed" ELSE "Survived",
                        ![k].amount = accepted]
  /\ UNCHANGED <<current_star_id, round>>

ResolvePush(k) == RefundPush(k) \/ \E rolls \in BOOLEAN : SettlePush(k, rolls)

\* Mutant: a push still in line can be swept.
ClosePush_Unresolved(k) ==
  /\ pending_push[k].status # "Absent"
  /\ pending_push' = [pending_push EXCEPT ![k] = NoPush]
  /\ UNCHANGED <<current_star_id, money, star, feeds, round>>

\* close_push: sweep a resolved push's account; its address may be reused.
ClosePush(k) ==
  /\ pending_push[k].status \in {"Survived", "Killed", "Cancelled"}
  /\ pending_push' = [pending_push EXCEPT ![k] = NoPush]
  /\ UNCHANGED <<current_star_id, money, star, feeds, round>>

-----------------------------------------------------------------------------
(* Rounds                                                                  *)

\* draw_round: seal the star's current round and buy its draw in one step.  The
\* cranker fronts outlay and is reimbursed as far as the house's balance goes.
DrawRound(s, outlay) ==
  LET st == star[s]
      r == st.current_round
      rd == round[s][r]
      paid == Least(outlay, protocol_accrued)
  IN
  /\ r \in RoundIds
  /\ CloseableAt(rd)
  /\ IsAlive(st)
  /\ IsFullAndLive(st) \/ CoversDraw(rd)
  /\ PayOut(paid)
  /\ protocol_accrued' = protocol_accrued - paid
  /\ round' = [round EXCEPT ![s][r].status = "Requested", ![s][r].age = 0]
  /\ star' = [star EXCEPT ![s].current_round = r + 1]
  /\ UNCHANGED <<current_star_id, pending_liability, prize_liability,
                 next_star_reserve, feeds, pending_push>>

\* Mutant: an answer that comes after the round was voided still counts.
ConsumeRandomness_Late(s, r) ==
  /\ round[s][r].status \in {"Requested", "Expired"}
  /\ round' = [round EXCEPT ![s][r].status = "Drawn", ![s][r].age = 0]
  /\ UNCHANGED <<current_star_id, money, star, feeds, pending_push>>

\* consume_randomness: the oracle's callback, signed by the identity only a
\* request this program filed is answered with.
ConsumeRandomness(s, r) ==
  /\ round[s][r].status = "Requested"
  /\ round' = [round EXCEPT ![s][r].status = "Drawn", ![s][r].age = 0]
  /\ UNCHANGED <<current_star_id, money, star, feeds, pending_push>>

\* Mutant: the star's round counter is left on the voided round.
AfterVoiding_Stays(st, rd) == st.current_round

\* The star's next round once rd is voided: a round never sealed still holds the
\* counter.
AfterVoiding(st, rd) ==
  IF IsOpen(rd) THEN st.current_round + 1 ELSE st.current_round

\* expire_round: void a stalled round.
ExpireRound(s, r) ==
  LET rd == round[s][r]
  IN
  /\ ExpirableAt(rd)
  /\ IsOpen(rd) => r = star[s].current_round
  /\ round' = [round EXCEPT ![s][r].status = "Expired", ![s][r].age = 0]
  /\ star' = [star EXCEPT ![s].current_round = AfterVoiding(star[s], rd)]
  /\ UNCHANGED <<current_star_id, money, feeds, pending_push>>

\* close_round_account: sweep a round whose members have all resolved and which
\* can take no more.
CloseRoundAccount(s, r) ==
  LET rd == round[s][r]
  IN
  /\ rd.status # "Absent"
  /\ r # star[s].current_round \/ ~IsAlive(star[s])
  /\ IsDrained(rd, star[s].settle_cursor)
  /\ round' = [round EXCEPT ![s][r] = NoRound]
  /\ UNCHANGED <<current_star_id, money, star, feeds, pending_push>>

-----------------------------------------------------------------------------
(* Claims                                                                  *)

ClaimPrize(s) ==
  LET amount == star[s].final_prize
  IN
  /\ star[s].status = "Dead"               \* signed by star[s].killer
  /\ ~star[s].prize_claimed
  /\ PayOut(amount)
  /\ amount <= prize_liability
  /\ prize_liability' = prize_liability - amount
  /\ star' = [star EXCEPT ![s].prize_claimed = TRUE]
  /\ UNCHANGED <<current_star_id, pending_liability, protocol_accrued,
                 next_star_reserve, feeds, round, pending_push>>

\* Mutant: rounded up.
HoleShare_Up(s, p) ==
  (feed_share[s][p].amount * star[s].final_prize
     + star_feed[s].early_volume - 1) \div star_feed[s].early_volume

\* A feeder's part of a hole, rounded down.
HoleShare(s, p) ==
  (feed_share[s][p].amount * star[s].final_prize) \div star_feed[s].early_volume

ClaimHoleShare(s, p) ==
  LET amount == HoleShare(s, p)
  IN
  /\ star[s].status \in {"BlackHole", "Stalled"}
  /\ ~feed_share[s][p].claimed
  /\ feed_share[s][p].amount > 0
  /\ star_feed[s].early_volume > 0
  /\ amount > 0
  /\ PayOut(amount)
  /\ amount <= prize_liability
  /\ prize_liability' = prize_liability - amount
  /\ feed_share' = [feed_share EXCEPT ![s][p].claimed = TRUE]
  /\ UNCHANGED <<current_star_id, pending_liability, protocol_accrued,
                 next_star_reserve, star, star_feed, round, pending_push>>

-----------------------------------------------------------------------------
(* The house's balance (admin.rs)                                          *)

FundProtocol(amount) ==
  /\ amount > 0
  /\ protocol_accrued + amount <= MaxAccrued      \* bound MaxAccrued
  /\ vault' = vault + amount
  /\ protocol_accrued' = protocol_accrued + amount
  /\ UNCHANGED <<current_star_id, pending_liability, prize_liability,
                 next_star_reserve, star, feeds, round, pending_push>>

\* Anyone may send the house's revenue to the treasury down to the draw float;
\* only the treasury's own signature goes below it.
WithdrawProtocolFees(amount, by_treasury) ==
  /\ amount <= protocol_accrued
  /\ ~by_treasury => amount <= SatSub(protocol_accrued, DRAW_FLOAT_FLOOR)
  /\ amount <= SatSub(SatSub(vault, Reserved), RENT)
  /\ PayOut(amount)
  /\ protocol_accrued' = protocol_accrued - amount
  /\ UNCHANGED <<current_star_id, pending_liability, prize_liability,
                 next_star_reserve, star, feeds, round, pending_push>>

-----------------------------------------------------------------------------
(* The cluster's clock                                                     *)

Waiting(rd) ==
  rd.status \in {"Open", "Requested"} /\ rd.age < ROUND_EXPIRY_SLOTS

NextSlot ==
  /\ \E s \in StarIds, r \in RoundIds : Waiting(round[s][r])
  /\ round' = [s \in StarIds |-> [r \in RoundIds |->
                 IF Waiting(round[s][r])
                 THEN [round[s][r] EXCEPT !.age = @ + 1]
                 ELSE round[s][r]]]
  /\ UNCHANGED <<current_star_id, money, star, feeds, pending_push>>

GoesQuiet(st) == IsAlive(st) /\ st.quiet < STALL_SECS

NextSecond ==
  /\ \E s \in StarIds : GoesQuiet(star[s])
  /\ star' = [s \in StarIds |->
                IF GoesQuiet(star[s]) THEN [star[s] EXCEPT !.quiet = @ + 1]
                                      ELSE star[s]]
  /\ UNCHANGED <<current_star_id, money, feeds, round, pending_push>>

-----------------------------------------------------------------------------
StarStep(s) ==
  \/ \E p \in Players, a \in PushAmounts : Feed(s, p, a)
  \/ CollapseStalledStar(s)
  \/ \E k \in PushKeys, a \in PushAmounts : RequestPush(s, k, a)
  \/ \E o \in Outlays : DrawRound(s, o)
  \/ ClaimPrize(s)
  \/ \E p \in Players : ClaimHoleShare(s, p)

RoundStep(s, r) ==
  ConsumeRandomness(s, r) \/ ExpireRound(s, r) \/ CloseRoundAccount(s, r)

HouseStep ==
  \/ \E a \in FundAmounts : FundProtocol(a)
  \/ \E a \in WithdrawAmounts, t \in BOOLEAN : WithdrawProtocolFees(a, t)

Next ==
  \/ CreateFirstStar
  \/ CreateNextStar
  \/ \E s \in StarIds : StarStep(s)
  \/ \E s \in StarIds, r \in RoundIds : RoundStep(s, r)
  \/ \E k \in PushKeys : ResolvePush(k) \/ ClosePush(k)
  \/ HouseStep
  \/ NextSlot
  \/ NextSecond

Spec == Init /\ [][Next]_vars

\* With the oracle and the house both gone: time passes, and somebody (any
\* player will do, the instructions are permissionless) voids stalled rounds,
\* resolves what can be resolved and calls off stalled stars.  Nothing is
\* assumed of draws, answers, or of anyone pushing again.
DarkOracleFairness ==
  /\ WF_vars(NextSlot)
  /\ WF_vars(NextSecond)
  /\ \A s \in StarIds, r \in RoundIds : WF_vars(ExpireRound(s, r))
  /\ \A k \in PushKeys : WF_vars(ResolvePush(k))
  /\ \A s \in StarIds : WF_vars(CollapseStalledStar(s))

DarkOracleSpec == Spec /\ DarkOracleFairness

\* With the oracle answering and a crank drawing and resolving, and nobody
\* bothering to void a round.
CrankFairness ==
  /\ WF_vars(NextSlot)
  /\ \A s \in StarIds, o \in Outlays : WF_vars(DrawRound(s, o))
  /\ \A s \in StarIds, r \in RoundIds : WF_vars(ConsumeRandomness(s, r))
  /\ \A k \in PushKeys : WF_vars(ResolvePush(k))

CrankSpec == Spec /\ CrankFairness

-----------------------------------------------------------------------------
(* Type correctness, and the properties the proofs are about               *)

TypeOK ==
  /\ current_star_id \in 0..MaxStars
  /\ pending_liability \in Nat
  /\ prize_liability \in Nat
  /\ protocol_accrued \in Nat
  /\ next_star_reserve \in Nat
  /\ vault \in Nat
  /\ star \in [StarIds -> StarRecord]
  /\ star_feed \in [StarIds -> [exists : BOOLEAN, early_volume : Nat]]
  /\ feed_share \in
       [StarIds -> [Players -> [amount : Nat, claimed : BOOLEAN]]]
  /\ round \in [StarIds -> [RoundIds -> RoundRecord]]
  /\ pending_push \in [PushKeys -> PushRecord]

\* The vault holds exactly its own rent and the four buckets: no instruction
\* moves a lamport without moving the claim on it, and no two claims are backed
\* by the same lamport (vault.rs).
VaultCovered ==
  vault = InitialVault + Reserved + protocol_accrued

\* The queue never promises more than a star can take: settled mass plus the
\* stake in line stays within the hole cap, and a star with stake in line has
\* filled its nursery.
CommittedWithinHole ==
  \A s \in StarIds :
    /\ CommittedMass(star[s]) <= HOLE_MASS
    /\ star[s].pending_lamports > 0 => star[s].total_mass >= FEED_MASS

\* The counters of the queue agree: what was handed out is what resolved plus what
\* waits, and what resolved either landed or was cancelled.
CountersAgree ==
  \A s \in StarIds :
    /\ star[s].settle_cursor + star[s].pending_pushes = star[s].push_counter
    /\ star[s].settle_cursor =
         star[s].successful_pushes + star[s].cancelled_pushes

\* Mass, escrow and every stake stay on the step lattice, so the room left to a
\* boundary is always itself a legal push; dust stays in the reserve.
OnLattice ==
  /\ \A s \in StarIds :
       OnStep(star[s].total_mass) /\ OnStep(star[s].pending_lamports)
  /\ \A k \in PushKeys : OnStep(pending_push[k].amount)

\* The vault's ledger is the one VaultLedger promises.
Ledger == INSTANCE VaultLedger WITH
            pending <- pending_liability, prize <- prize_liability,
            accrued <- protocol_accrued, reserve <- next_star_reserve,
            Idle <- InitialVault

\* The vault's ledger moves only the ways VaultLedger allows.
ImplementsLedger == Ledger!Spec
=============================================================================

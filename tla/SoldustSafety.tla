---------------------------- MODULE SoldustSafety ----------------------------
(***************************************************************************)
(* What must hold of the program's accounts, taken together.  The          *)
(* invariants relate accounts that different instructions write: buckets   *)
(* to the accounts they cover, the queue's two counters to the pushes in   *)
(* it, a round's range to its members, a finished star to what is still    *)
(* owed on it.                                                             *)
(***************************************************************************)
EXTENDS Soldust, FiniteSets

\* There are as many wallets as public keys, and as many seeds as bytes allow.
ASSUME FiniteAssumption == IsFiniteSet(Players) /\ IsFiniteSet(Seeds)

\* The pot's share of one step times a step is worth more than the step, in
\* lamports: what keeps a feeder's part of a pot from rounding down to nothing.
ASSUME ShareAssumption == BPS <= PUSH_STEP * (BPS - PROTOCOL_BPS)

InLine == {k \in PushKeys : pending_push[k].status = "Pending"}

PendingOn(s) == {k \in InLine : pending_push[k].star_id = s}

Escrowed == [k \in PushKeys |-> pending_push[k].amount]

-----------------------------------------------------------------------------
(* Money                                                                   *)

\* The escrow is exactly the stakes in line: pending_liability over all stars,
\* and each star's pending_lamports and pending_pushes over its own (request_push
\* and both paths of resolve_push keep the three together).
EscrowBacked ==
  /\ pending_liability = Total(Escrowed, InLine)
  /\ \A s \in StarIds :
       /\ star[s].pending_lamports = Total(Escrowed, PendingOn(s))
       /\ star[s].pending_pushes = Cardinality(PendingOn(s))

\* What the feeders of a hole have collected.
Collected(s) ==
  Total([p \in Players |-> HoleShare(s, p)],
                   {p \in Players : feed_share[s][p].claimed})

\* What a star's pot still owes: all of it while it lives, the unclaimed prize
\* of a kill, and of a hole whatever the feeders have not collected.
Owed(s) ==
  CASE star[s].status = "Unborn" -> 0
    [] star[s].status = "Alive" -> star[s].prize_pool
    [] star[s].status = "Dead" ->
         IF star[s].prize_claimed THEN 0 ELSE star[s].final_prize
    [] OTHER -> star[s].final_prize - Collected(s)

\* prize_liability is exactly what the pots owe, through kills, collapses,
\* recycling, endowments and claims in any order, and no pot is overpaid.
PrizesBacked ==
  /\ \A s \in StarIds : Owed(s) >= 0
  /\ prize_liability = Total([s \in StarIds |-> Owed(s)], StarIds)

\* A claim that is due can always be paid: the winner's, and every feeder's
\* share of a hole, which also never rounds down to nothing.
ClaimsNeverBlocked ==
  \A s \in StarIds :
    /\ star[s].status = "Dead" /\ ~star[s].prize_claimed =>
         star[s].final_prize <= Least(vault, prize_liability)
    /\ star[s].status \in {"BlackHole", "Stalled"} =>
         \A p \in Players :
           feed_share[s][p].amount > 0 /\ ~feed_share[s][p].claimed =>
             HoleShare(s, p) \in 1..Least(vault, prize_liability)

\* An Event Horizon always has feeders to pay, so its pot never recycles: the
\* nursery has to be filled before a star takes pushes, and an endowment never
\* fills it (create_next_star).
HoleNeverRecycles ==
  \A s \in StarIds :
    star[s].status = "BlackHole" =>
      star_feed[s].early_volume > 0 /\ star[s].final_prize = star[s].prize_pool

\* A stalled star pays its feeders at cost: the min in collapse_stalled_star
\* never binds, the pot always holds the prize side of everything fed.
StallPaysAtCost ==
  \A s \in StarIds :
    star[s].status = "Stalled" =>
      star[s].final_prize = PrizeCut(star_feed[s].early_volume)

-----------------------------------------------------------------------------
(* The queue                                                               *)

\* The pending pushes of a star are its ids from settle_cursor up to
\* push_counter, one account each: no id is lost, reused or skipped, feeds and
\* refunds included.
QueueIsLine ==
  \A s \in StarIds :
    LET ids == {pending_push[k].push_id : k \in PendingOn(s)}
    IN /\ ids = star[s].settle_cursor .. star[s].push_counter - 1
       /\ Cardinality(ids) = Cardinality(PendingOn(s))

\* Whenever the push at the cursor has an outcome (its star finished, or its
\* round expired or was drawn), every checked subtraction and payment of its
\* resolution succeeds.
HeadNeverWedges ==
  \A k \in PushKeys :
    AtCursor(k) =>
      LET p == pending_push[k]
          st == star[p.star_id]
      IN /\ p.amount <= Least(vault, pending_liability)
         /\ p.amount <= st.pending_lamports
         /\ st.pending_pushes >= 1
         /\ st.prize_pool <= prize_liability \/ IsFinished(st)

\* The clip in resolve_push never cuts a stake: room is quoted against committed
\* mass, so what the queue promised always still fits when it lands.
SettleNeverClips ==
  \A k \in PushKeys :
    AtCursor(k) /\ IsAlive(star[pending_push[k].star_id]) =>
      AcceptedSettleAmount(pending_push[k].amount,
                           star[pending_push[k].star_id].total_mass)
        = pending_push[k].amount

\* A star that is alive but no longer current still has pushes in line, so some
\* resolution will finish it; none is left with a pot nobody can claim.
NoStrandedStar ==
  \A s \in StarIds :
    IsAlive(star[s]) /\ star[s].pending_pushes = 0 => s = current_star_id

\* After the push that killed a star nothing lands: members of the same round
\* and of later ones are pending or refunded, and the winner is the killer.
NothingLandsAfterKill ==
  \A k \in PushKeys :
    LET p == pending_push[k]
    IN p.status = "Killed" =>
         /\ star[p.star_id].status = "Dead"
         /\ star[p.star_id].killer = k[1]
         /\ \A j \in PushKeys :
              pending_push[j].star_id = p.star_id /\ pending_push[j].push_id > p.push_id
                => pending_push[j].status \in {"Pending", "Cancelled"}

-----------------------------------------------------------------------------
(* Rounds                                                                  *)

Members(s, r) == {k \in PendingOn(s) : pending_push[k].round_id = r}

IdsOf(rd) == rd.first_push_id .. rd.first_push_id + rd.member_count - 1

\* A round's range of ids is exact: a pending push is inside the range of the
\* round it names, ranges of a star's rounds do not overlap, and is_drained says
\* of every round whether a member is left.
RoundsAreRanges ==
  \A s \in StarIds, r \in RoundIds :
    LET rd == round[s][r]
    IN /\ \A k \in Members(s, r) :
            rd.status # "Absent" /\ pending_push[k].push_id \in IdsOf(rd)
       /\ \A q \in RoundIds : q < r => IdsOf(round[s][q]) \cap IdsOf(rd) = {}
       /\ rd.status # "Absent" =>
            (IsDrained(rd, star[s].settle_cursor) <=> Members(s, r) = {})

\* A live star always has a round its next push can join: sealing and voiding both
\* hand the counter on, so a dead batch is never in the way.
CurrentRoundJoinable ==
  \A s \in StarIds :
    IsAlive(star[s]) =>
      round[s][star[s].current_round].status \in {"Absent", "Open"}

\* A round's recorded stake is what its members escrowed, while any account of
\* theirs can still tell: the rake draw_round priced its draw against.
StakeIsMembers ==
  \A s \in StarIds, r \in RoundIds :
    LET rd == round[s][r]
    IN rd.first_push_id >= star[s].settle_cursor /\ rd.status # "Absent" =>
         rd.stake = Total(Escrowed, Members(s, r))

-----------------------------------------------------------------------------
(* What a step may never do                                                *)

\* A finished star is a record: its outcome, mass, pot and prize never change
\* again, whatever is still in its queue.
FinishedIsFinal ==
  [][\A s \in StarIds :
       IsFinished(star[s]) =>
         /\ star'[s].status = star[s].status
         /\ star'[s].total_mass = star[s].total_mass
         /\ star'[s].prize_pool = star[s].prize_pool
         /\ star'[s].final_prize = star[s].final_prize
         /\ star'[s].killer = star[s].killer]_vars

\* What may become of a round that exists or is opened, short of being swept.
Becomes ==
  {<<"Absent", "Open">>, <<"Open", "Requested">>, <<"Open", "Expired">>,
   <<"Requested", "Drawn">>, <<"Requested", "Expired">>}

\* A round leaves the open stage with the members and the stake it has by then, and
\* keeps them while its account is there.
Forwards(old, new) ==
  /\ \/ new.status \in {old.status, "Absent"}
     \/ <<old.status, new.status>> \in Becomes
  /\ new.status \notin {"Absent", "Open"} =>
       /\ new.first_push_id = old.first_push_id
       /\ new.member_count = old.member_count
       /\ new.stake = old.stake

\* One step and one round: it is opened only where the counter points, and swept only
\* once the cursor is past its last member.
MovesForward(s, r) ==
  LET old == round[s][r]
      new == round'[s][r]
  IN /\ Forwards(old, new)
     /\ old.status = "Absent" /\ new.status # "Absent"
          => r = star[s].current_round
     /\ old.status # "Absent" /\ new.status = "Absent"
          => IsDrained(old, star[s].settle_cursor)

\* A round only moves forwards: it is opened, sealed or voided open, then drawn or
\* voided; from the seal on its membership and stake are frozen; a drawn round is
\* never voided, a voided one never drawn; close_round_account takes none whose
\* members still wait, and what it swept behind the counter never comes back.
RoundsMoveForward ==
  [][\A s \in StarIds, r \in RoundIds : MovesForward(s, r)]_vars

-----------------------------------------------------------------------------
(* What the program promises, seen from outside                            *)

\* The stakes in a star's line, head first.
Waiters(s) ==
  [i \in 1..star[s].pending_pushes |->
     LET k == CHOOSE k \in PendingOn(s) :
                pending_push[k].push_id = star[s].settle_cursor + i - 1
     IN [owner |-> k[1], amount |-> pending_push[k].amount]]

Phase(s) ==
  CASE star[s].status = "Unborn" -> "unborn"
    [] star[s].status = "Alive" -> "live"
    [] OTHER -> "over"

Line == INSTANCE PushLine WITH
          Stars <- StarIds,
          line <- [s \in StarIds |-> Waiters(s)],
          mass <- [s \in StarIds |-> star[s].total_mass],
          phase <- [s \in StarIds |-> Phase(s)]

\* Rounds, draws, expiry and sweeping together give every star the plain line of
\* PushLine: in order, whole, once.
ImplementsLine == Line!Spec

\* A round whose account is not there is one to come or one that was swept: the
\* star's counter tells, and a finished star has none to come.
Stage(s, r) ==
  IF round[s][r].status # "Absent" THEN round[s][r].status
  ELSE IF r < star[s].current_round \/ IsFinished(star[s]) THEN "Swept"
  ELSE "Ahead"

Batches == INSTANCE RoundLife WITH
          Stars <- StarIds,
          Rounds <- RoundIds,
          stage <- [s \in StarIds |-> [r \in RoundIds |-> Stage(s, r)]],
          members <- [s \in StarIds |->
                        [r \in RoundIds |-> round[s][r].member_count]],
          over <- [s \in StarIds |-> IsFinished(star[s])]

\* However pushes, seals, voids, answers and sweeps interleave, a round lives as
\* RoundLife says: in particular a cursor that has passed a round of a live star
\* means that its outcome was known, so close_round_account needs no check of it.
ImplementsRounds == Batches!Spec

-----------------------------------------------------------------------------
(* What must happen                                                        *)

\* With the oracle dark, every stake in line still comes out of it.
EveryPushResolves ==
  \A k \in PushKeys :
    pending_push[k].status = "Pending" ~> pending_push[k].status # "Pending"

\* With the oracle dark, every star anyone fed is finished once the players stop
\* pushing (the bound on push ids makes them), so its pot is claimable.
FedStarFinishes ==
  \A s \in StarIds :
    IsAlive(star[s]) /\ star_feed[s].exists ~> IsFinished(star[s])

\* With the oracle answering and nobody voiding rounds, a star full to the hole
\* cap never freezes there, however little its last round raked.
FullStarMovesOn ==
  \A s \in StarIds :
    IsAlive(star[s]) /\ CommittedMass(star[s]) >= HOLE_MASS
      ~> IsFinished(star[s]) \/ CommittedMass(star[s]) < HOLE_MASS
=============================================================================

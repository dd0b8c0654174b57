------------------------ MODULE SoldustSafetyProofs ------------------------
(***************************************************************************)
(* What the program keeps to, for every value of the constants.            *)
(*                                                                         *)
(* Rounds are ranges of the ids in line (RangeInv), nothing lands on a     *)
(* star after its kill, no star is left that cannot end (LifeInv), and     *)
(* Soldust implements PushLine and RoundLife.  Then money: every           *)
(* instruction moves it in one of the ways VaultLedger lists, the vault    *)
(* holds exactly what its buckets claim, every pot is what was paid into   *)
(* it (PotInv) and the bucket the pots share is their sum.                 *)
(***************************************************************************)
EXTENDS SoldustStateProofs, SequenceTheorems

-----------------------------------------------------------------------------
(* Rounds as ranges of ids                                                 *)

\* A push in line is inside the range of the round it names, which exists.
InRange(k) ==
  LET p == pending_push[k]
      rd == round[p.star_id][p.round_id]
  IN p.status = "Pending" => rd.status # "Absent" /\ p.push_id \in IdsOf(rd)

\* A later round starts after an earlier one ends.
RangesApart(s) ==
  \A q, r \in RoundIds :
    /\ q < r
    /\ round[s][q].status # "Absent" /\ round[s][r].status # "Absent"
    => round[s][q].first_push_id + round[s][q].member_count
         <= round[s][r].first_push_id

\* No range runs beyond the ids handed out, the one unsealed round is the star's
\* current one and ends with them, and there is no round before the nursery is
\* full.
RangeEnds(s) ==
  \A r \in RoundIds :
    LET rd == round[s][r]
    IN IF rd.status = "Absent" THEN rd.member_count = 0
       ELSE /\ rd.first_push_id + rd.member_count <= star[s].push_counter
            /\ IsOpen(rd) =>
                 /\ r = star[s].current_round
                 /\ rd.first_push_id + rd.member_count = star[s].push_counter
            /\ star[s].total_mass >= FEED_MASS

RangeInv ==
  /\ \A k \in PushKeys : InRange(k)
  /\ \A s \in StarIds : RangesApart(s) /\ RangeEnds(s)
  /\ StakeIsMembers

\* The round is the same to its members.
KeepsRange(new, old) ==
  /\ new.status = "Absent" <=> old.status = "Absent"
  /\ IsOpen(new) => IsOpen(old)
  /\ new.member_count = old.member_count
  /\ new.first_push_id = old.first_push_id
  /\ new.stake = old.stake

\* What a step that opens and joins no round does: a round is the same to its
\* members, or is swept with none left.
RoundsKept ==
  \A s \in StarIds, r \in RoundIds :
    \/ KeepsRange(round'[s][r], round[s][r])
    \/ round'[s][r] = NoRound /\ IsDrained(round[s][r], star[s].settle_cursor)

\* Moving a round on, or letting it age, keeps its range.
LEMMA RestatedRange ==
  ASSUME NEW rd \in RoundRecord, NEW status, NEW age
  PROVE  LET new == [rd EXCEPT !.status = status, !.age = age]
         IN /\ new.status = status
            /\ new.member_count = rd.member_count
            /\ new.first_push_id = rd.first_push_id
            /\ new.stake = rd.stake
  BY DEF RoundRecord

\* One round is rewritten and is the same to its members.
LEMMA OneRoundKept ==
  ASSUME TypeOK, NEW s \in StarIds, NEW r \in RoundIds, NEW rd,
         KeepsRange(rd, round[s][r]),
         round' = [round EXCEPT ![s] = [round[s] EXCEPT ![r] = rd]]
  PROVE  RoundsKept
<1>1. \A t \in StarIds, q \in RoundIds :
        round'[t][q] = IF t = s /\ q = r THEN rd ELSE round[t][q]
  BY DEF TypeOK
<1> QED
  BY <1>1 DEF RoundsKept, KeepsRange

\* Every step but request_push keeps the rounds.
LEMMA StepKeepsRounds ==
  ASSUME TypeOK, RoundInv, [Next]_vars
  PROVE  \/ RoundsKept
         \/ \E s \in StarIds, k \in PushKeys, a \in PushAmounts :
              RequestPush(s, k, a)
<1>1. ASSUME UNCHANGED round PROVE RoundsKept
  BY <1>1 DEF RoundsKept, KeepsRange
<1>2. ASSUME NEW s \in StarIds, NEW o \in Outlays, DrawRound(s, o)
      PROVE  RoundsKept
  <2> DEFINE r == star[s].current_round
             rd == [round[s][r] EXCEPT !.status = "Requested", !.age = 0]
  <2>1. /\ round' = [round EXCEPT ![s] = [round[s] EXCEPT ![r] = rd]]
        /\ r \in RoundIds /\ round[s][r].status # "Absent"
    BY <1>2 DEF DrawRound, CloseableAt, IsOpen
  <2>2. KeepsRange(rd, round[s][r])
    BY <2>1, RestatedRange DEF KeepsRange, IsOpen, TypeOK
  <2> HIDE DEF rd, r
  <2> QED
    BY <2>1, <2>2, OneRoundKept
<1>3. ASSUME NEW s \in StarIds, NEW r \in RoundIds, ConsumeRandomness(s, r)
      PROVE  RoundsKept
  <2> DEFINE rd == [round[s][r] EXCEPT !.status = "Drawn", !.age = 0]
  <2>1. /\ round' = [round EXCEPT ![s] = [round[s] EXCEPT ![r] = rd]]
        /\ r \in RoundIds /\ round[s][r].status # "Absent"
    BY <1>3 DEF ConsumeRandomness
  <2>2. KeepsRange(rd, round[s][r])
    BY <2>1, RestatedRange DEF KeepsRange, IsOpen, TypeOK
  <2> HIDE DEF rd
  <2> QED
    BY <2>1, <2>2, OneRoundKept
<1>4. ASSUME NEW s \in StarIds, NEW r \in RoundIds, ExpireRound(s, r)
      PROVE  RoundsKept
  <2> DEFINE rd == [round[s][r] EXCEPT !.status = "Expired", !.age = 0]
  <2>1. /\ round' = [round EXCEPT ![s] = [round[s] EXCEPT ![r] = rd]]
        /\ r \in RoundIds /\ round[s][r].status # "Absent"
    BY <1>4 DEF ExpireRound, ExpirableAt
  <2>2. KeepsRange(rd, round[s][r])
    BY <2>1, RestatedRange DEF KeepsRange, IsOpen, TypeOK
  <2> HIDE DEF rd
  <2> QED
    BY <2>1, <2>2, OneRoundKept
<1>5. ASSUME NEW s \in StarIds, NEW r \in RoundIds, CloseRoundAccount(s, r)
      PROVE  RoundsKept
  <2>1. \A t \in StarIds, q \in RoundIds :
          round'[t][q] = IF t = s /\ q = r THEN NoRound ELSE round[t][q]
    BY <1>5 DEF CloseRoundAccount, TypeOK
  <2> QED
    BY <1>5, <2>1 DEF RoundsKept, KeepsRange, CloseRoundAccount
<1>6. ASSUME NextSlot PROVE RoundsKept
  <2> SUFFICES ASSUME NEW s \in StarIds, NEW r \in RoundIds
               PROVE  KeepsRange(round'[s][r], round[s][r])
    BY DEF RoundsKept
  <2> DEFINE old == round[s][r]
  <2>1. old \in RoundRecord
    BY DEF TypeOK
  <2>2. round'[s][r] = IF Waiting(old) THEN [old EXCEPT !.age = old.age + 1]
                                       ELSE old
    BY <1>6 DEF NextSlot
  <2>3. KeepsRange([old EXCEPT !.age = old.age + 1], old)
    BY <2>1 DEF KeepsRange, IsOpen, RoundRecord
  <2> QED
    BY <2>2, <2>3 DEF KeepsRange
<1>7. ASSUME NEW s \in StarIds, StarStep(s)
      PROVE  \/ RoundsKept
             \/ \E k \in PushKeys, a \in PushAmounts : RequestPush(s, k, a)
  BY <1>1, <1>2, <1>7
     DEF StarStep, Feed, CollapseStalledStar, ClaimPrize, ClaimHoleShare
<1>8. CASE \E s \in StarIds, r \in RoundIds : RoundStep(s, r)
  BY <1>3, <1>4, <1>5, <1>8 DEF RoundStep
<1>9. ASSUME NEW k \in PushKeys, ResolvePush(k) \/ ClosePush(k)
      PROVE  RoundsKept
  <2>1. ResolvePush(k) => UNCHANGED round
    BY DEF ResolvePush, RefundPush, SettlePush
  <2> QED
    BY <1>1, <1>9, <2>1 DEF ClosePush
<1>10. CASE CreateFirstStar \/ CreateNextStar
  BY <1>1, <1>10 DEF CreateFirstStar, CreateNextStar
<1>11. CASE HouseStep \/ NextSecond \/ UNCHANGED vars
  BY <1>1, <1>11
     DEF HouseStep, FundProtocol, WithdrawProtocolFees, NextSecond, vars
<1> QED
  BY <1>6, <1>7, <1>8, <1>9, <1>10, <1>11 DEF Next

\* A star that is born never loses mass.
LEMMA MassGrows ==
  ASSUME TypeOK, LineInv, RoundInv, PlaceInv, [Next]_vars,
         NEW s \in StarIds, star[s].status # "Unborn"
  PROVE  star'[s].total_mass >= star[s].total_mass
<1>1. \A t \in StarIds : star[t] \in StarRecord /\ star[t].total_mass \in Nat
  BY DEF TypeOK, StarRecord
<1>2. ASSUME UNCHANGED star PROVE star'[s].total_mass >= star[s].total_mass
  BY <1>1, <1>2
<1>3. ASSUME \A t \in StarIds : SameQueue(star'[t], star[t])
      PROVE  star'[s].total_mass >= star[s].total_mass
  BY <1>1, <1>3 DEF SameQueue
<1>4. CASE CreateFirstStar
  <2>1. star[1].status = "Unborn" /\ 1 \in StarIds
    BY <1>4 DEF CreateFirstStar, RoundInv
  <2>2. star'[s] = star[s]
    BY <1>4, <2>1 DEF CreateFirstStar, TypeOK
  <2> QED
    BY <1>1, <2>2
<1>5. CASE CreateNextStar
  <2> DEFINE new == current_star_id + 1
             prev == current_star_id
             older == [star[prev] EXCEPT !.next_star_created = TRUE]
             born == NewStar("Alive", Endowment)
  <2>1. /\ new \in StarIds /\ prev \in StarIds /\ new # prev
        /\ star[new].status = "Unborn"
    BY <1>5 DEF CreateNextStar, StarIds
  <2>2. older.total_mass = star[prev].total_mass
    BY <1>1, <2>1 DEF StarRecord
  <2>3. \A t \in StarIds :
          star'[t] = IF t = new THEN born
                     ELSE IF t = prev THEN older ELSE star[t]
    BY <1>5, <2>1 DEF CreateNextStar, TypeOK
  <2> HIDE DEF new, prev, older, born
  <2> QED
    BY <1>1, <2>1, <2>2, <2>3
<1>6. ASSUME NEW t \in StarIds, StarStep(t)
      PROVE  star'[s].total_mass >= star[s].total_mass
  <2>1. CASE \E p \in Players, a \in PushAmounts : Feed(t, p, a)
    <3>1. PICK amount \in Nat :
            /\ \A u \in StarIds : u # t => star'[u] = star[u]
            /\ star'[t].total_mass = star[t].total_mass + amount
      BY <2>1, FeedMoves
    <3> QED
      BY <1>1, <3>1
  <2>2. CASE CollapseStalledStar(t)
    <3>1. PICK prize : star' = [star EXCEPT ![t] = Finish(star[t], "Stalled", prize)]
      BY <2>2 DEF CollapseStalledStar
    <3>2. Finish(star[t], "Stalled", prize).total_mass = star[t].total_mass
      BY <1>1 DEF Finish, StarRecord
    <3> QED
      BY <1>1, <3>1, <3>2 DEF TypeOK
  <2>3. CASE \E k \in PushKeys, a \in PushAmounts : RequestPush(t, k, a)
    BY <1>1, <2>3, RequestMoves
  <2>4. CASE \/ \E o \in Outlays : DrawRound(t, o)
             \/ ClaimPrize(t)
             \/ \E p \in Players : ClaimHoleShare(t, p)
    BY <1>3, <2>4, OtherStarStepsSame
  <2> QED
    BY <1>6, <2>1, <2>2, <2>3, <2>4 DEF StarStep
<1>7. CASE \E t \in StarIds, r \in RoundIds : RoundStep(t, r)
  BY <1>3, <1>7, OtherStarStepsSame
<1>8. ASSUME NEW k \in PushKeys, ResolvePush(k) \/ ClosePush(k)
      PROVE  star'[s].total_mass >= star[s].total_mass
  <2>1. CASE RefundPush(k)
    BY <1>1, <2>1, RefundMoves
  <2>2. CASE \E rolls \in BOOLEAN : SettlePush(k, rolls)
    <3>1. pending_push[k].amount > 0
      BY <2>2 DEF SettlePush, AtCursor, PlaceInv, InPlace
    <3>2. PICK t \in StarIds :
            /\ pending_push[k].amount \in Nat
            /\ \A u \in StarIds : u # t => star'[u] = star[u]
            /\ star'[t].total_mass = star[t].total_mass + pending_push[k].amount
      BY <2>2, <3>1, SettleMoves
    <3> QED
      BY <1>1, <3>2
  <2> QED
    BY <1>2, <1>8, <2>1, <2>2 DEF ResolvePush, ClosePush
<1>9. CASE HouseStep \/ NextSlot \/ UNCHANGED vars
  BY <1>2, <1>9 DEF HouseStep, FundProtocol, WithdrawProtocolFees, NextSlot, vars
<1>10. CASE NextSecond
  BY <1>3, <1>10, NextSecondSame
<1> QED
  BY <1>4, <1>5, <1>6, <1>7, <1>8, <1>9, <1>10 DEF Next

\* No rewriting of a star touches its round counter.
LEMMA CounterKept ==
  ASSUME NEW st \in StarRecord, NEW new,
         \E amount, accepted, early, player, status, prize, quiet :
           \/ new = Joined(st, amount)
           \/ new = Fed(st, amount)
           \/ new = Finish(st, status, prize)
           \/ new = Refunded(st, amount)
           \/ new = CollapseIntoHole(Refunded(st, amount), early)
           \/ new = Landed(st, amount, accepted)
           \/ new = Kill(Landed(st, amount, accepted), player)
           \/ new = CollapseIntoHole(Landed(st, amount, accepted), early)
           \/ new = [st EXCEPT !.prize_claimed = TRUE]
           \/ new = [st EXCEPT !.next_star_created = TRUE]
           \/ new = [st EXCEPT !.quiet = quiet]
  PROVE  new.current_round = st.current_round
<1> DEFINE c == st.current_round
<1>1. \A amount : Joined(st, amount).current_round = c
  BY Zenon DEF StarRecord, Joined
<1>2. \A amount : Fed(st, amount).current_round = c
  BY Zenon DEF StarRecord, Fed
<1>3. \A status, prize : Finish(st, status, prize).current_round = c
  BY Zenon DEF StarRecord, Finish
<1>4. \A amount : Refunded(st, amount).current_round = c
  BY Zenon DEF StarRecord, Refunded
<1>5. \A amount, early :
        CollapseIntoHole(Refunded(st, amount), early).current_round = c
  BY Zenon DEF StarRecord, Refunded, CollapseIntoHole, Finish
<1>6. \A amount, accepted : Landed(st, amount, accepted).current_round = c
  BY Zenon DEF StarRecord, Landed
<1>7. \A amount, accepted, player :
        Kill(Landed(st, amount, accepted), player).current_round = c
  BY Zenon DEF StarRecord, Landed, Kill, Finish
<1>8. \A amount, accepted, early :
        CollapseIntoHole(Landed(st, amount, accepted), early).current_round = c
  BY Zenon DEF StarRecord, Landed, CollapseIntoHole, Finish
<1>9. \A quiet : /\ [st EXCEPT !.prize_claimed = TRUE].current_round = c
                 /\ [st EXCEPT !.next_star_created = TRUE].current_round = c
                 /\ [st EXCEPT !.quiet = quiet].current_round = c
  BY Zenon DEF StarRecord
<1> HIDE DEF c
<1>10. new.current_round = c
  <2>1. CASE \E amount, early :
               \/ new = Joined(st, amount)
               \/ new = Fed(st, amount)
               \/ new = Refunded(st, amount)
               \/ new = CollapseIntoHole(Refunded(st, amount), early)
    BY <1>1, <1>2, <1>4, <1>5, <2>1
  <2>2. CASE \E amount, accepted, early, player :
               \/ new = Landed(st, amount, accepted)
               \/ new = Kill(Landed(st, amount, accepted), player)
               \/ new = CollapseIntoHole(Landed(st, amount, accepted), early)
    BY <1>6, <1>7, <1>8, <2>2
  <2>3. CASE \E status, prize : new = Finish(st, status, prize)
    BY <1>3, <2>3
  <2>4. CASE \E quiet : \/ new = [st EXCEPT !.prize_claimed = TRUE]
                        \/ new = [st EXCEPT !.next_star_created = TRUE]
                        \/ new = [st EXCEPT !.quiet = quiet]
    BY <1>9, <2>4
  <2> QED
    BY <2>1, <2>2, <2>3, <2>4
<1> QED
  BY <1>10 DEF c

\* A star's round counter moves only when its current round is sealed or voided.
LEMMA CounterMoves ==
  ASSUME TypeOK, RoundInv, [Next]_vars, NEW s \in StarIds
  PROVE  \/ star'[s].current_round = star[s].current_round
         \/ \E o \in Outlays : DrawRound(s, o)
         \/ \E r \in RoundIds : ExpireRound(s, r)
<1> DEFINE Stays == star'[s].current_round = star[s].current_round
<1>1. star[s] \in StarRecord
  BY DEF TypeOK
<1>2. CASE UNCHANGED star
  BY <1>2
<1>3. ASSUME star[s].status = "Unborn",
             \E endowment : star'[s] = NewStar("Alive", endowment)
      PROVE  Stays
  BY <1>3 DEF RoundInv, StarRounds, NoTrace, NewStar
<1>4. CASE CreateFirstStar
  BY <1>2, <1>3, <1>4 DEF CreateFirstStar, RoundInv, TypeOK
<1>5. CASE CreateNextStar
  <2>1. \/ /\ star[s].status = "Unborn"
           /\ star'[s] = NewStar("Alive", Endowment)
        \/ star'[s] = [star[s] EXCEPT !.next_star_created = TRUE]
        \/ star'[s] = star[s]
    <3> DEFINE prev == current_star_id
               new == current_star_id + 1
    <3>1. /\ new \in StarIds /\ prev \in StarIds /\ new # prev
          /\ star[new].status = "Unborn"
          /\ star' = [star EXCEPT ![new] = NewStar("Alive", Endowment),
                                  ![prev].next_star_created = TRUE]
      BY <1>5 DEF CreateNextStar, StarIds
    <3> HIDE DEF prev, new
    <3> QED
      BY <3>1, Zenon DEF TypeOK
  <2> QED
    BY <1>1, <1>3, <2>1, CounterKept
<1>6. ASSUME NEW t \in StarIds, StarStep(t)
      PROVE  Stays \/ \E o \in Outlays : DrawRound(s, o)
  <2>1. ASSUME NEW p \in Players, NEW a \in PushAmounts, Feed(t, p, a)
        PROVE  Stays
    <3>1. \E amount : star'[s] = Fed(star[s], amount) \/ star'[s] = star[s]
      BY <2>1, Zenon DEF Feed, TypeOK
    <3> QED
      BY <1>1, <3>1, CounterKept
  <2>2. ASSUME CollapseStalledStar(t) PROVE Stays
    <3>1. \E prize : star' = [star EXCEPT ![t] = Finish(star[t], "Stalled", prize)]
      BY <2>2 DEF CollapseStalledStar
    <3>2. \E prize : \/ star'[s] = Finish(star[s], "Stalled", prize)
                     \/ star'[s] = star[s]
      BY <3>1, Zenon DEF TypeOK
    <3> QED
      BY <1>1, <3>2, CounterKept
  <2>3. ASSUME NEW k \in PushKeys, NEW a \in PushAmounts, RequestPush(t, k, a)
        PROVE  Stays
    <3>1. \E amount : star'[s] = Joined(star[s], amount) \/ star'[s] = star[s]
      BY <2>3, Zenon DEF RequestPush, TypeOK
    <3> QED
      BY <1>1, <3>1, CounterKept
  <2>4. ASSUME NEW o \in Outlays, DrawRound(t, o), t # s PROVE Stays
    BY <2>4 DEF DrawRound, TypeOK
  <2>5. ASSUME ClaimPrize(t) PROVE Stays
    BY <1>1, <2>5, CounterKept DEF ClaimPrize, TypeOK
  <2>6. ASSUME NEW p \in Players, ClaimHoleShare(t, p) PROVE Stays
    BY <2>6 DEF ClaimHoleShare
  <2> QED
    BY <1>6, <2>1, <2>2, <2>3, <2>4, <2>5, <2>6 DEF StarStep
<1>7. ASSUME NEW t \in StarIds, NEW r \in RoundIds, RoundStep(t, r)
      PROVE  Stays \/ ExpireRound(s, r)
  BY <1>7 DEF RoundStep, ConsumeRandomness, ExpireRound, CloseRoundAccount, TypeOK
<1>8. ASSUME NEW k \in PushKeys, ResolvePush(k) \/ ClosePush(k) PROVE Stays
  <2>1. ASSUME RefundPush(k) PROVE Stays
    <3>1. \E amount, early :
            \/ star'[s] = CollapseIntoHole(Refunded(star[s], amount), early)
            \/ star'[s] = Refunded(star[s], amount)
            \/ star'[s] = star[s]
      BY <2>1, Zenon DEF RefundPush, TypeOK
    <3> QED
      BY <1>1, <3>1, CounterKept
  <2>2. ASSUME NEW rolls \in BOOLEAN, SettlePush(k, rolls) PROVE Stays
    <3>1. \E amount, accepted, early, player :
            LET landed == Landed(star[s], amount, accepted)
            IN \/ star'[s] = Kill(landed, player)
               \/ star'[s] = CollapseIntoHole(landed, early)
               \/ star'[s] = landed
               \/ star'[s] = star[s]
      BY <2>2, Zenon DEF SettlePush, TypeOK
    <3> QED
      BY <1>1, <3>1, CounterKept
  <2> QED
    BY <1>2, <1>8, <2>1, <2>2 DEF ResolvePush, ClosePush
<1>9. CASE HouseStep \/ NextSlot \/ UNCHANGED vars
  BY <1>2, <1>9 DEF HouseStep, FundProtocol, WithdrawProtocolFees, NextSlot, vars
<1>10. CASE NextSecond
  <2>1. \E quiet : \/ star'[s] = [star[s] EXCEPT !.quiet = quiet]
                   \/ star'[s] = star[s]
    BY <1>10, Zenon DEF NextSecond
  <2> QED
    BY <1>1, <2>1, CounterKept
<1> QED
  BY <1>4, <1>5, <1>6, <1>7, <1>8, <1>9, <1>10 DEF Next

\* The numbers of a round.
LEMMA RoundNumbers ==
  ASSUME TypeOK, NEW s \in StarIds, NEW r \in RoundIds
  PROVE  /\ round[s][r].member_count \in Nat
         /\ round[s][r].first_push_id \in Nat
         /\ round[s][r].stake \in Nat
         /\ star[s].total_mass \in Nat
  BY DEF TypeOK, RoundRecord, StarRecord

\* A step that joins no round keeps every round a range: a round is only swept
\* when the cursor has passed it, and an id only passes before there are rounds.
LEMMA RangesKept ==
  ASSUME TypeOK, TypeOK', LineInv, RoundInv, PlaceInv, RangeInv, RoundsKept,
         \/ \E k \in PushKeys : HeadLeaves(k)
         \/ \E s \in StarIds : IdPasses(s)
         \/ \E k \in PushKeys : AccountSwept(k)
         \/ LinesStay,
         \A s \in StarIds : star[s].status # "Unborn" =>
           star'[s].total_mass >= star[s].total_mass,
         \A s \in StarIds : \/ star'[s].current_round = star[s].current_round
                            \/ ~IsOpen(round'[s][star[s].current_round])
  PROVE  RangeInv'
<1>1. ASSUME NEW j \in PushKeys
      PROVE  /\ pending_push'[j].status = "Pending" =>
                  pending_push'[j] = pending_push[j]
             /\ j \in InLine /\ pending_push'[j].status # "Pending" =>
                  LET s == pending_push[j].star_id
                  IN /\ pending_push[j].push_id = star[s].settle_cursor
                     /\ star'[s].settle_cursor = star[s].settle_cursor + 1
  <2>1. ASSUME NEW k \in PushKeys, HeadLeaves(k), j = k
        PROVE  /\ pending_push'[j].status # "Pending"
               /\ pending_push[j].push_id
                    = star[pending_push[j].star_id].settle_cursor
               /\ star'[pending_push[j].star_id].settle_cursor
                    = star[pending_push[j].star_id].settle_cursor + 1
    BY <2>1 DEF HeadLeaves, AtCursor, Resolved
  <2>2. ASSUME NEW k \in PushKeys, HeadLeaves(k) \/ AccountSwept(k), j # k
        PROVE  pending_push'[j] = pending_push[j]
    BY <2>2 DEF HeadLeaves, AccountSwept, OnlyPush
  <2>3. ASSUME NEW k \in PushKeys, AccountSwept(k), j = k
        PROVE  /\ pending_push'[j].status # "Pending"
               /\ j \notin InLine
    BY <2>3 DEF AccountSwept, Resolved, NoPush, InLine
  <2>4. ASSUME LinesStay \/ \E s \in StarIds : IdPasses(s)
        PROVE  pending_push'[j] = pending_push[j]
    BY <2>4 DEF LinesStay, IdPasses
  <2>5. j \in InLine => pending_push[j].status = "Pending"
    BY DEF InLine
  <2> QED
    BY <2>1, <2>2, <2>3, <2>4, <2>5
<1>2. \A s \in StarIds :
        /\ \/ star'[s].push_counter = star[s].push_counter
           \/ /\ star'[s].push_counter = star[s].push_counter + 1
              /\ star[s].total_mass < FEED_MASS
        /\ \/ star'[s].settle_cursor = star[s].settle_cursor
           \/ star'[s].settle_cursor = star[s].settle_cursor + 1
  <2>1. ASSUME NEW k \in PushKeys, HeadLeaves(k), NEW s \in StarIds
        PROVE  /\ star'[s].push_counter = star[s].push_counter
               /\ \/ star'[s].settle_cursor = star[s].settle_cursor
                  \/ star'[s].settle_cursor = star[s].settle_cursor + 1
    BY <2>1 DEF HeadLeaves, OnlyLine, SameLine
  <2>2. ASSUME NEW t \in StarIds, IdPasses(t), NEW s \in StarIds
        PROVE  /\ \/ star'[s].push_counter = star[s].push_counter
                  \/ /\ star'[s].push_counter = star[s].push_counter + 1
                     /\ star[s].total_mass < FEED_MASS
               /\ \/ star'[s].settle_cursor = star[s].settle_cursor
                  \/ star'[s].settle_cursor = star[s].settle_cursor + 1
    BY <2>2 DEF IdPasses, OnlyLine, SameLine
  <2> QED
    BY <2>1, <2>2 DEF AccountSwept, LinesStay, SameLine
<1>3. ASSUME NEW s \in StarIds, NEW r \in RoundIds,
             round'[s][r].status # "Absent"
      PROVE  /\ KeepsRange(round'[s][r], round[s][r])
             /\ star[s].status # "Unborn"
  BY <1>3 DEF RoundsKept, NoRound, KeepsRange, RoundInv, StarRounds, NoTrace
<1>4. ASSUME NEW j \in PushKeys PROVE InRange(j)'
  <2> SUFFICES ASSUME pending_push'[j].status = "Pending" PROVE InRange(j)'
    BY DEF InRange
  <2> DEFINE s == pending_push[j].star_id
             r == pending_push[j].round_id
             id == pending_push[j].push_id
             old == round[s][r]
  <2>1. /\ pending_push'[j] = pending_push[j]
        /\ pending_push[j].status = "Pending"
    BY <1>1
  <2>2. s \in StarIds /\ r \in RoundIds /\ id \in Nat
    BY <2>1, PushType
  <2>3. old.status # "Absent" /\ id \in IdsOf(old)
    BY <2>1 DEF RangeInv, InRange
  <2>4. star[s].settle_cursor <= id /\ star[s].settle_cursor \in Nat
    BY <2>1, <2>2, LineNumbers DEF PlaceInv, InPlace
  <2>5. ~IsDrained(old, star[s].settle_cursor)
    BY <2>2, <2>3, <2>4, RoundNumbers DEF IsDrained, IdsOf
  <2>6. KeepsRange(round'[s][r], old)
    BY <2>2, <2>5 DEF RoundsKept
  <2> QED
    BY <2>1, <2>3, <2>6 DEF InRange, KeepsRange, IdsOf
<1>5. ASSUME NEW s \in StarIds PROVE RangesApart(s)'
  BY <1>3 DEF RangesApart, KeepsRange, RangeInv
<1>6. ASSUME NEW s \in StarIds PROVE RangeEnds(s)'
  <2> SUFFICES
        ASSUME NEW r \in RoundIds
        PROVE  LET rd == round'[s][r]
               IN IF rd.status = "Absent" THEN rd.member_count = 0
                  ELSE /\ rd.first_push_id + rd.member_count
                            <= star'[s].push_counter
                       /\ IsOpen(rd) =>
                            /\ r = star'[s].current_round
                            /\ rd.first_push_id + rd.member_count
                                 = star'[s].push_counter
                       /\ star'[s].total_mass >= FEED_MASS
    BY DEF RangeEnds
  <2>1. CASE round'[s][r].status = "Absent"
    BY <2>1 DEF RoundsKept, KeepsRange, RangeInv, RangeEnds, NoRound
  <2>2. CASE round'[s][r].status # "Absent"
    <3>1. KeepsRange(round'[s][r], round[s][r]) /\ star[s].status # "Unborn"
      BY <1>3, <2>2
    <3>2. /\ round[s][r].status # "Absent"
          /\ round[s][r].first_push_id + round[s][r].member_count
               <= star[s].push_counter
          /\ IsOpen(round[s][r]) =>
               /\ r = star[s].current_round
               /\ round[s][r].first_push_id + round[s][r].member_count
                    = star[s].push_counter
          /\ star[s].total_mass >= FEED_MASS
      BY <2>2, <3>1 DEF RangeInv, RangeEnds, KeepsRange
    <3>3. /\ FEED_MASS \in Nat /\ star[s].total_mass \in Nat
          /\ star'[s].total_mass \in Nat
      BY MathAssumption DEF TypeOK, StarRecord
    <3>4. star'[s].push_counter = star[s].push_counter
      BY <1>2, <3>2, <3>3
    <3>5. star'[s].total_mass >= star[s].total_mass
      BY <3>1
    <3>6. star'[s].total_mass >= FEED_MASS
      BY <3>2, <3>3, <3>5
    <3> QED
      BY <2>2, <3>1, <3>2, <3>4, <3>6 DEF KeepsRange
  <2> QED
    BY <2>1, <2>2
<1>7. ASSUME NEW s \in StarIds, NEW r \in RoundIds,
             round'[s][r].first_push_id >= star'[s].settle_cursor,
             round'[s][r].status # "Absent"
      PROVE  round'[s][r].stake = Total(Escrowed', Members(s, r)')
  <2> DEFINE first == round[s][r].first_push_id
  <2>1. KeepsRange(round'[s][r], round[s][r]) /\ round[s][r].status # "Absent"
    BY <1>3, <1>7 DEF KeepsRange
  <2>2. first \in Nat /\ star[s].settle_cursor \in Nat
    BY RoundNumbers, LineNumbers
  <2>3. first >= star[s].settle_cursor /\ first >= star'[s].settle_cursor
    BY <1>2, <1>7, <2>1, <2>2 DEF KeepsRange
  <2>4. \A j \in Members(s, r) :
          /\ j \in PushKeys /\ j \in InLine
          /\ pending_push[j].star_id = s /\ pending_push[j].round_id = r
          /\ pending_push[j].push_id \in Nat /\ pending_push[j].push_id >= first
    <3> SUFFICES ASSUME NEW j \in Members(s, r)
                 PROVE  /\ j \in PushKeys /\ j \in InLine
                        /\ pending_push[j].star_id = s
                        /\ pending_push[j].round_id = r
                        /\ pending_push[j].push_id \in Nat
                        /\ pending_push[j].push_id >= first
      OBVIOUS
    <3>1. /\ j \in PushKeys /\ j \in InLine /\ pending_push[j].star_id = s
          /\ pending_push[j].round_id = r /\ pending_push[j].status = "Pending"
      BY DEF Members, PendingOn, InLine
    <3>2. pending_push[j].push_id \in Nat
          /\ pending_push[j].push_id \in IdsOf(round[s][r])
      BY <3>1, PushType DEF RangeInv, InRange
    <3> QED
      BY <2>2, <3>1, <3>2, RoundNumbers DEF IdsOf
  <2>5. \A j \in Members(s, r) : /\ pending_push'[j].status = "Pending"
                                 /\ pending_push'[j] = pending_push[j]
    BY <1>1, <2>2, <2>3, <2>4
  <2>6. Members(s, r)' = Members(s, r)
    <3>1. ASSUME NEW j \in Members(s, r)' PROVE j \in Members(s, r)
      BY <1>1, <3>1 DEF Members, PendingOn, InLine
    <3>2. ASSUME NEW j \in Members(s, r) PROVE j \in Members(s, r)'
      BY <2>4, <2>5, <3>2 DEF Members, PendingOn, InLine
    <3> QED
      BY <3>1, <3>2
  <2>7. Total(Escrowed', Members(s, r)) = Total(Escrowed, Members(s, r))
    BY <2>4, <2>5, StakesKept
  <2> QED
    BY <2>1, <2>3, <2>6, <2>7 DEF RangeInv, StakeIsMembers, KeepsRange
<1> QED
  BY <1>4, <1>5, <1>6, <1>7 DEF RangeInv, StakeIsMembers

\* What request_push does to the star's rounds: its current round has one member
\* more, and starts at the member's id if it had none.
LEMMA RequestRound ==
  ASSUME TypeOK, NEW s \in StarIds, NEW k \in PushKeys, NEW a \in PushAmounts,
         RequestPush(s, k, a)
  PROVE  LET p == pending_push'[k]
             r == star[s].current_round
             old == round[s][r]
             new == round'[s][r]
             opens == old.member_count = 0
         IN /\ r \in RoundIds
            /\ IsOpen(new) /\ (~opens => IsOpen(old))
            /\ new.member_count = IF opens THEN 1 ELSE old.member_count + 1
            /\ new.stake = IF opens THEN p.amount ELSE old.stake + p.amount
            /\ new.first_push_id = IF opens THEN star[s].push_counter
                                            ELSE old.first_push_id
            /\ \A t \in StarIds, q \in RoundIds :
                 t # s \/ q # r => round'[t][q] = round[t][q]
<1> DEFINE st == star[s]
           r == st.current_round
           old == round[s][r]
           amount == AcceptPushAmount(a, QueueRoom(st))
           rd == IF old.member_count = 0
                 THEN [NoRound EXCEPT !.status = "Open",
                                      !.first_push_id = st.push_counter]
                 ELSE old
           joined == [rd EXCEPT !.member_count = rd.member_count + 1,
                                !.stake = rd.stake + amount]
<1>1. /\ r \in RoundIds /\ IsOpen(rd)
      /\ round' = [round EXCEPT ![s] = [round[s] EXCEPT ![r] = joined]]
      /\ pending_push'[k].amount = amount
  BY DEF RequestPush, TypeOK
<1>2. old \in RoundRecord
  BY <1>1 DEF TypeOK
<1>3. amount \in Nat
  <2>1. pending_push'[k] = [status |-> "Pending", star_id |-> s,
                            push_id |-> st.push_counter, round_id |-> r,
                            amount |-> amount]
    BY DEF RequestPush, TypeOK
  <2>2. a \in Nat /\ st.total_mass \in Nat /\ st.pending_lamports \in Nat
    BY SoldustAssumption DEF TypeOK, StarRecord
  <2>3. QueueRoom(st) \in Nat
    BY <2>2, RoomType DEF QueueRoom, CommittedMass
  <2> QED
    BY <2>2, <2>3, AcceptRange
<1>4. CASE old.member_count = 0
  <2>1. /\ joined.status = "Open" /\ joined.member_count = 1
        /\ joined.stake = amount /\ joined.first_push_id = st.push_counter
    <3>1. rd = [status |-> "Open", member_count |-> 0, stake |-> 0,
                first_push_id |-> st.push_counter, age |-> 0]
      BY <1>4 DEF NoRound
    <3> HIDE DEF rd, amount
    <3>2. /\ joined.status = "Open" /\ joined.member_count = 0 + 1
          /\ joined.stake = 0 + amount
          /\ joined.first_push_id = st.push_counter
      BY <3>1
    <3> HIDE DEF joined
    <3> QED
      BY <1>3, <3>2
  <2> HIDE DEF joined
  <2>2. \A t \in StarIds, q \in RoundIds :
          round'[t][q] = IF t = s /\ q = r THEN joined ELSE round[t][q]
    BY <1>1 DEF TypeOK
  <2> QED
    BY <1>1, <1>4, <2>1, <2>2 DEF IsOpen
<1>5. CASE old.member_count # 0
  <2>1. /\ joined.status = old.status
        /\ joined.member_count = old.member_count + 1
        /\ joined.stake = old.stake + amount
        /\ joined.first_push_id = old.first_push_id
        /\ IsOpen(old)
    BY <1>1, <1>2, <1>5 DEF RoundRecord
  <2> HIDE DEF joined
  <2>2. \A t \in StarIds, q \in RoundIds :
          round'[t][q] = IF t = s /\ q = r THEN joined ELSE round[t][q]
    BY <1>1 DEF TypeOK
  <2> QED
    BY <1>1, <1>5, <2>1, <2>2 DEF IsOpen
<1> QED
  BY <1>4, <1>5

\* A stake that joins lengthens its star's current round by its id, or opens it.
LEMMA RangesJoin ==
  ASSUME TypeOK, TypeOK', LineInv, RoundInv, PlaceInv, RangeInv,
         NEW s \in StarIds, NEW k \in PushKeys, NEW a \in PushAmounts,
         RequestPush(s, k, a)
  PROVE  RangeInv'
<1> DEFINE c == star[s].push_counter
           r == star[s].current_round
           old == round[s][r]
           new == round'[s][r]
           p == pending_push'[k]
           opens == old.member_count = 0
<1>1. /\ r \in RoundIds /\ IsOpen(new) /\ (~opens => IsOpen(old))
      /\ new.member_count = IF opens THEN 1 ELSE old.member_count + 1
      /\ new.stake = IF opens THEN p.amount ELSE old.stake + p.amount
      /\ new.first_push_id = IF opens THEN c ELSE old.first_push_id
  BY RequestRound
<1>2. \A t \in StarIds, q \in RoundIds :
        t # s \/ q # r => round'[t][q] = round[t][q]
  BY RequestRound
<1>3. StakeJoins(s, k)
  BY RequestMoves
<1>4. /\ pending_push[k].status = "Absent"
      /\ p.status = "Pending" /\ p.star_id = s /\ p.push_id = c
      /\ p.round_id = r /\ p.amount \in Nat
      /\ \A j \in PushKeys : j # k => pending_push'[j] = pending_push[j]
      /\ star'[s].push_counter = c + 1
      /\ star'[s].settle_cursor = star[s].settle_cursor
  BY <1>3 DEF StakeJoins, OnlyPush
<1>5. /\ \A t \in StarIds : t # s => star'[t] = star[t]
      /\ star'[s].total_mass = star[s].total_mass
      /\ star[s].total_mass >= FEED_MASS
  BY RequestMoves
<1>6. star'[s].current_round = r
  <2>1. \E amount : star'[s] = Joined(star[s], amount)
    BY DEF RequestPush, TypeOK
  <2> QED
    BY <2>1, CounterKept DEF TypeOK
<1>7. /\ c \in Nat /\ r \in Nat /\ star[s].settle_cursor \in Nat
      /\ star[s].settle_cursor <= c
      /\ old.member_count \in Nat /\ old.first_push_id \in Nat
      /\ old.stake \in Nat
  BY <1>1, LineNumbers, RoundNumbers DEF RoundIds
<1>8. \A q \in RoundIds :
        /\ round[s][q].member_count \in Nat
        /\ round[s][q].first_push_id \in Nat
        /\ round[s][q].status # "Absent" =>
             /\ q <= r
             /\ round[s][q].first_push_id + round[s][q].member_count <= c
             /\ IsOpen(round[s][q]) => q = r
  BY RoundNumbers DEF RoundInv, StarRounds, RoundsBehind, RangeInv, RangeEnds
<1>9. /\ opens => old.status = "Absent"
      /\ ~opens => /\ old.status # "Absent"
                   /\ old.first_push_id + old.member_count = c
  <2>1. old.status # "Absent" => old.member_count > 0
    BY <1>1 DEF RoundInv, StarRounds, RoundsBehind
  <2>2. IsOpen(old) => /\ old.status # "Absent"
                       /\ old.first_push_id + old.member_count = c
    BY <1>1 DEF RangeInv, RangeEnds, IsOpen
  <2> QED
    BY <1>1, <2>1, <2>2
<1>10. /\ new.member_count \in Nat /\ new.first_push_id \in Nat
       /\ new.first_push_id + new.member_count = c + 1
       /\ new.first_push_id <= c /\ new.status # "Absent"
  BY <1>1, <1>7, <1>9 DEF IsOpen
<1> HIDE DEF c, r, old, new, p, opens
<1>11. ASSUME NEW j \in PushKeys PROVE InRange(j)'
  <2>1. CASE j = k
    BY <1>4, <1>7, <1>10, <2>1 DEF InRange, IdsOf, new, p
  <2>2. CASE j # k
    <3> SUFFICES ASSUME pending_push'[j].status = "Pending" PROVE InRange(j)'
      BY DEF InRange
    <3> DEFINE t == pending_push[j].star_id
               q == pending_push[j].round_id
               id == pending_push[j].push_id
    <3>1. /\ pending_push'[j] = pending_push[j]
          /\ pending_push[j].status = "Pending"
      BY <1>4, <2>2
    <3>2. /\ t \in StarIds /\ q \in RoundIds /\ id \in Nat
          /\ round[t][q].status # "Absent" /\ id \in IdsOf(round[t][q])
      BY <3>1, PushType DEF RangeInv, InRange
    <3>3. CASE t = s /\ q = r
      <4>1. old.status # "Absent" /\ id \in IdsOf(old)
        BY <3>2, <3>3 DEF old
      <4>2. id \in IdsOf(new)
        BY <1>1, <1>7, <1>9, <1>10, <3>2, <4>1 DEF IdsOf
      <4> QED
        BY <1>10, <3>1, <3>3, <4>2 DEF InRange, new
    <3>4. CASE ~(t = s /\ q = r)
      BY <1>2, <3>1, <3>2, <3>4 DEF InRange
    <3> QED
      BY <3>3, <3>4
  <2> QED
    BY <2>1, <2>2
<1>12. ASSUME NEW t \in StarIds PROVE RangesApart(t)'
  <2>1. CASE t # s
    BY <1>2, <2>1 DEF RangesApart, RangeInv
  <2>2. ASSUME NEW q \in RoundIds, NEW u \in RoundIds, q < u,
               round'[s][q].status # "Absent", round'[s][u].status # "Absent"
        PROVE  round'[s][q].first_push_id + round'[s][q].member_count
                 <= round'[s][u].first_push_id
    <3>1. CASE q # r /\ u # r
      BY <1>2, <2>2, <3>1 DEF RangesApart, RangeInv
    <3>2. CASE u = r
      <4>1. q # r /\ round'[s][q] = round[s][q]
        BY <1>2, <1>7, <2>2, <3>2 DEF RoundIds
      <4>2. round[s][q].first_push_id + round[s][q].member_count <= c
        BY <1>8, <2>2, <4>1
      <4>3. ~opens => round[s][q].first_push_id + round[s][q].member_count
                        <= old.first_push_id
        BY <1>9, <2>2, <3>2, <4>1 DEF RangesApart, RangeInv, old
      <4> QED
        BY <1>1, <3>2, <4>1, <4>2, <4>3 DEF new
    <3>3. CASE q = r
      <4>1. u # r /\ u > r
        BY <1>7, <2>2, <3>3 DEF RoundIds
      <4>2. round'[s][u] = round[s][u]
        BY <1>2, <4>1
      <4> QED
        BY <1>7, <1>8, <2>2, <4>1, <4>2 DEF RoundIds
    <3> QED
      BY <3>1, <3>2, <3>3
  <2> QED
    BY <2>1, <2>2 DEF RangesApart
<1>13. ASSUME NEW t \in StarIds PROVE RangeEnds(t)'
  <2>1. CASE t # s
    BY <1>2, <1>5, <2>1 DEF RangeEnds, RangeInv
  <2>2. ASSUME NEW q \in RoundIds
        PROVE  LET rd == round'[s][q]
               IN IF rd.status = "Absent" THEN rd.member_count = 0
                  ELSE /\ rd.first_push_id + rd.member_count
                            <= star'[s].push_counter
                       /\ IsOpen(rd) =>
                            /\ q = star'[s].current_round
                            /\ rd.first_push_id + rd.member_count
                                 = star'[s].push_counter
                       /\ star'[s].total_mass >= FEED_MASS
    <3>1. CASE q = r
      BY <1>4, <1>5, <1>6, <1>7, <1>10, <3>1 DEF new
    <3>2. CASE q # r
      <4>1. round'[s][q] = round[s][q]
        BY <1>2, <3>2
      <4>2. round[s][q].status = "Absent" => round[s][q].member_count = 0
        BY DEF RangeInv, RangeEnds
      <4> QED
        BY <1>4, <1>5, <1>7, <1>8, <3>2, <4>1, <4>2
    <3> QED
      BY <3>1, <3>2
  <2> QED
    BY <2>1, <2>2 DEF RangeEnds
<1>14. ASSUME NEW t \in StarIds, NEW q \in RoundIds,
              round'[t][q].first_push_id >= star'[t].settle_cursor,
              round'[t][q].status # "Absent"
       PROVE  round'[t][q].stake = Total(Escrowed', Members(t, q)')
  <2>1. star'[t].settle_cursor = star[t].settle_cursor
    BY <1>4, <1>5
  <2>2. Members(t, q) \in SUBSET PushKeys /\ k \notin Members(t, q)
    BY <1>4 DEF Members, PendingOn, InLine
  <2>3. CASE ~(t = s /\ q = r)
    <3>1. Members(t, q)' = Members(t, q)
      BY <1>4, <2>3 DEF Members, PendingOn, InLine, p
    <3>2. Total(Escrowed', Members(t, q)) = Total(Escrowed, Members(t, q))
      BY <1>4, <2>2, StakesKept
    <3>3. round'[t][q] = round[t][q]
      BY <1>2, <2>3
    <3> QED
      BY <1>14, <2>1, <3>1, <3>2, <3>3 DEF RangeInv, StakeIsMembers
  <2>4. CASE t = s /\ q = r
    <3>1. Members(t, q)' = Members(t, q) \cup {k}
      BY <1>4, <2>4 DEF Members, PendingOn, InLine, p
    <3>2. Total(Escrowed', Members(t, q) \cup {k})
            = Total(Escrowed, Members(t, q)) + p.amount
      BY <1>3, <2>2, StakeAdded DEF StakeJoins, p
    <3>3. CASE opens
      <4>1. Members(t, q) = {}
        BY <1>9, <2>4, <3>3, PushType DEF Members, PendingOn, InLine, RangeInv,
                                    InRange, old
      <4>2. Total(Escrowed, Members(t, q)) = 0
        BY <4>1, FS_EmptySet, TotalUnfolds
      <4> QED
        BY <1>1, <1>4, <2>4, <3>1, <3>2, <3>3, <4>2 DEF new
    <3>4. CASE ~opens
      <4>1. old.stake = Total(Escrowed, Members(t, q))
        BY <1>1, <1>9, <1>14, <2>1, <2>4, <3>4
           DEF RangeInv, StakeIsMembers, new, old
      <4> QED
        BY <1>1, <2>4, <3>1, <3>2, <3>4, <4>1 DEF new
    <3> QED
      BY <3>3, <3>4
  <2> QED
    BY <2>3, <2>4
<1> QED
  BY <1>11, <1>12, <1>13, <1>14 DEF RangeInv, StakeIsMembers

\* The rounds are ranges in every reachable state.
LEMMA RangesAlways == Spec => []RangeInv
<1>1. Init => RangeInv
  <2> SUFFICES ASSUME Init PROVE RangeInv
    OBVIOUS
  <2>1. /\ \A k \in PushKeys : pending_push[k].status = "Absent"
        /\ \A s \in StarIds, r \in RoundIds :
             round[s][r].status = "Absent" /\ round[s][r].member_count = 0
    BY DEF Init, NoPush, NoRound
  <2> QED
    BY <2>1 DEF RangeInv, InRange, RangesApart, RangeEnds, StakeIsMembers
<1>2. ASSUME TypeOK, TypeOK', LineInv, RoundInv, EscrowBacked, PlaceInv,
             RangeInv, [Next]_vars
      PROVE  RangeInv'
  <2>1. CASE \E s \in StarIds, k \in PushKeys, a \in PushAmounts :
               RequestPush(s, k, a)
    BY <1>2, <2>1, RangesJoin
  <2>2. CASE ~\E s \in StarIds, k \in PushKeys, a \in PushAmounts :
                RequestPush(s, k, a)
    <3>1. RoundsKept
      BY <1>2, <2>2, StepKeepsRounds
    <3>2. ASSUME NEW s \in StarIds
          PROVE  \/ star'[s].current_round = star[s].current_round
                 \/ ~IsOpen(round'[s][star[s].current_round])
      <4>1. ASSUME NEW o \in Outlays, DrawRound(s, o)
            PROVE  ~IsOpen(round'[s][star[s].current_round])
        BY <1>2, <4>1 DEF DrawRound, IsOpen, TypeOK
      <4>2. ASSUME NEW r \in RoundIds, ExpireRound(s, r),
                   star'[s].current_round # star[s].current_round
            PROVE  ~IsOpen(round'[s][star[s].current_round])
        <5>1. star'[s].current_round = AfterVoiding(star[s], round[s][r])
          BY <1>2, <4>2, CounterBound DEF ExpireRound, TypeOK, StarRecord
        <5>2. r = star[s].current_round
          BY <4>2, <5>1 DEF ExpireRound, AfterVoiding
        <5> QED
          BY <1>2, <4>2, <5>2 DEF ExpireRound, IsOpen, TypeOK
      <4> QED
        BY <1>2, <4>1, <4>2, CounterMoves
    <3>3. \A s \in StarIds : star[s].status # "Unborn" =>
            star'[s].total_mass >= star[s].total_mass
      BY <1>2, MassGrows
    <3>4. \/ \E k \in PushKeys : HeadLeaves(k)
          \/ \E s \in StarIds : IdPasses(s)
          \/ \E k \in PushKeys : AccountSwept(k)
          \/ LinesStay
      BY <1>2, <2>2, LineMoves
    <3> QED
      BY <1>2, <3>1, <3>2, <3>3, <3>4, RangesKept
  <2> QED
    BY <2>1, <2>2
<1> QED
  BY <1>1, <1>2, TypeCorrect, LineInvAlways, RoundInvAlways, LinesAlways, PTL
     DEF Spec

\* A round that exists has a member left exactly if the cursor has not passed its
\* last id.
LEMMA DrainedHasNone ==
  ASSUME TypeOK, LineInv, RoundInv, PlaceInv, RangeInv,
         NEW s \in StarIds, NEW r \in RoundIds, round[s][r].status # "Absent"
  PROVE  IsDrained(round[s][r], star[s].settle_cursor) <=> Members(s, r) = {}
<1> DEFINE first == round[s][r].first_push_id
           count == round[s][r].member_count
           cursor == star[s].settle_cursor
           counter == star[s].push_counter
<1>1. /\ first \in Nat /\ count \in Nat /\ count > 0
      /\ cursor \in Nat /\ counter \in Nat
      /\ first + count <= counter
  BY RoundNumbers, LineNumbers
     DEF RoundInv, StarRounds, RoundsBehind, RangeInv, RangeEnds
<1>2. ASSUME NEW k \in Members(s, r), cursor >= first + count PROVE FALSE
  <2>1. /\ k \in PushKeys /\ pending_push[k].status = "Pending"
        /\ pending_push[k].star_id = s /\ pending_push[k].round_id = r
    BY DEF Members, PendingOn, InLine
  <2>2. /\ pending_push[k].push_id \in Nat
        /\ pending_push[k].push_id >= cursor
        /\ pending_push[k].push_id \in IdsOf(round[s][r])
    BY <2>1, PushType DEF PlaceInv, InPlace, RangeInv, InRange
  <2> QED
    BY <1>1, <1>2, <2>2 DEF IdsOf
<1>3. ASSUME cursor < first + count PROVE Members(s, r) # {}
  <2> DEFINE id == IF cursor <= first THEN first ELSE cursor
  <2>1. /\ id \in cursor .. counter - 1
        /\ first <= id /\ id < first + count
    BY <1>1, <1>3
  <2>2. PICK k \in PendingOn(s) : pending_push[k].push_id = id
    BY <2>1 DEF PlaceInv, NoGap
  <2> DEFINE q == pending_push[k].round_id
  <2>3. /\ k \in PushKeys /\ pending_push[k].status = "Pending"
        /\ pending_push[k].star_id = s
    BY DEF PendingOn, InLine
  <2>4. q \in RoundIds
    BY <2>3, PushType
  <2>5. round[s][q].status # "Absent" /\ id \in IdsOf(round[s][q])
    BY <2>2, <2>3 DEF RangeInv, InRange
  <2> HIDE DEF q, id
  <2>6. /\ round[s][q].first_push_id \in Nat /\ round[s][q].member_count \in Nat
        /\ round[s][q].first_push_id <= id
        /\ id < round[s][q].first_push_id + round[s][q].member_count
        /\ id \in Nat /\ q \in Nat /\ r \in Nat
    BY <1>1, <2>1, <2>4, <2>5, RoundNumbers DEF IdsOf, RoundIds
  <2>7. /\ q < r => round[s][q].first_push_id + round[s][q].member_count <= first
        /\ r < q => first + count <= round[s][q].first_push_id
    BY <2>4, <2>5 DEF RangeInv, RangesApart
  <2>8. q = r
    BY <1>1, <2>1, <2>6, <2>7
  <2> QED
    BY <2>8 DEF Members, q
<1> QED
  BY <1>1, <1>2, <1>3 DEF IsDrained

\* A round's range of ids is exact: its members in line are inside it, the ranges
\* of a star's rounds do not overlap, and what close_round_account asks of the
\* cursor says whether a member is left.
THEOREM RoundsAlwaysRanges == Spec => []RoundsAreRanges
<1>1. ASSUME TypeOK, LineInv, RoundInv, PlaceInv, RangeInv
      PROVE  RoundsAreRanges
  <2> SUFFICES
        ASSUME NEW s \in StarIds, NEW r \in RoundIds
        PROVE  LET rd == round[s][r]
               IN /\ \A k \in Members(s, r) :
                       /\ rd.status # "Absent"
                       /\ pending_push[k].push_id \in IdsOf(rd)
                  /\ \A q \in RoundIds :
                       q < r => IdsOf(round[s][q]) \cap IdsOf(rd) = {}
                  /\ rd.status # "Absent" =>
                       (IsDrained(rd, star[s].settle_cursor)
                          <=> Members(s, r) = {})
    BY DEF RoundsAreRanges
  <2>1. ASSUME NEW k \in Members(s, r)
        PROVE  /\ round[s][r].status # "Absent"
               /\ pending_push[k].push_id \in IdsOf(round[s][r])
    <3>1. /\ k \in PushKeys /\ pending_push[k].status = "Pending"
          /\ pending_push[k].star_id = s /\ pending_push[k].round_id = r
      BY DEF Members, PendingOn, InLine
    <3> QED
      BY <1>1, <3>1 DEF RangeInv, InRange
  <2>2. ASSUME NEW q \in RoundIds, q < r, NEW id \in IdsOf(round[s][q]),
               id \in IdsOf(round[s][r])
        PROVE  FALSE
    <3>1. \A u \in {q, r} :
            /\ round[s][u].first_push_id \in Nat
            /\ round[s][u].member_count \in Nat
            /\ round[s][u].first_push_id <= id
            /\ id < round[s][u].first_push_id + round[s][u].member_count
            /\ id \in Int
      BY <1>1, <2>2, RoundNumbers DEF IdsOf
    <3>2. \A u \in {q, r} : round[s][u].status # "Absent"
      BY <1>1, <3>1 DEF RangeInv, RangeEnds
    <3>3. round[s][q].first_push_id + round[s][q].member_count
            <= round[s][r].first_push_id
      BY <1>1, <2>2, <3>2 DEF RangeInv, RangesApart
    <3> QED
      BY <3>1, <3>3
  <2> QED
    BY <1>1, <2>1, <2>2, DrainedHasNone
<1> QED
  BY <1>1, TypeCorrect, LineInvAlways, RoundInvAlways, LinesAlways,
     RangesAlways, PTL

\* The stake a round records is what its members escrowed, for as long as none of
\* them has left the line: what draw_round prices the draw against.
THEOREM StakeAlwaysMembers == Spec => []StakeIsMembers
<1>1. RangeInv => StakeIsMembers
  BY DEF RangeInv
<1> QED
  BY <1>1, RangesAlways, PTL

-----------------------------------------------------------------------------
(* How a star ends                                                         *)

\* What a step does to the pushes.
LEMMA PushSteps ==
  ASSUME [Next]_vars
  PROVE  \/ \E s \in StarIds, k \in PushKeys, a \in PushAmounts :
              RequestPush(s, k, a)
         \/ \E k \in PushKeys : RefundPush(k)
         \/ \E k \in PushKeys, rolls \in BOOLEAN : SettlePush(k, rolls)
         \/ \E k \in PushKeys : ClosePush(k)
         \/ UNCHANGED pending_push
<1>1. ASSUME NEW s \in StarIds, StarStep(s)
      PROVE  \/ \E k \in PushKeys, a \in PushAmounts : RequestPush(s, k, a)
             \/ UNCHANGED pending_push
  BY <1>1 DEF StarStep, Feed, CollapseStalledStar, DrawRound, ClaimPrize,
              ClaimHoleShare
<1>2. ASSUME NEW s \in StarIds, NEW r \in RoundIds, RoundStep(s, r)
      PROVE  UNCHANGED pending_push
  BY <1>2 DEF RoundStep, ConsumeRandomness, ExpireRound, CloseRoundAccount
<1>3. HouseStep => UNCHANGED pending_push
  BY DEF HouseStep, FundProtocol, WithdrawProtocolFees
<1>4. CreateFirstStar \/ CreateNextStar \/ NextSlot \/ NextSecond
        \/ UNCHANGED vars
        => UNCHANGED pending_push
  BY DEF CreateFirstStar, CreateNextStar, NextSlot, NextSecond, vars
<1> QED
  BY <1>1, <1>2, <1>3, <1>4 DEF Next, ResolvePush

\* A kill is the last thing that lands on its star.
LEMMA KillLasts ==
  ASSUME TypeOK, TypeOK', LineInv, RoundInv, PlaceInv, NothingLandsAfterKill,
         [Next]_vars
  PROVE  NothingLandsAfterKill'
<1> SUFFICES
      ASSUME NEW k \in PushKeys, pending_push'[k].status = "Killed"
      PROVE  LET p == pending_push'[k]
             IN /\ star'[p.star_id].status = "Dead"
                /\ star'[p.star_id].killer = k[1]
                /\ \A j \in PushKeys :
                     /\ pending_push'[j].star_id = p.star_id
                     /\ pending_push'[j].push_id > p.push_id
                     => pending_push'[j].status \in {"Pending", "Cancelled"}
  BY DEF NothingLandsAfterKill
<1> DEFINE s == pending_push[k].star_id
           id == pending_push[k].push_id
           After(j) == /\ pending_push[j].star_id = s
                       /\ pending_push[j].push_id > id
           Later(j) == /\ pending_push'[j].star_id = s
                       /\ pending_push'[j].push_id > id
                       => pending_push'[j].status \in {"Pending", "Cancelled"}
<1>1. ASSUME pending_push'[k] = pending_push[k],
             \A j \in PushKeys : Later(j)
      PROVE  /\ star'[s].status = "Dead" /\ star'[s].killer = k[1]
             /\ pending_push'[k].star_id = s /\ pending_push'[k].push_id = id
             /\ \A j \in PushKeys : Later(j)
  <2>1. /\ s \in StarIds /\ star[s].status = "Dead" /\ star[s].killer = k[1]
    BY <1>1, PushType DEF NothingLandsAfterKill
  <2>2. SameOutcome(star'[s], star[s])
    BY <2>1, StepKeepsOutcome DEF IsFinished
  <2> QED
    BY <1>1, <2>1, <2>2 DEF SameOutcome
<1>2. ASSUME pending_push[k].status = "Killed"
      PROVE  /\ star[s].status = "Dead"
             /\ \A j \in PushKeys :
                  After(j) => pending_push[j].status \in {"Pending", "Cancelled"}
  BY <1>2 DEF NothingLandsAfterKill
<1>3. CASE UNCHANGED pending_push
  BY <1>1, <1>2, <1>3
<1>4. ASSUME NEW h \in PushKeys, ClosePush(h)
      PROVE  /\ pending_push'[k] = pending_push[k]
             /\ \A j \in PushKeys : Later(j)
  <2>1. \A j \in PushKeys :
          pending_push'[j] = IF j = h THEN NoPush ELSE pending_push[j]
    BY <1>4 DEF ClosePush, TypeOK
  <2>2. pending_push'[k] = pending_push[k]
    BY <2>1 DEF NoPush
  <2>3. s # NoPush.star_id
    BY <2>2, PushType DEF NoPush, StarIds
  <2> QED
    BY <1>2, <2>1, <2>2, <2>3
<1>5. ASSUME NEW t \in StarIds, NEW h \in PushKeys, NEW a \in PushAmounts,
             RequestPush(t, h, a)
      PROVE  /\ pending_push'[k] = pending_push[k]
             /\ \A j \in PushKeys : Later(j)
  <2>1. /\ pending_push'[h].status = "Pending"
        /\ \A j \in PushKeys : j # h => pending_push'[j] = pending_push[j]
    BY <1>5, RequestMoves DEF StakeJoins, OnlyPush
  <2> QED
    BY <1>2, <2>1
<1>6. ASSUME NEW h \in PushKeys, RefundPush(h)
      PROVE  /\ pending_push'[k] = pending_push[k]
             /\ \A j \in PushKeys : Later(j)
  <2>1. /\ pending_push'[h].status = "Cancelled"
        /\ \A j \in PushKeys : j # h => pending_push'[j] = pending_push[j]
    BY <1>6, RefundMoves DEF HeadLeaves, OnlyPush
  <2> QED
    BY <1>2, <2>1
<1>7. ASSUME NEW h \in PushKeys, NEW rolls \in BOOLEAN, SettlePush(h, rolls)
      PROVE  \/ /\ pending_push'[k] = pending_push[k]
                /\ \A j \in PushKeys : Later(j)
             \/ /\ star'[s].status = "Dead" /\ star'[s].killer = k[1]
                /\ pending_push'[k].star_id = s /\ pending_push'[k].push_id = id
                /\ \A j \in PushKeys : Later(j)
  <2> DEFINE t == pending_push[h].star_id
  <2>1. pending_push[h].amount > 0
    BY <1>7 DEF SettlePush, AtCursor, PlaceInv, InPlace
  <2>2. HeadLeaves(h) /\ t \in StarIds /\ ~IsFinished(star[t])
    BY <1>7, <2>1, SettleMoves
  <2>3. /\ pending_push'[h].star_id = t
        /\ pending_push'[h].push_id = pending_push[h].push_id
        /\ pending_push[h].push_id = star[t].settle_cursor
        /\ \A j \in PushKeys : j # h => pending_push'[j] = pending_push[j]
    BY <2>2 DEF HeadLeaves, OnlyPush, AtCursor
  <2>4. CASE k # h
    <3>1. t # s
      BY <1>2, <2>2, <2>3, <2>4 DEF IsFinished
    <3> QED
      BY <1>2, <2>3, <2>4, <3>1
  <2>5. CASE k = h
    <3>1. star'[t].status = "Dead" /\ star'[t].killer = k[1]
      BY <1>7, <2>1, <2>5, SettleMoves
    <3>2. ASSUME NEW j \in PushKeys PROVE Later(j)
      <4> SUFFICES ASSUME pending_push'[j].star_id = s,
                          pending_push'[j].push_id > id
                   PROVE  pending_push'[j].status \in {"Pending", "Cancelled"}
        OBVIOUS
      <4>1. id \in Nat /\ id = star[t].settle_cursor
        BY <2>2, <2>3, <2>5, LineNumbers
      <4>2. j # h
        BY <2>3, <2>5, <4>1
      <4>3. pending_push'[j] = pending_push[j]
        BY <2>3, <4>2
      <4>4. pending_push[j].status # "Absent"
        BY <2>2, <2>5, <4>3 DEF TypeOK, PushRecord, NoPush, StarIds
      <4>5. pending_push[j].push_id \in Nat
        BY <4>4, PushType
      <4>6. pending_push[j].status \notin Resolved
        BY <2>5, <4>1, <4>3, <4>5 DEF PlaceInv, BehindCursor
      <4>7. pending_push[j].status \in PushStatus
        BY <4>4 DEF TypeOK, PushRecord, NoPush, PushStatus
      <4> QED
        BY <4>3, <4>4, <4>6, <4>7 DEF PushStatus, Resolved
    <3> QED
      BY <2>3, <2>5, <3>1, <3>2
  <2> QED
    BY <2>4, <2>5
<1> QED
  BY <1>1, <1>3, <1>4, <1>5, <1>6, <1>7, PushSteps

\* After the push that killed a star nothing lands: the members of its round and of
\* later ones wait or are refunded, and the winner is the killer (resolve_push).
THEOREM NothingEverLandsAfterKill == Spec => []NothingLandsAfterKill
<1>1. Init => NothingLandsAfterKill
  BY DEF Init, NothingLandsAfterKill, NoPush
<1> QED
  BY <1>1, KillLasts, TypeCorrect, LineInvAlways, RoundInvAlways, LinesAlways,
     PTL DEF Spec

\* A live star has room left, and if it has no line it is the current one.
Life(s) ==
  IsAlive(star[s]) =>
    /\ star[s].total_mass < HOLE_MASS
    /\ star[s].pending_pushes = 0 => s = current_star_id

LifeInv == \A s \in StarIds : Life(s)

\* A star that is closed but alive has a line.
LEMMA ClosedHasLine ==
  ASSUME TypeOK, LineInv, EscrowBacked, LifeInv,
         NEW s \in StarIds, IsClosed(star[s]), IsAlive(star[s])
  PROVE  star[s].pending_pushes # 0
<1> SUFFICES ASSUME star[s].pending_pushes = 0 PROVE FALSE
  OBVIOUS
<1>1. IsFiniteSet(PendingOn(s)) /\ Cardinality(PendingOn(s)) = 0
  BY FiniteKeys DEF EscrowBacked, PendingOn, InLine
<1>2. PendingOn(s) = {}
  BY <1>1, FS_EmptySet
<1>3. star[s].pending_lamports = 0
  BY <1>2, FS_EmptySet, TotalUnfolds DEF EscrowBacked
<1>4. /\ star[s].total_mass \in Nat /\ HOLE_MASS \in Nat
      /\ star[s].total_mass < HOLE_MASS
  BY MathAssumption DEF TypeOK, StarRecord, LifeInv, Life
<1> QED
  BY <1>3, <1>4 DEF IsClosed, IsFinished, IsAlive, CommittedMass

\* No step strands a star: create_next_star leaves one behind only with a line, and
\* the resolution that empties it finishes it.
LEMMA LifeStep ==
  ASSUME TypeOK, TypeOK', LineInv, RoundInv, EscrowBacked, PlaceInv, LifeInv,
         [Next]_vars
  PROVE  LifeInv'
<1>1. /\ FEED_MASS \in Nat /\ HOLE_MASS \in Nat /\ FEED_MASS < HOLE_MASS
      /\ \A s \in StarIds : /\ star[s].total_mass \in Nat
                            /\ star[s].pending_pushes \in Nat
  BY MathAssumption DEF TypeOK, StarRecord
<1>2. ASSUME UNCHANGED current_star_id,
             \A s \in StarIds : /\ SameQueue(star'[s], star[s])
                                /\ SameOutcome(star'[s], star[s])
      PROVE  LifeInv'
  BY <1>2 DEF LifeInv, Life, SameQueue, SameOutcome, IsAlive
<1>3. ASSUME UNCHANGED current_star_id, NEW t \in StarIds,
             \A s \in StarIds : s # t => star'[s] = star[s],
             IsAlive(star'[t]) =>
               /\ star'[t].total_mass < HOLE_MASS
               /\ star'[t].pending_pushes = 0 => t = current_star_id
      PROVE  LifeInv'
  BY <1>3 DEF LifeInv, Life
<1>4. CASE CreateFirstStar
  <2>1. /\ current_star_id' = 1 /\ current_star_id = 0
        /\ star' = [star EXCEPT ![1] = NewStar("Alive", 0)]
    BY <1>4 DEF CreateFirstStar
  <2>2. NewStar("Alive", 0).total_mass < HOLE_MASS
    BY <1>1 DEF NewStar
  <2>3. \A s \in StarIds : s # 1 => ~IsAlive(star'[s])
    BY <2>1 DEF RoundInv, IsAlive, TypeOK
  <2> QED
    BY <2>1, <2>2, <2>3 DEF LifeInv, Life, TypeOK
<1>5. CASE CreateNextStar
  <2> DEFINE prev == current_star_id
             new == current_star_id + 1
             born == NewStar("Alive", Endowment)
             older == [star[prev] EXCEPT !.next_star_created = TRUE]
  <2>1. /\ new \in StarIds /\ prev \in StarIds /\ new # prev
        /\ current_star_id' = new /\ IsClosed(star[prev])
    BY <1>5 DEF CreateNextStar, StarIds
  <2>2. \A s \in StarIds :
          star'[s] = IF s = new THEN born
                     ELSE IF s = prev THEN older ELSE star[s]
    BY <1>5, <2>1 DEF CreateNextStar, TypeOK
  <2>3. born.total_mass < HOLE_MASS
    <3>1. Endowment < FEED_MASS /\ Endowment \in Nat
      BY EndowmentFacts
    <3>2. born.total_mass = Endowment
      BY DEF NewStar
    <3> QED
      BY <1>1, <3>1, <3>2
  <2>4. /\ older.status = star[prev].status
        /\ older.total_mass = star[prev].total_mass
        /\ older.pending_pushes = star[prev].pending_pushes
    BY <2>1 DEF TypeOK, StarRecord
  <2>5. IsAlive(star[prev]) => star[prev].pending_pushes # 0
    BY <2>1, ClosedHasLine
  <2>6. \A s \in StarIds : s # prev /\ IsAlive(star[s]) => star[s].pending_pushes # 0
    BY DEF LifeInv, Life
  <2> HIDE DEF prev, new, born, older
  <2>7. ASSUME NEW s \in StarIds PROVE Life(s)'
    <3>1. CASE s = new
      BY <2>1, <2>2, <2>3, <3>1 DEF Life
    <3>2. CASE s = prev
      BY <2>1, <2>2, <2>4, <2>5, <3>2 DEF Life, LifeInv, IsAlive
    <3>3. CASE s # new /\ s # prev
      BY <2>2, <2>6, <3>3 DEF Life, LifeInv
    <3> QED
      BY <3>1, <3>2, <3>3
  <2> QED
    BY <2>7 DEF LifeInv
<1>6. ASSUME NEW s \in StarIds, StarStep(s) PROVE LifeInv'
  <2>1. ASSUME NEW p \in Players, NEW a \in PushAmounts, Feed(s, p, a)
        PROVE  LifeInv'
    <3>1. /\ UNCHANGED current_star_id /\ s = current_star_id
      BY <2>1 DEF Feed
    <3>2. /\ \A t \in StarIds : t # s => star'[t] = star[t]
          /\ star'[s].total_mass <= FEED_MASS
      BY <2>1, FeedMoves
    <3>3. star'[s].total_mass \in Nat
      BY DEF TypeOK, StarRecord
    <3> QED
      BY <1>1, <1>3, <3>1, <3>2, <3>3
  <2>2. ASSUME CollapseStalledStar(s) PROVE LifeInv'
    <3>1. PICK prize :
            /\ star' = [star EXCEPT ![s] = Finish(star[s], "Stalled", prize)]
            /\ UNCHANGED current_star_id
      BY <2>2 DEF CollapseStalledStar
    <3>2. ~IsAlive(star'[s]) /\ \A t \in StarIds : t # s => star'[t] = star[t]
      BY <3>1 DEF Finish, IsAlive, TypeOK, StarRecord
    <3> QED
      BY <1>3, <3>1, <3>2
  <2>3. ASSUME NEW k \in PushKeys, NEW a \in PushAmounts, RequestPush(s, k, a)
        PROVE  LifeInv'
    <3>1. UNCHANGED current_star_id /\ s = current_star_id
      BY <2>3 DEF RequestPush
    <3>2. /\ \A t \in StarIds : t # s => star'[t] = star[t]
          /\ star'[s].total_mass = star[s].total_mass
          /\ IsAlive(star[s])
      BY <2>3, RequestMoves
    <3> QED
      BY <1>3, <3>1, <3>2 DEF LifeInv, Life
  <2>4. CASE \/ \E o \in Outlays : DrawRound(s, o)
             \/ ClaimPrize(s)
             \/ \E p \in Players : ClaimHoleShare(s, p)
    <3>1. UNCHANGED current_star_id
      BY <2>4 DEF DrawRound, ClaimPrize, ClaimHoleShare
    <3> QED
      BY <1>2, <2>4, <3>1, OtherStarStepsSame
  <2> QED
    BY <1>6, <2>1, <2>2, <2>3, <2>4 DEF StarStep
<1>7. CASE \E s \in StarIds, r \in RoundIds : RoundStep(s, r)
  <2>1. UNCHANGED current_star_id
    BY <1>7 DEF RoundStep, ConsumeRandomness, ExpireRound, CloseRoundAccount
  <2> QED
    BY <1>2, <1>7, <2>1, OtherStarStepsSame

<1>8. ASSUME NEW k \in PushKeys, ResolvePush(k) \/ ClosePush(k) PROVE LifeInv'
  <2> DEFINE s == pending_push[k].star_id
  <2>1. ASSUME RefundPush(k) PROVE LifeInv'
    <3>1. UNCHANGED current_star_id
      BY <2>1 DEF RefundPush
    <3>2. /\ s \in StarIds
          /\ \A t \in StarIds : t # s => star'[t] = star[t]
          /\ star'[s].total_mass = star[s].total_mass
          /\ \/ star'[s].status = "BlackHole"
             \/ star'[s].status = star[s].status /\ ~Stranded(s, star'[s])
      BY <2>1, RefundMoves
    <3>3. IsAlive(star'[s]) =>
            /\ star'[s].total_mass < HOLE_MASS
            /\ star'[s].pending_pushes = 0 => s = current_star_id
      BY <3>2 DEF LifeInv, Life, IsAlive, Stranded
    <3> QED
      BY <1>3, <3>1, <3>2, <3>3
  <2>2. ASSUME NEW rolls \in BOOLEAN, SettlePush(k, rolls) PROVE LifeInv'
    <3>1. UNCHANGED current_star_id
      BY <2>2 DEF SettlePush
    <3>2. pending_push[k].amount > 0
      BY <2>2 DEF SettlePush, AtCursor, PlaceInv, InPlace
    <3>3. /\ s \in StarIds
          /\ \A t \in StarIds : t # s => star'[t] = star[t]
          /\ \/ star'[s].status \in {"Dead", "BlackHole"}
             \/ star'[s].total_mass < HOLE_MASS /\ ~Stranded(s, star'[s])
      BY <2>2, <3>2, SettleMoves
    <3>4. IsAlive(star'[s]) =>
            /\ star'[s].total_mass < HOLE_MASS
            /\ star'[s].pending_pushes = 0 => s = current_star_id
      BY <3>3 DEF IsAlive, Stranded
    <3> QED
      BY <1>3, <3>1, <3>3, <3>4
  <2>3. ASSUME ClosePush(k) PROVE LifeInv'
    BY <2>3 DEF ClosePush, LifeInv, Life
  <2> QED
    BY <1>8, <2>1, <2>2, <2>3 DEF ResolvePush
<1>9. CASE HouseStep \/ NextSlot \/ UNCHANGED vars
  BY <1>9 DEF HouseStep, FundProtocol, WithdrawProtocolFees, NextSlot, vars,
              LifeInv, Life
<1>10. CASE NextSecond
  <2>1. UNCHANGED current_star_id
    BY <1>10 DEF NextSecond
  <2> QED
    BY <1>2, <1>10, <2>1, NextSecondSame
<1> QED
  BY <1>4, <1>5, <1>6, <1>7, <1>8, <1>9, <1>10 DEF Next

\* A live star has room, and a line or the pushes to come, in every reachable
\* state.
LEMMA LifeAlways == Spec => []LifeInv
<1>1. Init => LifeInv
  BY DEF Init, LifeInv, Life, IsAlive, NewStar
<1> QED
  BY <1>1, LifeStep, TypeCorrect, LineInvAlways, RoundInvAlways, LinesAlways,
     PTL DEF Spec

\* A star that is alive and no longer current has pushes in line, so a resolution
\* will finish it: no pot is left on a star nobody can end.
THEOREM NoStarEverStranded == Spec => []NoStrandedStar
<1>1. LifeInv => NoStrandedStar
  BY DEF LifeInv, Life, NoStrandedStar
<1> QED
  BY <1>1, LifeAlways, PTL

-----------------------------------------------------------------------------
(* The line a star promises.  PushLine's line of a star is a sequence; the *)
(* program's is whatever pushes point at the star, in the order of their   *)
(* ids.                                                                    *)

\* A function of 1..n is a sequence of that length.
LEMMA SeqFacts ==
  ASSUME NEW S, NEW n \in Nat, NEW w \in [1..n -> S]
  PROVE  w \in Seq(S) /\ Len(w) = n /\ (w = <<>> <=> n = 0)
<1>1. w \in Seq(S)
  BY SeqDef
<1>2. Len(w) = n
  BY <1>1, LenProperties
<1> QED
  BY <1>1, <1>2, EmptySeq

\* What is left of a sequence without its head.
LEMMA TailIs ==
  ASSUME NEW S, NEW n \in Nat, NEW w \in [1..n + 1 -> S], NEW v \in [1..n -> S],
         \A i \in 1..n : v[i] = w[i + 1]
  PROVE  v = Tail(w) /\ Head(w) = w[1] /\ w # <<>>
<1>1. n + 1 \in Nat
  OBVIOUS
<1>2. /\ w \in Seq(S) /\ Len(w) = n + 1 /\ w # <<>>
      /\ v \in Seq(S) /\ Len(v) = n
  BY <1>1, SeqFacts
<1>3. /\ Tail(w) \in Seq(S) /\ Len(Tail(w)) = n
      /\ \A i \in 1..n : Tail(w)[i] = w[i + 1]
  BY <1>2, HeadTailProperties
<1>4. Tail(w) = v
  BY <1>2, <1>3, SeqEqual
<1> QED
  BY <1>2, <1>4

\* A sequence one longer that begins the same.
LEMMA PrefixIs ==
  ASSUME NEW S, NEW n \in Nat, NEW w \in [1..n -> S], NEW v \in [1..n + 1 -> S],
         \A i \in 1..n : v[i] = w[i]
  PROVE  Len(v) = Len(w) + 1 /\ SubSeq(v, 1, Len(w)) = w
<1>1. n + 1 \in Nat /\ 1 \in Int /\ n \in Int
  OBVIOUS
<1>2. /\ w \in Seq(S) /\ Len(w) = n
      /\ v \in Seq(S) /\ Len(v) = n + 1
  BY <1>1, SeqFacts
<1>3. \A i \in 1..n : v[i] \in S
  OBVIOUS
<1>4. /\ SubSeq(v, 1, n) \in Seq(S)
      /\ Len(SubSeq(v, 1, n)) = n
      /\ \A i \in 1..n : SubSeq(v, 1, n)[i] = v[i]
  BY <1>1, <1>3, SubSeqProperties
<1>5. SubSeq(v, 1, n) = w
  BY <1>2, <1>4, SeqEqual
<1> QED
  BY <1>2, <1>5

\* The stake of the push in S with a given id.
StakeIn(pushes, S, id) ==
  LET k == CHOOSE k \in S : pushes[k].push_id = id
  IN [owner |-> k[1], amount |-> pushes[k].amount]

\* If only one push of S has its id, it is that push's.
LEMMA StakeIs ==
  ASSUME NEW pushes, NEW S, NEW k \in S,
         \A j \in S : pushes[j].push_id = pushes[k].push_id => j = k
  PROVE  StakeIn(pushes, S, pushes[k].push_id)
           = [owner |-> k[1], amount |-> pushes[k].amount]
<1>1. (CHOOSE j \in S : pushes[j].push_id = pushes[k].push_id) = k
  OBVIOUS
<1> QED
  BY <1>1 DEF StakeIn

Stakes == [owner : Players, amount : Nat]

\* The stake at a place of a star's line.
StakeAt(s, i) ==
  StakeIn(pending_push, PendingOn(s), star[s].settle_cursor + i - 1)

\* Every place of a star's line is some push's, and holds its stake.
WaitersInOrder(s) ==
  /\ star[s].settle_cursor \in Nat /\ star[s].pending_pushes \in Nat
  /\ Waiters(s) \in [1..star[s].pending_pushes -> Stakes]
  /\ \A i \in 1..star[s].pending_pushes :
       \E k \in PendingOn(s) : pending_push[k].push_id = star[s].settle_cursor + i - 1
  /\ \A k \in PendingOn(s) :
       LET i == pending_push[k].push_id - star[s].settle_cursor + 1
       IN /\ pending_push[k].push_id \in Nat /\ i \in 1..star[s].pending_pushes
          /\ Waiters(s)[i] = [owner |-> k[1], amount |-> pending_push[k].amount]

\* That no id is missing or held twice is what puts the waiters in order.
LEMMA WaitersAre ==
  ASSUME TypeOK, LineInv, PlaceInv, NEW s \in StarIds
  PROVE  WaitersInOrder(s)
<1> DEFINE n == star[s].pending_pushes
           c == star[s].settle_cursor
<1>1. /\ n \in Nat /\ c \in Nat /\ c + n = star[s].push_counter
  BY LineNumbers
<1>2. Waiters(s) = [i \in 1..n |-> StakeAt(s, i)]
  BY DEF Waiters, StakeAt, StakeIn
<1>3. ASSUME NEW k \in PendingOn(s)
      PROVE  /\ pending_push[k].push_id \in Nat
             /\ c <= pending_push[k].push_id /\ pending_push[k].push_id < c + n
             /\ StakeIn(pending_push, PendingOn(s), pending_push[k].push_id)
                  = [owner |-> k[1], amount |-> pending_push[k].amount]
             /\ k[1] \in Players /\ pending_push[k].amount \in Nat
  <2>1. k \in PushKeys /\ k \in InLine /\ pending_push[k].star_id = s
        /\ pending_push[k].status = "Pending"
    BY <1>3 DEF PendingOn, InLine
  <2>2. /\ pending_push[k].push_id \in Nat /\ pending_push[k].amount \in Nat
        /\ c <= pending_push[k].push_id /\ pending_push[k].push_id < c + n
    BY <1>1, <2>1, LineNumbers DEF PlaceInv, InPlace
  <2>3. \A j \in PendingOn(s) :
          pending_push[j].push_id = pending_push[k].push_id => j = k
    BY <2>1 DEF PendingOn, PlaceInv, OnePlaceEach
  <2>4. k[1] \in Players
    BY <2>1 DEF PushKeys
  <2> QED
    BY <2>2, <2>3, <2>4, StakeIs
<1>4. ASSUME NEW i \in 1..n
      PROVE  \E k \in PendingOn(s) : pending_push[k].push_id = c + i - 1
  <2>1. c + i - 1 \in c .. (c + n) - 1
    BY <1>1
  <2> QED
    BY <1>1, <2>1 DEF PlaceInv, NoGap
<1>5. ASSUME NEW i \in 1..n PROVE StakeAt(s, i) \in Stakes
  <2>1. PICK k \in PendingOn(s) : pending_push[k].push_id = c + i - 1
    BY <1>4
  <2>2. StakeAt(s, i) = StakeIn(pending_push, PendingOn(s),
                                pending_push[k].push_id)
    BY <2>1, Zenon DEF StakeAt
  <2>3. /\ StakeAt(s, i) = [owner |-> k[1], amount |-> pending_push[k].amount]
        /\ k[1] \in Players /\ pending_push[k].amount \in Nat
    BY <1>3, <2>2, Zenon
  <2> QED
    BY <2>3 DEF Stakes
<1>6. ASSUME NEW k \in PendingOn(s)
      PROVE  LET i == pending_push[k].push_id - c + 1
             IN /\ pending_push[k].push_id \in Nat /\ i \in 1..n
                /\ Waiters(s)[i] = [owner |-> k[1],
                                    amount |-> pending_push[k].amount]
  <2> DEFINE id == pending_push[k].push_id
  <2>1. /\ id \in Nat /\ c <= id /\ id < c + n
        /\ StakeIn(pending_push, PendingOn(s), id)
             = [owner |-> k[1], amount |-> pending_push[k].amount]
    BY <1>3, <1>6, Zenon
  <2> HIDE DEF id, c, n
  <2>2. id - c + 1 \in 1..n /\ c + (id - c + 1) - 1 = id
    BY <1>1, <2>1
  <2>3. StakeAt(s, id - c + 1) = [owner |-> k[1],
                                  amount |-> pending_push[k].amount]
    BY <2>1, <2>2 DEF StakeAt, c
  <2>4. Waiters(s)[id - c + 1] = StakeAt(s, id - c + 1)
    BY <1>2, <2>2
  <2> QED
    BY <2>1, <2>2, <2>3, <2>4 DEF id, c, n
<1> QED
  BY <1>1, <1>2, <1>4, <1>5, <1>6 DEF WaitersInOrder

LinesKnown == \A s \in StarIds : WaitersInOrder(s)

\* The waiters are in order in every reachable state.
LEMMA LinesAlwaysKnown == Spec => []LinesKnown
<1>1. TypeOK /\ LineInv /\ PlaceInv => LinesKnown
  BY WaitersAre DEF LinesKnown
<1> QED
  BY <1>1, TypeCorrect, LineInvAlways, LinesAlways, PTL

\* Functions that agree everywhere are the same.
LEMMA SameFunction ==
  ASSUME NEW D, NEW S, NEW f \in [D -> S], NEW g \in [D -> S],
         \A x \in D : f[x] = g[x]
  PROVE  f = g
<1>1. f = [x \in D |-> f[x]] /\ g = [x \in D |-> g[x]]
  OBVIOUS
<1>2. [x \in D |-> f[x]] = [x \in D |-> g[x]]
  OBVIOUS
<1> QED
  BY <1>1, <1>2

\* A line nobody joins or leaves.
LEMMA WaitersStay ==
  ASSUME NEW s \in StarIds, WaitersInOrder(s), WaitersInOrder(s)',
         SameLine(star'[s], star[s]), PendingOn(s)' = PendingOn(s),
         \A k \in PendingOn(s) : pending_push'[k] = pending_push[k]
  PROVE  Waiters(s)' = Waiters(s)
<1> DEFINE n == star[s].pending_pushes
           c == star[s].settle_cursor
           old == Waiters(s)
           new == Waiters(s)'
<1>1. /\ n \in Nat /\ c \in Nat
      /\ star'[s].pending_pushes = n /\ star'[s].settle_cursor = c
  BY DEF SameLine, WaitersInOrder
<1>2. old \in [1..n -> Stakes] /\ new \in [1..n -> Stakes]
  BY <1>1 DEF WaitersInOrder
<1>3. ASSUME NEW i \in 1..n PROVE new[i] = old[i]
  <2>1. PICK k \in PendingOn(s) : pending_push[k].push_id = c + i - 1
    BY DEF WaitersInOrder
  <2> DEFINE place == pending_push[k].push_id - c + 1
             stake == [owner |-> k[1], amount |-> pending_push[k].amount]
  <2>2. old[place] = stake
    BY DEF WaitersInOrder
  <2>3. new[place] = stake
    BY <1>1 DEF WaitersInOrder
  <2>4. place = i
    BY <1>1, <2>1
  <2> QED
    BY <2>2, <2>3, <2>4
<1> DEFINE D == 1..n
<1>4. /\ old \in [D -> Stakes] /\ new \in [D -> Stakes]
      /\ \A i \in D : new[i] = old[i]
  BY <1>2, <1>3
<1> HIDE DEF old, new, D
<1>5. new = old
  BY <1>4, SameFunction
<1> QED
  BY <1>5 DEF old, new

\* A stake that joins stands behind all the others.
LEMMA WaitersJoin ==
  ASSUME NEW s \in StarIds, NEW k \in PushKeys, StakeJoins(s, k),
         WaitersInOrder(s), WaitersInOrder(s)'
  PROVE  /\ Len(Waiters(s)') = Len(Waiters(s)) + 1
         /\ SubSeq(Waiters(s)', 1, Len(Waiters(s))) = Waiters(s)
<1> DEFINE n == star[s].pending_pushes
           c == star[s].settle_cursor
           old == Waiters(s)
           new == Waiters(s)'
<1>1. /\ n \in Nat /\ c \in Nat
      /\ star'[s].pending_pushes = n + 1 /\ star'[s].settle_cursor = c
  BY DEF StakeJoins, WaitersInOrder
<1>2. old \in [1..n -> Stakes] /\ new \in [1..n + 1 -> Stakes]
  BY <1>1 DEF WaitersInOrder
<1>3. ASSUME NEW i \in 1..n PROVE new[i] = old[i]
  <2>1. PICK j \in PendingOn(s) : pending_push[j].push_id = c + i - 1
    BY DEF WaitersInOrder
  <2> DEFINE place == pending_push[j].push_id - c + 1
             stake == [owner |-> j[1], amount |-> pending_push[j].amount]
  <2>2. j \in PendingOn(s)' /\ pending_push'[j] = pending_push[j]
    <3>1. PendingOn(s)' = PendingOn(s) \cup {k} /\ k \notin PendingOn(s)
      BY JoinSets
    <3>2. j \in PushKeys /\ j # k
      BY <3>1 DEF PendingOn, InLine
    <3> QED
      BY <3>1, <3>2 DEF StakeJoins, OnlyPush
  <2>3. old[place] = stake
    BY DEF WaitersInOrder
  <2>4. new[place] = stake
    BY <1>1, <2>2 DEF WaitersInOrder
  <2>5. place = i
    BY <1>1, <2>1
  <2> QED
    BY <2>3, <2>4, <2>5
<1>4. n \in Nat /\ \A i \in 1..n : new[i] = old[i]
  BY <1>1, <1>3
<1> HIDE DEF old, new, n
<1>5. Len(new) = Len(old) + 1 /\ SubSeq(new, 1, Len(old)) = old
  BY <1>2, <1>4, PrefixIs
<1> QED
  BY <1>5 DEF old, new

\* The head that leaves is the push at the cursor, and leaves the others in order.
LEMMA WaitersLeave ==
  ASSUME NEW k \in PushKeys, HeadLeaves(k),
         NEW s \in StarIds, s = pending_push[k].star_id,
         WaitersInOrder(s), WaitersInOrder(s)'
  PROVE  /\ Waiters(s) # <<>>
         /\ Head(Waiters(s)).amount = pending_push[k].amount
         /\ Waiters(s)' = Tail(Waiters(s))
<1> DEFINE n == star'[s].pending_pushes
           c == star[s].settle_cursor
           old == Waiters(s)
           new == Waiters(s)'
<1>1. k \in PendingOn(s) /\ PendingOn(s)' = PendingOn(s) \ {k}
  BY LeaveSets
<1>2. /\ n \in Nat /\ c \in Nat
      /\ star[s].pending_pushes = n + 1 /\ star'[s].settle_cursor = c + 1
      /\ pending_push[k].push_id = c
  <2>1. /\ star'[s].pending_pushes = star[s].pending_pushes - 1
        /\ star'[s].settle_cursor = c + 1
        /\ pending_push[k].push_id = c
    BY Zenon DEF HeadLeaves, AtCursor
  <2>2. /\ n \in Nat /\ c \in Nat /\ star[s].pending_pushes \in Nat
    BY Zenon DEF WaitersInOrder
  <2> HIDE DEF n, c
  <2>3. star[s].pending_pushes = n + 1
    BY <2>1, <2>2 DEF n
  <2> QED
    BY <2>1, <2>2, <2>3
<1>3. old \in [1..n + 1 -> Stakes] /\ new \in [1..n -> Stakes]
  BY <1>2 DEF WaitersInOrder
<1>4. old[1].amount = pending_push[k].amount
  <2>1. old[pending_push[k].push_id - c + 1]
          = [owner |-> k[1], amount |-> pending_push[k].amount]
    BY <1>1, Zenon DEF WaitersInOrder
  <2>2. pending_push[k].push_id - c + 1 = 1
    BY <1>2
  <2> QED
    BY <2>1, <2>2
<1>5. ASSUME NEW i \in 1..n PROVE new[i] = old[i + 1]
  <2>1. PICK j \in PendingOn(s)' : pending_push'[j].push_id = (c + 1) + i - 1
    BY <1>2 DEF WaitersInOrder
  <2>2. j \in PendingOn(s) /\ pending_push'[j] = pending_push[j]
    BY <1>1, <2>1 DEF HeadLeaves, OnlyPush, PendingOn, InLine
  <2> DEFINE stake == [owner |-> j[1], amount |-> pending_push[j].amount]
  <2>3. old[pending_push[j].push_id - c + 1] = stake
    BY <2>2 DEF WaitersInOrder
  <2>4. new[pending_push[j].push_id - (c + 1) + 1] = stake
    <3>1. new[pending_push'[j].push_id - star'[s].settle_cursor + 1]
            = [owner |-> j[1], amount |-> pending_push'[j].amount]
      BY Zenon DEF WaitersInOrder
    <3> QED
      BY <1>2, <2>2, <3>1, Zenon
  <2>5. /\ pending_push[j].push_id - c + 1 = i + 1
        /\ pending_push[j].push_id - (c + 1) + 1 = i
    BY <1>2, <2>1, <2>2
  <2> QED
    BY <2>3, <2>4, <2>5
<1>6. n \in Nat /\ \A i \in 1..n : new[i] = old[i + 1]
  BY <1>2, <1>5
<1> HIDE DEF old, new, n
<1>7. new = Tail(old) /\ Head(old) = old[1] /\ old # <<>>
  BY <1>3, <1>6, TailIs
<1> QED
  BY <1>4, <1>7 DEF old, new

\* Nobody waits where the line's length is nought.
LEMMA NobodyWaits ==
  /\ \A s \in StarIds : WaitersInOrder(s) /\ star[s].pending_pushes = 0
       => Waiters(s) = <<>>
  /\ \A s \in StarIds : WaitersInOrder(s)' /\ star'[s].pending_pushes = 0
       => Waiters(s)' = <<>>
<1>1. \A w : w \in [1..0 -> Stakes] => w = <<>>
  <2>1. ASSUME NEW w \in [1..0 -> Stakes] PROVE w = <<>>
    BY 0 \in Nat, SeqFacts
  <2> QED
    BY <2>1
<1> QED
  BY <1>1, Zenon DEF WaitersInOrder

\* A step that is nothing to a star's line.
StarSame(s) ==
  /\ Waiters(s)' = Waiters(s)
  /\ star'[s].total_mass = star[s].total_mass
  /\ star'[s].status = star[s].status

\* PushLine's steps, of the program's stars.
LEMMA LineSeen ==
  ASSUME NEW s \in StarIds
  PROVE  /\ StarSame(s) => Line!Same(s)
         /\ /\ star[s].status = "Unborn" /\ star'[s].status = "Alive"
            /\ Waiters(s)' = <<>>
            => Line!Birth(s)
         /\ /\ star[s].status = "Alive" /\ star'[s].status = "Alive"
            /\ Waiters(s) = <<>> /\ Waiters(s)' = <<>>
            /\ star'[s].total_mass > star[s].total_mass
            => Line!Grow(s)
         /\ /\ star[s].status = "Alive" /\ star'[s].status = "Alive"
            /\ Len(Waiters(s)') = Len(Waiters(s)) + 1
            /\ SubSeq(Waiters(s)', 1, Len(Waiters(s))) = Waiters(s)
            /\ star'[s].total_mass = star[s].total_mass
            => Line!Join(s)
         /\ /\ star[s].status = "Alive" /\ star'[s].status # "Unborn"
            /\ Waiters(s) # <<>> /\ Waiters(s)' = Tail(Waiters(s))
            /\ star'[s].total_mass = star[s].total_mass + Head(Waiters(s)).amount
            => Line!Land(s)
         /\ /\ star[s].status # "Unborn"
            /\ Waiters(s) # <<>> /\ Waiters(s)' = Tail(Waiters(s))
            /\ star'[s].total_mass = star[s].total_mass
            /\ \/ star'[s].status = star[s].status
               \/ star'[s].status = "BlackHole" /\ Waiters(s)' = <<>>
            => Line!HandBack(s)
         /\ /\ star[s].status = "Alive" /\ star'[s].status = "Stalled"
            /\ Waiters(s) = <<>> /\ Waiters(s)' = <<>>
            /\ star'[s].total_mass = star[s].total_mass
            => Line!CallOff(s)
<1>1. /\ star[s].status = "Unborn" <=> Phase(s) = "unborn"
      /\ star[s].status = "Alive" <=> Phase(s) = "live"
      /\ star'[s].status = "Unborn" <=> Phase(s)' = "unborn"
      /\ star'[s].status = "Alive" <=> Phase(s)' = "live"
      /\ Phase(s) \in {"unborn", "live", "over"}
      /\ Phase(s)' \in {"unborn", "live", "over"}
      /\ star'[s].status = star[s].status => Phase(s)' = Phase(s)
  BY DEF Phase
<1>2. StarSame(s) => Line!Same(s)
  BY <1>1 DEF StarSame, Line!Same
<1>3. /\ star[s].status = "Unborn" /\ star'[s].status = "Alive"
      /\ Waiters(s)' = <<>>
      => Line!Birth(s)
  BY <1>1 DEF Line!Birth
<1>4. /\ star[s].status = "Alive" /\ star'[s].status = "Alive"
      /\ Waiters(s) = <<>> /\ Waiters(s)' = <<>>
      /\ star'[s].total_mass > star[s].total_mass
      => Line!Grow(s)
  BY <1>1 DEF Line!Grow
<1>5. /\ star[s].status = "Alive" /\ star'[s].status = "Alive"
      /\ Len(Waiters(s)') = Len(Waiters(s)) + 1
      /\ SubSeq(Waiters(s)', 1, Len(Waiters(s))) = Waiters(s)
      /\ star'[s].total_mass = star[s].total_mass
      => Line!Join(s)
  BY <1>1 DEF Line!Join
<1>6. /\ star[s].status = "Alive" /\ star'[s].status # "Unborn"
      /\ Waiters(s) # <<>> /\ Waiters(s)' = Tail(Waiters(s))
      /\ star'[s].total_mass = star[s].total_mass + Head(Waiters(s)).amount
      => Line!Land(s)
  BY <1>1 DEF Line!Land
<1>7. /\ star[s].status # "Unborn"
      /\ Waiters(s) # <<>> /\ Waiters(s)' = Tail(Waiters(s))
      /\ star'[s].total_mass = star[s].total_mass
      /\ \/ star'[s].status = star[s].status
         \/ star'[s].status = "BlackHole" /\ Waiters(s)' = <<>>
      => Line!HandBack(s)
  BY <1>1 DEF Line!HandBack
<1>8. /\ star[s].status = "Alive" /\ star'[s].status = "Stalled"
      /\ Waiters(s) = <<>> /\ Waiters(s)' = <<>>
      /\ star'[s].total_mass = star[s].total_mass
      => Line!CallOff(s)
  BY <1>1 DEF Line!CallOff
<1> QED
  BY <1>2, <1>3, <1>4, <1>5, <1>6, <1>7, <1>8, Zenon

\* A step of one star, and a step of none.
LEMMA LineNext ==
  /\ \A s \in StarIds :
       /\ \A t \in StarIds : t # s => StarSame(t)
       /\ \/ Line!Birth(s) \/ Line!Grow(s) \/ Line!Join(s)
          \/ Line!Land(s) \/ Line!HandBack(s) \/ Line!CallOff(s)
       => Line!Next
  /\ (\A t \in StarIds : StarSame(t)) => UNCHANGED Line!state
<1>1. ASSUME \A t \in StarIds : StarSame(t) PROVE UNCHANGED Line!state
  <2>1. \A t \in StarIds :
          /\ Waiters(t)' = Waiters(t)
          /\ star'[t].total_mass = star[t].total_mass
          /\ Phase(t)' = Phase(t)
    BY <1>1 DEF StarSame, Phase
  <2> QED
    BY <2>1, Zenon DEF Line!state
<1>2. ASSUME NEW s \in StarIds,
             \A t \in StarIds : t # s => StarSame(t),
             \/ Line!Birth(s) \/ Line!Grow(s) \/ Line!Join(s)
             \/ Line!Land(s) \/ Line!HandBack(s) \/ Line!CallOff(s)
      PROVE  Line!Next
  <2>1. \A t \in StarIds \ {s} : Line!Same(t)
    BY <1>2, LineSeen
  <2> QED
    BY <1>2, <2>1, Zenon DEF Line!Next
<1> QED
  BY <1>1, <1>2

\* What is nothing to a star's numbers and to the pushes that point at it is
\* nothing to its line.
LEMMA LineLeftAlone ==
  ASSUME LinesKnown, LinesKnown', NEW t \in StarIds,
         SameLine(star'[t], star[t]), PendingOn(t)' = PendingOn(t),
         \A k \in PendingOn(t) : pending_push'[k] = pending_push[k],
         star'[t].total_mass = star[t].total_mass,
         star'[t].status = star[t].status
  PROVE  StarSame(t)
<1>1. WaitersInOrder(t) /\ WaitersInOrder(t)'
  BY DEF LinesKnown
<1> QED
  BY <1>1, WaitersStay DEF StarSame

\* The pushes stay as they are, and so does every star but perhaps one.
LEMMA PushesStay ==
  ASSUME LinesKnown, LinesKnown', UNCHANGED pending_push,
         NEW t \in StarIds, SameLine(star'[t], star[t])
  PROVE  /\ Waiters(t)' = Waiters(t)
         /\ /\ star'[t].total_mass = star[t].total_mass
            /\ star'[t].status = star[t].status
            => StarSame(t)
<1>1. PendingOn(t)' = PendingOn(t)
  BY DEF PendingOn, InLine
<1>2. WaitersInOrder(t) /\ WaitersInOrder(t)'
  BY DEF LinesKnown
<1>3. Waiters(t)' = Waiters(t)
  BY <1>1, <1>2, WaitersStay
<1> QED
  BY <1>3 DEF StarSame

\* create_star and create_next_star: a star is born with nobody waiting.
LEMMA CreateImplements ==
  ASSUME TypeOK, LineInv, RoundInv, EscrowBacked, PlaceInv,
         LinesKnown, LinesKnown', CreateFirstStar \/ CreateNextStar
  PROVE  Line!Next
<1>1. LinesStay
  BY CreateMoves
<1>2. ASSUME NEW s \in StarIds, star[s].status = "Unborn",
             star'[s].status = "Alive",
             \A t \in StarIds : t # s =>
               /\ star'[t].total_mass = star[t].total_mass
               /\ star'[t].status = star[t].status
      PROVE  Line!Next
  <2>1. \A t \in StarIds : t # s => StarSame(t)
    BY <1>1, <1>2, PushesStay DEF LinesStay
  <2>2. star[s].pending_pushes = 0
    BY <1>2 DEF RoundInv, StarRounds, NoTrace
  <2>3. star'[s].pending_pushes = 0
    BY <1>1, <2>2 DEF LinesStay, SameLine
  <2>4. Waiters(s)' = <<>>
    BY <2>3, NobodyWaits DEF LinesKnown
  <2>5. Line!Birth(s)
    BY <1>2, <2>4, LineSeen
  <2> QED
    BY <2>1, <2>5, LineNext
<1>3. CASE CreateFirstStar
  <2>1. 1 \in StarIds /\ star[1].status = "Unborn"
    BY <1>3 DEF CreateFirstStar, RoundInv
  <2>2. \A t \in StarIds :
          star'[t] = IF t = 1 THEN NewStar("Alive", 0) ELSE star[t]
    BY <1>3 DEF CreateFirstStar, TypeOK
  <2>3. star'[1].status = "Alive"
    BY <2>1, <2>2 DEF NewStar
  <2> QED
    BY <1>2, <2>1, <2>2, <2>3
<1>4. CASE CreateNextStar
  <2> DEFINE new == current_star_id + 1
             prev == current_star_id
             older == [star[prev] EXCEPT !.next_star_created = TRUE]
             born == NewStar("Alive", Endowment)
  <2>1. /\ new \in StarIds /\ prev \in StarIds /\ new # prev
        /\ star[new].status = "Unborn"
    BY <1>4 DEF CreateNextStar, StarIds
  <2>2. /\ older.status = star[prev].status
        /\ older.total_mass = star[prev].total_mass
    BY <2>1 DEF TypeOK, StarRecord
  <2>3. \A t \in StarIds :
          star'[t] = IF t = new THEN born
                     ELSE IF t = prev THEN older ELSE star[t]
    BY <1>4, <2>1 DEF CreateNextStar, TypeOK
  <2>4. born.status = "Alive"
    BY DEF NewStar
  <2> HIDE DEF new, prev, older, born
  <2> QED
    BY <1>2, <2>1, <2>2, <2>3, <2>4
<1> QED
  BY <1>3, <1>4

\* feed: a star grows while nobody waits.
LEMMA FeedImplements ==
  ASSUME TypeOK, LineInv, EscrowBacked, PlaceInv, LinesKnown, LinesKnown',
         NEW s \in StarIds, NEW p \in Players, NEW a \in PushAmounts,
         Feed(s, p, a)
  PROVE  Line!Next
<1>1. /\ IdPasses(s) /\ star[s].status = "Alive" /\ star'[s].status = "Alive"
      /\ \A t \in StarIds : t # s => star'[t] = star[t]
  BY FeedMoves DEF IsAlive
<1>2. star'[s].total_mass > star[s].total_mass
  <2>1. PICK amount \in Nat \ {0} :
          star'[s].total_mass = star[s].total_mass + amount
    BY FeedMoves
  <2>2. star[s].total_mass \in Nat
    BY DEF TypeOK, StarRecord
  <2> QED
    BY <2>1, <2>2
<1>3. UNCHANGED pending_push /\ star[s].pending_pushes = 0
      /\ star'[s].pending_pushes = 0
  BY <1>1, LineEmpty DEF IdPasses
<1>4. Waiters(s) = <<>> /\ Waiters(s)' = <<>>
  BY <1>3, NobodyWaits DEF LinesKnown
<1>5. Line!Grow(s)
  BY <1>1, <1>2, <1>4, LineSeen
<1>6. \A t \in StarIds : t # s => StarSame(t)
  BY <1>1, <1>3, PushesStay DEF SameLine
<1> QED
  BY <1>5, <1>6, LineNext

\* request_push: a stake stands behind the others.
LEMMA RequestImplements ==
  ASSUME TypeOK, LineInv, LinesKnown, LinesKnown', NEW s \in StarIds,
         NEW k \in PushKeys, NEW a \in PushAmounts, RequestPush(s, k, a)
  PROVE  Line!Next
<1>1. /\ StakeJoins(s, k)
      /\ star[s].status = "Alive" /\ star'[s].status = "Alive"
      /\ star'[s].total_mass = star[s].total_mass
      /\ \A t \in StarIds : t # s => star'[t] = star[t]
  BY RequestMoves DEF IsAlive
<1>2. Line!Join(s)
  BY <1>1, WaitersJoin, LineSeen DEF LinesKnown
<1>3. ASSUME NEW t \in StarIds, t # s PROVE StarSame(t)
  <2>1. PendingOn(t)' = PendingOn(t) /\ k \notin PendingOn(t)
    BY <1>1, <1>3, JoinSets
  <2>2. \A j \in PendingOn(t) : pending_push'[j] = pending_push[j]
    BY <1>1, <2>1 DEF StakeJoins, OnlyPush, PendingOn, InLine
  <2> QED
    BY <1>1, <1>3, <2>1, <2>2, LineLeftAlone DEF SameLine
<1> QED
  BY <1>2, <1>3, LineNext

\* The other stars, when a head leaves its line.
LEMMA OthersWait ==
  ASSUME LinesKnown, LinesKnown', NEW k \in PushKeys, HeadLeaves(k),
         NEW s \in StarIds, s = pending_push[k].star_id,
         \A t \in StarIds : t # s => star'[t] = star[t]
  PROVE  \A t \in StarIds : t # s => StarSame(t)
<1> SUFFICES ASSUME NEW t \in StarIds, t # s PROVE StarSame(t)
  OBVIOUS
<1>1. PendingOn(t)' = PendingOn(t) /\ k \notin PendingOn(t)
  BY LeaveSets
<1>2. \A j \in PendingOn(t) : pending_push'[j] = pending_push[j]
  BY <1>1 DEF HeadLeaves, OnlyPush, PendingOn, InLine
<1> QED
  BY <1>1, <1>2, LineLeftAlone DEF SameLine

\* resolve_push's settle path: the head lands.
LEMMA SettleImplements ==
  ASSUME TypeOK, LineInv, RoundInv, PlaceInv, LinesKnown, LinesKnown',
         NEW k \in PushKeys, NEW rolls \in BOOLEAN, SettlePush(k, rolls)
  PROVE  Line!Next
<1>1. pending_push[k].amount > 0
  BY DEF SettlePush, AtCursor, PlaceInv, InPlace
<1>2. PICK s \in StarIds : s = pending_push[k].star_id
  BY <1>1, SettleMoves
<1>3. /\ HeadLeaves(k)
      /\ \A t \in StarIds : t # s => star'[t] = star[t]
      /\ ~IsFinished(star[s])
      /\ star'[s].total_mass = star[s].total_mass + pending_push[k].amount
      /\ star'[s].status \in {"Dead", "BlackHole", star[s].status}
  BY <1>1, <1>2, SettleMoves
<1>4. star[s].status = "Alive"
  <2>a. \A c \in Nat : c >= 1 => c # 0
    OBVIOUS
  <2>b. star[pending_push[k].star_id].pending_pushes >= 1
    BY Zenon DEF SettlePush
  <2>c. star[s].pending_pushes \in Nat
    BY Zenon DEF TypeOK, StarRecord
  <2>1. star[s].pending_pushes # 0
    BY <1>2, <2>a, <2>b, <2>c, Zenon
  <2>2. star[s].status # "Unborn"
    BY <2>1 DEF RoundInv, StarRounds, NoTrace
  <2> QED
    BY <1>3, <2>2 DEF TypeOK, StarRecord, StarStatus, IsFinished
<1>5. /\ Waiters(s) # <<>> /\ Waiters(s)' = Tail(Waiters(s))
      /\ Head(Waiters(s)).amount = pending_push[k].amount
  BY <1>2, <1>3, WaitersLeave DEF LinesKnown
<1>6. Line!Land(s)
  BY <1>3, <1>4, <1>5, LineSeen
<1> QED
  BY <1>2, <1>3, <1>6, OthersWait, LineNext

\* resolve_push's refund path: the head is handed back.
LEMMA RefundImplements ==
  ASSUME TypeOK, LineInv, RoundInv, LinesKnown, LinesKnown',
         NEW k \in PushKeys, RefundPush(k)
  PROVE  Line!Next
<1>1. PICK s \in StarIds : s = pending_push[k].star_id
  BY RefundMoves
<1>2. /\ HeadLeaves(k)
      /\ \A t \in StarIds : t # s => star'[t] = star[t]
      /\ star'[s].total_mass = star[s].total_mass
      /\ \/ star'[s].status = star[s].status
         \/ star'[s].status = "BlackHole" /\ star'[s].pending_pushes = 0
  BY <1>1, RefundMoves
<1>3. star[s].status # "Unborn"
  <2>1. star[s].pending_pushes # 0
    BY <1>1, <1>2 DEF RefundPush
  <2> QED
    BY <2>1 DEF RoundInv, StarRounds, NoTrace
<1>4. /\ Waiters(s) # <<>> /\ Waiters(s)' = Tail(Waiters(s))
  BY <1>1, <1>2, WaitersLeave DEF LinesKnown
<1>5. star'[s].pending_pushes = 0 => Waiters(s)' = <<>>
  BY NobodyWaits DEF LinesKnown
<1>6. Line!HandBack(s)
  BY <1>2, <1>3, <1>4, <1>5, LineSeen
<1> QED
  BY <1>1, <1>2, <1>6, OthersWait, LineNext

\* collapse_stalled_star: a star nobody waits on is called off.
LEMMA StallImplements ==
  ASSUME TypeOK, LinesKnown, LinesKnown', NEW s \in StarIds,
         CollapseStalledStar(s)
  PROVE  Line!Next
<1>1. PICK prize :
        /\ star' = [star EXCEPT ![s] = Finish(star[s], "Stalled", prize)]
        /\ UNCHANGED pending_push
        /\ star[s].status = "Alive" /\ star[s].pending_pushes = 0
  BY DEF CollapseStalledStar, IsStalled, IsAlive
<1> DEFINE new == Finish(star[s], "Stalled", prize)
<1>2. star'[s] = new /\ \A t \in StarIds : t # s => star'[t] = star[t]
  BY <1>1 DEF TypeOK
<1>3. SameLine(new, star[s]) /\ new.total_mass = star[s].total_mass
      /\ new.status = "Stalled"
  BY DEF Finish, SameLine, TypeOK, StarRecord
<1> HIDE DEF new
<1>4. star'[s].pending_pushes = 0
  BY <1>1, <1>2, <1>3 DEF SameLine
<1>5. Waiters(s) = <<>> /\ Waiters(s)' = <<>>
  BY <1>1, <1>4, NobodyWaits DEF LinesKnown
<1>6. Line!CallOff(s)
  BY <1>1, <1>2, <1>3, <1>5, LineSeen
<1>7. \A t \in StarIds : t # s => StarSame(t)
  BY <1>1, <1>2, PushesStay DEF SameLine
<1> QED
  BY <1>6, <1>7, LineNext

\* What leaves the pushes and every star's queue and outcome alone is invisible.
LEMMA QuietStep ==
  ASSUME LinesKnown, LinesKnown', UNCHANGED pending_push,
         \A t \in StarIds : SameQueue(star'[t], star[t])
                            /\ SameOutcome(star'[t], star[t])
  PROVE  UNCHANGED Line!state
<1>1. \A t \in StarIds : SameLine(star'[t], star[t])
  BY DEF SameLine, SameQueue
<1>2. \A t \in StarIds : /\ star'[t].total_mass = star[t].total_mass
                         /\ star'[t].status = star[t].status
  BY DEF SameOutcome
<1>3. \A t \in StarIds : StarSame(t)
  BY <1>1, <1>2, PushesStay
<1> QED
  BY <1>3, LineNext

\* close_push is invisible: the account it sweeps is in nobody's line.
LEMMA SweepImplements ==
  ASSUME LinesKnown, LinesKnown', TypeOK, NEW k \in PushKeys, ClosePush(k)
  PROVE  UNCHANGED Line!state
<1>1. /\ pending_push[k].status \in Resolved
      /\ pending_push' = [pending_push EXCEPT ![k] = NoPush]
      /\ UNCHANGED <<pending_liability, star>>
  BY DEF ClosePush, Resolved, money, buckets
<1>2. AccountSwept(k)
  BY <1>1 DEF AccountSwept, OnlyPush, SameLine, TypeOK
<1>3. ASSUME NEW t \in StarIds PROVE StarSame(t)
  <2>1. PendingOn(t)' = PendingOn(t) /\ k \notin PendingOn(t)
    BY <1>2, SweptSets DEF PendingOn
  <2>2. \A j \in PendingOn(t) : pending_push'[j] = pending_push[j]
    BY <1>2, <2>1 DEF AccountSwept, OnlyPush, PendingOn, InLine
  <2> QED
    BY <1>1, <2>1, <2>2, LineLeftAlone DEF SameLine
<1> QED
  BY <1>3, LineNext

\* Every step of the program is a step of PushLine or invisible in it.
LEMMA LineStepImplemented ==
  ASSUME TypeOK, LineInv, RoundInv, EscrowBacked, PlaceInv,
         LinesKnown, LinesKnown', [Next]_vars
  PROVE  [Line!Next]_(Line!state)
<1>1. CASE CreateFirstStar \/ CreateNextStar
  BY <1>1, CreateImplements
<1>2. ASSUME NEW s \in StarIds, StarStep(s)
      PROVE  [Line!Next]_(Line!state)
  <2>1. CASE \E p \in Players, a \in PushAmounts : Feed(s, p, a)
    BY <2>1, FeedImplements
  <2>2. CASE CollapseStalledStar(s)
    BY <2>2, StallImplements
  <2>3. CASE \E k \in PushKeys, a \in PushAmounts : RequestPush(s, k, a)
    BY <2>3, RequestImplements
  <2>4. CASE \/ \E o \in Outlays : DrawRound(s, o)
             \/ ClaimPrize(s)
             \/ \E p \in Players : ClaimHoleShare(s, p)
    <3>1. /\ UNCHANGED pending_push
          /\ \A t \in StarIds : SameQueue(star'[t], star[t])
                                /\ SameOutcome(star'[t], star[t])
      BY <2>4, OtherStarStepsSame
    <3> QED
      BY <3>1, QuietStep
  <2> QED
    BY <1>2, <2>1, <2>2, <2>3, <2>4, Zenon DEF StarStep
<1>3. ASSUME NEW s \in StarIds, NEW r \in RoundIds, RoundStep(s, r)
      PROVE  UNCHANGED Line!state
  <2>1. /\ UNCHANGED pending_push
        /\ \A t \in StarIds : SameQueue(star'[t], star[t])
                              /\ SameOutcome(star'[t], star[t])
    BY <1>3, OtherStarStepsSame
  <2> QED
    BY <2>1, QuietStep
<1>4. ASSUME NEW k \in PushKeys, ResolvePush(k) PROVE Line!Next
  BY <1>4, RefundImplements, SettleImplements DEF ResolvePush
<1>5. ASSUME NEW k \in PushKeys, ClosePush(k) PROVE UNCHANGED Line!state
  BY <1>5, SweepImplements
<1>6. CASE HouseStep \/ NextSlot \/ UNCHANGED vars
  <2>1. UNCHANGED <<pending_push, star>>
    BY <1>6 DEF HouseStep, FundProtocol, WithdrawProtocolFees, NextSlot,
                vars, money, buckets
  <2> QED
    BY <2>1, QuietStep DEF SameQueue, SameOutcome
<1>7. CASE NextSecond
  <2>1. /\ UNCHANGED pending_push
        /\ \A t \in StarIds : SameQueue(star'[t], star[t])
                              /\ SameOutcome(star'[t], star[t])
    BY <1>7, NextSecondSame
  <2> QED
    BY <2>1, QuietStep
<1> QED
  BY <1>1, <1>2, <1>3, <1>4, <1>5, <1>6, <1>7, Zenon DEF Next

\* No star is born yet, and nobody waits.
LEMMA InitLines ==
  ASSUME Init, LinesKnown
  PROVE  Line!Init
<1>1. \A s \in StarIds : /\ star[s].status = "Unborn"
                         /\ star[s].total_mass = 0
                         /\ star[s].pending_pushes = 0
  BY DEF Init, NewStar
<1>2. \A s \in StarIds : Waiters(s) = <<>>
  BY <1>1 DEF LinesKnown, WaitersInOrder
<1>3. \A s \in StarIds : Phase(s) = "unborn"
  BY <1>1 DEF Phase
<1> QED
  BY <1>1, <1>2, <1>3, Zenon DEF Line!Init

\* Rounds, draws, expiry, refunds and sweeping together give every star the plain
\* line PushLine promises: only the head leaves, whole and once, and a star grows
\* by exactly the stakes that land on it (request_push, resolve_push, close_push).
THEOREM LineImplemented == Spec => ImplementsLine
<1>1. Init /\ LinesKnown => Line!Init
  BY InitLines
<1>2. /\ TypeOK /\ LineInv /\ RoundInv /\ EscrowBacked /\ PlaceInv
      /\ LinesKnown /\ LinesKnown' /\ [Next]_vars
      => [Line!Next]_(Line!state)
  BY LineStepImplemented
<1> QED
  BY <1>1, <1>2, TypeCorrect, LineInvAlways, RoundInvAlways, LinesAlways,
     LinesAlwaysKnown, PTL DEF Spec, ImplementsLine, Line!Spec

-----------------------------------------------------------------------------
(* The life of a round                                                     *)

Undecided(rd) == rd.status \in {"Open", "Requested"}

\* The members of a round whose outcome is not known all stand in line, as long as
\* their star lives.
WholeInv ==
  \A s \in StarIds, r \in RoundIds :
    Undecided(round[s][r]) /\ ~IsFinished(star[s])
      => star[s].settle_cursor <= round[s][r].first_push_id

\* Nobody leaves the line of a live star before the outcome of its round is known.
LEMMA HeadDecided ==
  ASSUME TypeOK, [Next]_vars, NEW k \in PushKeys, HeadLeaves(k)
  PROVE  LET p == pending_push[k]
         IN \/ IsFinished(star[p.star_id])
            \/ round[p.star_id][p.round_id].status \in {"Drawn", "Expired"}
<1>1. /\ pending_push[k].status = "Pending"
      /\ pending_push'[k].status \in {"Survived", "Killed", "Cancelled"}
  BY DEF HeadLeaves, AtCursor, Resolved
<1>2. ASSUME NEW j \in PushKeys, NEW p,
             pending_push' = [pending_push EXCEPT ![j] = p]
      PROVE  j = k
  BY <1>1, <1>2 DEF TypeOK
<1>3. ASSUME NEW s \in StarIds, NEW j \in PushKeys, NEW a \in PushAmounts,
             RequestPush(s, j, a)
      PROVE  FALSE
  BY <1>1, <1>2, <1>3, Zenon DEF RequestPush
<1>4. ASSUME NEW j \in PushKeys, RefundPush(j) PROVE j = k /\ Refundable(k)
  <2>1. j = k
    BY <1>2, <1>4, Zenon DEF RefundPush
  <2> QED
    BY <1>4, <2>1 DEF RefundPush
<1>5. ASSUME NEW j \in PushKeys, NEW rolls \in BOOLEAN, SettlePush(j, rolls)
      PROVE  /\ j = k
             /\ round[pending_push[k].star_id][pending_push[k].round_id].status
                  = "Drawn"
  <2>1. \E p : pending_push' = [pending_push EXCEPT ![j] = p]
    BY <1>5, Zenon DEF SettlePush
  <2>2. j = k
    BY <1>2, <2>1
  <2> QED
    BY <1>5, <2>2 DEF SettlePush
<1>6. ASSUME NEW j \in PushKeys, ClosePush(j) PROVE FALSE
  BY <1>1, <1>2, <1>6 DEF ClosePush
<1>7. ~UNCHANGED pending_push
  BY <1>1
<1> QED
  BY <1>3, <1>4, <1>5, <1>6, <1>7, PushSteps DEF Refundable

\* A step of a live star's line does not pass a member of an undecided round.
LEMMA CursorWaits ==
  ASSUME TypeOK, LineInv, RoundInv, PlaceInv, RangeInv, WholeInv, [Next]_vars,
         \/ \E k \in PushKeys : HeadLeaves(k)
         \/ \E s \in StarIds : IdPasses(s)
         \/ \E k \in PushKeys : AccountSwept(k)
         \/ LinesStay,
         NEW s \in StarIds, NEW r \in RoundIds,
         Undecided(round[s][r]), ~IsFinished(star[s])
  PROVE  star'[s].settle_cursor <= round[s][r].first_push_id
<1> DEFINE first == round[s][r].first_push_id
           cursor == star[s].settle_cursor
<1>1. /\ first \in Nat /\ round[s][r].member_count \in Nat
      /\ round[s][r].member_count > 0
      /\ cursor \in Nat /\ cursor <= first
      /\ star[s].total_mass >= FEED_MASS
      /\ round[s][r].status # "Absent"
  BY RoundNumbers, LineNumbers
     DEF Undecided, WholeInv, RoundInv, StarRounds, RoundsBehind,
         RangeInv, RangeEnds
<1>2. CASE star'[s].settle_cursor = cursor
  BY <1>1, <1>2
<1>3. ASSUME NEW k \in PushKeys, HeadLeaves(k), pending_push[k].star_id = s
      PROVE  star'[s].settle_cursor <= first
  <2> DEFINE q == pending_push[k].round_id
             last == round[s][q].first_push_id + round[s][q].member_count
  <2>1. /\ pending_push[k].status = "Pending"
        /\ pending_push[k].push_id = cursor
        /\ star'[s].settle_cursor = cursor + 1
    BY <1>3 DEF HeadLeaves, AtCursor
  <2>2. q \in RoundIds
    BY <2>1, PushType
  <2>3. round[s][q].status # "Absent" /\ cursor \in IdsOf(round[s][q])
    BY <1>3, <2>1 DEF RangeInv, InRange
  <2>4. q # r
    BY <1>3, HeadDecided DEF Undecided
  <2>5. /\ q < r => last <= first
        /\ r < q => first + round[s][r].member_count
                      <= round[s][q].first_push_id
    BY <1>1, <2>2, <2>3 DEF RangeInv, RangesApart
  <2>6. /\ round[s][q].first_push_id \in Nat /\ round[s][q].member_count \in Nat
        /\ q \in Nat /\ r \in Nat
    BY <2>2, RoundNumbers DEF RoundIds
  <2> HIDE DEF q
  <2> QED
    BY <1>1, <2>1, <2>3, <2>4, <2>5, <2>6 DEF IdsOf
<1>4. ASSUME NEW k \in PushKeys, HeadLeaves(k), pending_push[k].star_id # s
      PROVE  star'[s].settle_cursor = cursor
  BY <1>4 DEF HeadLeaves, OnlyLine, SameLine
<1>5. ASSUME NEW t \in StarIds, IdPasses(t)
      PROVE  star'[s].settle_cursor = cursor
  <2>1. t # s
    BY <1>1, <1>5, MathAssumption, RoundNumbers DEF IdPasses
  <2> QED
    BY <1>5, <2>1 DEF IdPasses, OnlyLine, SameLine
<1>6. ASSUME LinesStay \/ \E k \in PushKeys : AccountSwept(k)
      PROVE  star'[s].settle_cursor = cursor
  BY <1>6 DEF LinesStay, AccountSwept, SameLine
<1> QED
  BY <1>2, <1>3, <1>4, <1>5, <1>6

\* The members of an undecided round stay in line.
LEMMA WholeStep ==
  ASSUME TypeOK, TypeOK', LineInv, RoundInv, EscrowBacked, PlaceInv, RangeInv,
         WholeInv, [Next]_vars
  PROVE  WholeInv'
<1> SUFFICES ASSUME NEW s \in StarIds, NEW r \in RoundIds,
                    Undecided(round'[s][r]), ~IsFinished(star'[s])
             PROVE  star'[s].settle_cursor <= round'[s][r].first_push_id
  BY DEF WholeInv, Undecided, IsFinished
<1>1. ~IsFinished(star[s])
  BY StepKeepsOutcome DEF SameOutcome, IsFinished
<1>2. ASSUME NEW t \in StarIds, NEW k \in PushKeys, NEW a \in PushAmounts,
             RequestPush(t, k, a)
      PROVE  star'[s].settle_cursor <= round'[s][r].first_push_id
  <2>1. star'[s].settle_cursor = star[s].settle_cursor
    BY <1>2, RequestMoves DEF StakeJoins, OnlyLine, SameLine
  <2>2. CASE round'[s][r] = round[s][r]
    BY <1>1, <2>1, <2>2 DEF WholeInv
  <2>3. CASE round'[s][r] # round[s][r]
    <3>1. s = t /\ r = star[s].current_round
      BY <1>2, <2>3, RequestRound
    <3>2. \/ round'[s][r].first_push_id = star[s].push_counter
          \/ /\ round'[s][r].first_push_id = round[s][r].first_push_id
             /\ IsOpen(round[s][r])
      BY <1>2, <3>1, RequestRound
    <3>3. star[s].settle_cursor <= star[s].push_counter
      BY LineNumbers
    <3> QED
      BY <1>1, <2>1, <3>2, <3>3 DEF WholeInv, Undecided, IsOpen
  <2> QED
    BY <2>2, <2>3
<1>3. CASE ~\E t \in StarIds, k \in PushKeys, a \in PushAmounts :
              RequestPush(t, k, a)
  <2>1. KeepsRange(round'[s][r], round[s][r])
    BY <1>3, StepKeepsRounds DEF RoundsKept, NoRound, Undecided
  <2>2. MovesForward(s, r)
    BY StepMovesForward
  <2>3. round[s][r].status \in RoundStatus
    BY DEF TypeOK, RoundRecord
  <2>4. Undecided(round[s][r])
    BY <2>1, <2>2, <2>3
       DEF MovesForward, Forwards, Becomes, KeepsRange, Undecided, RoundStatus
  <2>5. star'[s].settle_cursor <= round[s][r].first_push_id
    BY <1>1, <1>3, <2>4, CursorWaits, LineMoves
  <2> QED
    BY <2>1, <2>5 DEF KeepsRange
<1> QED
  BY <1>2, <1>3

\* WholeInv in every reachable state.
LEMMA WholeAlways == Spec => []WholeInv
<1>1. Init => WholeInv
  BY DEF Init, WholeInv, Undecided, NoRound
<1>2. TypeOK /\ TypeOK' /\ LineInv /\ RoundInv /\ EscrowBacked /\ PlaceInv
        /\ RangeInv /\ WholeInv /\ [Next]_vars => WholeInv'
  BY WholeStep
<1> QED
  BY <1>1, <1>2, TypeCorrect, LineInvAlways, RoundInvAlways, LinesAlways,
     RangesAlways, PTL DEF Spec

\* RoundLife sees no difference in a round.
RoundSame(s, r) ==
  /\ Stage(s, r)' = Stage(s, r)
  /\ round'[s][r].member_count = round[s][r].member_count

\* No star ends.
EndsStay == \A s \in StarIds : IsFinished(star'[s]) <=> IsFinished(star[s])

\* What RoundLife's Same reads.
LEMMA RoundSeen ==
  ASSUME NEW s \in StarIds, NEW r \in RoundIds, RoundSame(s, r)
  PROVE  Batches!Same(s, r)
  BY DEF Batches!Same, RoundSame

\* With every round as it was and no star ended, RoundLife sees nothing.
LEMMA RoundsSame ==
  ASSUME EndsStay, \A s \in StarIds, r \in RoundIds : RoundSame(s, r)
  PROVE  UNCHANGED Batches!state
<1>1. [s \in StarIds |-> [r \in RoundIds |-> Stage(s, r)]]'
        = [s \in StarIds |-> [r \in RoundIds |-> Stage(s, r)]]
  BY Zenon DEF RoundSame
<1>2. [s \in StarIds |-> [r \in RoundIds |-> round'[s][r].member_count]]
        = [s \in StarIds |-> [r \in RoundIds |-> round[s][r].member_count]]
  BY Zenon DEF RoundSame
<1>3. \A s \in StarIds : IsFinished(star'[s]) = IsFinished(star[s])
  BY DEF EndsStay, IsFinished
<1>4. [s \in StarIds |-> IsFinished(star'[s])]
        = [s \in StarIds |-> IsFinished(star[s])]
  BY <1>3, Zenon
<1> QED
  BY <1>1, <1>2, <1>4, Zenon DEF Batches!state, IsFinished

\* One round moves and nothing else does.
LEMMA RoundMoved ==
  ASSUME EndsStay, NEW s \in StarIds, NEW r \in RoundIds,
         \A t \in StarIds, q \in RoundIds : t # s \/ q # r => RoundSame(t, q),
         \/ Batches!Join(s, r) \/ Batches!Seal(s, r) \/ Batches!Draw(s, r)
         \/ Batches!Void(s, r) \/ Batches!Sweep(s, r)
  PROVE  Batches!Next
<1>1. \A t \in StarIds, q \in RoundIds :
        t # s \/ q # r => Batches!Same(t, q)
  BY RoundSeen
<1>2. \A t \in StarIds : IsFinished(star'[t]) = IsFinished(star[t])
  BY DEF EndsStay, IsFinished
<1>3. [t \in StarIds |-> IsFinished(star'[t])]
        = [t \in StarIds |-> IsFinished(star[t])]
  BY <1>2, Zenon
<1>4. Batches!Move(s, r)
  BY <1>1, <1>3, Zenon DEF Batches!Move, IsFinished
<1> QED
  BY <1>4, Zenon DEF Batches!Next

\* A round left alone while no star ends, and neither does the star's counter pass
\* it.
LEMMA RoundStays ==
  ASSUME EndsStay, NEW s \in StarIds, NEW r \in RoundIds,
         round'[s][r].status = round[s][r].status,
         round'[s][r].member_count = round[s][r].member_count,
         r < star'[s].current_round <=> r < star[s].current_round
  PROVE  RoundSame(s, r)
  BY DEF EndsStay, RoundSame, Stage, IsFinished

\* The rounds and the counters are left alone, and at most one star ends.
LEMMA QuietRounds ==
  ASSUME TypeOK, RoundInv, [Next]_vars, NEW s,
         \A t \in StarIds, q \in RoundIds :
           /\ round'[t][q].status = round[t][q].status
           /\ round'[t][q].member_count = round[t][q].member_count,
         \A t \in StarIds : star'[t].current_round = star[t].current_round,
         \A t \in StarIds :
           t # s => (IsFinished(star'[t]) <=> IsFinished(star[t]))
  PROVE  [Batches!Next]_(Batches!state)
<1>1. CASE EndsStay
  BY <1>1, RoundStays, RoundsSame
<1>2. CASE ~EndsStay
  <2>1. /\ s \in StarIds
        /\ ~IsFinished(star[s]) /\ IsFinished(star'[s])
    BY <1>2, StepKeepsOutcome DEF EndsStay, SameOutcome, IsFinished
  <2>2. ASSUME NEW t \in StarIds, NEW q \in RoundIds,
               ~(t = s /\ Stage(t, q) = "Ahead")
        PROVE  RoundSame(t, q)
    <3>1. CASE t # s
      BY <3>1 DEF RoundSame, Stage, IsFinished
    <3>2. CASE t = s
      BY <2>1, <2>2, <3>2 DEF RoundSame, Stage, IsFinished
    <3> QED
      BY <3>1, <3>2
  <2>3. ASSUME NEW q \in RoundIds, Stage(s, q) = "Ahead"
        PROVE  Stage(s, q)' = "Swept"
    <3>1. round[s][q].status \in RoundStatus
      BY <2>1 DEF TypeOK, RoundRecord
    <3>2. round[s][q].status = "Absent"
      BY <2>3, <3>1 DEF Stage, RoundStatus
    <3> QED
      BY <2>1, <3>2 DEF Stage, IsFinished
  <2>4. [t \in StarIds |-> IsFinished(star'[t])]
          = [[t \in StarIds |-> IsFinished(star[t])] EXCEPT ![s] = TRUE]
    <3>1. IsFinished(star'[s]) = TRUE
      BY <2>1 DEF IsFinished
    <3>2. \A t \in StarIds :
            t # s => IsFinished(star'[t]) = IsFinished(star[t])
      BY DEF IsFinished
    <3> QED
      BY <2>1, <3>1, <3>2, Zenon
  <2>5. \A t \in StarIds, q \in RoundIds :
          IF t = s /\ Stage(t, q) = "Ahead"
          THEN Stage(t, q)' = "Swept"
               /\ round'[t][q].member_count = round[t][q].member_count
          ELSE Batches!Same(t, q)
    BY <2>1, <2>2, <2>3, RoundSeen
  <2>6. Batches!End(s)
    BY <2>1, <2>4, <2>5 DEF Batches!End, IsFinished
  <2> QED
    BY <2>1, <2>6, Zenon DEF Batches!Next
<1> QED
  BY <1>1, <1>2

\* request_push: a stake joins the star's current round.
LEMMA RequestJoins ==
  ASSUME TypeOK, LineInv, RoundInv, RangeInv,
         NEW s \in StarIds, NEW k \in PushKeys, NEW a \in PushAmounts,
         RequestPush(s, k, a)
  PROVE  Batches!Next
<1>0. PICK r \in RoundIds : r = star[s].current_round
  BY CounterBound
<1> DEFINE old == round[s][r]
<1>1. /\ IsOpen(round'[s][r])
      /\ old.member_count # 0 => IsOpen(old)
      /\ round'[s][r].member_count =
           IF old.member_count = 0 THEN 1 ELSE old.member_count + 1
      /\ \A t \in StarIds, q \in RoundIds :
           t # s \/ q # r => round'[t][q] = round[t][q]
  BY <1>0, RequestRound
<1>2. /\ IsAlive(star[s]) /\ IsAlive(star'[s])
      /\ \A t \in StarIds : t # s => star'[t] = star[t]
  BY RequestMoves
<1>3. EndsStay
  BY <1>2 DEF EndsStay, IsAlive, IsFinished
<1>4. star'[s].current_round = r
  <2>1. \E amount : star' = [star EXCEPT ![s] = Joined(star[s], amount)]
    BY DEF RequestPush
  <2>2. star[s] \in StarRecord
    BY DEF TypeOK
  <2>3. \E amount : star'[s] = Joined(star[s], amount)
    BY <2>1, Zenon DEF TypeOK
  <2> QED
    BY <1>0, <2>2, <2>3, CounterKept
<1>5. \A t \in StarIds, q \in RoundIds : t # s \/ q # r => RoundSame(t, q)
  <2> SUFFICES ASSUME NEW t \in StarIds, NEW q \in RoundIds, t # s \/ q # r
               PROVE  RoundSame(t, q)
    OBVIOUS
  <2>1. round'[t][q] = round[t][q]
    BY <1>1
  <2>2. star'[t].current_round = star[t].current_round
    BY <1>0, <1>2, <1>4
  <2> QED
    BY <1>3, <2>1, <2>2, RoundStays
<1>6. Batches!Join(s, r)
  <2>1. ~IsFinished(star[s]) /\ ~IsFinished(star'[s])
    BY <1>2 DEF IsAlive, IsFinished
  <2>2. old.status \in {"Absent", "Open"}
    BY <1>0 DEF RoundInv, StarRounds, CounterFresh
  <2>3. ~(r < r)
    BY DEF RoundIds
  <2>4. Stage(s, r) \in {"Ahead", "Open"} /\ Stage(s, r)' = "Open"
    BY <1>0, <1>1, <2>1, <2>2, <2>3 DEF Stage, IsOpen, IsFinished
  <2>5. ASSUME NEW q \in RoundIds, q < r
        PROVE  Stage(s, q) \notin {"Ahead", "Open"}
    <3>1. round[s][q].status \in RoundStatus
      BY DEF TypeOK, RoundRecord
    <3>2. q # r
      BY <2>3, <2>5
    <3>3. round[s][q].status # "Open"
      BY <1>0, <3>2 DEF RangeInv, RangeEnds, IsOpen
    <3> QED
      BY <1>0, <2>5, <3>1, <3>3 DEF Stage, RoundStatus
  <2>6. round'[s][r].member_count = old.member_count + 1
    BY <1>1
  <2> QED
    BY <1>1, <2>1, <2>4, <2>5, <2>6 DEF Batches!Join
<1> QED
  BY <1>1, <1>3, <1>5, <1>6, RoundMoved

\* A step that writes one round, ends no star, and moves its counter past no other
\* round, leaves every other round as it was.
LEMMA OneStays ==
  ASSUME TypeOK, NEW s \in StarIds, NEW r \in RoundIds, NEW rd,
         round' = [round EXCEPT ![s][r] = rd],
         EndsStay,
         \A t \in StarIds : t # s => star'[t] = star[t],
         \A q \in RoundIds :
           q # r => (q < star'[s].current_round <=> q < star[s].current_round)
  PROVE  /\ round'[s][r] = rd
         /\ \A t \in StarIds, q \in RoundIds :
              t # s \/ q # r => RoundSame(t, q)
<1>1. \A t \in StarIds, q \in RoundIds :
        round'[t][q] = IF t = s /\ q = r THEN rd ELSE round[t][q]
  BY DEF TypeOK
<1>2. ASSUME NEW t \in StarIds, NEW q \in RoundIds, t # s \/ q # r
      PROVE  RoundSame(t, q)
  <2>1. round'[t][q] = round[t][q]
    BY <1>1, <1>2
  <2>2. q < star'[t].current_round <=> q < star[t].current_round
    BY <1>2
  <2> QED
    BY <2>1, <2>2, RoundStays
<1> QED
  BY <1>1, <1>2

\* draw_round: the current round is sealed, and the counter leaves it behind.
LEMMA DrawSeals ==
  ASSUME TypeOK, RoundInv, NEW s \in StarIds, NEW o \in Outlays, DrawRound(s, o)
  PROVE  Batches!Next
<1>0. PICK r \in RoundIds : r = star[s].current_round
  BY CounterBound
<1> DEFINE old == round[s][r]
           rd == [old EXCEPT !.status = "Requested", !.age = 0]
<1>1. /\ IsOpen(old) /\ old.member_count > 0
      /\ IsAlive(star[s])
      /\ round' = [round EXCEPT ![s][r] = rd]
  BY <1>0 DEF DrawRound, CloseableAt
<1>2. old \in RoundRecord /\ star[s] \in StarRecord
  BY <1>1 DEF TypeOK
<1>3. rd.status = "Requested" /\ rd.member_count = old.member_count
  BY <1>2, RestatedRange
<1>4. EndsStay
  BY OtherStarStepsSame DEF EndsStay, SameOutcome, IsFinished
<1>5. /\ \A t \in StarIds : t # s => star'[t] = star[t]
      /\ \A q \in RoundIds :
           q # r => (q < star'[s].current_round <=> q < star[s].current_round)
  <2>1. /\ \A t \in StarIds : t # s => star'[t] = star[t]
        /\ star'[s].current_round = r + 1
    BY <1>0, <1>2 DEF DrawRound, TypeOK, StarRecord
  <2> QED
    BY <1>0, <2>1 DEF RoundIds
<1> HIDE DEF rd
<1>6. /\ round'[s][r] = rd
      /\ \A t \in StarIds, q \in RoundIds :
           t # s \/ q # r => RoundSame(t, q)
  BY <1>1, <1>4, <1>5, OneStays
<1>7. Batches!Seal(s, r)
  <2>1. Stage(s, r) = "Open" /\ Stage(s, r)' = "Requested"
    BY <1>1, <1>3, <1>6 DEF Stage, IsOpen
  <2>2. ~IsFinished(star[s])
    BY <1>1 DEF IsAlive, IsFinished
  <2> QED
    BY <1>1, <1>3, <1>6, <2>1, <2>2 DEF Batches!Seal
<1> QED
  BY <1>1, <1>4, <1>6, <1>7, RoundMoved

\* consume_randomness: a sealed round is drawn.
LEMMA AnswerDraws ==
  ASSUME TypeOK, NEW s \in StarIds, NEW r \in RoundIds, ConsumeRandomness(s, r)
  PROVE  Batches!Next
<1> DEFINE old == round[s][r]
           rd == [old EXCEPT !.status = "Drawn", !.age = 0]
<1>1. /\ old.status = "Requested"
      /\ round' = [round EXCEPT ![s][r] = rd]
      /\ UNCHANGED star
  BY DEF ConsumeRandomness
<1>2. old \in RoundRecord
  BY DEF TypeOK
<1>3. rd.status = "Drawn" /\ rd.member_count = old.member_count
  BY <1>2, RestatedRange
<1>4. EndsStay
  BY <1>1 DEF EndsStay
<1> HIDE DEF rd
<1>5. /\ round'[s][r] = rd
      /\ \A t \in StarIds, q \in RoundIds :
           t # s \/ q # r => RoundSame(t, q)
  BY <1>1, <1>4, OneStays
<1>6. Batches!Draw(s, r)
  BY <1>1, <1>3, <1>5 DEF Batches!Draw, Stage
<1> QED
  BY <1>4, <1>5, <1>6, RoundMoved

\* expire_round: a round without an outcome is voided; the counter leaves it behind
\* if it was never sealed.
LEMMA ExpiryVoids ==
  ASSUME TypeOK, NEW s \in StarIds, NEW r \in RoundIds, ExpireRound(s, r)
  PROVE  Batches!Next
<1> DEFINE old == round[s][r]
           rd == [old EXCEPT !.status = "Expired", !.age = 0]
           next == AfterVoiding(star[s], old)
<1>1. /\ old.status \in {"Open", "Requested"}
      /\ round' = [round EXCEPT ![s][r] = rd]
      /\ \/ next = star[s].current_round
         \/ star[s].current_round = r /\ next = r + 1
  BY DEF ExpireRound, ExpirableAt, AfterVoiding
<1>2. old \in RoundRecord /\ star[s] \in StarRecord
  BY DEF TypeOK
<1>3. rd.status = "Expired" /\ rd.member_count = old.member_count
  BY <1>2, RestatedRange
<1>4. EndsStay
  <2>1. RoundStep(s, r)
    BY DEF RoundStep
  <2> QED
    BY <2>1, OtherStarStepsSame DEF EndsStay, SameOutcome, IsFinished
<1>5. /\ \A t \in StarIds : t # s => star'[t] = star[t]
      /\ \A q \in RoundIds :
           q # r => (q < star'[s].current_round <=> q < star[s].current_round)
  <2>1. star' = [star EXCEPT ![s].current_round = next]
    BY DEF ExpireRound
  <2> HIDE DEF next
  <2>2. /\ \A t \in StarIds : t # s => star'[t] = star[t]
        /\ star'[s].current_round = next
    BY <1>2, <2>1 DEF TypeOK, StarRecord
  <2> QED
    BY <1>1, <2>2 DEF RoundIds
<1> HIDE DEF next
<1> HIDE DEF rd
<1>6. /\ round'[s][r] = rd
      /\ \A t \in StarIds, q \in RoundIds :
           t # s \/ q # r => RoundSame(t, q)
  BY <1>1, <1>4, <1>5, OneStays
<1>7. Batches!Void(s, r)
  BY <1>1, <1>3, <1>6 DEF Batches!Void, Stage
<1> QED
  BY <1>4, <1>6, <1>7, RoundMoved

\* close_round_account: while the star lives, a cursor that has passed a round's
\* last member has passed a round whose outcome was known.
LEMMA CloseSweeps ==
  ASSUME TypeOK, RoundInv, WholeInv,
         NEW s \in StarIds, NEW r \in RoundIds, CloseRoundAccount(s, r)
  PROVE  Batches!Next
<1> DEFINE old == round[s][r]
<1>1. /\ old.status # "Absent"
      /\ round' = [round EXCEPT ![s][r] = NoRound]
      /\ UNCHANGED star
      /\ r # star[s].current_round \/ ~IsAlive(star[s])
      /\ IsDrained(old, star[s].settle_cursor)
  BY DEF CloseRoundAccount
<1>2. EndsStay
  BY <1>1 DEF EndsStay
<1>3. /\ round'[s][r] = NoRound
      /\ \A t \in StarIds, q \in RoundIds :
           t # s \/ q # r => RoundSame(t, q)
  BY <1>1, <1>2, OneStays
<1>4. r < star[s].current_round \/ IsFinished(star[s])
  <2>1. /\ star[s].status \in StarStatus
        /\ r \in Nat /\ star[s].current_round \in Nat
    BY DEF TypeOK, StarRecord, RoundIds
  <2>2. star[s].status # "Unborn" /\ r <= star[s].current_round
    BY <1>1 DEF RoundInv, StarRounds, NoTrace, RoundsBehind
  <2> QED
    BY <1>1, <2>1, <2>2 DEF StarStatus, IsAlive, IsFinished
<1>5. ASSUME ~IsFinished(star[s]) PROVE old.status \in {"Drawn", "Expired"}
  <2>1. /\ old.member_count \in Nat /\ old.first_push_id \in Nat
        /\ star[s].settle_cursor \in Nat /\ old.member_count > 0
    BY <1>1, RoundNumbers DEF TypeOK, StarRecord, RoundInv, StarRounds, RoundsBehind
  <2>2. ~Undecided(old)
    BY <1>1, <1>5, <2>1 DEF WholeInv, IsDrained
  <2>3. old.status \in RoundStatus
    BY DEF TypeOK, RoundRecord
  <2> QED
    BY <1>1, <2>2, <2>3 DEF Undecided, RoundStatus
<1>6. Batches!Sweep(s, r)
  <2>1. Stage(s, r) = old.status /\ Stage(s, r)' = "Swept"
    BY <1>1, <1>3, <1>4 DEF Stage, NoRound, IsFinished
  <2>2. old.status \in RoundStatus
    BY DEF TypeOK, RoundRecord
  <2>3. old.status \notin {"Ahead", "Swept"}
    BY <2>2 DEF RoundStatus
  <2>4. round'[s][r].member_count = 0
    BY <1>3 DEF NoRound
  <2> QED
    BY <1>5, <2>1, <2>3, <2>4 DEF Batches!Sweep
<1> QED
  BY <1>2, <1>3, <1>6, RoundMoved

\* draw_round and expire_round rewrite a round.
LEMMA CounterWithRound ==
  ASSUME TypeOK, RoundInv, NEW s \in StarIds
  PROVE  /\ \A o \in Outlays : DrawRound(s, o) => round' # round
         /\ \A r \in RoundIds : ExpireRound(s, r) => round' # round
<1>1. ASSUME NEW r \in RoundIds, NEW rd, rd.status # round[s][r].status,
             round' = [round EXCEPT ![s][r] = rd]
      PROVE  round' # round
  <2>1. round'[s][r] = rd
    BY <1>1 DEF TypeOK
  <2> QED
    BY <1>1, <2>1
<1>2. ASSUME NEW o \in Outlays, DrawRound(s, o) PROVE round' # round
  <2>1. PICK r \in RoundIds : r = star[s].current_round
    BY CounterBound
  <2> DEFINE old == round[s][r]
             rd == [old EXCEPT !.status = "Requested", !.age = 0]
  <2>2. round' = [round EXCEPT ![s][r] = rd] /\ old.status = "Open"
    BY <1>2, <2>1 DEF DrawRound, CloseableAt, IsOpen
  <2>3. rd.status = "Requested"
    BY RestatedRange DEF TypeOK
  <2> HIDE DEF rd
  <2> QED
    BY <1>1, <2>2, <2>3
<1>3. ASSUME NEW r \in RoundIds, ExpireRound(s, r) PROVE round' # round
  <2> DEFINE old == round[s][r]
             rd == [old EXCEPT !.status = "Expired", !.age = 0]
  <2>1. /\ round' = [round EXCEPT ![s][r] = rd]
        /\ old.status \in {"Open", "Requested"}
    BY <1>3 DEF ExpireRound, ExpirableAt
  <2>2. rd.status = "Expired"
    BY RestatedRange DEF TypeOK
  <2> HIDE DEF rd
  <2> QED
    BY <1>1, <2>1, <2>2
<1> QED
  BY <1>2, <1>3

\* The steps that leave the rounds alone keep the counters too.
LEMMA CountersStay ==
  ASSUME TypeOK, RoundInv, [Next]_vars, UNCHANGED round
  PROVE  \A s \in StarIds : star'[s].current_round = star[s].current_round
  BY CounterMoves, CounterWithRound

\* A step that leaves the rounds alone ends at most one star.
LEMMA OneEnds ==
  ASSUME TypeOK, RoundInv, [Next]_vars, UNCHANGED round,
         NEW s, \A t \in StarIds :
                  t # s => (IsFinished(star'[t]) <=> IsFinished(star[t]))
  PROVE  [Batches!Next]_(Batches!state)
  BY CountersStay, QuietRounds

\* The clock's slot is not seen.
LEMMA SlotSame ==
  ASSUME TypeOK, NextSlot
  PROVE  UNCHANGED Batches!state
<1>1. ASSUME NEW s \in StarIds, NEW r \in RoundIds
      PROVE  /\ round'[s][r].status = round[s][r].status
             /\ round'[s][r].member_count = round[s][r].member_count
  <2> DEFINE old == round[s][r]
  <2>1. old \in RoundRecord
    BY DEF TypeOK
  <2>2. round'[s][r] = IF Waiting(old) THEN [old EXCEPT !.age = old.age + 1]
                                       ELSE old
    BY DEF NextSlot
  <2> HIDE DEF old
  <2>3. /\ [old EXCEPT !.age = old.age + 1].status = old.status
        /\ [old EXCEPT !.age = old.age + 1].member_count = old.member_count
    BY <2>1 DEF RoundRecord
  <2> QED
    BY <2>2, <2>3 DEF old
<1>2. UNCHANGED star
  BY DEF NextSlot
<1>3. EndsStay
  BY <1>2 DEF EndsStay
<1> QED
  BY <1>1, <1>2, <1>3, RoundStays, RoundsSame

\* A new star ends none.
LEMMA CreateSame ==
  ASSUME TypeOK, RoundInv, CreateFirstStar \/ CreateNextStar
  PROVE  \A t \in StarIds : IsFinished(star'[t]) <=> IsFinished(star[t])
<1>1. CASE CreateFirstStar
  <2>1. star[1].status = "Unborn" /\ 1 \in StarIds
    BY <1>1 DEF CreateFirstStar, RoundInv
  <2>2. \A t \in StarIds : \/ star'[t] = star[t]
                           \/ t = 1 /\ star'[t] = NewStar("Alive", 0)
    BY <1>1 DEF CreateFirstStar, TypeOK
  <2> QED
    BY <2>1, <2>2 DEF NewStar, IsFinished
<1>2. CASE CreateNextStar
  <2> DEFINE prev == current_star_id
             new == current_star_id + 1
             born == NewStar("Alive", Endowment)
  <2>1. /\ new \in StarIds /\ prev \in StarIds /\ new # prev
        /\ star[new].status = "Unborn"
        /\ star' = [star EXCEPT ![new] = born, ![prev].next_star_created = TRUE]
    BY <1>2 DEF CreateNextStar, StarIds
  <2>2. born.status = "Alive"
    BY DEF NewStar
  <2> HIDE DEF prev, new, born
  <2>3. \A t \in StarIds :
          \/ t = new /\ star'[t] = born
          \/ star'[t] = [star[t] EXCEPT !.next_star_created = TRUE]
          \/ star'[t] = star[t]
    BY <2>1, Zenon DEF TypeOK
  <2>4. \A st \in StarRecord : [st EXCEPT !.next_star_created = TRUE].status
                                 = st.status
    BY DEF StarRecord
  <2> QED
    BY <2>1, <2>2, <2>3, <2>4 DEF IsFinished, TypeOK
<1> QED
  BY <1>1, <1>2

\* Every step of the program is a step of RoundLife or invisible in it.
LEMMA RoundStepImplemented ==
  ASSUME TypeOK, LineInv, RoundInv, RangeInv, WholeInv, [Next]_vars
  PROVE  [Batches!Next]_(Batches!state)
<1>1. ASSUME NEW s \in StarIds, NEW st, star' = [star EXCEPT ![s] = st],
             UNCHANGED round
      PROVE  [Batches!Next]_(Batches!state)
  <2>1. \A t \in StarIds : t # s => star'[t] = star[t]
    BY <1>1 DEF TypeOK
  <2> QED
    BY <1>1, <2>1, OneEnds
<1>2. ASSUME UNCHANGED <<star, round>> PROVE [Batches!Next]_(Batches!state)
  BY <1>2, OneEnds
<1>3. CASE CreateFirstStar \/ CreateNextStar
  <2>1. UNCHANGED round
    BY <1>3 DEF CreateFirstStar, CreateNextStar
  <2> QED
    BY <1>3, <2>1, CreateSame, OneEnds
<1>4. ASSUME NEW s \in StarIds, StarStep(s)
      PROVE  [Batches!Next]_(Batches!state)
  <2>1. ASSUME NEW p \in Players, NEW a \in PushAmounts, Feed(s, p, a)
        PROVE  [Batches!Next]_(Batches!state)
    BY <1>1, <2>1, Zenon DEF Feed
  <2>2. ASSUME CollapseStalledStar(s) PROVE [Batches!Next]_(Batches!state)
    BY <1>1, <2>2, Zenon DEF CollapseStalledStar
  <2>3. ASSUME NEW k \in PushKeys, NEW a \in PushAmounts, RequestPush(s, k, a)
        PROVE  [Batches!Next]_(Batches!state)
    BY <2>3, RequestJoins
  <2>4. ASSUME NEW o \in Outlays, DrawRound(s, o)
        PROVE  [Batches!Next]_(Batches!state)
    BY <2>4, DrawSeals
  <2>5. ASSUME ClaimPrize(s) PROVE [Batches!Next]_(Batches!state)
    BY <1>1, <2>5, Zenon DEF ClaimPrize
  <2>6. ASSUME NEW p \in Players, ClaimHoleShare(s, p)
        PROVE  [Batches!Next]_(Batches!state)
    BY <1>2, <2>6 DEF ClaimHoleShare
  <2> QED
    BY <1>4, <2>1, <2>2, <2>3, <2>4, <2>5, <2>6, Zenon DEF StarStep
<1>5. ASSUME NEW s \in StarIds, NEW r \in RoundIds, RoundStep(s, r)
      PROVE  [Batches!Next]_(Batches!state)
  BY <1>5, AnswerDraws, ExpiryVoids, CloseSweeps DEF RoundStep
<1>6. ASSUME NEW k \in PushKeys, ResolvePush(k) \/ ClosePush(k)
      PROVE  [Batches!Next]_(Batches!state)
  <2>1. ASSUME RefundPush(k) PROVE [Batches!Next]_(Batches!state)
    <3>1. pending_push[k].star_id \in StarIds
      BY <2>1, PushType DEF RefundPush, AtCursor
    <3> QED
      BY <1>1, <2>1, <3>1, Zenon DEF RefundPush
  <2>2. ASSUME NEW rolls \in BOOLEAN, SettlePush(k, rolls)
        PROVE  [Batches!Next]_(Batches!state)
    <3>1. pending_push[k].star_id \in StarIds
      BY <2>2, PushType DEF SettlePush, AtCursor
    <3> QED
      BY <1>1, <2>2, <3>1, Zenon DEF SettlePush
  <2>3. ASSUME ClosePush(k) PROVE [Batches!Next]_(Batches!state)
    BY <1>2, <2>3 DEF ClosePush
  <2> QED
    BY <1>6, <2>1, <2>2, <2>3 DEF ResolvePush
<1>7. CASE HouseStep \/ UNCHANGED vars
  BY <1>2, <1>7 DEF HouseStep, FundProtocol, WithdrawProtocolFees, vars
<1>8. CASE NextSlot
  BY <1>8, SlotSame
<1>9. CASE NextSecond
  <2>1. UNCHANGED round
    BY <1>9 DEF NextSecond
  <2>2. \A t \in StarIds : IsFinished(star'[t]) <=> IsFinished(star[t])
    BY <1>9, NextSecondSame DEF SameOutcome, IsFinished
  <2> QED
    BY <2>1, <2>2, OneEnds
<1> QED
  BY <1>3, <1>4, <1>5, <1>6, <1>7, <1>8, <1>9, Zenon DEF Next

\* No round has been opened, and no star is over.
LEMMA InitBatches == Init => Batches!Init
<1> SUFFICES ASSUME Init PROVE Batches!Init
  OBVIOUS
<1>1. /\ \A s \in StarIds : /\ ~IsFinished(star[s])
                            /\ star[s].current_round = 0
      /\ \A s \in StarIds, r \in RoundIds : round[s][r] = NoRound
  BY DEF Init, NewStar, IsFinished
<1>2. \A r \in RoundIds : ~(r < 0)
  BY DEF RoundIds
<1>3. \A s \in StarIds, r \in RoundIds :
        Stage(s, r) = "Ahead" /\ round[s][r].member_count = 0
  BY <1>1, <1>2 DEF Stage, NoRound
<1>4. \A s \in StarIds : IsFinished(star[s]) = FALSE
  BY <1>1 DEF IsFinished
<1> QED
  BY <1>3, <1>4, Zenon DEF Batches!Init

\* However pushes, seals, voids, answers and sweeps interleave, every round lives
\* the life RoundLife promises its members: stakes join the one open round, it is
\* drawn once or voided once, and close_round_account, which only compares the
\* cursor with the round's range, never sweeps a live star's round whose outcome
\* is not known (request_push, draw_round, consume_randomness, expire_round,
\* close_round_account).
THEOREM RoundsImplemented == Spec => ImplementsRounds
<1>1. TypeOK /\ LineInv /\ RoundInv /\ RangeInv /\ WholeInv /\ [Next]_vars
        => [Batches!Next]_(Batches!state)
  BY RoundStepImplemented
<1> QED
  BY <1>1, InitBatches, TypeCorrect, LineInvAlways, RoundInvAlways, RangesAlways,
     WholeAlways, PTL DEF Spec, ImplementsRounds, Batches!Spec

-----------------------------------------------------------------------------
(* The vault                                                               *)

\* What initialize leaves in the vault is a number of lamports.
LEMMA IdleType == InitialVault \in Nat
  BY SoldustAssumption DEF InitialVault

\* What VaultLedger asks of every step follows from the two invariants.
LEMMA CoveredNext ==
  ASSUME TypeOK', VaultCovered'
  PROVE  /\ Ledger!Covered'
         /\ pending_liability' >= 0 /\ prize_liability' >= 0
         /\ protocol_accrued' >= 0 /\ next_star_reserve' >= 0
  BY IdleType DEF VaultCovered, Reserved, InitialVault, TypeOK, Ledger!Covered

\* initialize leaves an empty ledger.
LEMMA InitLedger == Init => Ledger!Init /\ VaultCovered
  BY IdleType DEF Init, Ledger!Init, VaultCovered, Reserved

\* An instruction that moves no money.
LEMMA MoneyUnchanged ==
  ASSUME VaultCovered, UNCHANGED money
  PROVE  UNCHANGED Ledger!ledger /\ VaultCovered'
  BY DEF money, buckets, VaultCovered, Reserved, InitialVault, Ledger!ledger

\* feed moves money one of the ways VaultLedger allows.
LEMMA FeedLedger ==
  ASSUME TypeOK, VaultCovered,
         NEW s \in StarIds, NEW p \in Players, NEW a \in PushAmounts,
         Feed(s, p, a)
  PROVE  Ledger!Next /\ VaultCovered'
<1> DEFINE amount == AcceptPushAmount(a, RoomAt(star[s].total_mass))
<1>1. amount \in Nat
  <2>1. a \in Nat /\ star[s].total_mass \in Nat
    BY SoldustAssumption DEF TypeOK, StarRecord
  <2>2. RoomAt(star[s].total_mass) \in Nat
    BY <2>1, RoomType
  <2> QED
    BY <2>1, <2>2, AcceptRange
<1>2. /\ vault' = vault + amount
      /\ protocol_accrued' = protocol_accrued + ProtocolCut(amount)
      /\ prize_liability' = prize_liability + PrizeCut(amount)
      /\ UNCHANGED <<pending_liability, next_star_reserve>>
  BY DEF Feed
<1> HIDE DEF amount
<1>3. /\ ProtocolCut(amount) \in Nat /\ PrizeCut(amount) \in Nat
      /\ PrizeCut(amount) + ProtocolCut(amount) = amount
      /\ ProtocolCut(amount) * BPS <= amount * PROTOCOL_BPS
  BY <1>1, CutRange, CutWithinShare
<1>4. VaultCovered'
  BY <1>1, <1>2, <1>3, IdleType
     DEF VaultCovered, Reserved, InitialVault, TypeOK
<1>5. Ledger!Pour
  <2>1. /\ protocol_accrued' - protocol_accrued = ProtocolCut(amount)
        /\ vault' - vault = amount
    BY <1>1, <1>2, <1>3 DEF TypeOK
  <2> QED
    BY <1>2, <1>3, <2>1 DEF Ledger!Pour, Ledger!WithinShare, TypeOK
<1>6. TypeOK'
  BY FeedType
<1> QED
  BY <1>4, <1>5, <1>6, CoveredNext DEF Ledger!Next

\* request_push moves money one of the ways VaultLedger allows.
LEMMA RequestPushLedger ==
  ASSUME TypeOK, VaultCovered,
         NEW s \in StarIds, NEW k \in PushKeys, NEW a \in PushAmounts,
         RequestPush(s, k, a)
  PROVE  Ledger!Next /\ VaultCovered'
<1> DEFINE amount == AcceptPushAmount(a, QueueRoom(star[s]))
<1>1. amount \in Nat
  <2>1. a \in Nat /\ CommittedMass(star[s]) \in Nat
    BY SoldustAssumption DEF TypeOK, StarRecord, CommittedMass
  <2>2. QueueRoom(star[s]) \in Nat
    BY <2>1, RoomType DEF QueueRoom
  <2> QED
    BY <2>1, <2>2, AcceptRange
<1>2. /\ vault' = vault + amount
      /\ pending_liability' = pending_liability + amount
      /\ UNCHANGED <<prize_liability, protocol_accrued, next_star_reserve>>
  BY DEF RequestPush
<1> HIDE DEF amount
<1>3. VaultCovered'
  BY <1>1, <1>2, IdleType DEF VaultCovered, Reserved, InitialVault, TypeOK
<1>4. Ledger!Escrow
  BY <1>1, <1>2 DEF Ledger!Escrow, TypeOK
<1>5. TypeOK'
  BY RequestPushType
<1> QED
  BY <1>3, <1>4, <1>5, CoveredNext DEF Ledger!Next

\* create_next_star moves money one of the ways VaultLedger allows.
LEMMA CreateNextStarLedger ==
  ASSUME TypeOK, VaultCovered, CreateNextStar
  PROVE  Ledger!Next /\ VaultCovered'
<1>1. /\ Endowment \in Nat
      /\ prize_liability' = prize_liability + Endowment
      /\ next_star_reserve' = next_star_reserve - Endowment
      /\ UNCHANGED <<pending_liability, protocol_accrued, vault>>
  BY EndowmentType DEF CreateNextStar, TypeOK
<1>2. VaultCovered'
  BY <1>1, IdleType DEF VaultCovered, Reserved, InitialVault, TypeOK
<1>3. Ledger!Reclassify
  BY <1>1 DEF Ledger!Reclassify, TypeOK
<1>4. TypeOK'
  BY CreateNextStarType
<1> QED
  BY <1>2, <1>3, <1>4, CoveredNext DEF Ledger!Next

\* collapse_stalled_star moves money one of the ways VaultLedger allows.
LEMMA CollapseStalledStarLedger ==
  ASSUME TypeOK, VaultCovered, NEW s \in StarIds, CollapseStalledStar(s)
  PROVE  Ledger!Next /\ VaultCovered'
<1> DEFINE recycled == star[s].prize_pool
                         - Least(PrizeCut(star_feed[s].early_volume),
                                 star[s].prize_pool)
<1>1. recycled \in Nat
  <2>1. PrizeCut(star_feed[s].early_volume) \in Nat
    BY CutRange DEF TypeOK
  <2>2. star[s].prize_pool \in Nat
    BY DEF TypeOK, StarRecord
  <2> QED
    BY <2>1, <2>2 DEF Least
<1>2. /\ prize_liability' = prize_liability - recycled
      /\ next_star_reserve' = next_star_reserve + recycled
      /\ UNCHANGED <<pending_liability, protocol_accrued, vault>>
  BY DEF CollapseStalledStar
<1> HIDE DEF recycled
<1>3. VaultCovered'
  BY <1>1, <1>2, IdleType DEF VaultCovered, Reserved, InitialVault, TypeOK
<1>4. Ledger!Reclassify
  BY <1>1, <1>2 DEF Ledger!Reclassify, TypeOK
<1>5. TypeOK'
  BY CollapseStalledStarType
<1> QED
  BY <1>3, <1>4, <1>5, CoveredNext DEF Ledger!Next

\* resolve_push's refund path moves money one of the ways VaultLedger allows.
LEMMA RefundPushLedger ==
  ASSUME TypeOK, VaultCovered, NEW k \in PushKeys, RefundPush(k)
  PROVE  Ledger!Next /\ VaultCovered'
<1> DEFINE amount == pending_push[k].amount
           s == pending_push[k].star_id
           early == star_feed[s].early_volume
           rest == Refunded(star[s], amount)
           recycled == IF Stranded(s, rest) THEN Recycled(rest, early) ELSE 0
<1>1. /\ s \in StarIds /\ amount \in Nat
      /\ rest \in StarRecord
  <2>1. s \in StarIds /\ amount \in Nat
    BY PushType DEF RefundPush, AtCursor
  <2>2. /\ star[s].pending_pushes >= 1
        /\ amount <= star[s].pending_lamports
    BY DEF RefundPush
  <2> QED
    BY <2>1, <2>2, RefundedType DEF TypeOK
<1>2. recycled \in Nat
  <2>1. early \in Nat
    BY <1>1 DEF TypeOK
  <2> HIDE DEF rest, early
  <2> QED
    BY <1>1, <2>1, CollapseType
<1>3. /\ vault' = vault - amount
      /\ pending_liability' = pending_liability - amount
      /\ prize_liability' = prize_liability - recycled
      /\ next_star_reserve' = next_star_reserve + recycled
      /\ protocol_accrued' = protocol_accrued
  BY DEF RefundPush, PayOut
<1> HIDE DEF amount, recycled, s, rest
<1>4. VaultCovered'
  BY <1>1, <1>2, <1>3, IdleType
     DEF VaultCovered, Reserved, InitialVault, TypeOK
<1>5. Ledger!Release
  <2>1. /\ protocol_accrued' - protocol_accrued = 0
        /\ pending_liability - pending_liability' = amount
    BY <1>1, <1>3 DEF TypeOK
  <2>2. 0 * BPS <= amount * PROTOCOL_BPS
    <3>1. amount * PROTOCOL_BPS \in Nat /\ BPS \in Nat
      BY <1>1, MathAssumption, ProductGrows
    <3> QED
      BY <3>1
  <2> QED
    BY <1>1, <1>2, <1>3, <2>1, <2>2
       DEF Ledger!Release, Ledger!WithinShare, TypeOK
<1>6. TypeOK'
  BY RefundPushType
<1> QED
  BY <1>4, <1>5, <1>6, CoveredNext DEF Ledger!Next

\* resolve_push's settle path moves money one of the ways VaultLedger allows.
LEMMA SettlePushLedger ==
  ASSUME TypeOK, VaultCovered, NEW k \in PushKeys, NEW rolls \in BOOLEAN,
         SettlePush(k, rolls)
  PROVE  Ledger!Next /\ VaultCovered'
<1> DEFINE amount == pending_push[k].amount
           s == pending_push[k].star_id
           st == star[s]
           nursery == st.total_mass < FEED_MASS
           accepted == AcceptedSettleAmount(amount, st.total_mass)
           landed == Landed(st, amount, accepted)
           early == star_feed[s].early_volume + IF nursery THEN accepted ELSE 0
           hole == /\ ~(rolls /\ ~nursery)
                   /\ landed.total_mass >= HOLE_MASS \/ Stranded(s, landed)
           recycled == IF hole THEN Recycled(landed, early) ELSE 0
           cut == ProtocolCut(accepted)
           pot == PrizeCut(accepted)
<1>1. /\ s \in StarIds /\ amount \in Nat
      /\ st \in StarRecord /\ st.total_mass \in Nat
  BY PushType DEF SettlePush, AtCursor, TypeOK, StarRecord
<1>2. accepted \in 0..amount
  BY <1>1, SettleRange
<1>3. /\ cut \in Nat /\ pot \in Nat /\ pot + cut = accepted
      /\ cut * BPS <= amount * PROTOCOL_BPS
  <2> HIDE DEF accepted, amount
  <2> QED
    BY <1>1, <1>2, CutRange, CutWithinShare
<1>4. recycled \in Nat
  <2>1. landed \in StarRecord
    <3>1. st.pending_pushes >= 1 /\ amount <= st.pending_lamports
      BY DEF SettlePush
    <3>2. accepted \in Nat
      BY <1>1, <1>2
    <3> HIDE DEF st, amount, accepted
    <3> QED
      BY <1>1, <3>1, <3>2, LandedType
  <2>2. early \in Nat
    BY <1>1, <1>2 DEF TypeOK
  <2> HIDE DEF landed, early
  <2> QED
    BY <2>1, <2>2, CollapseType
<1>5. /\ vault' = vault - (amount - accepted)
      /\ pending_liability' = pending_liability - amount
      /\ protocol_accrued' = protocol_accrued + cut
      /\ prize_liability' = prize_liability + pot - recycled
      /\ next_star_reserve' = next_star_reserve + recycled
  BY DEF SettlePush, PayOut
<1> HIDE DEF amount, accepted, recycled, cut, pot
<1>6. VaultCovered'
  <2>1. /\ vault \in Int /\ pending_liability \in Int
        /\ prize_liability \in Int /\ protocol_accrued \in Int
        /\ next_star_reserve \in Int
    BY DEF TypeOK
  <2>2. /\ amount \in Int /\ accepted \in Int /\ recycled \in Int
        /\ cut \in Int /\ pot \in Int /\ pot + cut = accepted
    BY <1>1, <1>2, <1>3, <1>4
  <2>3. InitialVault' = InitialVault
    BY DEF InitialVault
  <2> QED
    BY <1>5, <2>1, <2>2, <2>3, IdleType DEF VaultCovered, Reserved
<1>7. Ledger!Release
  <2>1. /\ protocol_accrued' - protocol_accrued = cut
        /\ pending_liability - pending_liability' = amount
    BY <1>1, <1>3, <1>5 DEF TypeOK
  <2>2. /\ pending_liability' <= pending_liability
        /\ vault' <= vault
        /\ prize_liability' + next_star_reserve'
              >= prize_liability + next_star_reserve
        /\ next_star_reserve' >= next_star_reserve
        /\ protocol_accrued' >= protocol_accrued
    BY <1>1, <1>2, <1>3, <1>4, <1>5 DEF TypeOK
  <2> QED
    BY <1>3, <2>1, <2>2 DEF Ledger!Release, Ledger!WithinShare
<1>8. TypeOK'
  BY SettlePushType
<1> QED
  BY <1>6, <1>7, <1>8, CoveredNext DEF Ledger!Next

\* draw_round moves money one of the ways VaultLedger allows.
LEMMA DrawRoundLedger ==
  ASSUME TypeOK, VaultCovered, NEW s \in StarIds, NEW outlay \in Outlays,
         DrawRound(s, outlay)
  PROVE  Ledger!Next /\ VaultCovered'
<1> DEFINE paid == Least(outlay, protocol_accrued)
<1>1. paid \in Nat
  <2>1. outlay \in Nat
    BY SoldustAssumption
  <2> QED
    BY <2>1 DEF Least, TypeOK
<1>2. /\ vault' = vault - paid
      /\ protocol_accrued' = protocol_accrued - paid
      /\ UNCHANGED <<pending_liability, prize_liability, next_star_reserve>>
  BY DEF DrawRound, PayOut
<1> HIDE DEF paid
<1>3. VaultCovered'
  BY <1>1, <1>2, IdleType DEF VaultCovered, Reserved, InitialVault, TypeOK
<1>4. Ledger!HousePays
  BY <1>1, <1>2 DEF Ledger!HousePays, TypeOK
<1>5. TypeOK'
  BY DrawRoundType
<1> QED
  BY <1>3, <1>4, <1>5, CoveredNext DEF Ledger!Next

\* Paying a claim out of prize_liability is a PayPrize of the ledger.
LEMMA ClaimLedger ==
  ASSUME TypeOK, VaultCovered, TypeOK', NEW amount \in Int,
         prize_liability' = prize_liability - amount,
         amount <= prize_liability, amount >= 0,
         PayOut(amount),
         UNCHANGED <<pending_liability, protocol_accrued, next_star_reserve>>
  PROVE  Ledger!Next /\ VaultCovered'
<1>1. VaultCovered'
  BY IdleType DEF VaultCovered, Reserved, InitialVault, TypeOK, PayOut
<1>2. Ledger!PayPrize
  BY DEF Ledger!PayPrize, TypeOK
<1> QED
  BY <1>1, <1>2, CoveredNext DEF Ledger!Next

\* fund_protocol and withdraw_protocol_fees move money one of the ways VaultLedger allows.
LEMMA HouseStepLedger ==
  ASSUME TypeOK, VaultCovered, HouseStep
  PROVE  Ledger!Next /\ VaultCovered'
<1>1. TypeOK'
  BY HouseStepType
<1>2. CASE \E a \in FundAmounts : FundProtocol(a)
  <2>1. PICK a \in FundAmounts : FundProtocol(a)
    BY <1>2
  <2>2. a \in Nat
    BY SoldustAssumption
  <2>3. VaultCovered' /\ Ledger!Donate
    BY <2>1, <2>2, IdleType
       DEF FundProtocol, VaultCovered, Reserved, InitialVault, TypeOK,
           Ledger!Donate
  <2> QED
    BY <1>1, <2>3, CoveredNext DEF Ledger!Next
<1>3. CASE \E a \in WithdrawAmounts, t \in BOOLEAN : WithdrawProtocolFees(a, t)
  <2>1. PICK a \in WithdrawAmounts : \E t \in BOOLEAN : WithdrawProtocolFees(a, t)
    BY <1>3
  <2>2. a \in Nat
    BY SoldustAssumption
  <2>3. VaultCovered' /\ Ledger!HousePays
    BY <2>1, <2>2, IdleType
       DEF WithdrawProtocolFees, PayOut, VaultCovered, Reserved, InitialVault,
           TypeOK, Ledger!HousePays
  <2> QED
    BY <1>1, <2>3, CoveredNext DEF Ledger!Next
<1> QED
  BY <1>2, <1>3 DEF HouseStep

\* claim_prize moves money one of the ways VaultLedger allows.
LEMMA ClaimPrizeLedger ==
  ASSUME TypeOK, VaultCovered, NEW s \in StarIds, ClaimPrize(s)
  PROVE  Ledger!Next /\ VaultCovered'
<1> DEFINE amount == star[s].final_prize
<1>1. amount \in Int /\ amount >= 0
  BY DEF TypeOK, StarRecord
<1>2. /\ PayOut(amount) /\ amount <= prize_liability
      /\ prize_liability' = prize_liability - amount
      /\ UNCHANGED <<pending_liability, protocol_accrued, next_star_reserve>>
  BY DEF ClaimPrize
<1>3. TypeOK'
  BY ClaimPrizeType
<1> HIDE DEF amount
<1> QED
  BY <1>1, <1>2, <1>3, ClaimLedger

\* claim_hole_share moves money one of the ways VaultLedger allows.
LEMMA ClaimHoleShareLedger ==
  ASSUME TypeOK, VaultCovered, NEW s \in StarIds, NEW p \in Players,
         ClaimHoleShare(s, p)
  PROVE  Ledger!Next /\ VaultCovered'
<1> DEFINE amount == HoleShare(s, p)
<1>1. amount \in Int /\ amount >= 0
  BY HoleShareType DEF ClaimHoleShare
<1>2. /\ PayOut(amount) /\ amount <= prize_liability
      /\ prize_liability' = prize_liability - amount
      /\ UNCHANGED <<pending_liability, protocol_accrued, next_star_reserve>>
  BY DEF ClaimHoleShare
<1>3. TypeOK'
  BY ClaimHoleShareType
<1> HIDE DEF amount
<1> QED
  BY <1>1, <1>2, <1>3, ClaimLedger

\* Every step moves the ledger or leaves it alone, and keeps it covered.
LEMMA LedgerStep ==
  ASSUME TypeOK, VaultCovered, [Next]_vars
  PROVE  [Ledger!Next]_(Ledger!ledger) /\ VaultCovered'
<1>1. CASE CreateFirstStar
  BY <1>1, MoneyUnchanged DEF CreateFirstStar
<1>2. CASE CreateNextStar
  BY <1>2, CreateNextStarLedger
<1>3. CASE \E s \in StarIds : StarStep(s)
  BY <1>3, FeedLedger, CollapseStalledStarLedger, RequestPushLedger,
     DrawRoundLedger, ClaimPrizeLedger, ClaimHoleShareLedger DEF StarStep
<1>4. CASE \E s \in StarIds, r \in RoundIds : RoundStep(s, r)
  BY <1>4, MoneyUnchanged
     DEF RoundStep, ConsumeRandomness, ExpireRound, CloseRoundAccount
<1>5. CASE \E k \in PushKeys : ResolvePush(k) \/ ClosePush(k)
  <2>1. ASSUME NEW k \in PushKeys, ClosePush(k)
        PROVE  UNCHANGED money
    BY <2>1 DEF ClosePush
  <2> QED
    BY <1>5, <2>1, RefundPushLedger, SettlePushLedger, MoneyUnchanged
       DEF ResolvePush
<1>6. CASE HouseStep
  BY <1>6, HouseStepLedger
<1>7. CASE NextSlot \/ NextSecond
  BY <1>7, MoneyUnchanged DEF NextSlot, NextSecond
<1>8. CASE UNCHANGED vars
  BY <1>8, MoneyUnchanged DEF vars
<1> QED
  BY <1>1, <1>2, <1>3, <1>4, <1>5, <1>6, <1>7, <1>8 DEF Next

\* The vault holds exactly its rent and its four buckets, always: no sequence of
\* instructions leaves a claim without the lamports behind it or a lamport
\* behind two claims.
THEOREM VaultAlwaysCovered == Spec => []VaultCovered
<1>1. Init => VaultCovered
  BY InitLedger
<1>2. TypeOK /\ VaultCovered /\ [Next]_vars => VaultCovered'
  BY LedgerStep
<1> QED
  BY <1>1, <1>2, TypeCorrect, PTL DEF Spec

\* The program implements VaultLedger: money moves in its seven ways and no
\* other, whatever the players, the oracle and the cranks do.
THEOREM LedgerImplemented == Spec => ImplementsLedger
<1>1. Init => Ledger!Init
  BY InitLedger
<1>2. TypeOK /\ VaultCovered /\ [Next]_vars => [Ledger!Next]_(Ledger!ledger)
  BY LedgerStep
<1> QED
  BY <1>1, <1>2, TypeCorrect, VaultAlwaysCovered, PTL
     DEF Spec, ImplementsLedger, Ledger!Spec

-----------------------------------------------------------------------------
(* Pots.  A star's pot is what its feeders and pushers have paid into it,  *)
(* and after it ends what is still to be collected.                        *)

FedBy(shares) == [p \in Players |-> shares[p].amount]

\* What a star's feeders have in it, and what its end owes them: the nursery was
\* theirs, a live pot holds the prize side of all they fed, a hole pays them the
\* whole pot and a stalled star what they paid into it.
PotOf(st, feed, shares) ==
  LET early == feed.early_volume
  IN /\ early = Total(FedBy(shares), Players)
     /\ \A p \in Players : OnStep(shares[p].amount)
     /\ feed.exists => early > 0
     /\ st.status \in {"Unborn", "Alive", "Dead"} =>
          \A p \in Players : ~shares[p].claimed
     /\ st.status = "Unborn" => early = 0
     /\ st.status # "Unborn" => st.total_mass < FEED_MASS \/ early > 0
     /\ st.status = "Alive" =>
          ~st.prize_claimed /\ PrizeCut(early) <= st.prize_pool
     /\ st.status = "BlackHole" =>
          /\ early > 0 /\ PrizeCut(early) <= st.final_prize
          /\ st.final_prize = st.prize_pool
     /\ st.status = "Stalled" =>
          early > 0 /\ st.final_prize = PrizeCut(early)

Pot(s) == PotOf(star[s], star_feed[s], feed_share[s])

PotInv == \A s \in StarIds : Pot(s)

\* What a pot reads of two stars is the same.
SamePot(a, b) ==
  /\ a.status = b.status
  /\ a.total_mass = b.total_mass
  /\ a.prize_pool = b.prize_pool
  /\ a.final_prize = b.final_prize
  /\ a.prize_claimed = b.prize_claimed

\* PotOf only reads the fields SamePot compares.
LEMMA SamePotKept ==
  ASSUME NEW a, NEW b, NEW feed, NEW shares, SamePot(a, b),
         PotOf(b, feed, shares)
  PROVE  PotOf(a, feed, shares)
  BY DEF SamePot, PotOf

\* A step that rewrites no pot.
LEMMA PotsKept ==
  ASSUME PotInv, UNCHANGED feeds, \A t \in StarIds : SamePot(star'[t], star[t])
  PROVE  PotInv'
<1>1. \A t \in StarIds :
        star_feed'[t] = star_feed[t] /\ feed_share'[t] = feed_share[t]
  BY DEF feeds
<1>2. \A t \in StarIds : PotOf(star'[t], star_feed[t], feed_share[t])
  BY SamePotKept DEF PotInv, Pot
<1> QED
  BY <1>1, <1>2 DEF PotInv, Pot, PotOf

\* A step that rewrites one pot.
LEMMA OnePotKept ==
  ASSUME PotInv, NEW s \in StarIds,
         \A t \in StarIds : t # s => /\ star'[t] = star[t]
                                     /\ star_feed'[t] = star_feed[t]
                                     /\ feed_share'[t] = feed_share[t],
         PotOf(star'[s], star_feed'[s], feed_share'[s])
  PROVE  PotInv'
  BY DEF PotInv, Pot, PotOf

\* Draws, voids, answers, sweeps and seconds touch no pot.
LEMMA OtherStepsSamePot ==
  ASSUME TypeOK,
         \/ \E s \in StarIds, o \in Outlays : DrawRound(s, o)
         \/ \E s \in StarIds, r \in RoundIds : RoundStep(s, r)
         \/ NextSecond
  PROVE  /\ UNCHANGED <<feeds, prize_liability>>
         /\ \A t \in StarIds : SamePot(star'[t], star[t])
<1>1. UNCHANGED <<feeds, prize_liability>>
  <2>1. CASE \E s \in StarIds, o \in Outlays : DrawRound(s, o)
    BY <2>1, Zenon DEF DrawRound
  <2>2. CASE \E s \in StarIds, r \in RoundIds : RoundStep(s, r)
    BY <2>2, Zenon DEF RoundStep, ConsumeRandomness, ExpireRound,
                       CloseRoundAccount, money, buckets
  <2>3. CASE NextSecond
    BY <2>3, Zenon DEF NextSecond, money, buckets
  <2> QED
    BY <2>1, <2>2, <2>3, Zenon
<1>2. \A t \in StarIds : star[t] \in StarRecord
  BY DEF TypeOK
<1>3. \A t \in StarIds :
        \/ \E n : star'[t] = [star[t] EXCEPT !.current_round = n]
        \/ \E q : star'[t] = [star[t] EXCEPT !.quiet = q]
        \/ star'[t] = star[t]
  <2>1. \/ \E s \in StarIds : \E n : star' = [star EXCEPT ![s].current_round = n]
        \/ \A t \in StarIds : \E q : star'[t] = [star[t] EXCEPT !.quiet = q]
                                        \/ star'[t] = star[t]
        \/ UNCHANGED star
    BY Zenon DEF DrawRound, RoundStep, ConsumeRandomness, ExpireRound,
                 CloseRoundAccount, NextSecond
  <2> QED
    BY <2>1, Zenon DEF TypeOK
<1>4. \A st \in StarRecord :
        /\ \A n : SamePot([st EXCEPT !.current_round = n], st)
        /\ \A q : SamePot([st EXCEPT !.quiet = q], st)
        /\ SamePot(st, st)
  <2> SUFFICES ASSUME NEW st \in StarRecord
               PROVE  /\ \A n : SamePot([st EXCEPT !.current_round = n], st)
                      /\ \A q : SamePot([st EXCEPT !.quiet = q], st)
                      /\ SamePot(st, st)
    OBVIOUS
  <2>1. \A n : SamePot([st EXCEPT !.current_round = n], st)
    BY Zenon DEF SamePot, StarRecord
  <2>2. \A q : SamePot([st EXCEPT !.quiet = q], st)
    BY Zenon DEF SamePot, StarRecord
  <2>3. SamePot(st, st)
    BY DEF SamePot
  <2> QED
    BY <2>1, <2>2, <2>3
<1>5. ASSUME NEW t \in StarIds PROVE SamePot(star'[t], star[t])
  <2>1. star[t] \in StarRecord
    BY <1>2
  <2>2. /\ \A n : SamePot([star[t] EXCEPT !.current_round = n], star[t])
        /\ \A q : SamePot([star[t] EXCEPT !.quiet = q], star[t])
        /\ SamePot(star[t], star[t])
    BY <2>1, <1>4, Zenon
  <2> QED
    BY <1>3, <2>2, Zenon
<1> QED
  BY <1>1, <1>5

\* What a pot still owes, of the accounts it is made of (Owed).
OwedOf(st, feed, shares) ==
  CASE st.status = "Unborn" -> 0
    [] st.status = "Alive" -> st.prize_pool
    [] st.status = "Dead" -> IF st.prize_claimed THEN 0 ELSE st.final_prize
    [] OTHER ->
         st.final_prize
           - Total([p \in Players |-> (shares[p].amount * st.final_prize)
                                        \div feed.early_volume],
                   {p \in Players : shares[p].claimed})

\* OwedOf is Owed, before a step and after it.
LEMMA OwedIs ==
  ASSUME NEW s \in StarIds
  PROVE  /\ Owed(s) = OwedOf(star[s], star_feed[s], feed_share[s])
         /\ Owed(s)' = OwedOf(star'[s], star_feed'[s], feed_share'[s])
  BY DEF Owed, OwedOf, Collected, HoleShare

Feeds == [exists : BOOLEAN, early_volume : Nat]
Shares == [Players -> [amount : Nat, claimed : BOOLEAN]]

\* The feeders of a hole or a stalled star: whoever has collected, what they
\* were paid is within the pot, and their parts are numbers.
LEMMA FeedersFit ==
  ASSUME NEW st \in StarRecord, NEW feed \in Feeds, NEW shares \in Shares,
         PotOf(st, feed, shares), st.status \in {"BlackHole", "Stalled"},
         NEW T \in SUBSET Players
  PROVE  LET part == [p \in Players |-> (shares[p].amount * st.final_prize)
                                          \div feed.early_volume]
         IN /\ \A p \in Players : part[p] \in Nat
            /\ Total(part, T) \in Nat
            /\ Total(part, T) <= st.final_prize
            /\ IsFiniteSet(T)
<1> DEFINE w == st.final_prize
           e == feed.early_volume
           part == [p \in Players |-> (shares[p].amount * w) \div e]
           fed == FedBy(shares)
<1>1. /\ IsFiniteSet(Players) /\ IsFiniteSet(T)
      /\ w \in Nat /\ e \in Nat \ {0} /\ Total(fed, Players) = e
      /\ \A p \in Players : fed[p] \in Nat /\ fed[p] = shares[p].amount
  <2>1. IsFiniteSet(Players) /\ IsFiniteSet(T)
    BY FiniteAssumption, FS_Subset
  <2>2. w \in Nat /\ e \in Nat
    BY DEF StarRecord, Feeds
  <2>3. e > 0 /\ Total(fed, Players) = e
    BY DEF PotOf
  <2>4. \A p \in Players : fed[p] \in Nat /\ fed[p] = shares[p].amount
    BY DEF FedBy, Shares
  <2> QED
    BY <2>1, <2>2, <2>3, <2>4
<1> HIDE DEF w, e, fed
<1>2. \A p \in Players : fed[p] \in Nat /\ part[p] = (fed[p] * w) \div e
  BY <1>1
<1> HIDE DEF part
<1>3. Total(fed, T) <= e /\ Total(fed, Players) <= e
  BY <1>1, TotalPart
<1>4. Total(part, T) \in Nat /\ Total(part, T) <= w
  BY <1>1, <1>2, <1>3, PartsFit
<1>5. \A p \in Players : part[p] \in Nat
  BY <1>1, <1>2, PartRange
<1> QED
  BY <1>1, <1>4, <1>5 DEF part, w, e

\* No pot is overpaid.
LEMMA PotOwes ==
  ASSUME NEW st \in StarRecord, NEW feed \in Feeds, NEW shares \in Shares,
         PotOf(st, feed, shares)
  PROVE  OwedOf(st, feed, shares) \in Nat
<1> DEFINE T == {p \in Players : shares[p].claimed}
<1>1. CASE st.status \in {"BlackHole", "Stalled"}
  <2>1. T \in SUBSET Players /\ st.final_prize \in Nat
    BY DEF StarRecord
  <2> HIDE DEF T
  <2> QED
    BY <1>1, <2>1, FeedersFit DEF OwedOf, T
<1>2. CASE st.status \notin {"BlackHole", "Stalled"}
  BY <1>2 DEF OwedOf, StarRecord, StarStatus
<1> QED
  BY <1>1, <1>2

\* One pot moved by d: the rest stand, and the liability moves with it.
PotMoves(s, d) ==
  /\ \A t \in StarIds : t # s => /\ SamePot(star'[t], star[t])
                                 /\ star_feed'[t] = star_feed[t]
                                 /\ feed_share'[t] = feed_share[t]
  /\ PotOf(star'[s], star_feed'[s], feed_share'[s])
  /\ OwedOf(star'[s], star_feed'[s], feed_share'[s])
       = OwedOf(star[s], star_feed[s], feed_share[s]) + d
  /\ prize_liability' = prize_liability + d

\* No pot moved.
PotsStay ==
  /\ UNCHANGED <<feeds, prize_liability>>
  /\ \A t \in StarIds : SamePot(star'[t], star[t])

\* A pot that moves is kept, and the rest with it.
LEMMA PotMovesKept ==
  ASSUME PotInv, NEW s \in StarIds, NEW d, PotMoves(s, d)
  PROVE  PotInv'
<1>1. \A t \in StarIds : t # s => PotOf(star'[t], star_feed'[t], feed_share'[t])
  <2>1. \A t \in StarIds : t # s => PotOf(star'[t], star_feed[t], feed_share[t])
    BY SamePotKept DEF PotInv, Pot, PotMoves
  <2> QED
    BY <2>1 DEF PotMoves
<1>2. \A t \in StarIds : PotOf(star'[t], star_feed'[t], feed_share'[t])
  BY <1>1 DEF PotMoves
<1> QED
  BY <1>2 DEF PotInv, Pot, PotOf

\* OwedOf only reads the fields SamePot compares.
LEMMA SamePotOwed ==
  ASSUME NEW a, NEW b, NEW feed, NEW shares, SamePot(a, b)
  PROVE  OwedOf(a, feed, shares) = OwedOf(b, feed, shares)
  BY DEF SamePot, OwedOf

\* The liability is what the pots owe, before the step and so after it.
LEMMA PrizesMove ==
  ASSUME TypeOK, TypeOK', PotInv, PotInv', PrizesBacked,
         \/ \E s \in StarIds, d \in Int : PotMoves(s, d)
         \/ PotsStay
  PROVE  PrizesBacked'
<1> DEFINE old == [s \in StarIds |-> Owed(s)]
           new == [s \in StarIds |-> Owed(s)']
<1>1. /\ IsFiniteSet(StarIds)
      /\ \A s \in StarIds : old[s] \in Nat /\ new[s] \in Nat
  <2>1. \A s \in StarIds :
          /\ star[s] \in StarRecord /\ star'[s] \in StarRecord
          /\ star_feed[s] \in Feeds /\ star_feed'[s] \in Feeds
          /\ feed_share[s] \in Shares /\ feed_share'[s] \in Shares
    BY DEF TypeOK, Feeds, Shares
  <2>2. \A s \in StarIds : /\ PotOf(star[s], star_feed[s], feed_share[s])
                           /\ PotOf(star'[s], star_feed'[s], feed_share'[s])
    BY DEF PotInv, Pot, PotOf
  <2>3. \A s \in StarIds : Owed(s) \in Nat /\ Owed(s)' \in Nat
    BY <2>1, <2>2, OwedIs, PotOwes
  <2> QED
    BY <2>3, FiniteKeys
<1>2. prize_liability = Total(old, StarIds)
  BY DEF PrizesBacked
<1>3. SUFFICES prize_liability' = Total(new, StarIds)
  BY <1>1 DEF PrizesBacked
<1>4. \A t \in StarIds :
        star_feed'[t] = star_feed[t] /\ feed_share'[t] = feed_share[t]
          /\ SamePot(star'[t], star[t]) => new[t] = old[t]
  BY OwedIs, SamePotOwed
<1>5. ASSUME NEW s \in StarIds, NEW d \in Int, PotMoves(s, d)
      PROVE  prize_liability' = Total(new, StarIds)
  <2>1. \A t \in StarIds \ {s} : new[t] = old[t]
    BY <1>4, <1>5 DEF PotMoves
  <2>2. new[s] = old[s] + d /\ prize_liability' = prize_liability + d
    BY <1>5, OwedIs DEF PotMoves
  <2> HIDE DEF old, new
  <2>3. Total(new, StarIds) = Total(old, StarIds) - old[s] + new[s]
    BY <1>1, <2>1, TotalChanges
  <2>4. Total(old, StarIds) \in Nat
    BY <1>1, TotalNat
  <2> QED
    BY <1>1, <1>2, <2>2, <2>3, <2>4
<1>6. CASE PotsStay
  <2>1. \A t \in StarIds : new[t] = old[t]
    BY <1>4, <1>6 DEF PotsStay, feeds
  <2> HIDE DEF old, new
  <2>2. Total(new, StarIds) = Total(old, StarIds)
    BY <1>1, <2>1, TotalCongruent
  <2> QED
    BY <1>2, <1>6, <2>2 DEF PotsStay
<1> QED
  BY <1>5, <1>6

\* A star is born owing its endowment, with nobody's feed in it.
LEMMA BornPot ==
  ASSUME NEW st \in StarRecord, st.status = "Unborn", NEW feed, NEW shares,
         PotOf(st, feed, shares), NEW endowment \in Nat, endowment < FEED_MASS
  PROVE  LET new == NewStar("Alive", endowment)
         IN /\ PotOf(new, feed, shares)
            /\ OwedOf(new, feed, shares) = OwedOf(st, feed, shares) + endowment
<1> DEFINE new == NewStar("Alive", endowment)
<1>1. /\ new.status = "Alive" /\ new.total_mass = endowment
      /\ new.prize_pool = endowment /\ new.prize_claimed = FALSE
  BY DEF NewStar
<1> HIDE DEF new
<1>2. PrizeCut(0) <= endowment
  <2>1. PrizeCut(0) \in 0..0
    BY CutRange
  <2> QED
    BY <2>1
<1>3. feed.early_volume = 0
  BY DEF PotOf
<1>4. PotOf(new, feed, shares)
  BY <1>1, <1>2, <1>3 DEF PotOf
<1>5. OwedOf(new, feed, shares) = endowment /\ OwedOf(st, feed, shares) = 0
  BY <1>1 DEF OwedOf
<1> QED
  BY <1>4, <1>5 DEF new

\* create_first_star and create_next_star: the endowment leaves the reserve for
\* the new star's pot.
LEMMA CreatePot ==
  ASSUME TypeOK, RoundInv, PotInv, CreateFirstStar \/ CreateNextStar
  PROVE  \E s \in StarIds, d \in Int : PotMoves(s, d)
<1>1. \A s \in StarIds :
        /\ PotOf(star[s], star_feed[s], feed_share[s])
        /\ star[s] \in StarRecord
  BY DEF PotInv, Pot, TypeOK
<1>2. CASE CreateFirstStar
  <2> DEFINE new == NewStar("Alive", 0)
  <2>1. 1 \in StarIds /\ star[1].status = "Unborn"
    BY <1>2 DEF CreateFirstStar, RoundInv
  <2>2. /\ star'[1] = new /\ \A t \in StarIds : t # 1 => star'[t] = star[t]
        /\ UNCHANGED <<star_feed, feed_share, prize_liability>>
    BY <1>2 DEF CreateFirstStar, TypeOK, money, buckets, feeds
  <2>3. 0 \in Nat /\ 0 < FEED_MASS
    BY MathAssumption
  <2>4. /\ PotOf(new, star_feed[1], feed_share[1])
        /\ OwedOf(new, star_feed[1], feed_share[1])
             = OwedOf(star[1], star_feed[1], feed_share[1]) + 0
    BY <1>1, <2>1, <2>3, BornPot
  <2> HIDE DEF new
  <2>5. PotMoves(1, 0)
    BY <2>2, <2>4 DEF PotMoves, SamePot, TypeOK
  <2> QED
    BY <2>1, <2>5
<1>3. CASE CreateNextStar
  <2> DEFINE s == current_star_id + 1
             prev == current_star_id
             born == NewStar("Alive", Endowment)
             older == [star[prev] EXCEPT !.next_star_created = TRUE]
  <2>1. /\ s \in StarIds /\ prev \in StarIds /\ s # prev
        /\ star[s].status = "Unborn"
        /\ UNCHANGED <<star_feed, feed_share>>
        /\ prize_liability' = prize_liability + Endowment
    BY <1>3 DEF CreateNextStar, StarIds, feeds
  <2>2. \A t \in StarIds :
          star'[t] = IF t = s THEN born
                     ELSE IF t = prev THEN older ELSE star[t]
    BY <1>3, <2>1 DEF CreateNextStar, TypeOK
  <2>3. SamePot(older, star[prev])
    BY <2>1 DEF SamePot, TypeOK, StarRecord
  <2>4. Endowment \in Nat /\ Endowment < FEED_MASS
    BY EndowmentFacts
  <2>5. /\ PotOf(born, star_feed[s], feed_share[s])
        /\ OwedOf(born, star_feed[s], feed_share[s])
             = OwedOf(star[s], star_feed[s], feed_share[s]) + Endowment
    BY <1>1, <2>1, <2>4, BornPot
  <2> DEFINE endowment == Endowment
  <2>6. endowment \in Int /\ prize_liability' = prize_liability + endowment
    BY <2>1, <2>4
  <2> HIDE DEF born, older, s, prev, endowment
  <2>7. \A t \in StarIds : t # s => SamePot(star'[t], star[t])
    BY <2>1, <2>2, <2>3 DEF SamePot
  <2>8. star'[s] = born
    BY <2>1, <2>2
  <2>9. PotMoves(s, endowment)
    BY <2>1, <2>5, <2>6, <2>7, <2>8 DEF PotMoves, endowment
  <2> QED
    BY <2>1, <2>6, <2>9
<1> QED
  BY <1>2, <1>3

\* A feeder puts in more.
LEMMA FedMore ==
  ASSUME NEW shares \in Shares, NEW p \in Players, NEW a \in Nat, OnStep(a),
         \A q \in Players : OnStep(shares[q].amount),
         NEW new,
         \A q \in Players :
           /\ new[q].claimed = shares[q].claimed
           /\ new[q].amount = IF q = p THEN shares[q].amount + a
                                       ELSE shares[q].amount
  PROVE  /\ Total(FedBy(new), Players) = Total(FedBy(shares), Players) + a
         /\ \A q \in Players : /\ OnStep(new[q].amount)
                               /\ new[q].claimed = shares[q].claimed
<1> DEFINE f == FedBy(shares)
           g == FedBy(new)
<1>1. \A q \in Players :
        /\ new[q].claimed = shares[q].claimed
        /\ new[q].amount = IF q = p THEN shares[q].amount + a ELSE shares[q].amount
        /\ shares[q].amount \in Nat
  BY DEF Shares
<1>2. /\ \A q \in Players : f[q] \in Nat /\ g[q] \in Nat
      /\ \A q \in Players \ {p} : g[q] = f[q]
      /\ g[p] = f[p] + a
  BY <1>1 DEF FedBy
<1> HIDE DEF f, g
<1>3. IsFiniteSet(Players)
  BY FiniteAssumption
<1>4. Total(g, Players) = Total(f, Players) - f[p] + g[p]
  BY <1>2, <1>3, TotalChanges
<1>5. Total(f, Players) \in Nat
  BY <1>2, <1>3, TotalNat
<1>6. Total(g, Players) = Total(f, Players) + a
  BY <1>2, <1>4, <1>5
<1>7. \A q \in Players : OnStep(new[q].amount)
  BY <1>1, OnStepSum
<1> QED
  BY <1>1, <1>6, <1>7 DEF f, g

\* feed: the pot owes the prize side of the amount more, and holds it.
LEMMA FeedPot ==
  ASSUME TypeOK, LineInv, PotInv,
         NEW s \in StarIds, NEW p \in Players, NEW a \in PushAmounts,
         Feed(s, p, a)
  PROVE  \E d \in Int : PotMoves(s, d)
<1>1. PICK amount \in Nat \ {0} :
        /\ OnStep(amount)
        /\ IsAlive(star[s]) /\ IsAlive(star'[s])
        /\ \A t \in StarIds : t # s => star'[t] = star[t]
        /\ star'[s].prize_pool = star[s].prize_pool + PrizeCut(amount)
        /\ star'[s].prize_claimed = star[s].prize_claimed
        /\ prize_liability' = prize_liability + PrizeCut(amount)
        /\ feed_share' = [feed_share EXCEPT ![s][p].amount = @ + amount]
        /\ star_feed'[s].early_volume = star_feed[s].early_volume + amount
        /\ \A t \in StarIds : t # s => star_feed'[t] = star_feed[t]
  BY FeedMoves
<1> DEFINE early == star_feed[s].early_volume
           shares == feed_share[s]
<1>2. /\ PotOf(star[s], star_feed[s], shares)
      /\ early \in Nat /\ shares \in Shares /\ star[s].prize_pool \in Nat
  BY DEF PotInv, Pot, TypeOK, Shares, StarRecord
<1>3. /\ feed_share'[s] = [shares EXCEPT ![p].amount = @ + amount]
      /\ \A t \in StarIds : t # s => feed_share'[t] = feed_share[t]
  BY <1>1 DEF TypeOK
<1>4. /\ early = Total(FedBy(shares), Players)
      /\ \A q \in Players : OnStep(shares[q].amount) /\ ~shares[q].claimed
      /\ PrizeCut(early) <= star[s].prize_pool /\ ~star[s].prize_claimed
  BY <1>1, <1>2 DEF PotOf, IsAlive
<1> DEFINE new == feed_share'[s]
<1> HIDE DEF shares, new, early
<1>5. /\ star_feed'[s].early_volume = Total(FedBy(new), Players)
      /\ \A q \in Players : OnStep(new[q].amount) /\ ~new[q].claimed
  <2>1. /\ amount \in Nat
        /\ \A q \in Players :
             /\ new[q].claimed = shares[q].claimed
             /\ new[q].amount = IF q = p THEN shares[q].amount + amount
                                         ELSE shares[q].amount
    BY <1>2, <1>3 DEF new, Shares
  <2>2. /\ Total(FedBy(new), Players) = Total(FedBy(shares), Players) + amount
        /\ \A q \in Players : /\ OnStep(new[q].amount)
                              /\ new[q].claimed = shares[q].claimed
    BY <1>1, <1>2, <1>4, <2>1, FedMore
  <2>3. star_feed'[s].early_volume = early + amount
    BY <1>1 DEF early
  <2> QED
    BY <1>4, <2>2, <2>3
<1>6. /\ PrizeCut(amount) \in Nat /\ PrizeCut(early) \in Nat
      /\ PrizeCut(early + amount) \in Nat
      /\ PrizeCut(early + amount) <= PrizeCut(early) + PrizeCut(amount)
  <2> HIDE DEF early
  <2>1. amount \in Nat /\ early \in Nat /\ early + amount \in Nat
    BY <1>2
  <2>2. /\ PrizeCut(amount) \in Nat /\ PrizeCut(early) \in Nat
        /\ PrizeCut(early + amount) \in Nat
    BY <2>1, CutRange
  <2>3. PrizeCut(early + amount) <= PrizeCut(early) + PrizeCut(amount)
    BY <2>1, CutSplits
  <2> QED
    BY <2>2, <2>3
<1>7. /\ PrizeCut(star_feed'[s].early_volume) <= star'[s].prize_pool
      /\ star_feed'[s].early_volume > 0
  BY <1>1, <1>2, <1>4, <1>6 DEF early
<1>8. PotOf(star'[s], star_feed'[s], feed_share'[s])
  BY <1>1, <1>4, <1>5, <1>7 DEF PotOf, IsAlive, new
<1>9. OwedOf(star'[s], star_feed'[s], feed_share'[s])
        = OwedOf(star[s], star_feed[s], feed_share[s]) + PrizeCut(amount)
  BY <1>1 DEF OwedOf, IsAlive
<1>10. PotMoves(s, PrizeCut(amount))
  BY <1>1, <1>3, <1>8, <1>9 DEF PotMoves, SamePot
<1> QED
  BY <1>6, <1>10

\* A star that ends for its feeders owes them its whole prize: nobody has
\* collected.
LEMMA EndedOwes ==
  ASSUME NEW st, NEW new, NEW feed, NEW shares, PotOf(st, feed, shares),
         IsAlive(st), new.status \in {"BlackHole", "Stalled"},
         new.final_prize \in Nat
  PROVE  OwedOf(new, feed, shares) = new.final_prize
<1> DEFINE part == [p \in Players |-> (shares[p].amount * new.final_prize)
                                        \div feed.early_volume]
           paid == {p \in Players : shares[p].claimed}
<1>1. paid = {}
  BY DEF PotOf, IsAlive
<1>2. OwedOf(new, feed, shares) = new.final_prize - Total(part, paid)
  BY DEF OwedOf
<1> HIDE DEF part, paid
<1>3. Total(part, paid) = 0
  BY <1>1, FS_EmptySet, TotalUnfolds
<1> QED
  BY <1>2, <1>3

\* collapse_stalled_star: the feeders are owed what they fed at the pot's share,
\* and the rest of the pot leaves the liability.
LEMMA StallPot ==
  ASSUME TypeOK, PotInv, NEW s \in StarIds, CollapseStalledStar(s)
  PROVE  \E d \in Int : PotMoves(s, d)
<1> DEFINE st == star[s]
           early == star_feed[s].early_volume
           claimable == Least(PrizeCut(early), st.prize_pool)
           recycled == st.prize_pool - claimable
           new == Finish(st, "Stalled", claimable)
<1>1. /\ star_feed[s].exists /\ IsStalled(st)
      /\ star' = [star EXCEPT ![s] = new]
      /\ prize_liability' = prize_liability - recycled
      /\ UNCHANGED <<star_feed, feed_share>>
  BY DEF CollapseStalledStar, feeds
<1>2. /\ PotOf(st, star_feed[s], feed_share[s]) /\ st \in StarRecord
      /\ early \in Nat /\ st.prize_pool \in Nat /\ prize_liability \in Nat
  BY DEF PotInv, Pot, TypeOK, StarRecord
<1>3. IsAlive(st) /\ st.status = "Alive"
  BY <1>1 DEF IsStalled, IsAlive
<1>4. early > 0 /\ PrizeCut(early) <= st.prize_pool /\ PrizeCut(early) \in Nat
  BY <1>1, <1>2, <1>3, CutRange DEF PotOf
<1>5. claimable = PrizeCut(early)
  BY <1>2, <1>4 DEF Least
<1>6. new.status = "Stalled" /\ new.final_prize = claimable
  BY <1>2 DEF Finish, StarRecord
<1>7. star'[s] = new /\ \A t \in StarIds : t # s => star'[t] = star[t]
  BY <1>1 DEF TypeOK
<1> HIDE DEF new, claimable
<1>8. PotOf(new, star_feed[s], feed_share[s])
  BY <1>2, <1>3, <1>4, <1>5, <1>6 DEF PotOf
<1>9. OwedOf(new, star_feed[s], feed_share[s]) = claimable
  BY <1>2, <1>3, <1>4, <1>5, <1>6, EndedOwes
<1>10. OwedOf(st, star_feed[s], feed_share[s]) = st.prize_pool
  BY <1>3 DEF OwedOf
<1> DEFINE d == claimable - st.prize_pool
<1>11. d \in Int /\ claimable = st.prize_pool + d
       /\ prize_liability' = prize_liability + d
  BY <1>1, <1>2, <1>4, <1>5
<1> HIDE DEF d
<1>12. PotMoves(s, d)
  BY <1>1, <1>7, <1>8, <1>9, <1>10, <1>11 DEF PotMoves, SamePot
<1> QED
  BY <1>11, <1>12

\* request_push: no pot moves, but the star's feed account is there from now on.
LEMMA RequestPot ==
  ASSUME TypeOK, LineInv, PotInv,
         NEW s \in StarIds, NEW k \in PushKeys, NEW a \in PushAmounts,
         RequestPush(s, k, a)
  PROVE  PotMoves(s, 0)
<1>1. /\ IsAlive(star[s]) /\ IsAlive(star'[s])
      /\ star[s].total_mass >= FEED_MASS
      /\ \A t \in StarIds : t # s => star'[t] = star[t]
      /\ star'[s].total_mass = star[s].total_mass
      /\ star'[s].prize_pool = star[s].prize_pool
      /\ star'[s].final_prize = star[s].final_prize
      /\ star'[s].prize_claimed = star[s].prize_claimed
  BY RequestMoves
<1>2. /\ star_feed' = [star_feed EXCEPT ![s].exists = TRUE]
      /\ UNCHANGED <<feed_share, prize_liability>>
  BY DEF RequestPush
<1>3. /\ star_feed'[s].early_volume = star_feed[s].early_volume
      /\ \A t \in StarIds : t # s => star_feed'[t] = star_feed[t]
  BY <1>2 DEF TypeOK
<1>4. /\ PotOf(star[s], star_feed[s], feed_share[s])
      /\ star[s].total_mass \in Nat /\ star[s].prize_pool \in Nat
      /\ prize_liability \in Nat
  BY DEF PotInv, Pot, TypeOK, StarRecord
<1>5. star_feed[s].early_volume > 0
  BY <1>1, <1>4, MathAssumption DEF PotOf, IsAlive
<1>6. SamePot(star'[s], star[s])
  BY <1>1 DEF SamePot, IsAlive
<1>7. PotOf(star'[s], star_feed[s], feed_share[s])
  BY <1>4, <1>6, SamePotKept
<1>8. PotOf(star'[s], star_feed'[s], feed_share'[s])
  BY <1>2, <1>3, <1>5, <1>7 DEF PotOf
<1>9. OwedOf(star'[s], star_feed'[s], feed_share'[s])
        = OwedOf(star[s], star_feed[s], feed_share[s]) + 0
  <2>1. /\ OwedOf(star'[s], star_feed'[s], feed_share'[s]) = star'[s].prize_pool
        /\ OwedOf(star[s], star_feed[s], feed_share[s]) = star[s].prize_pool
    BY <1>1 DEF OwedOf, IsAlive
  <2> QED
    BY <1>1, <1>4, <2>1
<1> QED
  BY <1>1, <1>2, <1>3, <1>4, <1>8, <1>9 DEF PotMoves, SamePot

\* A star that has had a push in line has had its nursery filled by feeders, so
\* nothing of its pot recycles.
LEMMA LineFed ==
  ASSUME TypeOK, LineInv, RoundInv, EscrowBacked, PlaceInv, PotInv,
         NEW k \in PushKeys, AtCursor(k)
  PROVE  LET s == pending_push[k].star_id
         IN /\ s \in StarIds /\ pending_push[k].amount \in Nat \ {0}
            /\ star[s].status # "Unborn"
            /\ star_feed[s].early_volume > 0
            /\ star[s].pending_pushes >= 1
<1> DEFINE s == pending_push[k].star_id
<1>1. pending_push[k].status = "Pending" /\ pending_push[k].amount > 0
  BY DEF AtCursor, PlaceInv, InPlace
<1>2. /\ s \in StarIds /\ pending_push[k].amount \in Nat
      /\ pending_push[k].amount <= star[s].pending_lamports
      /\ star[s].pending_pushes >= 1
  BY <1>1, StakeInEscrow
<1>3. star[s].status # "Unborn"
  BY <1>2 DEF RoundInv, StarRounds, NoTrace
<1>4. star[s].total_mass >= FEED_MASS
  <2>1. star[s] \in StarRecord /\ StarInv(star[s])
    BY <1>2 DEF TypeOK, LineInv
  <2>2. pending_push[k].amount \in Nat \ {0}
    BY <1>1, <1>2
  <2> QED
    BY <1>2, <2>1, <2>2, NurseryEmpty
<1>5. star_feed[s].early_volume > 0
  <2>1. PotOf(star[s], star_feed[s], feed_share[s])
    BY <1>2 DEF PotInv, Pot
  <2>2. ~(star[s].total_mass < FEED_MASS)
    <3>1. FEED_MASS \in Nat
      BY MathAssumption
    <3>2. star[s].total_mass \in Nat
      BY <1>2 DEF TypeOK, StarRecord
    <3> QED
      BY <1>4, <3>1, <3>2
  <2> HIDE DEF s
  <2> QED
    BY <1>3, <2>1, <2>2 DEF PotOf
<1> QED
  BY <1>1, <1>2, <1>3, <1>5

\* resolve_push, refund path: the stake was never the pot's, and a star it ends
\* owes its feeders what it held.
LEMMA RefundPot ==
  ASSUME TypeOK, LineInv, RoundInv, EscrowBacked, PlaceInv, PotInv,
         NEW k \in PushKeys, RefundPush(k),
         NEW s, s = pending_push[k].star_id
  PROVE  s \in StarIds /\ PotMoves(s, 0)
<1> DEFINE old == star[s]
           new == star'[s]
           feed == star_feed[s]
           shares == feed_share[s]
<1>1. AtCursor(k)
  BY DEF RefundPush
<1>2. s \in StarIds /\ old.status # "Unborn" /\ feed.early_volume > 0
  BY <1>1, LineFed
<1>3. /\ UNCHANGED <<star_feed, feed_share>>
      /\ \A t \in StarIds : t # s => star'[t] = star[t]
      /\ new.total_mass = old.total_mass
      /\ new.prize_pool = old.prize_pool
      /\ new.prize_claimed = old.prize_claimed
      /\ \/ /\ IsAlive(old) /\ new.status = "BlackHole"
            /\ prize_liability' = prize_liability - Recycled(old, feed.early_volume)
            /\ new.final_prize = old.prize_pool - Recycled(old, feed.early_volume)
         \/ /\ new.status = old.status
            /\ new.final_prize = old.final_prize
            /\ prize_liability' = prize_liability - 0
  BY RefundMoves DEF feeds, IsAlive
<1>4. Recycled(old, feed.early_volume) = 0
  BY <1>2 DEF Recycled
<1>5. /\ PotOf(old, feed, shares) /\ old.prize_pool \in Nat
      /\ prize_liability \in Nat
      /\ OwedOf(old, feed, shares) \in Nat
  <2>1. /\ old \in StarRecord /\ feed \in Feeds /\ shares \in Shares
        /\ PotOf(old, feed, shares)
    BY <1>2 DEF TypeOK, Feeds, Shares, PotInv, Pot
  <2> QED
    BY <2>1, PotOwes DEF StarRecord, TypeOK
<1> HIDE DEF old, new, feed, shares
<1>6. prize_liability' = prize_liability + 0
  BY <1>3, <1>4, <1>5
<1>7. PotOf(new, feed, shares)
      /\ OwedOf(new, feed, shares) = OwedOf(old, feed, shares) + 0
  <2>1. CASE SamePot(new, old)
    <3>1. /\ PotOf(new, feed, shares)
          /\ OwedOf(new, feed, shares) = OwedOf(old, feed, shares)
      BY <1>5, <2>1, SamePotKept, SamePotOwed
    <3> QED
      BY <1>5, <3>1
  <2>2. CASE IsAlive(old) /\ new.status = "BlackHole"
    <3>1. new.final_prize = new.prize_pool /\ new.final_prize = old.prize_pool
      BY <1>3, <1>4, <1>5, <2>2 DEF IsAlive
    <3>2. PotOf(new, feed, shares)
      BY <1>2, <1>3, <1>5, <2>2, <3>1 DEF PotOf, IsAlive
    <3>3. OwedOf(new, feed, shares) = new.final_prize
      BY <1>5, <2>2, <3>1, EndedOwes
    <3>4. OwedOf(old, feed, shares) = old.prize_pool
      BY <2>2 DEF OwedOf, IsAlive
    <3> QED
      BY <1>5, <3>1, <3>2, <3>3, <3>4
  <2> QED
    BY <1>3, <2>1, <2>2 DEF SamePot
<1> QED
  BY <1>2, <1>3, <1>6, <1>7 DEF PotMoves, SamePot, old, new, feed, shares

\* resolve_push, settle path: the pot gets its side of the stake, whether the
\* star goes on, dies or collapses with it.
LEMMA SettlePot ==
  ASSUME TypeOK, LineInv, RoundInv, EscrowBacked, PlaceInv, PotInv,
         NEW k \in PushKeys, NEW rolls \in BOOLEAN, SettlePush(k, rolls),
         NEW s, s = pending_push[k].star_id
  PROVE  s \in StarIds /\ \E d \in Int : PotMoves(s, d)
<1> DEFINE old == star[s]
           new == star'[s]
           feed == star_feed[s]
           shares == feed_share[s]
           cut == PrizeCut(pending_push[k].amount)
<1>1. AtCursor(k)
  BY DEF SettlePush
<1>2. /\ s \in StarIds /\ old.status # "Unborn" /\ feed.early_volume > 0
      /\ pending_push[k].amount \in Nat /\ pending_push[k].amount > 0
  BY <1>1, LineFed
<1>3. /\ UNCHANGED <<star_feed, feed_share>>
      /\ \A t \in StarIds : t # s => star'[t] = star[t]
      /\ ~IsFinished(old)
      /\ new.prize_pool = old.prize_pool + cut
      /\ new.prize_claimed = old.prize_claimed
      /\ \/ /\ new.status = "Dead"
            /\ new.final_prize = new.prize_pool
            /\ prize_liability' = prize_liability + cut - 0
         \/ /\ new.status = "BlackHole"
            /\ new.final_prize
                 = new.prize_pool - Recycled(new, feed.early_volume)
            /\ prize_liability'
                 = prize_liability + cut - Recycled(new, feed.early_volume)
         \/ /\ new.status = old.status
            /\ prize_liability' = prize_liability + cut - 0
  <2>1. new.status = old.status /\ ~IsFinished(old) => new.status # "BlackHole"
    BY DEF IsFinished
  <2> QED
    BY <1>2, <2>1, SettleMoves DEF feeds
<1>4. Recycled(new, feed.early_volume) = 0
  BY <1>2 DEF Recycled
<1>5. /\ PotOf(old, feed, shares) /\ old.prize_pool \in Nat
      /\ prize_liability \in Nat /\ cut \in Nat
      /\ IsAlive(old) /\ old.status = "Alive"
  <2>1. /\ old \in StarRecord /\ PotOf(old, feed, shares)
    BY <1>2 DEF TypeOK, PotInv, Pot
  <2>2. cut \in Nat
    BY <1>2, CutRange
  <2> QED
    BY <1>2, <1>3, <2>1, <2>2
       DEF StarRecord, StarStatus, IsFinished, IsAlive, TypeOK
<1> HIDE DEF old, new, feed, shares, cut
<1>6. prize_liability' = prize_liability + cut
  BY <1>3, <1>4, <1>5
<1>7. /\ OwedOf(old, feed, shares) = old.prize_pool
      /\ new.prize_pool \in Nat
  BY <1>3, <1>5 DEF OwedOf
<1>8. /\ PrizeCut(feed.early_volume) <= new.prize_pool
      /\ ~new.prize_claimed
      /\ \A p \in Players : ~shares[p].claimed
  <2>1. /\ PrizeCut(feed.early_volume) <= old.prize_pool /\ ~old.prize_claimed
        /\ \A p \in Players : ~shares[p].claimed
    BY <1>5 DEF PotOf
  <2>2. PrizeCut(feed.early_volume) \in Nat
    BY <1>2, CutRange DEF feed, TypeOK
  <2> QED
    BY <1>3, <1>5, <2>1, <2>2
<1>9. new.status = "BlackHole" => new.final_prize = new.prize_pool
  BY <1>3, <1>4, <1>5, <1>7
<1>10. PotOf(new, feed, shares)
  BY <1>2, <1>3, <1>5, <1>8, <1>9 DEF PotOf
<1>11. OwedOf(new, feed, shares) = new.prize_pool
  <2>1. CASE new.status = "BlackHole"
    BY <1>5, <1>7, <1>9, <2>1, EndedOwes
  <2>2. CASE new.status \in {"Alive", "Dead"}
    BY <1>3, <1>5, <1>8, <2>2 DEF OwedOf
  <2> QED
    BY <1>3, <1>5, <2>1, <2>2
<1>12. PotMoves(s, cut)
  BY <1>2, <1>3, <1>6, <1>7, <1>10, <1>11
     DEF PotMoves, SamePot, old, new, feed, shares
<1> QED
  BY <1>2, <1>5, <1>12

\* claim_prize: the killer is paid, and the pot owes nothing more.
LEMMA ClaimPrizePot ==
  ASSUME TypeOK, PotInv, NEW s \in StarIds, ClaimPrize(s)
  PROVE  \E d \in Int : PotMoves(s, d)
<1> DEFINE old == star[s]
           new == [old EXCEPT !.prize_claimed = TRUE]
           feed == star_feed[s]
           shares == feed_share[s]
           prize == old.final_prize
<1>1. /\ old.status = "Dead" /\ ~old.prize_claimed
      /\ star' = [star EXCEPT ![s] = new]
      /\ prize_liability' = prize_liability - prize
      /\ UNCHANGED <<star_feed, feed_share>>
  BY DEF ClaimPrize, feeds
<1>2. /\ old \in StarRecord /\ PotOf(old, feed, shares)
      /\ prize \in Nat /\ prize_liability \in Nat
  BY DEF TypeOK, PotInv, Pot, StarRecord
<1>3. /\ new.status = "Dead" /\ new.prize_claimed
      /\ new.total_mass = old.total_mass
  BY <1>1, <1>2 DEF StarRecord
<1>4. star'[s] = new /\ \A t \in StarIds : t # s => star'[t] = star[t]
  BY <1>1 DEF TypeOK
<1> HIDE DEF new
<1>5. PotOf(new, feed, shares)
  BY <1>1, <1>2, <1>3 DEF PotOf
<1>6. OwedOf(new, feed, shares) = 0 /\ OwedOf(old, feed, shares) = prize
  BY <1>1, <1>3 DEF OwedOf
<1> HIDE DEF old, feed, shares, prize
<1>7. PotMoves(s, 0 - prize)
  <2>1. /\ OwedOf(new, feed, shares) = OwedOf(old, feed, shares) + (0 - prize)
        /\ prize_liability' = prize_liability + (0 - prize)
    BY <1>1, <1>2, <1>6
  <2> QED
    BY <1>1, <1>4, <1>5, <2>1 DEF PotMoves, SamePot, old, feed, shares
<1>8. 0 - prize \in Int
  BY <1>2
<1> QED
  BY <1>7, <1>8

\* claim_hole_share: a feeder collects their part, and the pot owes that much
\* less.
LEMMA ClaimHolePot ==
  ASSUME TypeOK, PotInv, NEW s \in StarIds, NEW p \in Players,
         ClaimHoleShare(s, p)
  PROVE  \E d \in Int : PotMoves(s, d)
<1> DEFINE st == star[s]
           feed == star_feed[s]
           shares == feed_share[s]
           new == feed_share'[s]
           part == [q \in Players |-> (shares[q].amount * st.final_prize)
                                        \div feed.early_volume]
           paid == {q \in Players : shares[q].claimed}
<1>1. /\ st.status \in {"BlackHole", "Stalled"} /\ ~shares[p].claimed
      /\ prize_liability' = prize_liability - part[p]
      /\ feed_share' = [feed_share EXCEPT ![s][p].claimed = TRUE]
      /\ UNCHANGED <<star, star_feed>>
  BY DEF ClaimHoleShare, HoleShare
<1>2. /\ st \in StarRecord /\ feed \in Feeds /\ shares \in Shares
      /\ PotOf(st, feed, shares) /\ prize_liability \in Nat
      /\ st.final_prize \in Nat
  BY DEF TypeOK, PotInv, Pot, Feeds, Shares, StarRecord
<1>3. /\ \A q \in Players : /\ new[q].amount = shares[q].amount
                            /\ new[q].claimed <=> q = p \/ shares[q].claimed
      /\ \A t \in StarIds : t # s => feed_share'[t] = feed_share[t]
  <2> DEFINE row == [shares[p] EXCEPT !.claimed = TRUE]
  <2>1. /\ \A t \in StarIds : t # s => feed_share'[t] = feed_share[t]
        /\ new = [shares EXCEPT ![p] = row]
    BY <1>1 DEF TypeOK
  <2>2. row.amount = shares[p].amount /\ row.claimed
    BY <1>2 DEF Shares
  <2> HIDE DEF row, new, shares
  <2>3. \A q \in Players : new[q] = IF q = p THEN row ELSE shares[q]
    BY <1>2, <2>1 DEF Shares
  <2>4. ASSUME NEW q \in Players
        PROVE  /\ new[q].amount = shares[q].amount
               /\ new[q].claimed <=> q = p \/ shares[q].claimed
    <3>1. CASE q = p
      BY <2>2, <2>3, <3>1, Zenon
    <3>2. CASE q # p
      BY <2>3, <3>2, Zenon
    <3> QED
      BY <3>1, <3>2
  <2> QED
    BY <2>1, <2>4
<1>4. FedBy(new) = FedBy(shares)
  BY <1>3 DEF FedBy
<1>5. PotOf(st, feed, new)
  BY <1>1, <1>2, <1>3, <1>4 DEF PotOf
<1>6. /\ [q \in Players |-> (new[q].amount * st.final_prize)
                              \div feed.early_volume] = part
      /\ {q \in Players : new[q].claimed} = paid \cup {p}
      /\ p \notin paid /\ paid \in SUBSET Players
  <2>1. ASSUME NEW q \in Players
        PROVE  (new[q].amount * st.final_prize) \div feed.early_volume
                 = (shares[q].amount * st.final_prize) \div feed.early_volume
    BY <1>3
  <2>2. [q \in Players |-> (new[q].amount * st.final_prize)
                              \div feed.early_volume] = part
    BY <2>1
  <2> HIDE DEF new, shares, part
  <2>3. {q \in Players : new[q].claimed} = paid \cup {p}
    BY <1>3, Zenon
  <2>4. p \notin paid /\ paid \in SUBSET Players
    BY <1>1, Zenon
  <2> QED
    BY <2>2, <2>3, <2>4
<1>7. /\ OwedOf(st, feed, shares) = st.final_prize - Total(part, paid)
      /\ OwedOf(st, feed, new) = st.final_prize - Total(part, paid \cup {p})
  BY <1>1, <1>6 DEF OwedOf
<1>8. /\ \A q \in Players : part[q] \in Nat
      /\ Total(part, paid) \in Nat /\ IsFiniteSet(paid)
  <2>1. paid \in SUBSET Players
    BY <1>6
  <2> HIDE DEF st, feed, shares, paid
  <2> QED
    BY <1>1, <1>2, <2>1, FeedersFit
<1> HIDE DEF st, feed, shares, new, part, paid
<1>9. Total(part, paid \cup {p}) = Total(part, paid) + part[p]
  BY <1>6, <1>8, TotalGrows
<1>10. /\ OwedOf(st, feed, new) = OwedOf(st, feed, shares) + (0 - part[p])
       /\ prize_liability' = prize_liability + (0 - part[p])
       /\ 0 - part[p] \in Int
  BY <1>1, <1>2, <1>7, <1>8, <1>9
<1>11. PotMoves(s, 0 - part[p])
  BY <1>1, <1>3, <1>5, <1>10 DEF PotMoves, SamePot, st, feed, shares, new
<1> QED
  BY <1>10, <1>11

\* Every step moves one pot or none.
LEMMA PotsMove ==
  ASSUME TypeOK, LineInv, RoundInv, EscrowBacked, PlaceInv, PotInv, [Next]_vars
  PROVE  \/ \E s \in StarIds, d \in Int : PotMoves(s, d)
         \/ PotsStay
<1>1. ASSUME UNCHANGED <<star, feeds, prize_liability>> PROVE PotsStay
  BY <1>1 DEF PotsStay, SamePot
<1>2. ASSUME NEW s \in StarIds, StarStep(s)
      PROVE  (\E d \in Int : PotMoves(s, d)) \/ PotsStay
  <2>1. 0 \in Int
    OBVIOUS
  <2>2. ASSUME NEW o \in Outlays, DrawRound(s, o) PROVE PotsStay
    BY <2>2, OtherStepsSamePot DEF PotsStay
  <2> QED
    BY <1>2, <2>1, <2>2, FeedPot, StallPot, RequestPot, ClaimPrizePot,
       ClaimHolePot DEF StarStep
<1>3. CASE \E s \in StarIds, r \in RoundIds : RoundStep(s, r)
  BY <1>3, OtherStepsSamePot DEF PotsStay
<1>4. ASSUME NEW k \in PushKeys, ResolvePush(k) \/ ClosePush(k)
      PROVE  (\E s \in StarIds, d \in Int : PotMoves(s, d)) \/ PotsStay
  <2>1. 0 \in Int
    OBVIOUS
  <2>2. ASSUME ClosePush(k) PROVE PotsStay
    BY <1>1, <2>2 DEF ClosePush, money, buckets
  <2>3. ASSUME RefundPush(k) PROVE \E s \in StarIds, d \in Int : PotMoves(s, d)
    BY <2>1, <2>3, RefundPot
  <2>4. ASSUME NEW rolls \in BOOLEAN, SettlePush(k, rolls)
        PROVE  \E s \in StarIds, d \in Int : PotMoves(s, d)
    BY <2>4, SettlePot
  <2> QED
    BY <1>4, <2>2, <2>3, <2>4 DEF ResolvePush
<1>5. CASE HouseStep \/ NextSlot \/ UNCHANGED vars
  BY <1>1, <1>5 DEF HouseStep, FundProtocol, WithdrawProtocolFees, NextSlot,
                    vars, money, buckets
<1>6. CASE NextSecond
  BY <1>6, OtherStepsSamePot DEF PotsStay
<1> QED
  BY <1>2, <1>3, <1>4, <1>5, <1>6, CreatePot DEF Next

\* initialize leaves every pot empty and nothing owed.
LEMMA InitPots == Init => PotInv /\ PrizesBacked
<1> SUFFICES ASSUME Init PROVE PotInv /\ PrizesBacked
  OBVIOUS
<1>1. \A s \in StarIds :
        /\ star[s].status = "Unborn"
        /\ star_feed[s].early_volume = 0 /\ ~star_feed[s].exists
        /\ \A p \in Players : feed_share[s][p].amount = 0
                              /\ ~feed_share[s][p].claimed
  BY DEF Init, NewStar
<1>2. \A s \in StarIds : Total(FedBy(feed_share[s]), Players) = 0
  <2> TAKE s \in StarIds
  <2> DEFINE f == FedBy(feed_share[s])
  <2>1. \A p \in Players : f[p] = 0
    BY <1>1 DEF FedBy
  <2> HIDE DEF f
  <2>2. Total(f, Players) = 0
    BY <2>1, FiniteAssumption, TotalZero
  <2> QED
    BY <2>2 DEF f
<1>3. PotInv
  BY <1>1, <1>2, ZeroOnStep DEF PotInv, Pot, PotOf
<1>4. PrizesBacked
  <2> DEFINE f == [s \in StarIds |-> Owed(s)]
  <2>1. \A s \in StarIds : Owed(s) = 0
    BY <1>1 DEF Owed
  <2>2. \A s \in StarIds : f[s] = 0
    BY <2>1
  <2> HIDE DEF f
  <2>3. Total(f, StarIds) = 0
    BY <2>2, FiniteKeys, TotalZero
  <2>4. prize_liability = Total(f, StarIds)
    BY <2>3 DEF Init
  <2> QED
    BY <2>1, <2>4 DEF PrizesBacked, f
<1> QED
  BY <1>3, <1>4

\* The pots, and what is owed on them, in every reachable state.
LEMMA PotsAlways == Spec => [](PotInv /\ PrizesBacked)
<1>1. TypeOK /\ TypeOK' /\ LineInv /\ RoundInv /\ EscrowBacked /\ PlaceInv
        /\ PotInv /\ PrizesBacked /\ [Next]_vars => (PotInv /\ PrizesBacked)'
  <2> SUFFICES ASSUME TypeOK, TypeOK', LineInv, RoundInv, EscrowBacked,
                      PlaceInv, PotInv, PrizesBacked, [Next]_vars
               PROVE  PotInv' /\ PrizesBacked'
    OBVIOUS
  <2>1. \/ \E s \in StarIds, d \in Int : PotMoves(s, d)
        \/ PotsStay
    BY PotsMove
  <2>2. PotInv'
    BY <2>1, PotMovesKept, PotsKept DEF PotsStay
  <2> QED
    BY <2>1, <2>2, PrizesMove
<1> QED
  BY <1>1, InitPots, TypeCorrect, LineInvAlways, RoundInvAlways, LinesAlways,
     PTL DEF Spec

\* prize_liability is exactly what the pots owe and no pot is overpaid, through
\* kills, collapses, recycling, endowments and claims in any order: feeders'
\* parts are rounded down, so however many collect they stay within the pot.
THEOREM PrizesAlwaysBacked == Spec => []PrizesBacked
  BY PotsAlways, PTL

\* A hole always has feeders to pay, so its pot never recycles.
THEOREM HoleNeverEverRecycles == Spec => []HoleNeverRecycles
<1>1. PotInv => HoleNeverRecycles
  BY DEF PotInv, Pot, PotOf, HoleNeverRecycles
<1> QED
  BY <1>1, PotsAlways, PTL

\* A stalled star pays its feeders at cost: the min in collapse_stalled_star
\* never binds.
THEOREM StallAlwaysPaysAtCost == Spec => []StallPaysAtCost
<1>1. PotInv => StallPaysAtCost
  BY DEF PotInv, Pot, PotOf, StallPaysAtCost
<1> QED
  BY <1>1, PotsAlways, PTL

\* The vault holds what any bucket claims.
LEMMA VaultHolds ==
  ASSUME TypeOK, VaultCovered
  PROVE  /\ vault \in Nat /\ pending_liability \in Nat /\ prize_liability \in Nat
         /\ pending_liability <= vault /\ prize_liability <= vault
  BY IdleType DEF TypeOK, VaultCovered, Reserved

\* What one pot owes is within the liability.
LEMMA OwedWithin ==
  ASSUME TypeOK, PotInv, PrizesBacked, NEW s \in StarIds
  PROVE  OwedOf(star[s], star_feed[s], feed_share[s]) \in Nat
         /\ OwedOf(star[s], star_feed[s], feed_share[s]) <= prize_liability
<1> DEFINE f == [t \in StarIds |-> Owed(t)]
<1>1. \A t \in StarIds : f[t] \in Nat
  <2>1. \A t \in StarIds :
          /\ star[t] \in StarRecord /\ star_feed[t] \in Feeds
          /\ feed_share[t] \in Shares
          /\ PotOf(star[t], star_feed[t], feed_share[t])
    BY DEF TypeOK, Feeds, Shares, PotInv, Pot
  <2> QED
    BY <2>1, OwedIs, PotOwes
<1>2. prize_liability = Total(f, StarIds)
  BY DEF PrizesBacked
<1>3. f[s] = OwedOf(star[s], star_feed[s], feed_share[s])
  BY OwedIs
<1> HIDE DEF f
<1>4. f[s] <= Total(f, StarIds)
  BY <1>1, FiniteKeys, TotalNat
<1> QED
  BY <1>1, <1>2, <1>3, <1>4

\* A feeder's part of a hole is at least a lamport and within what the pot owes.
LEMMA ShareDue ==
  ASSUME TypeOK, PotInv, NEW s \in StarIds, NEW p \in Players,
         star[s].status \in {"BlackHole", "Stalled"},
         feed_share[s][p].amount > 0, ~feed_share[s][p].claimed
  PROVE  /\ HoleShare(s, p) \in Nat
         /\ HoleShare(s, p) >= 1
         /\ HoleShare(s, p) <= OwedOf(star[s], star_feed[s], feed_share[s])
<1> DEFINE st == star[s]
           feed == star_feed[s]
           shares == feed_share[s]
           w == st.final_prize
           e == feed.early_volume
           part == [q \in Players |-> (shares[q].amount * w) \div e]
           paid == {q \in Players : shares[q].claimed}
<1>1. /\ st \in StarRecord /\ feed \in Feeds /\ shares \in Shares
      /\ PotOf(st, feed, shares) /\ w \in Nat /\ e \in Nat
      /\ shares[p].amount \in Nat
  BY DEF TypeOK, PotInv, Pot, Feeds, Shares, StarRecord
<1>2. OwedOf(st, feed, shares) = w - Total(part, paid)
  BY DEF OwedOf
<1>3. part[p] = HoleShare(s, p)
  BY DEF HoleShare
<1>4. paid \in SUBSET Players /\ p \notin paid
  OBVIOUS
<1>5. HoleShare(s, p) = (shares[p].amount * w) \div e
  BY DEF HoleShare
<1>6. e > 0 /\ OnStep(shares[p].amount) /\ PrizeCut(e) <= w
  <2>1. e > 0 /\ OnStep(shares[p].amount)
        /\ (PrizeCut(e) <= w \/ w = PrizeCut(e))
    BY <1>1 DEF PotOf
  <2> QED
    BY <1>1, <2>1
<1> HIDE DEF paid
<1>7. /\ \A q \in Players : part[q] \in Nat
      /\ Total(part, paid) \in Nat /\ IsFiniteSet(paid)
      /\ Total(part, paid \cup {p}) <= w
  <2>1. paid \cup {p} \in SUBSET Players
    BY <1>4
  <2> QED
    BY <1>1, <1>4, <2>1, FeedersFit
<1> HIDE DEF part, st, feed, shares, w, e
<1>8. Total(part, paid \cup {p}) = Total(part, paid) + part[p]
  BY <1>4, <1>7, TotalGrows
<1>9. HoleShare(s, p) \in Nat /\ HoleShare(s, p) <= w - Total(part, paid)
  BY <1>1, <1>3, <1>7, <1>8
<1>10. HoleShare(s, p) >= 1
  <2>1. shares[p].amount \in Nat \ {0} /\ e \in Nat \ {0}
    BY <1>1, <1>6 DEF shares
  <2>2. (shares[p].amount * w) \div e >= 1
    BY <1>1, <1>6, <2>1, ShareAssumption, ShareWorth
  <2> QED
    BY <1>5, <2>2
<1> QED
  BY <1>2, <1>9, <1>10 DEF st, feed, shares

\* A claim that is due can always be paid, the winner's and every feeder's, and
\* a feeder's never rounds down to nothing.
THEOREM ClaimsNeverEverBlocked == Spec => []ClaimsNeverBlocked
<1>1. ASSUME TypeOK, VaultCovered, PotInv, PrizesBacked
      PROVE  ClaimsNeverBlocked
  <2> DEFINE due == Least(vault, prize_liability)
  <2>1. due = prize_liability /\ prize_liability \in Nat
    BY <1>1, VaultHolds DEF Least
  <2> HIDE DEF due
  <2>2. ASSUME NEW s \in StarIds, star[s].status = "Dead",
               ~star[s].prize_claimed
        PROVE  star[s].final_prize <= due
    <3>1. OwedOf(star[s], star_feed[s], feed_share[s]) = star[s].final_prize
      BY <2>2 DEF OwedOf
    <3> QED
      BY <1>1, <2>1, <3>1, OwedWithin
  <2>3. ASSUME NEW s \in StarIds, star[s].status \in {"BlackHole", "Stalled"},
               NEW p \in Players, feed_share[s][p].amount > 0,
               ~feed_share[s][p].claimed
        PROVE  HoleShare(s, p) \in 1..due
    <3> DEFINE owed == OwedOf(star[s], star_feed[s], feed_share[s])
               share == HoleShare(s, p)
    <3>1. owed \in Nat /\ owed <= prize_liability
      BY <1>1, OwedWithin
    <3>2. share \in Nat /\ share >= 1 /\ share <= owed
      BY <1>1, <2>3, ShareDue
    <3> HIDE DEF owed, share
    <3>3. share \in 1..due
      BY <2>1, <3>1, <3>2
    <3> QED
      BY <3>3 DEF share
  <2> QED
    BY <2>2, <2>3 DEF ClaimsNeverBlocked, due
<1> QED
  BY <1>1, TypeCorrect, VaultAlwaysCovered, PotsAlways, PTL

\* The push at the cursor can always be resolved once it has an outcome: every
\* checked subtraction and payment of resolve_push succeeds.
THEOREM HeadNeverEverWedges == Spec => []HeadNeverWedges
<1>1. ASSUME TypeOK, LineInv, RoundInv, EscrowBacked, PlaceInv, PotInv,
             PrizesBacked, VaultCovered,
             NEW k \in PushKeys, AtCursor(k)
      PROVE  LET p == pending_push[k]
                 st == star[p.star_id]
             IN /\ p.amount <= Least(vault, pending_liability)
                /\ p.amount <= st.pending_lamports
                /\ st.pending_pushes >= 1
                /\ st.prize_pool <= prize_liability \/ IsFinished(st)
  <2> DEFINE s == pending_push[k].star_id
  <2>1. pending_push[k].status = "Pending"
    BY <1>1 DEF AtCursor
  <2>2. /\ s \in StarIds
        /\ pending_push[k].amount <= pending_liability
        /\ pending_push[k].amount <= star[s].pending_lamports
        /\ star[s].pending_pushes >= 1
    BY <1>1, <2>1, StakeInEscrow
  <2>3. Least(vault, pending_liability) = pending_liability
    BY <1>1, VaultHolds DEF Least
  <2>4. star[s].prize_pool <= prize_liability \/ IsFinished(star[s])
    <3>1. star[s].status \in StarStatus /\ star[s].status # "Unborn"
      BY <1>1, <2>2, LineFed DEF TypeOK, StarRecord
    <3>2. CASE star[s].status = "Alive"
      <4>1. OwedOf(star[s], star_feed[s], feed_share[s]) = star[s].prize_pool
        BY <3>2 DEF OwedOf
      <4> QED
        BY <1>1, <2>2, <4>1, OwedWithin
    <3> QED
      BY <3>1, <3>2 DEF IsFinished, StarStatus
  <2> QED
    BY <2>2, <2>3, <2>4
<1>2. TypeOK /\ LineInv /\ RoundInv /\ EscrowBacked /\ PlaceInv /\ PotInv
        /\ PrizesBacked /\ VaultCovered => HeadNeverWedges
  BY <1>1 DEF HeadNeverWedges
<1> QED
  BY <1>2, TypeCorrect, LineInvAlways, RoundInvAlways, LinesAlways,
     PotsAlways, VaultAlwaysCovered, PTL
=============================================================================

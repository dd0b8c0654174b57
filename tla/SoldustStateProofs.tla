------------------------- MODULE SoldustStateProofs -------------------------
(***************************************************************************)
(* What the accounts are, for every value of the constants.                *)
(*                                                                         *)
(* First type correctness, one lemma per instruction; every other proof    *)
(* starts from it.  Then RoundInv, which says what is needed of a star     *)
(* together with its rounds: a round that exists has members and is not    *)
(* beyond the star's round counter, the counter's own round is unsealed,   *)
(* and a star not yet born has left no trace.                              *)
(*                                                                         *)
(* Then a star's line.  The invariants the runs check are not inductive    *)
(* one by one: that the line fits under the hole cap needs every mass and  *)
(* stake on the step lattice (room that is not a whole step would be       *)
(* quoted as none, and none is not clipped), and a feed needs the line     *)
(* empty below the nursery cap.  LineInv is their conjunction, star by     *)
(* star.  EscrowBacked and PlaceInv follow the stakes themselves: a        *)
(* stake's sum is in the counters exactly while it stands in line, and it  *)
(* stands at one place, which no other push has.                           *)
(***************************************************************************)
EXTENDS SoldustSafety, GameMathProofs

-----------------------------------------------------------------------------
(* What the helpers that rewrite a star return                             *)

\* A new star is a star record.
LEMMA NewStarType ==
  ASSUME NEW status \in StarStatus, NEW endowment \in Nat
  PROVE  NewStar(status, endowment) \in StarRecord
  BY DEF NewStar, StarRecord

\* A star a stake joined is a star record.
LEMMA JoinedType ==
  ASSUME NEW st \in StarRecord, NEW amount \in Nat
  PROVE  Joined(st, amount) \in StarRecord
<1>1. /\ st.push_counter + 1 \in Nat
      /\ st.pending_pushes + 1 \in Nat
      /\ st.pending_lamports + amount \in Nat
  BY DEF StarRecord
<1> QED
  BY <1>1, Zenon DEF Joined, StarRecord

\* A fed star is a star record.
LEMMA FedType ==
  ASSUME NEW st \in StarRecord, NEW amount \in Nat
  PROVE  Fed(st, amount) \in StarRecord
<1>1. PrizeCut(amount) \in Nat
  BY CutRange
<1>2. /\ st.total_mass + amount \in Nat
      /\ st.prize_pool + PrizeCut(amount) \in Nat
      /\ st.push_counter + 1 \in Nat
      /\ st.successful_pushes + 1 \in Nat
      /\ st.settle_cursor + 1 \in Nat
      /\ 0 \in Nat
  BY <1>1 DEF StarRecord
<1> QED
  BY <1>2, ZenonT(60) DEF Fed, StarRecord

\* A star that refunded a stake is a star record.
LEMMA RefundedType ==
  ASSUME NEW st \in StarRecord, NEW amount \in Nat,
         st.pending_pushes >= 1, amount <= st.pending_lamports
  PROVE  Refunded(st, amount) \in StarRecord
<1>1. /\ st.pending_pushes - 1 \in Nat
      /\ st.pending_lamports - amount \in Nat
      /\ st.cancelled_pushes + 1 \in Nat
      /\ st.settle_cursor + 1 \in Nat
  BY DEF StarRecord
<1> QED
  BY <1>1, Zenon DEF Refunded, StarRecord

\* A star a stake landed on is a star record.
LEMMA LandedType ==
  ASSUME NEW st \in StarRecord, NEW stake \in Nat, NEW accepted \in Nat,
         st.pending_pushes >= 1, stake <= st.pending_lamports
  PROVE  Landed(st, stake, accepted) \in StarRecord
<1>1. PrizeCut(accepted) \in Nat
  BY CutRange
<1>2. /\ st.total_mass + accepted \in Nat
      /\ st.prize_pool + PrizeCut(accepted) \in Nat
      /\ st.successful_pushes + 1 \in Nat
      /\ st.settle_cursor + 1 \in Nat
      /\ st.pending_pushes - 1 \in Nat
      /\ st.pending_lamports - stake \in Nat
      /\ 0 \in Nat
  BY <1>1 DEF StarRecord
<1> QED
  BY <1>2, ZenonT(60) DEF Landed, StarRecord

\* Setting a star's round counter to a number keeps the stars typed.
LEMMA CounterType ==
  ASSUME star \in [StarIds -> StarRecord], NEW s \in StarIds, NEW n \in Nat
  PROVE  [star EXCEPT ![s].current_round = n] \in [StarIds -> StarRecord]
<1>1. \A st \in StarRecord : [st EXCEPT !.current_round = n] \in StarRecord
  BY DEF StarRecord
<1> QED
  BY <1>1

\* A finished star is a star record.
LEMMA FinishType ==
  ASSUME NEW st \in StarRecord, NEW status \in StarStatus, NEW prize \in Nat
  PROVE  Finish(st, status, prize) \in StarRecord
  BY DEF Finish, StarRecord

\* A killed star is a star record.
LEMMA KillType ==
  ASSUME NEW st \in StarRecord, NEW player \in Players
  PROVE  Kill(st, player) \in StarRecord
<1>1. Finish(st, "Dead", st.prize_pool) \in StarRecord
  BY FinishType DEF StarRecord, StarStatus
<1> QED
  BY <1>1, Zenon DEF Kill, StarRecord

\* A collapsed star is a star record.
LEMMA CollapseType ==
  ASSUME NEW st \in StarRecord, NEW early \in Nat
  PROVE  /\ CollapseIntoHole(st, early) \in StarRecord
         /\ Recycled(st, early) \in Nat
<1>1. /\ Recycled(st, early) \in Nat
      /\ st.prize_pool - Recycled(st, early) \in Nat
  BY DEF Recycled, StarRecord
<1>2. "BlackHole" \in StarStatus
  BY DEF StarStatus
<1> QED
  BY <1>1, <1>2, FinishType DEF CollapseIntoHole

\* What create_next_star endows is whole lamports, at most what is in reserve.
LEMMA EndowmentType ==
  ASSUME TypeOK
  PROVE  Endowment \in 0..next_star_reserve
<1>1. FloorToStep(next_star_reserve) \in 0..next_star_reserve
  BY FloorRange DEF TypeOK
<1>2. FEED_MASS - PUSH_STEP \in Nat
  BY MathAssumption
<1> QED
  BY <1>1, <1>2 DEF Endowment, Least, TypeOK

\* An account that exists names a star and a round.
LEMMA PushType ==
  ASSUME TypeOK, NEW k \in PushKeys, pending_push[k].status # "Absent"
  PROVE  /\ pending_push[k].star_id \in StarIds
         /\ pending_push[k].round_id \in RoundIds
         /\ pending_push[k].push_id \in Nat
         /\ pending_push[k].amount \in Nat
         /\ k[1] \in Players
  BY DEF TypeOK, PushRecord, NoPush, PushKeys

\* A resolved push, with the amount that landed, is still a push record.
LEMMA PushUpdate ==
  ASSUME TypeOK, NEW k \in PushKeys, pending_push[k].status # "Absent",
         NEW status \in PushStatus \ {"Absent"}, NEW amount \in Nat
  PROVE  /\ [pending_push[k] EXCEPT !.status = status] \in PushRecord
         /\ [pending_push[k] EXCEPT !.status = status, !.amount = amount]
              \in PushRecord
<1>1. pending_push[k] \in [status : PushStatus \ {"Absent"}, star_id : StarIds,
                          push_id : Nat, round_id : RoundIds, amount : Nat]
  BY DEF TypeOK, PushRecord, NoPush
<1> QED
  BY <1>1 DEF PushRecord

\* Writing one round account keeps the rounds typed.
LEMMA RoundUpdate ==
  ASSUME round \in [StarIds -> [RoundIds -> RoundRecord]],
         NEW s \in StarIds, NEW r \in RoundIds, NEW rd \in RoundRecord
  PROVE  [round EXCEPT ![s][r] = rd] \in [StarIds -> [RoundIds -> RoundRecord]]
  OBVIOUS

\* The three instructions that move a round on restart its clock.
LEMMA RoundMoves ==
  ASSUME round \in [StarIds -> [RoundIds -> RoundRecord]],
         NEW s \in StarIds, NEW r \in RoundIds, NEW status \in RoundStatus
  PROVE  [round EXCEPT ![s][r].status = status, ![s][r].age = 0]
           \in [StarIds -> [RoundIds -> RoundRecord]]
<1>1. \A rd \in RoundRecord :
        [rd EXCEPT !.status = status, !.age = 0] \in RoundRecord
  BY DEF RoundRecord
<1>2. [round EXCEPT ![s][r].status = status, ![s][r].age = 0]
        = [round EXCEPT ![s][r] = [round[s][r] EXCEPT !.status = status,
                                                     !.age = 0]]
  OBVIOUS
<1>3. [round[s][r] EXCEPT !.status = status, !.age = 0] \in RoundRecord
  BY <1>1
<1> DEFINE rd == [round[s][r] EXCEPT !.status = status, !.age = 0]
<1>4. rd \in RoundRecord
  BY <1>3
<1>5. [round EXCEPT ![s][r].status = status, ![s][r].age = 0]
        = [round EXCEPT ![s][r] = rd]
  BY <1>2
<1> HIDE DEF rd
<1>6. [round EXCEPT ![s][r] = rd] \in [StarIds -> [RoundIds -> RoundRecord]]
  BY <1>4, RoundUpdate
<1> QED
  BY <1>5, <1>6

\* The same of one FeedShare account.
LEMMA ShareUpdate ==
  ASSUME feed_share \in
           [StarIds -> [Players -> [amount : Nat, claimed : BOOLEAN]]],
         NEW s \in StarIds, NEW p \in Players, NEW amount \in Nat
  PROVE  /\ [feed_share EXCEPT ![s][p].amount = amount]
              \in [StarIds -> [Players -> [amount : Nat, claimed : BOOLEAN]]]
         /\ [feed_share EXCEPT ![s][p].claimed = TRUE]
              \in [StarIds -> [Players -> [amount : Nat, claimed : BOOLEAN]]]
<1> DEFINE Share == [amount : Nat, claimed : BOOLEAN]
<1>1. \A sh \in Share : /\ [sh EXCEPT !.amount = amount] \in Share
                        /\ [sh EXCEPT !.claimed = TRUE] \in Share
  OBVIOUS
<1> HIDE DEF Share
<1>2. feed_share \in [StarIds -> [Players -> Share]]
  BY DEF Share
<1>3. /\ [feed_share EXCEPT ![s][p].amount = amount]
           \in [StarIds -> [Players -> Share]]
      /\ [feed_share EXCEPT ![s][p].claimed = TRUE]
           \in [StarIds -> [Players -> Share]]
  BY <1>1, <1>2
<1> QED
  BY <1>3 DEF Share

-----------------------------------------------------------------------------
(* Type correctness, instruction by instruction                            *)

\* initialize leaves every account in its type.
LEMMA InitType == Init => TypeOK
<1> SUFFICES ASSUME Init PROVE TypeOK
  OBVIOUS
<1>1. InitialVault \in Nat
  BY SoldustAssumption DEF InitialVault
<1>2. NewStar("Unborn", 0) \in StarRecord
  BY NewStarType DEF StarStatus
<1>3. NoRound \in RoundRecord
  BY DEF NoRound, RoundRecord, RoundStatus
<1>4. NoPush \in PushRecord
  BY DEF PushRecord
<1>5. 0 \in 0..MaxStars
  BY SoldustAssumption
<1> QED
  BY <1>1, <1>2, <1>3, <1>4, <1>5 DEF Init, TypeOK

\* create_first_star keeps every account in its type.
LEMMA CreateFirstStarType ==
  ASSUME TypeOK, CreateFirstStar
  PROVE  TypeOK'
<1>1. NewStar("Alive", 0) \in StarRecord
  BY NewStarType DEF StarStatus
<1>2. 1 \in 0..MaxStars
  BY DEF CreateFirstStar, StarIds
<1> QED
  BY <1>1, <1>2 DEF CreateFirstStar, TypeOK, money, buckets, feeds

\* create_next_star keeps every account in its type.
LEMMA CreateNextStarType ==
  ASSUME TypeOK, CreateNextStar
  PROVE  TypeOK'
<1> DEFINE new == current_star_id + 1
           prev == current_star_id
<1>1. NewStar("Alive", Endowment) \in StarRecord
  BY EndowmentType, NewStarType DEF StarStatus, TypeOK
<1>2. new \in StarIds /\ prev \in StarIds /\ new \in 0..MaxStars
  BY DEF CreateNextStar, StarIds
<1>3. /\ prize_liability' \in Nat
      /\ next_star_reserve' \in Nat
  BY EndowmentType DEF CreateNextStar, TypeOK
<1>4. star' \in [StarIds -> StarRecord]
  <2>1. star' = [[star EXCEPT ![new] = NewStar("Alive", Endowment)]
                   EXCEPT ![prev].next_star_created = TRUE]
    BY DEF CreateNextStar
  <2> HIDE DEF new, prev
  <2>2. [star EXCEPT ![new] = NewStar("Alive", Endowment)]
          \in [StarIds -> StarRecord]
    BY <1>1, <1>2 DEF TypeOK
  <2>3. \A st \in StarRecord :
          [st EXCEPT !.next_star_created = TRUE] \in StarRecord
    BY DEF StarRecord
  <2> QED
    BY <1>2, <2>1, <2>2, <2>3, Zenon
<1> QED
  BY <1>2, <1>3, <1>4 DEF CreateNextStar, TypeOK, feeds

\* feed keeps every account in its type.
LEMMA FeedType ==
  ASSUME TypeOK,
         NEW s \in StarIds, NEW p \in Players, NEW a \in PushAmounts,
         Feed(s, p, a)
  PROVE  TypeOK'
<1> DEFINE amount == AcceptPushAmount(a, RoomAt(star[s].total_mass))
<1>1. star[s] \in StarRecord /\ star[s].total_mass \in Nat
  BY DEF TypeOK, StarRecord
<1>2. amount \in Nat
  <2>1. a \in Nat
    BY SoldustAssumption
  <2>2. RoomAt(star[s].total_mass) \in Nat
    BY <1>1, RoomType
  <2> QED
    BY <2>1, <2>2, AcceptRange
<1>3. Fed(star[s], amount) \in StarRecord
  BY <1>1, <1>2, FedType
<1>4. ProtocolCut(amount) \in Nat /\ PrizeCut(amount) \in Nat
  BY <1>2, CutRange
<1> HIDE DEF amount
<1>5. star' = [star EXCEPT ![s] = Fed(star[s], amount)]
  BY DEF Feed, amount
<1>6. star' \in [StarIds -> StarRecord]
  BY <1>3, <1>5 DEF TypeOK
<1>7. /\ vault' \in Nat /\ protocol_accrued' \in Nat
      /\ prize_liability' \in Nat
  BY <1>2, <1>4 DEF Feed, amount, TypeOK
<1>8. star_feed' \in [StarIds -> [exists : BOOLEAN, early_volume : Nat]]
  <2>1. star_feed[s].early_volume + amount \in Nat
    BY <1>2 DEF TypeOK
  <2>2. star_feed' =
          [star_feed EXCEPT
             ![s] = [exists |-> TRUE,
                     early_volume |-> star_feed[s].early_volume + amount]]
    BY DEF Feed, amount, TypeOK
  <2> QED
    BY <2>1, <2>2 DEF TypeOK
<1>9. feed_share' \in
        [StarIds -> [Players -> [amount : Nat, claimed : BOOLEAN]]]
  <2>1. feed_share[s][p].amount + amount \in Nat
    BY <1>2 DEF TypeOK
  <2>2. feed_share' =
          [feed_share EXCEPT ![s][p].amount = feed_share[s][p].amount + amount]
    BY DEF Feed, amount, TypeOK
  <2> QED
    BY <2>1, <2>2, ShareUpdate DEF TypeOK
<1> QED
  BY <1>6, <1>7, <1>8, <1>9 DEF Feed, TypeOK

\* collapse_stalled_star keeps every account in its type.
LEMMA CollapseStalledStarType ==
  ASSUME TypeOK, NEW s \in StarIds, CollapseStalledStar(s)
  PROVE  TypeOK'
<1> DEFINE claimable == Least(PrizeCut(star_feed[s].early_volume),
                              star[s].prize_pool)
           recycled == star[s].prize_pool - claimable
<1>1. star[s] \in StarRecord /\ star[s].prize_pool \in Nat
  BY DEF TypeOK, StarRecord
<1>2. PrizeCut(star_feed[s].early_volume) \in Nat
  BY CutRange DEF TypeOK
<1>3. claimable \in Nat /\ recycled \in Nat
  BY <1>1, <1>2 DEF Least
<1> HIDE DEF claimable
<1>4. Finish(star[s], "Stalled", claimable) \in StarRecord
  BY <1>1, <1>3, FinishType DEF StarStatus
<1>5. star' = [star EXCEPT ![s] = Finish(star[s], "Stalled", claimable)]
  BY DEF CollapseStalledStar, claimable
<1>6. star' \in [StarIds -> StarRecord]
  BY <1>4, <1>5 DEF TypeOK
<1>7. prize_liability' \in Nat /\ next_star_reserve' \in Nat
  <2>1. /\ recycled <= prize_liability
        /\ prize_liability' = prize_liability - recycled
        /\ next_star_reserve' = next_star_reserve + recycled
    BY DEF CollapseStalledStar, claimable
  <2> QED
    BY <1>3, <2>1 DEF TypeOK
<1> QED
  BY <1>6, <1>7 DEF CollapseStalledStar, TypeOK, feeds

\* request_push keeps every account in its type.
LEMMA RequestPushType ==
  ASSUME TypeOK,
         NEW s \in StarIds, NEW k \in PushKeys, NEW a \in PushAmounts,
         RequestPush(s, k, a)
  PROVE  TypeOK'
<1> DEFINE st == star[s]
           r == st.current_round
           amount == AcceptPushAmount(a, QueueRoom(st))
           rd == IF round[s][r].member_count = 0
                 THEN [NoRound EXCEPT !.status = "Open",
                                      !.first_push_id = st.push_counter]
                 ELSE round[s][r]
           joined == [rd EXCEPT !.member_count = @ + 1, !.stake = @ + amount]
           push == [status |-> "Pending", star_id |-> s,
                    push_id |-> st.push_counter, round_id |-> r,
                    amount |-> amount]
<1>1. /\ st \in StarRecord
      /\ CommittedMass(st) \in Nat
      /\ st.push_counter \in Nat
  BY DEF TypeOK, StarRecord, CommittedMass
<1>2. amount \in Nat
  <2>1. a \in Nat
    BY SoldustAssumption
  <2>2. QueueRoom(st) \in Nat
    BY <1>1, RoomType DEF QueueRoom
  <2> QED
    BY <2>1, <2>2, AcceptRange
<1>3. r \in RoundIds
  BY DEF RequestPush
<1>4. joined \in RoundRecord
  <2>1. round[s][r] \in RoundRecord
    BY <1>3 DEF TypeOK
  <2>2. [NoRound EXCEPT !.status = "Open", !.first_push_id = st.push_counter]
          \in RoundRecord
    BY <1>1 DEF NoRound, RoundRecord, RoundStatus
  <2>3. rd \in RoundRecord
    BY <2>1, <2>2
  <2> HIDE DEF rd, amount
  <2>4. rd.member_count + 1 \in Nat /\ rd.stake + amount \in Nat
    BY <1>2, <2>3 DEF RoundRecord
  <2> QED
    BY <2>3, <2>4, Zenon DEF RoundRecord
<1>5. push \in PushRecord
  BY <1>1, <1>2, <1>3, Zenon DEF PushRecord, PushStatus
<1>6. Joined(st, amount) \in StarRecord
  BY <1>1, <1>2, JoinedType
<1>7. /\ star' = [star EXCEPT ![s] = Joined(st, amount)]
      /\ round' = [round EXCEPT ![s][r] = joined]
      /\ pending_push' = [pending_push EXCEPT ![k] = push]
      /\ star_feed' = [star_feed EXCEPT ![s].exists = TRUE]
      /\ vault' = vault + amount
      /\ pending_liability' = pending_liability + amount
      /\ UNCHANGED <<current_star_id, prize_liability, protocol_accrued,
                     next_star_reserve, feed_share>>
  BY Zenon DEF RequestPush
<1> HIDE DEF joined, push, amount, rd
<1>8. star' \in [StarIds -> StarRecord]
  BY <1>6, <1>7 DEF TypeOK
<1>9. round' \in [StarIds -> [RoundIds -> RoundRecord]]
  BY <1>3, <1>4, <1>7, RoundUpdate DEF TypeOK
<1>10. pending_push' \in [PushKeys -> PushRecord]
  BY <1>5, <1>7 DEF TypeOK
<1>11. star_feed' \in [StarIds -> [exists : BOOLEAN, early_volume : Nat]]
  BY <1>7 DEF TypeOK
<1>12. vault' \in Nat /\ pending_liability' \in Nat
  BY <1>2, <1>7 DEF TypeOK
<1> QED
  BY <1>7, <1>8, <1>9, <1>10, <1>11, <1>12 DEF TypeOK

\* resolve_push's refund path keeps every account in its type.
LEMMA RefundPushType ==
  ASSUME TypeOK, NEW k \in PushKeys, RefundPush(k)
  PROVE  TypeOK'
<1> DEFINE p == pending_push[k]
           s == p.star_id
           early == star_feed[s].early_volume
           rest == Refunded(star[s], p.amount)
           deadEnd == Stranded(s, rest)
           recycled == IF deadEnd THEN Recycled(rest, early) ELSE 0
           after == IF deadEnd THEN CollapseIntoHole(rest, early) ELSE rest
           push == [p EXCEPT !.status = "Cancelled"]
<1>1. p.status = "Pending"
  BY DEF RefundPush, AtCursor
<1>2. s \in StarIds /\ p.amount \in Nat
  BY <1>1, PushType
<1>3. push \in PushRecord
  BY <1>1, PushUpdate DEF PushStatus
<1>4. /\ star[s].pending_pushes >= 1
      /\ p.amount <= star[s].pending_lamports
      /\ p.amount <= pending_liability
      /\ p.amount <= vault
  BY DEF RefundPush, PayOut
<1>5. rest \in StarRecord
  BY <1>2, <1>4, RefundedType DEF TypeOK
<1>6. early \in Nat
  BY <1>2 DEF TypeOK
<1>7. after \in StarRecord /\ recycled \in Nat
  <2> HIDE DEF rest, early
  <2> QED
    BY <1>5, <1>6, CollapseType
<1>8. /\ recycled <= prize_liability
      /\ vault' = vault - p.amount
      /\ pending_liability' = pending_liability - p.amount
      /\ prize_liability' = prize_liability - recycled
      /\ next_star_reserve' = next_star_reserve + recycled
      /\ star' = [star EXCEPT ![s] = after]
      /\ pending_push' = [pending_push EXCEPT ![k] = push]
      /\ UNCHANGED <<current_star_id, protocol_accrued, feeds, round>>
  BY DEF RefundPush, PayOut
<1> HIDE DEF p, s, recycled, after, push
<1>9. /\ vault' \in Nat /\ pending_liability' \in Nat
      /\ prize_liability' \in Nat /\ next_star_reserve' \in Nat
  BY <1>2, <1>4, <1>7, <1>8 DEF TypeOK
<1> QED
  BY <1>2, <1>3, <1>7, <1>8, <1>9 DEF TypeOK, feeds

\* resolve_push's settle path keeps every account in its type.
LEMMA SettlePushType ==
  ASSUME TypeOK, NEW k \in PushKeys, NEW rolls \in BOOLEAN,
         SettlePush(k, rolls)
  PROVE  TypeOK'
<1> DEFINE p == pending_push[k]
           s == p.star_id
           st == star[s]
           nursery == st.total_mass < FEED_MASS
           accepted == AcceptedSettleAmount(p.amount, st.total_mass)
           landed == Landed(st, p.amount, accepted)
           fed == IF nursery THEN accepted ELSE 0
           early == star_feed[s].early_volume + fed
           lethal == rolls /\ ~nursery
           hole == ~lethal /\ (landed.total_mass >= HOLE_MASS
                                 \/ Stranded(s, landed))
           recycled == IF hole THEN Recycled(landed, early) ELSE 0
           after == IF lethal THEN Kill(landed, k[1])
                    ELSE IF hole THEN CollapseIntoHole(landed, early)
                    ELSE landed
           outcome == IF lethal THEN "Killed" ELSE "Survived"
           push == [p EXCEPT !.status = outcome, !.amount = accepted]
<1>1. p.status = "Pending"
  BY DEF SettlePush, AtCursor
<1>2. s \in StarIds /\ p.amount \in Nat /\ k[1] \in Players
  BY <1>1, PushType
<1>3. st \in StarRecord /\ st.total_mass \in Nat
  BY <1>2 DEF TypeOK, StarRecord
<1>4. accepted \in 0..p.amount
  BY <1>2, <1>3, SettleRange
<1>5. PrizeCut(accepted) \in Nat /\ ProtocolCut(accepted) \in Nat
  BY <1>4, CutRange
<1>6. /\ st.pending_pushes >= 1
      /\ p.amount <= st.pending_lamports
      /\ p.amount <= pending_liability
      /\ p.amount - accepted <= vault
  BY DEF SettlePush, PayOut
<1>7. landed \in StarRecord
  BY <1>2, <1>3, <1>4, <1>6, LandedType
<1>8. push \in PushRecord
  <2>1. outcome \in PushStatus \ {"Absent"}
    BY DEF PushStatus
  <2>2. accepted \in Nat
    BY <1>2, <1>4
  <2> HIDE DEF outcome, accepted
  <2> QED
    BY <1>1, <2>1, <2>2, PushUpdate
<1>9. fed \in Nat /\ early \in Nat
  BY <1>2, <1>4 DEF TypeOK
<1>10. /\ recycled <= prize_liability + PrizeCut(accepted)
       /\ vault' = vault - (p.amount - accepted)
       /\ pending_liability' = pending_liability - p.amount
       /\ protocol_accrued' = protocol_accrued + ProtocolCut(accepted)
       /\ prize_liability' = prize_liability + PrizeCut(accepted) - recycled
       /\ next_star_reserve' = next_star_reserve + recycled
       /\ star' = [star EXCEPT ![s] = after]
       /\ star_feed' = [star_feed EXCEPT ![s].early_volume = early]
       /\ feed_share' = [feed_share EXCEPT ![s][k[1]].amount = @ + fed]
       /\ pending_push' = [pending_push EXCEPT ![k] = push]
       /\ UNCHANGED <<current_star_id, round>>
  BY DEF SettlePush, PayOut
<1> HIDE DEF p, s, fed, early, push, landed, accepted
<1>11. after \in StarRecord /\ recycled \in Nat
  BY <1>2, <1>7, <1>9, CollapseType, KillType
<1> HIDE DEF after, recycled
<1>12. /\ vault' \in Nat /\ pending_liability' \in Nat
       /\ protocol_accrued' \in Nat
       /\ prize_liability' \in Nat /\ next_star_reserve' \in Nat
  BY <1>2, <1>4, <1>5, <1>6, <1>10, <1>11 DEF TypeOK
<1>13. star_feed' \in [StarIds -> [exists : BOOLEAN, early_volume : Nat]]
  BY <1>2, <1>9, <1>10 DEF TypeOK
<1>14. feed_share' \in
         [StarIds -> [Players -> [amount : Nat, claimed : BOOLEAN]]]
  <2>1. feed_share[s][k[1]].amount + fed \in Nat
    BY <1>2, <1>9 DEF TypeOK
  <2>2. feed_share' = [feed_share EXCEPT
                         ![s][k[1]].amount = feed_share[s][k[1]].amount + fed]
    BY <1>2, <1>10 DEF TypeOK
  <2> QED
    BY <1>2, <2>1, <2>2, ShareUpdate DEF TypeOK
<1>15. star' \in [StarIds -> StarRecord]
  BY <1>2, <1>10, <1>11 DEF TypeOK
<1>16. pending_push' \in [PushKeys -> PushRecord]
  BY <1>8, <1>10 DEF TypeOK
<1> QED
  BY <1>10, <1>12, <1>13, <1>14, <1>15, <1>16 DEF TypeOK

\* close_push keeps every account in its type.
LEMMA ClosePushType ==
  ASSUME TypeOK, NEW k \in PushKeys, ClosePush(k)
  PROVE  TypeOK'
  BY DEF ClosePush, TypeOK, PushRecord, money, buckets, feeds

\* draw_round keeps every account in its type.
LEMMA DrawRoundType ==
  ASSUME TypeOK, NEW s \in StarIds, NEW outlay \in Outlays,
         DrawRound(s, outlay)
  PROVE  TypeOK'
<1> DEFINE r == star[s].current_round
           paid == Least(outlay, protocol_accrued)
<1>1. r \in RoundIds /\ r + 1 \in Nat
  BY DEF DrawRound, RoundIds
<1>2. paid \in Nat /\ paid <= protocol_accrued
  <2>1. outlay \in Nat
    BY SoldustAssumption
  <2> QED
    BY <2>1 DEF Least, TypeOK
<1>3. /\ paid <= vault
      /\ vault' = vault - paid
      /\ protocol_accrued' = protocol_accrued - paid
      /\ round' = [round EXCEPT ![s][r].status = "Requested", ![s][r].age = 0]
      /\ star' = [star EXCEPT ![s].current_round = r + 1]
      /\ UNCHANGED <<current_star_id, pending_liability, prize_liability,
                     next_star_reserve, feeds, pending_push>>
  BY DEF DrawRound, PayOut
<1> HIDE DEF r, paid
<1>4. vault' \in Nat /\ protocol_accrued' \in Nat
  BY <1>2, <1>3 DEF TypeOK
<1>5. round' \in [StarIds -> [RoundIds -> RoundRecord]]
  BY <1>1, <1>3, RoundMoves DEF TypeOK, RoundStatus
<1>6. star' \in [StarIds -> StarRecord]
  BY <1>1, <1>3, CounterType DEF TypeOK
<1> QED
  BY <1>3, <1>4, <1>5, <1>6 DEF TypeOK, feeds

\* consume_randomness keeps every account in its type.
LEMMA ConsumeRandomnessType ==
  ASSUME TypeOK, NEW s \in StarIds, NEW r \in RoundIds,
         ConsumeRandomness(s, r)
  PROVE  TypeOK'
<1>1. round' \in [StarIds -> [RoundIds -> RoundRecord]]
  BY RoundMoves DEF ConsumeRandomness, TypeOK, RoundStatus
<1> QED
  BY <1>1 DEF ConsumeRandomness, TypeOK, money, buckets, feeds

\* expire_round keeps every account in its type.
LEMMA ExpireRoundType ==
  ASSUME TypeOK, NEW s \in StarIds, NEW r \in RoundIds, ExpireRound(s, r)
  PROVE  TypeOK'
<1> DEFINE next == AfterVoiding(star[s], round[s][r])
<1>1. round' \in [StarIds -> [RoundIds -> RoundRecord]]
  BY RoundMoves DEF ExpireRound, TypeOK, RoundStatus
<1>2. next \in Nat
  BY DEF TypeOK, StarRecord, AfterVoiding
<1>3. star' = [star EXCEPT ![s].current_round = next]
  BY DEF ExpireRound
<1> HIDE DEF next
<1>4. star' \in [StarIds -> StarRecord]
  BY <1>2, <1>3, CounterType DEF TypeOK
<1> QED
  BY <1>1, <1>4 DEF ExpireRound, TypeOK, money, buckets, feeds

\* close_round_account keeps every account in its type.
LEMMA CloseRoundAccountType ==
  ASSUME TypeOK, NEW s \in StarIds, NEW r \in RoundIds,
         CloseRoundAccount(s, r)
  PROVE  TypeOK'
<1>1. NoRound \in RoundRecord
  BY DEF NoRound, RoundRecord, RoundStatus
<1>2. round' \in [StarIds -> [RoundIds -> RoundRecord]]
  BY <1>1, RoundUpdate DEF CloseRoundAccount, TypeOK
<1> QED
  BY <1>2 DEF CloseRoundAccount, TypeOK, money, buckets, feeds

\* claim_prize keeps every account in its type.
LEMMA ClaimPrizeType ==
  ASSUME TypeOK, NEW s \in StarIds, ClaimPrize(s)
  PROVE  TypeOK'
<1>1. star[s].final_prize \in Nat
  BY DEF TypeOK, StarRecord
<1>2. vault' \in Nat /\ prize_liability' \in Nat
  BY <1>1 DEF ClaimPrize, PayOut, TypeOK
<1>3. \A st \in StarRecord : [st EXCEPT !.prize_claimed = TRUE] \in StarRecord
  BY DEF StarRecord
<1>4. star' \in [StarIds -> StarRecord]
  BY <1>3, Zenon DEF ClaimPrize, TypeOK
<1> QED
  BY <1>2, <1>4 DEF ClaimPrize, TypeOK, feeds

\* A feeder's share is whole lamports wherever anybody fed.
LEMMA HoleShareType ==
  ASSUME TypeOK, NEW s \in StarIds, NEW p \in Players,
         star_feed[s].early_volume > 0
  PROVE  HoleShare(s, p) \in Nat
<1> DEFINE n == feed_share[s][p].amount * star[s].final_prize
           d == star_feed[s].early_volume
<1>1. feed_share[s][p].amount \in Nat /\ star[s].final_prize \in Nat
  BY DEF TypeOK, StarRecord
<1>2. n \in Nat
  BY <1>1, ProductGrows
<1>3. d \in Nat \ {0}
  BY DEF TypeOK
<1> HIDE DEF n, d
<1>4. n \div d \in Nat
  BY <1>2, <1>3, DivMod
<1> QED
  BY <1>4 DEF HoleShare, n, d

\* claim_hole_share keeps every account in its type.
LEMMA ClaimHoleShareType ==
  ASSUME TypeOK, NEW s \in StarIds, NEW p \in Players, ClaimHoleShare(s, p)
  PROVE  TypeOK'
<1> DEFINE amount == HoleShare(s, p)
<1>1. amount \in Nat
  BY HoleShareType DEF ClaimHoleShare
<1>2. /\ amount <= vault /\ vault' = vault - amount
      /\ amount <= prize_liability
      /\ prize_liability' = prize_liability - amount
      /\ feed_share' = [feed_share EXCEPT ![s][p].claimed = TRUE]
      /\ UNCHANGED <<current_star_id, pending_liability, protocol_accrued,
                     next_star_reserve, star, star_feed, round, pending_push>>
  BY DEF ClaimHoleShare, PayOut
<1> HIDE DEF amount
<1>3. vault' \in Nat /\ prize_liability' \in Nat
  BY <1>1, <1>2 DEF TypeOK
<1>4. feed_share' \in
        [StarIds -> [Players -> [amount : Nat, claimed : BOOLEAN]]]
  BY <1>2, ShareUpdate DEF TypeOK
<1> QED
  BY <1>2, <1>3, <1>4 DEF TypeOK

\* fund_protocol and withdraw_protocol_fees keep every account in its type.
LEMMA HouseStepType ==
  ASSUME TypeOK, HouseStep
  PROVE  TypeOK'
<1>1. CASE \E a \in FundAmounts : FundProtocol(a)
  BY <1>1, SoldustAssumption DEF FundProtocol, TypeOK, feeds
<1>2. CASE \E a \in WithdrawAmounts, t \in BOOLEAN : WithdrawProtocolFees(a, t)
  BY <1>2, SoldustAssumption DEF WithdrawProtocolFees, PayOut, TypeOK, feeds
<1> QED
  BY <1>1, <1>2 DEF HouseStep

\* A slot passing keeps every account in its type.
LEMMA NextSlotType ==
  ASSUME TypeOK, NextSlot
  PROVE  TypeOK'
<1>1. \A rd \in RoundRecord : [rd EXCEPT !.age = @ + 1] \in RoundRecord
  <2> TAKE rd \in RoundRecord
  <2>1. rd.age + 1 \in Nat
    BY DEF RoundRecord
  <2> QED
    BY <2>1, Zenon DEF RoundRecord
<1>2. round' \in [StarIds -> [RoundIds -> RoundRecord]]
  BY <1>1, Zenon DEF NextSlot, TypeOK
<1> QED
  BY <1>2 DEF NextSlot, TypeOK, money, buckets, feeds

\* A second passing keeps every account in its type.
LEMMA NextSecondType ==
  ASSUME TypeOK, NextSecond
  PROVE  TypeOK'
<1>1. \A st \in StarRecord : [st EXCEPT !.quiet = @ + 1] \in StarRecord
  <2> TAKE st \in StarRecord
  <2>1. st.quiet + 1 \in Nat
    BY DEF StarRecord
  <2> QED
    BY <2>1, Zenon DEF StarRecord
<1>2. star' \in [StarIds -> StarRecord]
  BY <1>1, Zenon DEF NextSecond, TypeOK
<1> QED
  BY <1>2 DEF NextSecond, TypeOK, money, buckets, feeds

\* No instruction, in any order, takes an account out of its type: every checked
\* subtraction of the program is guarded where it is made.
THEOREM TypeCorrect == Spec => []TypeOK
<1>1. TypeOK /\ [Next]_vars => TypeOK'
  <2> SUFFICES ASSUME TypeOK, [Next]_vars PROVE TypeOK'
    OBVIOUS
  <2>1. CASE CreateFirstStar \/ CreateNextStar
    BY <2>1, CreateFirstStarType, CreateNextStarType
  <2>2. CASE \E s \in StarIds : StarStep(s)
    BY <2>2, FeedType, CollapseStalledStarType, RequestPushType,
       DrawRoundType, ClaimPrizeType, ClaimHoleShareType DEF StarStep
  <2>3. CASE \E s \in StarIds, r \in RoundIds : RoundStep(s, r)
    BY <2>3, ConsumeRandomnessType, ExpireRoundType, CloseRoundAccountType
       DEF RoundStep
  <2>4. CASE \E k \in PushKeys : ResolvePush(k) \/ ClosePush(k)
    BY <2>4, RefundPushType, SettlePushType, ClosePushType DEF ResolvePush
  <2>5. CASE HouseStep
    BY <2>5, HouseStepType
  <2>6. CASE NextSlot \/ NextSecond
    BY <2>6, NextSlotType, NextSecondType
  <2>7. CASE UNCHANGED vars
    BY <2>7 DEF TypeOK, vars, money, buckets, feeds
  <2> QED
    BY <2>1, <2>2, <2>3, <2>4, <2>5, <2>6, <2>7 DEF Next
<1> QED
  BY <1>1, InitType, PTL DEF Spec

-----------------------------------------------------------------------------
(* The rounds of a star                                                    *)

\* A star not yet born has no queue and no rounds.
NoTrace(st, rds) ==
  st.status = "Unborn" =>
    /\ st.pending_pushes = 0 /\ st.current_round = 0 /\ st.push_counter = 0
    /\ \A r \in RoundIds : rds[r].status = "Absent"

\* A round that exists has members, and is not one yet to come.
RoundsBehind(st, rds) ==
  \A r \in RoundIds :
    rds[r].status # "Absent" =>
      rds[r].member_count > 0 /\ r <= st.current_round

\* The round the counter names is unsealed, and the counter never outruns the
\* pushes: every round it left behind had one.
CounterFresh(st, rds) ==
  /\ st.current_round <= st.push_counter
  /\ st.push_counter <= MaxPushes
  /\ rds[st.current_round].status \in {"Absent", "Open"}
  /\ rds[st.current_round].status = "Open" => st.current_round < st.push_counter

StarRounds(st, rds) ==
  NoTrace(st, rds) /\ RoundsBehind(st, rds) /\ CounterFresh(st, rds)

RoundInv ==
  /\ current_star_id = 0 => \A s \in StarIds : star[s].status = "Unborn"
  /\ \A s \in StarIds : StarRounds(star[s], round[s])

-----------------------------------------------------------------------------
(* Each rewriting of a star or of one of its rounds                        *)

\* A star that is born and keeps its round counter keeps its rounds in order.
LEMMA BornKeepsRounds ==
  ASSUME NEW st \in StarRecord, NEW rds, StarRounds(st, rds),
         NEW new \in StarRecord, new.status # "Unborn",
         new.current_round = st.current_round,
         new.push_counter >= st.push_counter, new.push_counter <= MaxPushes
  PROVE  StarRounds(new, rds)
<1>1. MaxPushes \in Nat
  BY SoldustAssumption
<1>2. /\ st.current_round \in Nat /\ st.push_counter \in Nat
      /\ new.current_round \in Nat /\ new.push_counter \in Nat
  BY DEF StarRecord
<1> QED
  BY <1>1, <1>2 DEF StarRounds, NoTrace, RoundsBehind, CounterFresh

\* What the rounds read of two stars is the same.
SameLife(a, b) ==
  /\ a.status = b.status
  /\ a.pending_pushes = b.pending_pushes
  /\ a.current_round = b.current_round
  /\ a.push_counter = b.push_counter

\* StarRounds only reads the fields SameLife compares.
LEMMA SameLifeRounds ==
  ASSUME NEW a, NEW b, SameLife(a, b), NEW rds, StarRounds(b, rds)
  PROVE  StarRounds(a, rds)
  BY DEF SameLife, StarRounds, NoTrace, RoundsBehind, CounterFresh

\* A newly created star has no round yet.
LEMMA NewStarRounds ==
  ASSUME NEW endowment \in Nat, NEW rds,
         \A r \in RoundIds : rds[r].status = "Absent"
  PROVE  StarRounds(NewStar("Alive", endowment), rds)
<1>1. MaxPushes \in Nat /\ 0 \in RoundIds
  BY SoldustAssumption DEF RoundIds
<1>2. /\ NewStar("Alive", endowment).status = "Alive"
      /\ NewStar("Alive", endowment).current_round = 0
      /\ NewStar("Alive", endowment).push_counter = 0
  BY DEF NewStar
<1> QED
  BY <1>1, <1>2 DEF StarRounds, NoTrace, RoundsBehind, CounterFresh

\* A stake joins the counter's round, which has room for it or is opened.
LEMMA JoinedRounds ==
  ASSUME NEW st \in StarRecord, NEW rds \in [RoundIds -> RoundRecord],
         StarRounds(st, rds), st.status = "Alive",
         st.push_counter < MaxPushes, NEW amount \in Nat,
         NEW rd \in RoundRecord, rd.status = "Open", rd.member_count > 0
  PROVE  StarRounds(Joined(st, amount), [rds EXCEPT ![st.current_round] = rd])
<1> DEFINE new == Joined(st, amount)
           r == st.current_round
           after == [rds EXCEPT ![r] = rd]
<1>1. MaxPushes \in Nat
  BY SoldustAssumption
<1>2. st.current_round \in Nat /\ st.push_counter \in Nat
  BY DEF StarRecord
<1>3. r \in RoundIds
  BY <1>1, <1>2 DEF RoundIds, StarRounds, CounterFresh
<1>4. /\ new.status = "Alive"
      /\ new.current_round = r
      /\ new.push_counter = st.push_counter + 1
  BY DEF Joined, StarRecord
<1>5. \A q \in RoundIds : after[q] = IF q = r THEN rd ELSE rds[q]
  BY <1>3
<1> HIDE DEF new, after
<1>6. NoTrace(new, after)
  BY <1>4 DEF NoTrace
<1>7. RoundsBehind(new, after)
  BY <1>2, <1>3, <1>4, <1>5 DEF RoundsBehind, StarRounds, RoundIds
<1>8. CounterFresh(new, after)
  BY <1>1, <1>2, <1>3, <1>4, <1>5 DEF CounterFresh, StarRounds
<1> QED
  BY <1>6, <1>7, <1>8 DEF StarRounds, new, after, r

\* The counter's round is sealed or voided and the counter moves past it.
LEMMA PassedRounds ==
  ASSUME NEW st \in StarRecord, NEW rds \in [RoundIds -> RoundRecord],
         StarRounds(st, rds),
         rds[st.current_round].status = "Open",
         NEW rd \in RoundRecord, rd.status # "Absent", rd.member_count > 0
  PROVE  StarRounds([st EXCEPT !.current_round = st.current_round + 1],
                    [rds EXCEPT ![st.current_round] = rd])
<1> DEFINE r == st.current_round
           new == [st EXCEPT !.current_round = r + 1]
           after == [rds EXCEPT ![r] = rd]
<1>1. MaxPushes \in Nat
  BY SoldustAssumption
<1>2. st.current_round \in Nat /\ st.push_counter \in Nat
  BY DEF StarRecord
<1>3. r < st.push_counter /\ st.push_counter <= MaxPushes
  BY DEF StarRounds, CounterFresh
<1>4. r \in RoundIds /\ r + 1 \in RoundIds
  BY <1>1, <1>2, <1>3 DEF RoundIds
<1>5. /\ new.status = st.status
      /\ new.current_round = r + 1
      /\ new.push_counter = st.push_counter
  BY DEF StarRecord
<1>6. \A q \in RoundIds : after[q] = IF q = r THEN rd ELSE rds[q]
  BY <1>4
<1>7. st.status # "Unborn"
  BY <1>4 DEF StarRounds, NoTrace
<1>8. rds[r + 1].status = "Absent"
  BY <1>2, <1>4 DEF StarRounds, RoundsBehind
<1>9. r + 1 # r
  BY <1>2
<1> HIDE DEF new, after
<1>10. NoTrace(new, after)
  BY <1>5, <1>7 DEF NoTrace
<1>11. RoundsBehind(new, after)
  BY <1>2, <1>4, <1>5, <1>6 DEF RoundsBehind, StarRounds, RoundIds
<1>12. after[r + 1] = rds[r + 1]
  BY <1>4, <1>6, <1>9
<1>13. CounterFresh(new, after)
  BY <1>2, <1>3, <1>5, <1>8, <1>12 DEF CounterFresh
<1> QED
  BY <1>10, <1>11, <1>13 DEF StarRounds, new, after, r

\* A round other than the counter's is answered or voided, or any round is
\* swept: what is left of it still has members or is gone.
LEMMA OtherRounds ==
  ASSUME NEW st \in StarRecord, NEW rds \in [RoundIds -> RoundRecord],
         StarRounds(st, rds), NEW r \in RoundIds, NEW rd \in RoundRecord,
         \/ rd.status = "Absent"
         \/ /\ rds[r].status \notin {"Absent", "Open"}
            /\ rd.member_count = rds[r].member_count
  PROVE  StarRounds(st, [rds EXCEPT ![r] = rd])
<1> DEFINE after == [rds EXCEPT ![r] = rd]
           c == st.current_round
<1>1. MaxPushes \in Nat
  BY SoldustAssumption
<1>2. c \in Nat /\ st.push_counter \in Nat
  BY DEF StarRecord
<1>3. c \in RoundIds
  BY <1>1, <1>2 DEF RoundIds, StarRounds, CounterFresh
<1>4. \A q \in RoundIds : after[q] = IF q = r THEN rd ELSE rds[q]
  OBVIOUS
<1> HIDE DEF after
<1>5. NoTrace(st, after)
  BY <1>4 DEF NoTrace, StarRounds
<1>6. RoundsBehind(st, after)
  BY <1>4 DEF RoundsBehind, StarRounds
<1>7. CounterFresh(st, after)
  BY <1>2, <1>3, <1>4 DEF CounterFresh, StarRounds
<1> QED
  BY <1>5, <1>6, <1>7 DEF StarRounds, after

-----------------------------------------------------------------------------
(* Each instruction preserves RoundInv                                     *)

\* Rewriting one star and its rounds preserves RoundInv.
LEMMA LifeRewritten ==
  ASSUME TypeOK, RoundInv, NEW s \in StarIds, NEW st, NEW rds,
         star' = [star EXCEPT ![s] = st],
         round' = [round EXCEPT ![s] = rds],
         UNCHANGED current_star_id,
         star[s].status = "Unborn" => st.status = "Unborn",
         StarRounds(st, rds)
  PROVE  RoundInv'
<1>1. \A t \in StarIds : star'[t] = IF t = s THEN st ELSE star[t]
  BY DEF TypeOK
<1>2. \A t \in StarIds : round'[t] = IF t = s THEN rds ELSE round[t]
  BY DEF TypeOK
<1>3. \A t \in StarIds : StarRounds(star'[t], round'[t])
  BY <1>1, <1>2 DEF RoundInv
<1>4. current_star_id' = 0 => \A t \in StarIds : star'[t].status = "Unborn"
  BY <1>1 DEF RoundInv
<1> QED
  BY <1>3, <1>4 DEF RoundInv, StarRounds, NoTrace, RoundsBehind, CounterFresh

\* The same when no round is written.
LEMMA StarLifeRewritten ==
  ASSUME TypeOK, RoundInv, NEW s \in StarIds, NEW st,
         star' = [star EXCEPT ![s] = st],
         UNCHANGED <<current_star_id, round>>,
         star[s].status = "Unborn" => st.status = "Unborn",
         StarRounds(st, round[s])
  PROVE  RoundInv'
<1>1. round' = [round EXCEPT ![s] = round[s]]
  BY DEF TypeOK
<1> QED
  BY <1>1, LifeRewritten

\* The same when no star is written.
LEMMA RoundsRewritten ==
  ASSUME TypeOK, RoundInv, NEW s \in StarIds, NEW rds,
         round' = [round EXCEPT ![s] = rds],
         UNCHANGED <<current_star_id, star>>,
         StarRounds(star[s], rds)
  PROVE  RoundInv'
<1>1. star' = [star EXCEPT ![s] = star[s]]
  BY DEF TypeOK
<1> QED
  BY <1>1, LifeRewritten

\* RoundInv only reads the stars, the rounds and which star is current.
LEMMA RoundInvUnchanged ==
  ASSUME RoundInv, UNCHANGED <<current_star_id, star, round>>
  PROVE  RoundInv'
  BY DEF RoundInv, StarRounds, NoTrace, RoundsBehind, CounterFresh

\* RoundInv holds of the empty program.
LEMMA InitRounds == Init => RoundInv
<1>1. MaxPushes \in Nat /\ 0 \in RoundIds
  BY SoldustAssumption DEF RoundIds
<1>2. \A rds : (\A r \in RoundIds : rds[r] = NoRound)
               => StarRounds(NewStar("Unborn", 0), rds)
  BY <1>1 DEF StarRounds, NoTrace, RoundsBehind, CounterFresh, NewStar, NoRound
<1>3. ASSUME Init PROVE RoundInv
  <2>1. \A s \in StarIds : star[s] = NewStar("Unborn", 0)
    BY <1>3 DEF Init
  <2>2. \A s \in StarIds : \A r \in RoundIds : round[s][r] = NoRound
    BY <1>3 DEF Init
  <2>3. NewStar("Unborn", 0).status = "Unborn"
    BY DEF NewStar
  <2> QED
    BY <1>2, <2>1, <2>2, <2>3 DEF RoundInv
<1> QED
  BY <1>3

\* create_first_star preserves RoundInv.
LEMMA CreateFirstStarRounds ==
  ASSUME TypeOK, RoundInv, CreateFirstStar
  PROVE  RoundInv'
<1>1. 1 \in StarIds /\ star[1].status = "Unborn"
  BY DEF CreateFirstStar, RoundInv
<1>2. \A r \in RoundIds : round[1][r].status = "Absent"
  BY <1>1 DEF RoundInv, StarRounds, NoTrace
<1>3. StarRounds(NewStar("Alive", 0), round[1])
  BY <1>2, NewStarRounds
<1>4. /\ star' = [star EXCEPT ![1] = NewStar("Alive", 0)]
      /\ current_star_id' = 1
      /\ UNCHANGED round
  BY DEF CreateFirstStar
<1>5. \A t \in StarIds :
        star'[t] = IF t = 1 THEN NewStar("Alive", 0) ELSE star[t]
  BY <1>4 DEF TypeOK
<1>6. \A t \in StarIds : StarRounds(star'[t], round'[t])
  BY <1>3, <1>4, <1>5 DEF RoundInv
<1> QED
  BY <1>4, <1>6 DEF RoundInv, StarRounds, NoTrace, RoundsBehind, CounterFresh

\* create_next_star preserves RoundInv.
LEMMA CreateNextStarRounds ==
  ASSUME TypeOK, RoundInv, CreateNextStar
  PROVE  RoundInv'
<1> DEFINE prev == current_star_id
           new == current_star_id + 1
           old == [star[prev] EXCEPT !.next_star_created = TRUE]
           born == NewStar("Alive", Endowment)
<1>1. /\ prev \in StarIds /\ new \in StarIds
      /\ star[new].status = "Unborn"
      /\ UNCHANGED round
      /\ current_star_id' = new
  BY DEF CreateNextStar
<1>2. new # prev /\ new # 0
  BY <1>1 DEF StarIds
<1>3. StarRounds(born, round[new])
  BY <1>1, EndowmentType, NewStarRounds DEF RoundInv, StarRounds, NoTrace, TypeOK
<1>4. StarRounds(old, round[prev])
  <2>1. star[prev] \in StarRecord
    BY <1>1 DEF TypeOK
  <2>2. SameLife(old, star[prev])
    BY <2>1 DEF SameLife, StarRecord
  <2> QED
    BY <1>1, <2>2, SameLifeRounds DEF RoundInv
<1>5. star' = [star EXCEPT ![new] = born, ![prev].next_star_created = TRUE]
  BY DEF CreateNextStar
<1>6. \A t \in StarIds :
        star'[t] = IF t = prev THEN old ELSE IF t = new THEN born ELSE star[t]
  BY <1>1, <1>2, <1>5 DEF TypeOK
<1> HIDE DEF old, born, prev, new
<1>7. \A t \in StarIds : StarRounds(star'[t], round'[t])
  BY <1>1, <1>3, <1>4, <1>6 DEF RoundInv
<1> QED
  BY <1>1, <1>2, <1>7 DEF RoundInv, StarRounds, NoTrace, RoundsBehind, CounterFresh

\* A star that only grows, ends or hands something back keeps its rounds.
LEMMA BornStepRounds ==
  ASSUME TypeOK, RoundInv, TypeOK', NEW s \in StarIds, NEW st,
         star' = [star EXCEPT ![s] = st],
         UNCHANGED <<current_star_id, round>>,
         star[s].status # "Unborn", st.status # "Unborn",
         st.current_round = star[s].current_round,
         st.push_counter >= star[s].push_counter,
         st.push_counter <= MaxPushes
  PROVE  RoundInv'
<1>1. star'[s] = st /\ st \in StarRecord /\ star[s] \in StarRecord
  <2>1. star'[s] = st
    BY DEF TypeOK
  <2>2. star'[s] \in StarRecord
    BY DEF TypeOK
  <2> QED
    BY <2>1, <2>2 DEF TypeOK
<1>2. StarRounds(star[s], round[s])
  BY DEF RoundInv
<1>3. StarRounds(st, round[s])
  BY <1>1, <1>2, BornKeepsRounds
<1> QED
  BY <1>3, StarLifeRewritten

\* The push counter of a star is within its bound.
LEMMA CounterBound ==
  ASSUME TypeOK, RoundInv, NEW s \in StarIds
  PROVE  /\ star[s].push_counter \in Nat
         /\ star[s].push_counter <= MaxPushes
         /\ star[s].push_counter >= star[s].push_counter
         /\ star[s].current_round \in RoundIds
<1>1. star[s] \in StarRecord /\ MaxPushes \in Nat
  BY SoldustAssumption DEF TypeOK
<1>2. star[s].push_counter \in Nat /\ star[s].current_round \in Nat
  BY <1>1 DEF StarRecord
<1> QED
  BY <1>1, <1>2 DEF RoundInv, StarRounds, CounterFresh, RoundIds

\* feed preserves RoundInv.
LEMMA FeedRounds ==
  ASSUME TypeOK, RoundInv,
         NEW s \in StarIds, NEW p \in Players, NEW a \in PushAmounts,
         Feed(s, p, a)
  PROVE  RoundInv'
<1> DEFINE amount == AcceptPushAmount(a, RoomAt(star[s].total_mass))
           st == Fed(star[s], amount)
<1>1. /\ star' = [star EXCEPT ![s] = st]
      /\ UNCHANGED <<current_star_id, round>>
      /\ star[s].status = "Alive"
      /\ star[s].push_counter < MaxPushes
  BY DEF Feed, IsAlive
<1>2. TypeOK'
  BY FeedType
<1> HIDE DEF amount
<1>3. /\ st.status = "Alive"
      /\ st.current_round = star[s].current_round
      /\ st.push_counter = star[s].push_counter + 1
  BY <1>1 DEF Fed, TypeOK, StarRecord
<1> HIDE DEF st
<1>4. st.push_counter >= star[s].push_counter /\ st.push_counter <= MaxPushes
  BY <1>1, <1>3, CounterBound, SoldustAssumption
<1> QED
  BY <1>1, <1>2, <1>3, <1>4, BornStepRounds

\* collapse_stalled_star preserves RoundInv.
LEMMA CollapseStalledStarRounds ==
  ASSUME TypeOK, RoundInv, NEW s \in StarIds, CollapseStalledStar(s)
  PROVE  RoundInv'
<1>1. PICK prize : star' = [star EXCEPT ![s] = Finish(star[s], "Stalled", prize)]
  BY DEF CollapseStalledStar
<1> DEFINE st == Finish(star[s], "Stalled", prize)
<1>2. UNCHANGED <<current_star_id, round>> /\ star[s].status = "Alive"
  BY DEF CollapseStalledStar, IsStalled, IsAlive
<1>3. TypeOK'
  BY CollapseStalledStarType
<1>4. /\ st.status = "Stalled"
      /\ st.current_round = star[s].current_round
      /\ st.push_counter = star[s].push_counter
  BY DEF Finish, TypeOK, StarRecord
<1> HIDE DEF st
<1> QED
  BY <1>1, <1>2, <1>3, <1>4, CounterBound, BornStepRounds DEF st

\* resolve_push's refund path preserves RoundInv.
LEMMA RefundPushRounds ==
  ASSUME TypeOK, RoundInv, NEW k \in PushKeys, RefundPush(k)
  PROVE  RoundInv'
<1> DEFINE p == pending_push[k]
           s == p.star_id
           rest == Refunded(star[s], p.amount)
           early == star_feed[s].early_volume
           st == IF Stranded(s, rest) THEN CollapseIntoHole(rest, early)
                                      ELSE rest
<1>1. s \in StarIds
  BY PushType DEF RefundPush, AtCursor
<1>2. /\ star' = [star EXCEPT ![s] = st]
      /\ UNCHANGED <<current_star_id, round>>
      /\ star[s].pending_pushes >= 1
  BY DEF RefundPush
<1>3. star[s].status # "Unborn"
  BY <1>1, <1>2 DEF RoundInv, StarRounds, NoTrace
<1>4. TypeOK'
  BY RefundPushType
<1>5. /\ rest.status = star[s].status
      /\ rest.current_round = star[s].current_round
      /\ rest.push_counter = star[s].push_counter
  BY <1>1 DEF Refunded, TypeOK, StarRecord
<1>6. /\ CollapseIntoHole(rest, early).status = "BlackHole"
      /\ CollapseIntoHole(rest, early).current_round = rest.current_round
      /\ CollapseIntoHole(rest, early).push_counter = rest.push_counter
  BY <1>1 DEF CollapseIntoHole, Finish, Refunded, TypeOK, StarRecord
<1> HIDE DEF rest
<1>7. /\ st.status # "Unborn"
      /\ st.current_round = star[s].current_round
      /\ st.push_counter = star[s].push_counter
  BY <1>3, <1>5, <1>6
<1> HIDE DEF st
<1> QED
  BY <1>1, <1>2, <1>3, <1>4, <1>7, CounterBound, BornStepRounds

\* resolve_push's settle path preserves RoundInv.
LEMMA SettlePushRounds ==
  ASSUME TypeOK, RoundInv, NEW k \in PushKeys, NEW rolls \in BOOLEAN,
         SettlePush(k, rolls)
  PROVE  RoundInv'
<1> DEFINE p == pending_push[k]
           s == p.star_id
           old == star[s]
           accepted == AcceptedSettleAmount(p.amount, old.total_mass)
           landed == Landed(old, p.amount, accepted)
<1>1. s \in StarIds
  BY PushType DEF SettlePush, AtCursor
<1>2. PICK early \in Nat :
        \/ star' = [star EXCEPT ![s] = Kill(landed, k[1])]
        \/ star' = [star EXCEPT ![s] = CollapseIntoHole(landed, early)]
        \/ star' = [star EXCEPT ![s] = landed]
  <2> DEFINE nursery == old.total_mass < FEED_MASS
             volume == star_feed[s].early_volume + IF nursery THEN accepted ELSE 0
  <2>1. volume \in Nat
    <3>1. star_feed[s].early_volume \in Nat
      BY <1>1 DEF TypeOK
    <3>2. p.amount \in Nat /\ old.total_mass \in Nat
      BY <1>1, PushType DEF SettlePush, AtCursor, TypeOK, StarRecord
    <3> DEFINE offered == p.amount
               mass == old.total_mass
    <3>3. offered \in Nat /\ mass \in Nat /\ accepted
            = AcceptedSettleAmount(offered, mass)
      BY <3>2
    <3> HIDE DEF offered, mass, accepted
    <3>4. accepted \in 0..offered
      BY <3>3, SettleRange
    <3>5. accepted \in Nat
      BY <3>3, <3>4
    <3> HIDE DEF nursery
    <3> QED
      BY <3>1, <3>5
  <2>2. \/ star' = [star EXCEPT ![s] = Kill(landed, k[1])]
        \/ star' = [star EXCEPT ![s] = CollapseIntoHole(landed, volume)]
        \/ star' = [star EXCEPT ![s] = landed]
    BY Zenon DEF SettlePush
  <2> QED
    BY <2>1, <2>2
<1>3. UNCHANGED <<current_star_id, round>> /\ old.pending_pushes >= 1
  BY DEF SettlePush
<1>4. old.status # "Unborn"
  BY <1>1, <1>3 DEF RoundInv, StarRounds, NoTrace
<1>5. TypeOK'
  BY SettlePushType
<1>6. /\ landed.status = old.status
      /\ landed.current_round = old.current_round
      /\ landed.push_counter = old.push_counter
  BY <1>1 DEF Landed, TypeOK, StarRecord
<1>7. /\ Kill(landed, k[1]).status = "Dead"
      /\ Kill(landed, k[1]).current_round = landed.current_round
      /\ Kill(landed, k[1]).push_counter = landed.push_counter
      /\ CollapseIntoHole(landed, early).status = "BlackHole"
      /\ CollapseIntoHole(landed, early).current_round = landed.current_round
      /\ CollapseIntoHole(landed, early).push_counter = landed.push_counter
  BY <1>1 DEF Kill, CollapseIntoHole, Finish, Landed, TypeOK, StarRecord
<1> HIDE DEF landed
<1>8. CASE star' = [star EXCEPT ![s] = Kill(landed, k[1])]
  <2> DEFINE st == Kill(landed, k[1])
  <2>1. /\ star' = [star EXCEPT ![s] = st]
        /\ st.status # "Unborn"
        /\ st.current_round = old.current_round
        /\ st.push_counter = old.push_counter
    BY <1>6, <1>7, <1>8
  <2> HIDE DEF st
  <2> QED
    BY <1>1, <1>3, <1>4, <1>5, <2>1, CounterBound, BornStepRounds
<1>9. CASE star' = [star EXCEPT ![s] = CollapseIntoHole(landed, early)]
  <2> DEFINE st == CollapseIntoHole(landed, early)
  <2>1. /\ star' = [star EXCEPT ![s] = st]
        /\ st.status # "Unborn"
        /\ st.current_round = old.current_round
        /\ st.push_counter = old.push_counter
    BY <1>6, <1>7, <1>9
  <2> HIDE DEF st
  <2> QED
    BY <1>1, <1>3, <1>4, <1>5, <2>1, CounterBound, BornStepRounds
<1>10. CASE star' = [star EXCEPT ![s] = landed]
  BY <1>1, <1>3, <1>4, <1>5, <1>6, <1>10, CounterBound, BornStepRounds
<1> QED
  BY <1>2, <1>8, <1>9, <1>10

\* claim_prize preserves RoundInv.
LEMMA ClaimPrizeRounds ==
  ASSUME TypeOK, RoundInv, NEW s \in StarIds, ClaimPrize(s)
  PROVE  RoundInv'
<1> DEFINE st == [star[s] EXCEPT !.prize_claimed = TRUE]
<1>1. /\ star' = [star EXCEPT ![s] = st]
      /\ UNCHANGED <<current_star_id, round>>
  BY DEF ClaimPrize
<1>2. SameLife(st, star[s])
  BY DEF SameLife, TypeOK, StarRecord
<1>3. StarRounds(st, round[s])
  BY <1>2, SameLifeRounds DEF RoundInv
<1>4. st.status = star[s].status
  BY <1>2 DEF SameLife
<1> HIDE DEF st
<1> QED
  BY <1>1, <1>3, <1>4, StarLifeRewritten

\* request_push preserves RoundInv.
LEMMA RequestPushRounds ==
  ASSUME TypeOK, RoundInv,
         NEW s \in StarIds, NEW k \in PushKeys, NEW a \in PushAmounts,
         RequestPush(s, k, a)
  PROVE  RoundInv'
<1> DEFINE st == star[s]
           r == st.current_round
           amount == AcceptPushAmount(a, QueueRoom(st))
           rd == IF round[s][r].member_count = 0
                 THEN [NoRound EXCEPT !.status = "Open",
                                      !.first_push_id = st.push_counter]
                 ELSE round[s][r]
           joined == [rd EXCEPT !.member_count = @ + 1, !.stake = @ + amount]
<1>1. /\ st \in StarRecord /\ round[s] \in [RoundIds -> RoundRecord]
      /\ StarRounds(st, round[s])
  BY DEF TypeOK, RoundInv
<1>2. /\ r \in RoundIds
      /\ rd.status = "Open"
      /\ st.status = "Alive"
      /\ st.push_counter < MaxPushes
      /\ star' = [star EXCEPT ![s] = Joined(st, amount)]
      /\ round' = [round EXCEPT ![s][r] = joined]
      /\ UNCHANGED current_star_id
  BY Zenon DEF RequestPush, IsOpen, IsAlive
<1>3. amount \in Nat
  <2>1. a \in Nat
    BY SoldustAssumption
  <2>2. CommittedMass(st) \in Nat
    BY <1>1 DEF CommittedMass, StarRecord
  <2> QED
    BY <2>1, <2>2, RoomType, AcceptRange DEF QueueRoom
<1>4. rd \in RoundRecord
  <2>1. round[s][r] \in RoundRecord
    BY <1>1, <1>2
  <2>2. [NoRound EXCEPT !.status = "Open", !.first_push_id = st.push_counter]
          \in RoundRecord
    BY <1>1 DEF NoRound, RoundRecord, RoundStatus, StarRecord
  <2> QED
    BY <2>1, <2>2
<1> HIDE DEF rd, amount
<1>5. /\ joined \in RoundRecord
      /\ joined.status = "Open"
      /\ joined.member_count > 0
  <2>1. rd.member_count + 1 \in Nat /\ rd.member_count + 1 > 0
        /\ rd.stake + amount \in Nat
    BY <1>3, <1>4 DEF RoundRecord
  <2>2. joined = [rd EXCEPT !.member_count = rd.member_count + 1,
                            !.stake = rd.stake + amount]
    OBVIOUS
  <2>3. joined.status = rd.status /\ joined.member_count = rd.member_count + 1
    BY <1>4, <2>2, Zenon DEF RoundRecord
  <2>4. joined \in RoundRecord
    BY <1>4, <2>1, <2>2, Zenon DEF RoundRecord
  <2> QED
    BY <1>2, <2>1, <2>3, <2>4
<1> HIDE DEF joined
<1>6. StarRounds(Joined(st, amount), [round[s] EXCEPT ![r] = joined])
  BY <1>1, <1>2, <1>3, <1>5, JoinedRounds
<1>7. round' = [round EXCEPT ![s] = [round[s] EXCEPT ![r] = joined]]
  BY <1>2
<1> QED
  BY <1>2, <1>6, <1>7, LifeRewritten

\* What writing a status and resetting the age leaves of a round.
LEMMA Restated ==
  ASSUME NEW rd \in RoundRecord, NEW status \in RoundStatus
  PROVE  /\ [rd EXCEPT !.status = status, !.age = 0] \in RoundRecord
         /\ [rd EXCEPT !.status = status, !.age = 0].status = status
         /\ [rd EXCEPT !.status = status, !.age = 0].member_count
              = rd.member_count
         /\ [rd EXCEPT !.status = status, !.age = 0].first_push_id
              = rd.first_push_id
         /\ [rd EXCEPT !.status = status, !.age = 0].stake = rd.stake
  BY DEF RoundRecord

\* draw_round preserves RoundInv.
LEMMA DrawRoundRounds ==
  ASSUME TypeOK, RoundInv, NEW s \in StarIds, NEW outlay \in Outlays,
         DrawRound(s, outlay)
  PROVE  RoundInv'
<1> DEFINE st == star[s]
           r == st.current_round
           rd == [round[s][r] EXCEPT !.status = "Requested", !.age = 0]
           new == [st EXCEPT !.current_round = r + 1]
<1>1. /\ st \in StarRecord /\ round[s] \in [RoundIds -> RoundRecord]
      /\ StarRounds(st, round[s])
  BY DEF TypeOK, RoundInv
<1>2. /\ r \in RoundIds
      /\ round[s][r].status = "Open"
      /\ round[s][r].member_count > 0
      /\ st.status = "Alive"
      /\ UNCHANGED current_star_id
  BY DEF DrawRound, CloseableAt, IsOpen, IsAlive
<1>3. /\ star' = [star EXCEPT ![s] = new]
      /\ round' = [round EXCEPT ![s] = [round[s] EXCEPT ![r] = rd]]
  BY DEF DrawRound
<1>4. /\ rd \in RoundRecord
      /\ rd.status = "Requested"
      /\ rd.member_count = round[s][r].member_count
  BY <1>1, <1>2, Restated DEF RoundStatus
<1>5. new.status = st.status
  BY <1>1 DEF StarRecord
<1> HIDE DEF rd
<1>6. StarRounds(new, [round[s] EXCEPT ![r] = rd])
  BY <1>1, <1>2, <1>4, PassedRounds
<1> HIDE DEF new
<1> QED
  BY <1>2, <1>3, <1>5, <1>6, LifeRewritten

\* consume_randomness preserves RoundInv.
LEMMA ConsumeRandomnessRounds ==
  ASSUME TypeOK, RoundInv, NEW s \in StarIds, NEW r \in RoundIds,
         ConsumeRandomness(s, r)
  PROVE  RoundInv'
<1> DEFINE rd == [round[s][r] EXCEPT !.status = "Drawn", !.age = 0]
<1>1. /\ star[s] \in StarRecord /\ round[s] \in [RoundIds -> RoundRecord]
      /\ StarRounds(star[s], round[s])
  BY DEF TypeOK, RoundInv
<1>2. /\ round[s][r].status = "Requested"
      /\ round' = [round EXCEPT ![s] = [round[s] EXCEPT ![r] = rd]]
      /\ UNCHANGED <<current_star_id, star>>
  BY DEF ConsumeRandomness
<1>3. /\ rd \in RoundRecord
      /\ rd.member_count = round[s][r].member_count
  BY <1>1, Restated DEF RoundStatus
<1> HIDE DEF rd
<1>4. StarRounds(star[s], [round[s] EXCEPT ![r] = rd])
  BY <1>1, <1>2, <1>3, OtherRounds
<1> QED
  BY <1>2, <1>4, RoundsRewritten

\* expire_round preserves RoundInv.
LEMMA ExpireRoundRounds ==
  ASSUME TypeOK, RoundInv, NEW s \in StarIds, NEW r \in RoundIds,
         ExpireRound(s, r)
  PROVE  RoundInv'
<1> DEFINE st == star[s]
           rd == [round[s][r] EXCEPT !.status = "Expired", !.age = 0]
           new == [st EXCEPT !.current_round = AfterVoiding(st, round[s][r])]
<1>1. /\ st \in StarRecord /\ round[s] \in [RoundIds -> RoundRecord]
      /\ StarRounds(st, round[s])
  BY DEF TypeOK, RoundInv
<1>2. /\ round[s][r].member_count > 0
      /\ round[s][r].status \in {"Open", "Requested"}
      /\ round[s][r].status = "Open" => r = st.current_round
      /\ UNCHANGED current_star_id
  BY DEF ExpireRound, ExpirableAt, IsOpen
<1>3. /\ star' = [star EXCEPT ![s] = new]
      /\ round' = [round EXCEPT ![s] = [round[s] EXCEPT ![r] = rd]]
  BY DEF ExpireRound
<1>4. /\ rd \in RoundRecord
      /\ rd.status = "Expired"
      /\ rd.member_count = round[s][r].member_count
  BY <1>1, Restated DEF RoundStatus
<1>5. new.status = st.status
  BY <1>1 DEF StarRecord
<1> HIDE DEF rd
<1>6. StarRounds(new, [round[s] EXCEPT ![r] = rd])
  <2>1. CASE round[s][r].status = "Open"
    <3>1. new = [st EXCEPT !.current_round = st.current_round + 1]
      BY <2>1 DEF AfterVoiding, IsOpen
    <3> HIDE DEF new
    <3> QED
      BY <1>1, <1>2, <1>4, <2>1, <3>1, PassedRounds
  <2>2. CASE round[s][r].status = "Requested"
    <3>1. new = st
      BY <1>1, <2>2 DEF AfterVoiding, IsOpen, StarRecord
    <3> HIDE DEF new
    <3> QED
      BY <1>1, <1>4, <2>2, <3>1, OtherRounds
  <2> QED
    BY <1>2, <2>1, <2>2
<1> HIDE DEF new
<1> QED
  BY <1>2, <1>3, <1>5, <1>6, LifeRewritten

\* close_round_account preserves RoundInv.
LEMMA CloseRoundAccountRounds ==
  ASSUME TypeOK, RoundInv, NEW s \in StarIds, NEW r \in RoundIds,
         CloseRoundAccount(s, r)
  PROVE  RoundInv'
<1>1. /\ star[s] \in StarRecord /\ round[s] \in [RoundIds -> RoundRecord]
      /\ StarRounds(star[s], round[s])
  BY DEF TypeOK, RoundInv
<1>2. /\ round' = [round EXCEPT ![s] = [round[s] EXCEPT ![r] = NoRound]]
      /\ UNCHANGED <<current_star_id, star>>
  BY DEF CloseRoundAccount
<1>3. NoRound \in RoundRecord /\ NoRound.status = "Absent"
  BY DEF NoRound, RoundRecord, RoundStatus
<1>4. StarRounds(star[s], [round[s] EXCEPT ![r] = NoRound])
  BY <1>1, <1>3, OtherRounds
<1> QED
  BY <1>2, <1>4, RoundsRewritten

\* A slot passing preserves RoundInv.
LEMMA NextSlotRounds ==
  ASSUME TypeOK, RoundInv, NextSlot
  PROVE  RoundInv'
<1>1. UNCHANGED <<current_star_id, star>>
  BY DEF NextSlot
<1>2. \A s \in StarIds, r \in RoundIds :
        /\ round'[s][r].status = round[s][r].status
        /\ round'[s][r].member_count = round[s][r].member_count
  <2> TAKE s \in StarIds, r \in RoundIds
  <2> DEFINE old == round[s][r]
  <2>1. round'[s][r] = IF Waiting(old) THEN [old EXCEPT !.age = old.age + 1]
                                       ELSE old
    BY DEF NextSlot
  <2>2. old \in RoundRecord
    BY DEF TypeOK
  <2> HIDE DEF old
  <2>3. /\ [old EXCEPT !.age = old.age + 1].status = old.status
        /\ [old EXCEPT !.age = old.age + 1].member_count = old.member_count
    BY <2>2 DEF RoundRecord
  <2> QED
    BY <2>1, <2>3 DEF old
<1>3. \A s \in StarIds : StarRounds(star[s], round'[s])
  <2> TAKE s \in StarIds
  <2>1. star[s].current_round \in RoundIds
    BY CounterBound
  <2> QED
    BY <1>2, <2>1 DEF RoundInv, StarRounds, NoTrace, RoundsBehind, CounterFresh
<1> QED
  BY <1>1, <1>3 DEF RoundInv, StarRounds, NoTrace, RoundsBehind, CounterFresh

\* A second passing preserves RoundInv.
LEMMA NextSecondRounds ==
  ASSUME TypeOK, RoundInv, NextSecond
  PROVE  RoundInv'
<1>1. UNCHANGED <<current_star_id, round>>
  BY DEF NextSecond
<1>2. \A s \in StarIds : SameLife(star'[s], star[s])
  <2> TAKE s \in StarIds
  <2> DEFINE old == star[s]
  <2>1. star'[s] = IF GoesQuiet(old) THEN [old EXCEPT !.quiet = old.quiet + 1]
                                     ELSE old
    BY DEF NextSecond
  <2>2. old \in StarRecord
    BY DEF TypeOK
  <2> HIDE DEF old
  <2>3. SameLife([old EXCEPT !.quiet = old.quiet + 1], old)
    BY <2>2 DEF SameLife, StarRecord
  <2>4. SameLife(old, old)
    BY DEF SameLife
  <2> QED
    BY <2>1, <2>3, <2>4 DEF old
<1>3. \A s \in StarIds : StarRounds(star'[s], round'[s])
  BY <1>1, <1>2, SameLifeRounds DEF RoundInv
<1>4. current_star_id' = 0 => \A s \in StarIds : star'[s].status = "Unborn"
  BY <1>1, <1>2 DEF SameLife, RoundInv
<1> QED
  BY <1>3, <1>4 DEF RoundInv, StarRounds, NoTrace, RoundsBehind, CounterFresh

\* RoundInv is inductive, given the types.
LEMMA RoundInvStep ==
  ASSUME TypeOK, RoundInv, [Next]_vars
  PROVE  RoundInv'
<1>1. CASE CreateFirstStar
  BY <1>1, CreateFirstStarRounds
<1>2. CASE CreateNextStar
  BY <1>2, CreateNextStarRounds
<1>3. ASSUME NEW s \in StarIds, StarStep(s) PROVE RoundInv'
  <2>1. CASE \E p \in Players, a \in PushAmounts : Feed(s, p, a)
    BY <2>1, FeedRounds
  <2>2. CASE CollapseStalledStar(s)
    BY <2>2, CollapseStalledStarRounds
  <2>3. CASE \E k \in PushKeys, a \in PushAmounts : RequestPush(s, k, a)
    BY <2>3, RequestPushRounds
  <2>4. CASE \E o \in Outlays : DrawRound(s, o)
    BY <2>4, DrawRoundRounds
  <2>5. CASE ClaimPrize(s)
    BY <2>5, ClaimPrizeRounds
  <2>6. CASE \E p \in Players : ClaimHoleShare(s, p)
    BY <2>6, RoundInvUnchanged DEF ClaimHoleShare
  <2> QED
    BY <1>3, <2>1, <2>2, <2>3, <2>4, <2>5, <2>6 DEF StarStep
<1>4. ASSUME NEW s \in StarIds, NEW r \in RoundIds, RoundStep(s, r)
      PROVE RoundInv'
  BY <1>4, ConsumeRandomnessRounds, ExpireRoundRounds, CloseRoundAccountRounds
  DEF RoundStep
<1>5. ASSUME NEW k \in PushKeys, ResolvePush(k) PROVE RoundInv'
  BY <1>5, RefundPushRounds, SettlePushRounds DEF ResolvePush
<1>6. ASSUME NEW k \in PushKeys, ClosePush(k) PROVE RoundInv'
  BY <1>6, RoundInvUnchanged DEF ClosePush
<1>7. CASE HouseStep
  BY <1>7, RoundInvUnchanged DEF HouseStep, FundProtocol, WithdrawProtocolFees
<1>8. CASE NextSlot
  BY <1>8, NextSlotRounds
<1>9. CASE NextSecond
  BY <1>9, NextSecondRounds
<1>10. CASE UNCHANGED vars
  BY <1>10, RoundInvUnchanged DEF vars
<1> QED
  BY <1>1, <1>2, <1>3, <1>4, <1>5, <1>6, <1>7, <1>8, <1>9, <1>10 DEF Next

\* RoundInv holds in every reachable state.
LEMMA RoundInvAlways == Spec => []RoundInv
<1>1. TypeOK /\ RoundInv /\ [Next]_vars => RoundInv'
  BY RoundInvStep
<1> QED
  BY InitRounds, <1>1, TypeCorrect, PTL DEF Spec

-----------------------------------------------------------------------------
(* What a step may do to a round                                           *)

\* A round left alone moves forwards.
LEMMA RoundAlone ==
  ASSUME NEW s, NEW r, round'[s][r] = round[s][r]
  PROVE  MovesForward(s, r)
  BY DEF MovesForward, Forwards

\* A step that writes one round moves every other forwards.
LEMMA OneRoundWritten ==
  ASSUME TypeOK, NEW t \in StarIds, NEW q \in RoundIds, NEW rd,
         round' = [round EXCEPT ![t][q] = rd],
         Forwards(round[t][q], rd),
         round[t][q].status = "Absent" /\ rd.status # "Absent"
           => q = star[t].current_round,
         round[t][q].status # "Absent" /\ rd.status = "Absent"
           => IsDrained(round[t][q], star[t].settle_cursor),
         NEW s \in StarIds, NEW r \in RoundIds
  PROVE  MovesForward(s, r)
<1>1. round'[s][r] = IF s = t /\ r = q THEN rd ELSE round[s][r]
  BY DEF TypeOK
<1>2. CASE s = t /\ r = q
  <2>1. round'[t][q] = rd
    BY <1>1, <1>2
  <2> QED
    BY <1>2, <2>1 DEF MovesForward
<1>3. CASE ~(s = t /\ r = q)
  BY <1>1, <1>3, RoundAlone
<1> QED
  BY <1>2, <1>3

\* Every step moves every round forwards.
LEMMA StepMovesForward ==
  ASSUME TypeOK, RoundInv, [Next]_vars, NEW s \in StarIds, NEW r \in RoundIds
  PROVE  MovesForward(s, r)
<1>1. ASSUME UNCHANGED round PROVE MovesForward(s, r)
  BY <1>1, RoundAlone
<1>2. ASSUME NEW t \in StarIds, NEW k \in PushKeys, NEW a \in PushAmounts,
             RequestPush(t, k, a)
      PROVE  MovesForward(s, r)
  <2> DEFINE q == star[t].current_round
             old == round[t][q]
             amount == AcceptPushAmount(a, QueueRoom(star[t]))
             base == IF old.member_count = 0
                     THEN [NoRound EXCEPT !.status = "Open",
                                          !.first_push_id = star[t].push_counter]
                     ELSE old
             rd == [base EXCEPT !.member_count = @ + 1, !.stake = @ + amount]
  <2>1. /\ round' = [round EXCEPT ![t][q] = rd]
        /\ q \in RoundIds /\ IsOpen(base)
    BY <1>2, Zenon DEF RequestPush
  <2>2. old.status \in {"Absent", "Open"}
    <3>1. old.member_count = 0 \/ old.status = "Open"
      BY <2>1 DEF IsOpen
    <3>2. old.status # "Absent" => old.member_count > 0
      BY <2>1 DEF RoundInv, StarRounds, RoundsBehind
    <3> QED
      BY <2>1, <3>1, <3>2 DEF RoundInv, StarRounds, CounterFresh
  <2>3. rd.status = "Open"
    <3>1. old \in RoundRecord
      BY <2>1 DEF TypeOK
    <3>2. base.status = "Open" /\ "status" \in DOMAIN base
      BY <2>1, <3>1 DEF IsOpen, NoRound, RoundRecord
    <3> HIDE DEF base, amount
    <3> QED
      BY <3>2
  <2> HIDE DEF rd
  <2>4. Forwards(old, rd)
    BY <2>2, <2>3 DEF Forwards, Becomes
  <2> QED
    BY <2>1, <2>3, <2>4, OneRoundWritten
<1>3. ASSUME NEW t \in StarIds, NEW q \in RoundIds, NEW status \in RoundStatus,
             round' = [round EXCEPT ![t][q].status = status, ![t][q].age = 0],
             <<round[t][q].status, status>> \in
               {<<"Open", "Requested">>, <<"Open", "Expired">>,
                <<"Requested", "Drawn">>, <<"Requested", "Expired">>}
      PROVE  MovesForward(s, r)
  <2> DEFINE old == round[t][q]
             rd == [old EXCEPT !.status = status, !.age = 0]
  <2>1. round' = [round EXCEPT ![t][q] = rd]
    BY <1>3
  <2>2. old \in RoundRecord
    BY DEF TypeOK
  <2>3. /\ rd.status = status /\ rd.member_count = old.member_count
        /\ rd.stake = old.stake /\ rd.first_push_id = old.first_push_id
    BY <2>2, Restated
  <2> HIDE DEF rd
  <2>4. Forwards(old, rd) /\ old.status # "Absent" /\ rd.status # "Absent"
    BY <1>3, <2>3 DEF Forwards, Becomes
  <2> QED
    BY <2>1, <2>4, OneRoundWritten
<1>4. ASSUME NEW t \in StarIds, NEW o \in Outlays, DrawRound(t, o)
      PROVE  MovesForward(s, r)
  BY <1>3, <1>4 DEF DrawRound, CloseableAt, IsOpen, RoundStatus
<1>5. ASSUME NEW t \in StarIds, NEW q \in RoundIds, ConsumeRandomness(t, q)
      PROVE  MovesForward(s, r)
  BY <1>3, <1>5 DEF ConsumeRandomness, RoundStatus
<1>6. ASSUME NEW t \in StarIds, NEW q \in RoundIds, ExpireRound(t, q)
      PROVE  MovesForward(s, r)
  BY <1>3, <1>6 DEF ExpireRound, ExpirableAt, RoundStatus
<1>7. ASSUME NEW t \in StarIds, NEW q \in RoundIds, CloseRoundAccount(t, q)
      PROVE  MovesForward(s, r)
  <2>1. /\ round' = [round EXCEPT ![t][q] = NoRound]
        /\ IsDrained(round[t][q], star[t].settle_cursor)
    BY <1>7 DEF CloseRoundAccount
  <2>2. NoRound.status = "Absent"
    BY DEF NoRound
  <2>3. Forwards(round[t][q], NoRound)
    BY <2>2 DEF Forwards
  <2> QED
    BY <2>1, <2>2, <2>3, OneRoundWritten
<1>8. CASE NextSlot
  <2> DEFINE old == round[s][r]
  <2>1. round'[s][r] = IF Waiting(old) THEN [old EXCEPT !.age = old.age + 1]
                                       ELSE old
    BY <1>8 DEF NextSlot
  <2>2. old \in RoundRecord
    BY DEF TypeOK
  <2> HIDE DEF old
  <2>3. /\ [old EXCEPT !.age = old.age + 1].status = old.status
        /\ [old EXCEPT !.age = old.age + 1].member_count = old.member_count
        /\ [old EXCEPT !.age = old.age + 1].stake = old.stake
        /\ [old EXCEPT !.age = old.age + 1].first_push_id = old.first_push_id
    BY <2>2 DEF RoundRecord
  <2> QED
    BY <2>1, <2>3 DEF old, MovesForward, Forwards
<1>9. CASE CreateFirstStar \/ CreateNextStar \/ HouseStep \/ NextSecond
  BY <1>1, <1>9 DEF CreateFirstStar, CreateNextStar, HouseStep, FundProtocol,
                    WithdrawProtocolFees, NextSecond
<1>10. ASSUME NEW k \in PushKeys, ResolvePush(k) \/ ClosePush(k)
       PROVE  MovesForward(s, r)
  BY <1>1, <1>10 DEF ResolvePush, RefundPush, SettlePush, ClosePush
<1>11. ASSUME NEW t \in StarIds, StarStep(t) PROVE MovesForward(s, r)
  BY <1>1, <1>2, <1>4, <1>11
  DEF StarStep, Feed, CollapseStalledStar, ClaimPrize, ClaimHoleShare
<1>12. CASE UNCHANGED vars
  BY <1>1, <1>12 DEF vars
<1> QED
  BY <1>5, <1>6, <1>7, <1>8, <1>9, <1>10, <1>11, <1>12 DEF Next, RoundStep

-----------------------------------------------------------------------------
(* What a step may do to a finished star                                   *)

\* The outcome of a star is the same in both.
SameOutcome(a, b) ==
  /\ a.status = b.status
  /\ a.total_mass = b.total_mass
  /\ a.prize_pool = b.prize_pool
  /\ a.final_prize = b.final_prize
  /\ a.killer = b.killer

\* A step that writes one star leaves every other alone, and a finished one too
\* if what it writes there has the same outcome.
LEMMA OneStarWritten ==
  ASSUME TypeOK, NEW t \in StarIds, NEW st,
         star' = [star EXCEPT ![t] = st],
         IsFinished(star[t]) => SameOutcome(st, star[t]),
         NEW s \in StarIds, IsFinished(star[s])
  PROVE  SameOutcome(star'[s], star[s])
<1>1. star'[s] = IF s = t THEN st ELSE star[s]
  BY DEF TypeOK
<1> QED
  BY <1>1 DEF SameOutcome

\* No step changes the outcome of a finished star.
LEMMA StepKeepsOutcome ==
  ASSUME TypeOK, RoundInv, [Next]_vars, NEW s \in StarIds, IsFinished(star[s])
  PROVE  SameOutcome(star'[s], star[s])
<1>1. ASSUME UNCHANGED star PROVE SameOutcome(star'[s], star[s])
  BY <1>1 DEF SameOutcome
<1>2. ASSUME NEW t \in StarIds, NEW st, star' = [star EXCEPT ![t] = st],
             star[t].status = "Alive"
      PROVE  SameOutcome(star'[s], star[s])
  BY <1>2, OneStarWritten DEF IsFinished
<1>3. CASE CreateFirstStar
  BY <1>3 DEF CreateFirstStar, RoundInv, IsFinished
<1>4. CASE CreateNextStar
  <2> DEFINE prev == current_star_id
             new == current_star_id + 1
             born == NewStar("Alive", Endowment)
  <2>1. /\ star' = [star EXCEPT ![new] = born, ![prev].next_star_created = TRUE]
        /\ prev \in StarIds /\ new \in StarIds
        /\ star[new].status = "Unborn"
    BY <1>4 DEF CreateNextStar
  <2>2. prev # new
    BY <2>1 DEF StarIds
  <2>3. s # new
    BY <2>1 DEF IsFinished
  <2> HIDE DEF prev, new, born
  <2>4. star'[s] = IF s = prev THEN [star[prev] EXCEPT !.next_star_created = TRUE]
                               ELSE star[s]
    BY <2>1, <2>2, <2>3 DEF TypeOK
  <2>5. \A st \in StarRecord :
          SameOutcome([st EXCEPT !.next_star_created = TRUE], st)
    BY DEF SameOutcome, StarRecord
  <2>6. star[s] \in StarRecord
    BY DEF TypeOK
  <2> QED
    BY <2>4, <2>5, <2>6 DEF SameOutcome
<1>5. ASSUME NEW t \in StarIds, StarStep(t)
      PROVE  SameOutcome(star'[s], star[s])
  <2>1. ASSUME NEW p \in Players, NEW a \in PushAmounts, Feed(t, p, a)
        PROVE  SameOutcome(star'[s], star[s])
    BY <1>2, <2>1 DEF Feed, IsAlive
  <2>2. CASE CollapseStalledStar(t)
    BY <1>2, <2>2 DEF CollapseStalledStar, IsStalled, IsAlive
  <2>3. ASSUME NEW k \in PushKeys, NEW a \in PushAmounts, RequestPush(t, k, a)
        PROVE  SameOutcome(star'[s], star[s])
    BY <1>2, <2>3 DEF RequestPush, IsAlive
  <2>4. ASSUME NEW o \in Outlays, DrawRound(t, o)
        PROVE  SameOutcome(star'[s], star[s])
    <3> DEFINE st == [star[t] EXCEPT !.current_round = @ + 1]
    <3>1. star' = [star EXCEPT ![t] = st] /\ star[t].status = "Alive"
      BY <2>4 DEF DrawRound, IsAlive
    <3> HIDE DEF st
    <3> QED
      BY <1>2, <3>1
  <2>5. CASE ClaimPrize(t)
    <3> DEFINE st == [star[t] EXCEPT !.prize_claimed = TRUE]
    <3>1. star' = [star EXCEPT ![t] = st]
      BY <2>5 DEF ClaimPrize
    <3>2. SameOutcome(st, star[t])
      BY DEF SameOutcome, TypeOK, StarRecord
    <3> HIDE DEF st
    <3> QED
      BY <3>1, <3>2, OneStarWritten
  <2>6. ASSUME NEW p \in Players, ClaimHoleShare(t, p)
        PROVE  SameOutcome(star'[s], star[s])
    BY <1>1, <2>6 DEF ClaimHoleShare
  <2> QED
    BY <1>5, <2>1, <2>2, <2>3, <2>4, <2>5, <2>6 DEF StarStep
<1>6. ASSUME NEW t \in StarIds, NEW r \in RoundIds, RoundStep(t, r)
      PROVE  SameOutcome(star'[s], star[s])
  <2>1. CASE ConsumeRandomness(t, r) \/ CloseRoundAccount(t, r)
    BY <1>1, <2>1 DEF ConsumeRandomness, CloseRoundAccount
  <2>2. CASE ExpireRound(t, r)
    <3> DEFINE n == AfterVoiding(star[t], round[t][r])
               st == [star[t] EXCEPT !.current_round = n]
    <3>1. star' = [star EXCEPT ![t] = st]
      BY <2>2 DEF ExpireRound
    <3> HIDE DEF n
    <3>2. SameOutcome(st, star[t])
      BY DEF SameOutcome, TypeOK, StarRecord
    <3> HIDE DEF st
    <3> QED
      BY <3>1, <3>2, OneStarWritten
  <2> QED
    BY <1>6, <2>1, <2>2 DEF RoundStep
<1>7. ASSUME NEW k \in PushKeys, RefundPush(k)
      PROVE  SameOutcome(star'[s], star[s])
  <2> DEFINE p == pending_push[k]
             t == p.star_id
             rest == Refunded(star[t], p.amount)
             early == star_feed[t].early_volume
             st == IF Stranded(t, rest) THEN CollapseIntoHole(rest, early)
                                        ELSE rest
  <2>1. t \in StarIds
    BY <1>7, PushType DEF RefundPush, AtCursor
  <2>2. star' = [star EXCEPT ![t] = st]
    BY <1>7 DEF RefundPush
  <2>3. SameOutcome(rest, star[t])
    BY <2>1 DEF SameOutcome, Refunded, TypeOK, StarRecord
  <2>4. Stranded(t, rest) => star[t].status = "Alive"
    BY <2>3 DEF Stranded, IsAlive, SameOutcome
  <2> HIDE DEF rest
  <2>5. IsFinished(star[t]) => SameOutcome(st, star[t])
    BY <2>3, <2>4 DEF IsFinished
  <2> HIDE DEF st
  <2> QED
    BY <2>1, <2>2, <2>5, OneStarWritten
<1>8. ASSUME NEW k \in PushKeys, NEW rolls \in BOOLEAN, SettlePush(k, rolls)
      PROVE  SameOutcome(star'[s], star[s])
  <2> DEFINE t == pending_push[k].star_id
  <2>1. t \in StarIds
    BY <1>8, PushType DEF SettlePush, AtCursor
  <2>2. PICK st : star' = [star EXCEPT ![t] = st]
    BY <1>8 DEF SettlePush
  <2>3. ~IsFinished(star[t])
    BY <1>8 DEF SettlePush, Refundable
  <2> HIDE DEF t
  <2> QED
    BY <2>1, <2>2, <2>3, OneStarWritten
<1>9. CASE NextSecond
  BY <1>9 DEF NextSecond, GoesQuiet, IsAlive, IsFinished, SameOutcome
<1>10. CASE HouseStep \/ NextSlot \/ UNCHANGED vars
  BY <1>1, <1>10 DEF HouseStep, FundProtocol, WithdrawProtocolFees, NextSlot, vars
<1>11. ASSUME NEW k \in PushKeys, ClosePush(k)
       PROVE  SameOutcome(star'[s], star[s])
  BY <1>1, <1>11 DEF ClosePush
<1> QED
  BY <1>3, <1>4, <1>5, <1>6, <1>7, <1>8, <1>9, <1>10, <1>11
  DEF Next, ResolvePush

-----------------------------------------------------------------------------
(* The theorems                                                            *)

\* A live star's current round always takes the next push: draw_round and
\* expire_round both hand the counter on before anyone can meet a sealed or
\* voided round there.
THEOREM AlwaysJoinable == Spec => []CurrentRoundJoinable
<1>1. RoundInv => CurrentRoundJoinable
  BY DEF RoundInv, StarRounds, CounterFresh, CurrentRoundJoinable
<1> QED
  BY <1>1, RoundInvAlways, PTL

\* A round is opened by request_push where the counter points, sealed by draw_round
\* or voided by expire_round with the members it has, drawn once by
\* consume_randomness or voided once, and swept by close_round_account only when
\* all its members have left the line.
THEOREM RoundsOnlyMoveForward == Spec => RoundsMoveForward
<1> DEFINE A == \A s \in StarIds, r \in RoundIds : MovesForward(s, r)
<1>1. TypeOK /\ RoundInv /\ [Next]_vars => [A]_vars
  BY StepMovesForward
<1>2. RoundsMoveForward <=> [][A]_vars
  BY DEF RoundsMoveForward
<1> QED
  BY <1>1, <1>2, TypeCorrect, RoundInvAlways, PTL DEF Spec

\* Nothing that still happens on a finished star (refunds, voids, claims, its
\* successor's birth) changes how it ended.
THEOREM FinishedStarsStayFinished == Spec => FinishedIsFinal
<1> DEFINE A == \A s \in StarIds :
                  IsFinished(star[s]) => SameOutcome(star'[s], star[s])
<1>1. TypeOK /\ RoundInv /\ [Next]_vars => [A]_vars
  BY StepKeepsOutcome
<1>2. FinishedIsFinal <=> [][A]_vars
  BY DEF FinishedIsFinal, SameOutcome
<1> QED
  BY <1>1, <1>2, TypeCorrect, RoundInvAlways, PTL DEF Spec

-----------------------------------------------------------------------------
(* The numbers of a line                                                  *)

\* The numbers of a star the queue is about.
Counts(st) ==
  /\ st.settle_cursor + st.pending_pushes = st.push_counter
  /\ st.settle_cursor = st.successful_pushes + st.cancelled_pushes

Fits(st) ==
  /\ OnStep(st.total_mass)
  /\ OnStep(st.pending_lamports)
  /\ CommittedMass(st) <= HOLE_MASS
  /\ st.pending_lamports > 0 => st.total_mass >= FEED_MASS

StarInv(st) == Counts(st) /\ Fits(st)

LineInv ==
  /\ \A s \in StarIds : StarInv(star[s])
  /\ \A k \in PushKeys : OnStep(pending_push[k].amount)

-----------------------------------------------------------------------------
(* Each rewriting of a star keeps its queue in order                       *)

\* The numbers of two stars that the queue is about are the same.
SameQueue(a, b) ==
  /\ a.total_mass = b.total_mass
  /\ a.pending_lamports = b.pending_lamports
  /\ a.pending_pushes = b.pending_pushes
  /\ a.push_counter = b.push_counter
  /\ a.settle_cursor = b.settle_cursor
  /\ a.successful_pushes = b.successful_pushes
  /\ a.cancelled_pushes = b.cancelled_pushes

\* StarInv only reads the fields SameQueue compares.
LEMMA SameQueueInv ==
  ASSUME NEW a, NEW b, SameQueue(a, b), StarInv(b)
  PROVE  StarInv(a)
  BY DEF SameQueue, StarInv, Counts, Fits, CommittedMass

\* Ending a star leaves those fields alone.
LEMMA EndedSameQueue ==
  ASSUME NEW st \in StarRecord, NEW status, NEW prize, NEW player, NEW early
  PROVE  /\ SameQueue(Finish(st, status, prize), st)
         /\ SameQueue(Kill(st, player), st)
         /\ SameQueue(CollapseIntoHole(st, early), st)
  BY DEF SameQueue, Finish, Kill, CollapseIntoHole, StarRecord

\* A star is born with an empty line and room in its nursery.
LEMMA NewStarInv ==
  ASSUME NEW status, NEW endowment \in Nat, OnStep(endowment),
         endowment < FEED_MASS
  PROVE  StarInv(NewStar(status, endowment))
<1>1. FEED_MASS \in Nat /\ HOLE_MASS \in Nat /\ FEED_MASS < HOLE_MASS
  BY MathAssumption
<1> QED
  BY <1>1, ZeroOnStep DEF NewStar, StarInv, Counts, Fits, CommittedMass

\* A star a stake joined satisfies StarInv.
LEMMA JoinedInv ==
  ASSUME NEW st \in StarRecord, StarInv(st), NEW amount \in Nat,
         OnStep(amount), st.total_mass >= FEED_MASS,
         amount <= HOLE_MASS - CommittedMass(st)
  PROVE  StarInv(Joined(st, amount))
<1> DEFINE jo == Joined(st, amount)
<1>1. /\ jo.total_mass = st.total_mass
      /\ jo.pending_lamports = st.pending_lamports + amount
      /\ jo.pending_pushes = st.pending_pushes + 1
      /\ jo.push_counter = st.push_counter + 1
      /\ jo.settle_cursor = st.settle_cursor
      /\ jo.successful_pushes = st.successful_pushes
      /\ jo.cancelled_pushes = st.cancelled_pushes
  BY Zenon DEF Joined, StarRecord
<1>2. /\ st.total_mass \in Nat /\ st.pending_lamports \in Nat
      /\ st.pending_pushes \in Nat /\ st.push_counter \in Nat
      /\ st.settle_cursor \in Nat /\ st.successful_pushes \in Nat
      /\ st.cancelled_pushes \in Nat
  BY DEF StarRecord
<1>3. HOLE_MASS \in Nat
  BY MathAssumption
<1>4. OnStep(st.pending_lamports + amount)
  BY <1>2, OnStepSum DEF StarInv, Fits
<1> HIDE DEF jo
<1>5. Counts(jo)
  BY <1>1, <1>2 DEF StarInv, Counts
<1>6. Fits(jo)
  BY <1>1, <1>2, <1>3, <1>4 DEF StarInv, Fits, CommittedMass
<1> QED
  BY <1>5, <1>6 DEF StarInv, jo

\* A fed star satisfies StarInv.
LEMMA FedInv ==
  ASSUME NEW st \in StarRecord, StarInv(st), NEW amount \in Nat,
         OnStep(amount), st.total_mass < FEED_MASS,
         amount <= FEED_MASS - st.total_mass
  PROVE  StarInv(Fed(st, amount))
<1> DEFINE fd == Fed(st, amount)
<1>1. /\ fd.total_mass = st.total_mass + amount
      /\ fd.pending_lamports = st.pending_lamports
      /\ fd.pending_pushes = st.pending_pushes
      /\ fd.push_counter = st.push_counter + 1
      /\ fd.settle_cursor = st.settle_cursor + 1
      /\ fd.successful_pushes = st.successful_pushes + 1
      /\ fd.cancelled_pushes = st.cancelled_pushes
  BY ZenonT(60) DEF Fed, StarRecord
<1>2. /\ st.total_mass \in Nat /\ st.pending_lamports \in Nat
      /\ st.pending_pushes \in Nat /\ st.push_counter \in Nat
      /\ st.settle_cursor \in Nat /\ st.successful_pushes \in Nat
      /\ st.cancelled_pushes \in Nat
  BY DEF StarRecord
<1>3. FEED_MASS \in Nat /\ HOLE_MASS \in Nat /\ FEED_MASS < HOLE_MASS
  BY MathAssumption
<1>4. OnStep(st.total_mass + amount)
  BY <1>2, OnStepSum DEF StarInv, Fits
<1> HIDE DEF fd
<1>5. Counts(fd)
  BY <1>1, <1>2 DEF StarInv, Counts
<1>6. Fits(fd)
  BY <1>1, <1>2, <1>3, <1>4 DEF StarInv, Fits, CommittedMass
<1> QED
  BY <1>5, <1>6 DEF StarInv, fd

\* A star that refunded a stake satisfies StarInv.
LEMMA RefundedInv ==
  ASSUME NEW st \in StarRecord, StarInv(st), NEW amount \in Nat,
         OnStep(amount), amount <= st.pending_lamports
  PROVE  StarInv(Refunded(st, amount))
<1> DEFINE rf == Refunded(st, amount)
<1>1. /\ rf.total_mass = st.total_mass
      /\ rf.pending_lamports = st.pending_lamports - amount
      /\ rf.pending_pushes = st.pending_pushes - 1
      /\ rf.push_counter = st.push_counter
      /\ rf.settle_cursor = st.settle_cursor + 1
      /\ rf.successful_pushes = st.successful_pushes
      /\ rf.cancelled_pushes = st.cancelled_pushes + 1
  BY Zenon DEF Refunded, StarRecord
<1>2. /\ st.total_mass \in Nat /\ st.pending_lamports \in Nat
      /\ st.pending_pushes \in Nat /\ st.push_counter \in Nat
      /\ st.settle_cursor \in Nat /\ st.successful_pushes \in Nat
      /\ st.cancelled_pushes \in Nat
  BY DEF StarRecord
<1>3. HOLE_MASS \in Nat
  BY MathAssumption
<1>4. OnStep(st.pending_lamports - amount)
  BY <1>2, OnStepSum DEF StarInv, Fits
<1> HIDE DEF rf
<1>5. Counts(rf)
  BY <1>1, <1>2 DEF StarInv, Counts
<1>6. Fits(rf)
  BY <1>1, <1>2, <1>3, <1>4 DEF StarInv, Fits, CommittedMass
<1> QED
  BY <1>5, <1>6 DEF StarInv, rf

\* The clip in the settle path never cuts a stake the star has counted.
LEMMA WholeStakeLands ==
  ASSUME NEW st \in StarRecord, StarInv(st), NEW amount \in Nat,
         amount <= st.pending_lamports
  PROVE  AcceptedSettleAmount(amount, st.total_mass) = amount
<1>1. /\ st.total_mass \in Nat /\ st.pending_lamports \in Nat
      /\ OnStep(st.total_mass)
      /\ st.total_mass + st.pending_lamports <= HOLE_MASS
      /\ st.pending_lamports > 0 => st.total_mass >= FEED_MASS
  BY DEF StarRecord, StarInv, Fits, CommittedMass
<1>2. HOLE_MASS \in Nat
  BY MathAssumption
<1>3. RoomAt(st.total_mass) \in Nat
  BY <1>1, RoomType
<1>4. CASE amount = 0
  BY <1>3, <1>4 DEF AcceptedSettleAmount, Least
<1>5. CASE amount > 0
  <2>1. RoomAt(st.total_mass) = HOLE_MASS - st.total_mass
    BY <1>1, <1>2, <1>5, RoomFacts
  <2>2. amount <= RoomAt(st.total_mass)
    BY <1>1, <1>2, <2>1
  <2> QED
    BY <2>2 DEF AcceptedSettleAmount, Least
<1> QED
  BY <1>4, <1>5

\* A star a stake landed on satisfies StarInv.
LEMMA LandedInv ==
  ASSUME NEW st \in StarRecord, StarInv(st), NEW amount \in Nat,
         OnStep(amount), amount <= st.pending_lamports
  PROVE  StarInv(Landed(st, amount, amount))
<1> DEFINE ld == Landed(st, amount, amount)
<1>1. /\ ld.total_mass = st.total_mass + amount
      /\ ld.pending_lamports = st.pending_lamports - amount
      /\ ld.pending_pushes = st.pending_pushes - 1
      /\ ld.push_counter = st.push_counter
      /\ ld.settle_cursor = st.settle_cursor + 1
      /\ ld.successful_pushes = st.successful_pushes + 1
      /\ ld.cancelled_pushes = st.cancelled_pushes
  BY ZenonT(60) DEF Landed, StarRecord
<1>2. /\ st.total_mass \in Nat /\ st.pending_lamports \in Nat
      /\ st.pending_pushes \in Nat /\ st.push_counter \in Nat
      /\ st.settle_cursor \in Nat /\ st.successful_pushes \in Nat
      /\ st.cancelled_pushes \in Nat
  BY DEF StarRecord
<1>3. HOLE_MASS \in Nat /\ FEED_MASS \in Nat
  BY MathAssumption
<1>4. OnStep(st.pending_lamports - amount) /\ OnStep(st.total_mass + amount)
  BY <1>2, OnStepSum DEF StarInv, Fits
<1> HIDE DEF ld
<1>5. Counts(ld)
  BY <1>1, <1>2 DEF StarInv, Counts
<1>6. Fits(ld)
  BY <1>1, <1>2, <1>3, <1>4 DEF StarInv, Fits, CommittedMass
<1> QED
  BY <1>5, <1>6 DEF StarInv, ld

-----------------------------------------------------------------------------
(* Instruction by instruction                                              *)

\* An instruction that rewrites one star, and leaves every stake or one of them
\* on the lattice.
LEMMA StarRewritten ==
  ASSUME TypeOK, LineInv, NEW s \in StarIds, NEW st, StarInv(st),
         star' = [star EXCEPT ![s] = st],
         \A k \in PushKeys : OnStep(pending_push'[k].amount)
  PROVE  LineInv'
<1>1. \A t \in StarIds : star'[t] = IF t = s THEN st ELSE star[t]
  BY DEF TypeOK
<1>2. \A t \in StarIds : StarInv(star'[t])
  BY <1>1 DEF LineInv
<1> QED
  BY <1>2 DEF LineInv, StarInv, Counts, Fits, CommittedMass, OnStep

\* Rewriting one push with an amount on the lattice keeps every amount on it.
LEMMA PushRewritten ==
  ASSUME TypeOK, LineInv, NEW k \in PushKeys, NEW p, OnStep(p.amount),
         pending_push' = [pending_push EXCEPT ![k] = p]
  PROVE  \A j \in PushKeys : OnStep(pending_push'[j].amount)
<1>1. \A j \in PushKeys :
        pending_push'[j] = IF j = k THEN p ELSE pending_push[j]
  BY DEF TypeOK
<1> QED
  BY <1>1 DEF LineInv

\* LineInv only reads the stars and the pushes.
LEMMA LineInvUnchanged ==
  ASSUME LineInv, UNCHANGED <<star, pending_push>>
  PROVE  LineInv'
  BY DEF LineInv, StarInv, Counts, Fits, CommittedMass, OnStep

\* LineInv holds of the empty program.
LEMMA InitLine == Init => LineInv
<1> SUFFICES ASSUME Init PROVE LineInv
  OBVIOUS
<1>1. StarInv(NewStar("Unborn", 0))
  <2>1. 0 < FEED_MASS
    BY MathAssumption
  <2> QED
    BY <2>1, ZeroOnStep, NewStarInv
<1>2. \A s \in StarIds : star[s] = NewStar("Unborn", 0)
  BY DEF Init
<1>3. \A k \in PushKeys : pending_push[k].amount = 0
  BY DEF Init, NoPush
<1> QED
  BY <1>1, <1>2, <1>3, ZeroOnStep DEF LineInv

\* An endowment is whole steps and leaves the nursery open.
LEMMA EndowmentFacts ==
  ASSUME TypeOK
  PROVE  Endowment \in Nat /\ OnStep(Endowment) /\ Endowment < FEED_MASS
<1>1. /\ FEED_MASS \in Nat /\ PUSH_STEP \in Nat /\ PUSH_STEP > 0
      /\ PUSH_STEP <= FEED_MASS /\ OnStep(FEED_MASS)
  BY MathAssumption DEF OnStep
<1>2. OnStep(PUSH_STEP)
  <2>1. PUSH_STEP = PUSH_STEP * 1
    BY <1>1
  <2> QED
    BY <1>1, <2>1, MultipleOnStep
<1>3. FEED_MASS - PUSH_STEP \in Nat /\ OnStep(FEED_MASS - PUSH_STEP)
  BY <1>1, <1>2, OnStepSum
<1>4. FloorToStep(next_star_reserve) \in Nat
      /\ OnStep(FloorToStep(next_star_reserve))
  BY FloorRange, FloorOnStep DEF TypeOK
<1> QED
  BY <1>1, <1>3, <1>4 DEF Endowment, Least

\* create_first_star preserves LineInv.
LEMMA CreateFirstStarLine ==
  ASSUME TypeOK, LineInv, CreateFirstStar
  PROVE  LineInv'
<1>1. StarInv(NewStar("Alive", 0))
  <2>1. 0 < FEED_MASS
    BY MathAssumption
  <2> QED
    BY <2>1, ZeroOnStep, NewStarInv
<1>2. \A k \in PushKeys : OnStep(pending_push'[k].amount)
  BY DEF CreateFirstStar, LineInv
<1> QED
  BY <1>1, <1>2, StarRewritten DEF CreateFirstStar

\* create_next_star preserves LineInv.
LEMMA CreateNextStarLine ==
  ASSUME TypeOK, LineInv, CreateNextStar
  PROVE  LineInv'
<1> DEFINE new == current_star_id + 1
           prev == current_star_id
           older == [star[prev] EXCEPT !.next_star_created = TRUE]
<1>1. StarInv(NewStar("Alive", Endowment))
  BY EndowmentFacts, NewStarInv
<1>2. new \in StarIds /\ prev \in StarIds /\ new # prev
  BY DEF CreateNextStar, StarIds
<1>3. star[prev] \in StarRecord
  BY <1>2 DEF TypeOK
<1>4. SameQueue(older, star[prev])
  BY <1>3 DEF SameQueue, StarRecord
<1>5. StarInv(older)
  BY <1>2, <1>4, SameQueueInv DEF LineInv
<1>6. \A t \in StarIds :
        star'[t] = IF t = new THEN NewStar("Alive", Endowment)
                   ELSE IF t = prev THEN older ELSE star[t]
  BY <1>2 DEF CreateNextStar, TypeOK
<1> HIDE DEF new, prev, older
<1>7. \A t \in StarIds : StarInv(star'[t])
  BY <1>1, <1>5, <1>6 DEF LineInv
<1>8. UNCHANGED pending_push
  BY DEF CreateNextStar
<1> QED
  BY <1>7, <1>8 DEF LineInv, StarInv, Counts, Fits, CommittedMass, OnStep

\* feed preserves LineInv.
LEMMA FeedLine ==
  ASSUME TypeOK, LineInv,
         NEW s \in StarIds, NEW p \in Players, NEW a \in PushAmounts,
         Feed(s, p, a)
  PROVE  LineInv'
<1> DEFINE st == star[s]
           room == RoomAt(st.total_mass)
           amount == AcceptPushAmount(a, room)
<1>1. /\ st \in StarRecord /\ StarInv(st)
      /\ st.total_mass \in Nat /\ st.pending_lamports \in Nat
  BY DEF TypeOK, LineInv, StarRecord
<1>2. /\ st.total_mass < FEED_MASS /\ LegalPush(a) /\ room > 0
      /\ a \in Nat
  BY SoldustAssumption DEF Feed
<1>3. /\ room \in Nat /\ OnStep(room)
      /\ room = FEED_MASS - st.total_mass
  <2>1. OnStep(st.total_mass) /\ st.total_mass <= HOLE_MASS
    BY <1>1, <1>2, MathAssumption DEF StarInv, Fits
  <2> QED
    BY <1>1, <1>2, <2>1, RoomFacts
<1> HIDE DEF room
<1>4. /\ amount \in Nat /\ OnStep(amount)
      /\ amount <= FEED_MASS - st.total_mass
  BY <1>2, <1>3, AcceptFacts
<1>5. star' = [star EXCEPT ![s] = Fed(st, amount)]
  BY DEF Feed, room
<1> HIDE DEF amount, st
<1>6. StarInv(Fed(st, amount))
  BY <1>1, <1>2, <1>4, FedInv
<1>7. \A k \in PushKeys : OnStep(pending_push'[k].amount)
  BY DEF Feed, LineInv
<1> QED
  BY <1>5, <1>6, <1>7, StarRewritten

\* collapse_stalled_star preserves LineInv.
LEMMA CollapseStalledStarLine ==
  ASSUME TypeOK, LineInv, NEW s \in StarIds, CollapseStalledStar(s)
  PROVE  LineInv'
<1> DEFINE prize == Least(PrizeCut(star_feed[s].early_volume),
                          star[s].prize_pool)
<1>1. star[s] \in StarRecord /\ StarInv(star[s])
  BY DEF TypeOK, LineInv
<1>2. star' = [star EXCEPT ![s] = Finish(star[s], "Stalled", prize)]
  BY DEF CollapseStalledStar
<1> HIDE DEF prize
<1>3. StarInv(Finish(star[s], "Stalled", prize))
  BY <1>1, EndedSameQueue, SameQueueInv
<1>4. \A k \in PushKeys : OnStep(pending_push'[k].amount)
  BY DEF CollapseStalledStar, LineInv
<1> QED
  BY <1>2, <1>3, <1>4, StarRewritten

\* request_push preserves LineInv.
LEMMA RequestPushLine ==
  ASSUME TypeOK, LineInv,
         NEW s \in StarIds, NEW k \in PushKeys, NEW a \in PushAmounts,
         RequestPush(s, k, a)
  PROVE  LineInv'
<1> DEFINE st == star[s]
           room == QueueRoom(st)
           amount == AcceptPushAmount(a, room)
           push == [status |-> "Pending", star_id |-> s,
                    push_id |-> st.push_counter,
                    round_id |-> st.current_round, amount |-> amount]
<1>1. /\ st \in StarRecord /\ StarInv(st)
      /\ st.total_mass \in Nat /\ st.pending_lamports \in Nat
  BY DEF TypeOK, LineInv, StarRecord
<1>2. /\ st.total_mass >= FEED_MASS /\ CommittedMass(st) < HOLE_MASS
      /\ LegalPush(a) /\ a \in Nat
  BY SoldustAssumption DEF RequestPush
<1>3. FEED_MASS \in Nat /\ HOLE_MASS \in Nat
  BY MathAssumption
<1>4. /\ room \in Nat /\ OnStep(room) /\ room > 0
      /\ room = HOLE_MASS - CommittedMass(st)
  <2>1. CommittedMass(st) \in Nat /\ OnStep(CommittedMass(st))
    BY <1>1, OnStepSum DEF StarInv, Fits, CommittedMass
  <2>2. CommittedMass(st) >= FEED_MASS
    BY <1>1, <1>2, <1>3 DEF CommittedMass
  <2>3. room = HOLE_MASS - CommittedMass(st)
    BY <1>2, <1>3, <2>1, <2>2, RoomFacts DEF QueueRoom
  <2>4. room \in Nat /\ OnStep(room)
    BY <1>2, <1>3, <2>1, RoomFacts DEF QueueRoom
  <2> QED
    BY <1>2, <1>3, <2>1, <2>3, <2>4
<1>5. /\ star' = [star EXCEPT ![s] = Joined(st, amount)]
      /\ pending_push' = [pending_push EXCEPT ![k] = push]
  BY DEF RequestPush
<1> HIDE DEF room
<1>6. /\ amount \in Nat /\ OnStep(amount)
      /\ amount <= HOLE_MASS - CommittedMass(st)
  BY <1>2, <1>4, AcceptFacts
<1> HIDE DEF amount, st
<1>7. StarInv(Joined(st, amount))
  BY <1>1, <1>2, <1>6, JoinedInv
<1>8. OnStep(push.amount)
  BY <1>6
<1> HIDE DEF push
<1>9. \A j \in PushKeys : OnStep(pending_push'[j].amount)
  BY <1>5, <1>8, PushRewritten
<1> QED
  BY <1>5, <1>7, <1>9, StarRewritten

\* resolve_push's refund path preserves LineInv.
LEMMA RefundPushLine ==
  ASSUME TypeOK, LineInv, NEW k \in PushKeys, RefundPush(k)
  PROVE  LineInv'
<1> DEFINE p == pending_push[k]
           s == p.star_id
           early == star_feed[s].early_volume
           rest == Refunded(star[s], p.amount)
           after == IF Stranded(s, rest) THEN CollapseIntoHole(rest, early)
                    ELSE rest
           push == [p EXCEPT !.status = "Cancelled"]
<1>1. /\ p.status = "Pending"
      /\ star[s].pending_pushes >= 1
      /\ p.amount <= star[s].pending_lamports
  BY DEF RefundPush, AtCursor
<1>2. s \in StarIds /\ p.amount \in Nat
  BY <1>1, PushType
<1>3. star[s] \in StarRecord /\ StarInv(star[s]) /\ OnStep(p.amount)
  BY <1>2 DEF TypeOK, LineInv
<1>4. /\ star' = [star EXCEPT ![s] = after]
      /\ pending_push' = [pending_push EXCEPT ![k] = push]
  BY DEF RefundPush
<1>5. push.amount = p.amount
  BY DEF TypeOK, PushRecord, NoPush
<1> HIDE DEF p, s, push
<1>6. rest \in StarRecord /\ StarInv(rest)
  BY <1>1, <1>2, <1>3, RefundedType, RefundedInv
<1> HIDE DEF rest
<1>7. StarInv(after)
  BY <1>6, EndedSameQueue, SameQueueInv
<1> HIDE DEF after
<1>8. \A j \in PushKeys : OnStep(pending_push'[j].amount)
  BY <1>3, <1>4, <1>5, PushRewritten
<1> QED
  BY <1>2, <1>4, <1>7, <1>8, StarRewritten

\* resolve_push's settle path preserves LineInv.
LEMMA SettlePushLine ==
  ASSUME TypeOK, LineInv, NEW k \in PushKeys, NEW rolls \in BOOLEAN,
         SettlePush(k, rolls)
  PROVE  LineInv'
<1> DEFINE p == pending_push[k]
           s == p.star_id
           st == star[s]
           nursery == st.total_mass < FEED_MASS
           accepted == AcceptedSettleAmount(p.amount, st.total_mass)
           landed == Landed(st, p.amount, accepted)
           early == star_feed[s].early_volume + IF nursery THEN accepted ELSE 0
           lethal == rolls /\ ~nursery
           hole == ~lethal /\ (landed.total_mass >= HOLE_MASS
                                 \/ Stranded(s, landed))
           after == IF lethal THEN Kill(landed, k[1])
                    ELSE IF hole THEN CollapseIntoHole(landed, early)
                    ELSE landed
           outcome == IF lethal THEN "Killed" ELSE "Survived"
           push == [p EXCEPT !.status = outcome, !.amount = accepted]
<1>1. /\ p.status = "Pending"
      /\ st.pending_pushes >= 1
      /\ p.amount <= st.pending_lamports
  BY DEF SettlePush, AtCursor
<1>2. s \in StarIds /\ p.amount \in Nat
  BY <1>1, PushType
<1>3. st \in StarRecord /\ StarInv(st) /\ OnStep(p.amount)
  BY <1>2 DEF TypeOK, LineInv
<1>4. /\ star' = [star EXCEPT ![s] = after]
      /\ pending_push' = [pending_push EXCEPT ![k] = push]
  BY DEF SettlePush
<1>5. accepted = p.amount
  BY <1>1, <1>2, <1>3, WholeStakeLands
<1>6. push.amount = accepted
  BY DEF TypeOK, PushRecord, NoPush
<1> HIDE DEF p, s, st, push, accepted, early, outcome, lethal, hole
<1>7. landed \in StarRecord /\ StarInv(landed)
  BY <1>1, <1>2, <1>3, <1>5, LandedType, LandedInv
<1> HIDE DEF landed
<1>8. StarInv(after)
  BY <1>7, EndedSameQueue, SameQueueInv
<1> HIDE DEF after
<1>9. \A j \in PushKeys : OnStep(pending_push'[j].amount)
  BY <1>3, <1>4, <1>5, <1>6, PushRewritten
<1> QED
  BY <1>2, <1>4, <1>8, <1>9, StarRewritten

\* Instructions that only touch what the queue does not read of a star.
LEMMA SameQueueLine ==
  ASSUME TypeOK, LineInv, UNCHANGED pending_push,
         \A s \in StarIds : SameQueue(star'[s], star[s])
  PROVE  LineInv'
<1>1. \A s \in StarIds : StarInv(star'[s])
  BY SameQueueInv DEF LineInv
<1> QED
  BY <1>1 DEF LineInv, StarInv, Counts, Fits, CommittedMass, OnStep

\* Draws, voids, claims: steps that leave the queue and the outcome of every star
\* alone.
LEMMA OtherStarStepsSame ==
  ASSUME TypeOK, NEW s \in StarIds,
         \/ \E o \in Outlays : DrawRound(s, o)
         \/ ClaimPrize(s)
         \/ \E p \in Players : ClaimHoleShare(s, p)
         \/ \E r \in RoundIds : RoundStep(s, r)
  PROVE  /\ UNCHANGED <<pending_push, pending_liability>>
         /\ \A t \in StarIds : /\ SameQueue(star'[t], star[t])
                               /\ SameOutcome(star'[t], star[t])
<1>1. UNCHANGED <<pending_push, pending_liability>>
  BY DEF DrawRound, ClaimPrize, ClaimHoleShare, RoundStep, money, buckets,
         ConsumeRandomness, ExpireRound, CloseRoundAccount
<1>2. \/ \E n : star' = [star EXCEPT ![s].current_round = n]
      \/ star' = [star EXCEPT ![s].prize_claimed = TRUE]
      \/ UNCHANGED star
  BY Zenon DEF DrawRound, ClaimPrize, ClaimHoleShare, RoundStep,
               ConsumeRandomness, ExpireRound, CloseRoundAccount
<1>3. \A t \in StarIds : star[t] \in StarRecord
  BY DEF TypeOK
<1>4. \A st \in StarRecord :
        /\ \A n : SameQueue([st EXCEPT !.current_round = n], st)
        /\ SameQueue([st EXCEPT !.prize_claimed = TRUE], st)
        /\ SameQueue(st, st)
  BY Zenon DEF SameQueue, StarRecord
<1>5. \A st \in StarRecord :
        /\ \A n : SameOutcome([st EXCEPT !.current_round = n], st)
        /\ SameOutcome([st EXCEPT !.prize_claimed = TRUE], st)
        /\ SameOutcome(st, st)
  BY Zenon DEF SameOutcome, StarRecord
<1>6. \A t \in StarIds :
        \/ \E n : star'[t] = [star[t] EXCEPT !.current_round = n]
        \/ star'[t] = [star[t] EXCEPT !.prize_claimed = TRUE]
        \/ star'[t] = star[t]
  BY <1>2, Zenon DEF TypeOK
<1>7. ASSUME NEW t \in StarIds
      PROVE  SameQueue(star'[t], star[t]) /\ SameOutcome(star'[t], star[t])
  <2>1. CASE \E n : star'[t] = [star[t] EXCEPT !.current_round = n]
    BY <1>3, <1>4, <1>5, <2>1, Zenon
  <2>2. CASE star'[t] = [star[t] EXCEPT !.prize_claimed = TRUE]
    BY <1>3, <1>4, <1>5, <2>2, Zenon
  <2>3. CASE star'[t] = star[t]
    BY <1>3, <1>4, <1>5, <2>3, Zenon
  <2> QED
    BY <1>6, <2>1, <2>2, <2>3
<1> QED
  BY <1>1, <1>7

\* They preserve LineInv.
LEMMA OtherStarStepsLine ==
  ASSUME TypeOK, LineInv, NEW s \in StarIds,
         \/ \E o \in Outlays : DrawRound(s, o)
         \/ ClaimPrize(s)
         \/ \E p \in Players : ClaimHoleShare(s, p)
         \/ \E r \in RoundIds : RoundStep(s, r)
  PROVE  LineInv'
  BY OtherStarStepsSame, SameQueueLine

\* close_push preserves LineInv.
LEMMA ClosePushLine ==
  ASSUME TypeOK, LineInv, NEW k \in PushKeys, ClosePush(k)
  PROVE  LineInv'
<1>1. OnStep(NoPush.amount)
  BY ZeroOnStep DEF NoPush
<1>2. \A j \in PushKeys : OnStep(pending_push'[j].amount)
  BY <1>1, PushRewritten DEF ClosePush
<1>3. UNCHANGED star
  BY DEF ClosePush
<1> QED
  BY <1>2, <1>3 DEF LineInv, StarInv, Counts, Fits, CommittedMass, OnStep

\* So does a second passing.
LEMMA NextSecondSame ==
  ASSUME TypeOK, NextSecond
  PROVE  /\ UNCHANGED <<pending_push, pending_liability>>
         /\ \A t \in StarIds : /\ SameQueue(star'[t], star[t])
                               /\ SameOutcome(star'[t], star[t])
<1>1. UNCHANGED <<pending_push, pending_liability>>
  BY DEF NextSecond, money, buckets
<1>2. \A t \in StarIds : star[t] \in StarRecord
  BY DEF TypeOK
<1>3. \A st \in StarRecord : /\ SameQueue([st EXCEPT !.quiet = @ + 1], st)
                           /\ SameQueue(st, st)
  BY Zenon DEF SameQueue, StarRecord
<1>4. \A st \in StarRecord :
        /\ SameOutcome([st EXCEPT !.quiet = @ + 1], st)
        /\ SameOutcome(st, st)
  BY Zenon DEF SameOutcome, StarRecord
<1>5. \A t \in StarIds : /\ SameQueue(star'[t], star[t])
                        /\ SameOutcome(star'[t], star[t])
  BY <1>2, <1>3, <1>4, Zenon DEF NextSecond
<1> QED
  BY <1>1, <1>5

\* LineInv is inductive, given the types.
LEMMA LineStep ==
  ASSUME TypeOK, LineInv, [Next]_vars
  PROVE  LineInv'
<1>1. CASE CreateFirstStar \/ CreateNextStar
  BY <1>1, CreateFirstStarLine, CreateNextStarLine
<1>2. CASE \E s \in StarIds : StarStep(s)
  BY <1>2, FeedLine, CollapseStalledStarLine, RequestPushLine,
     OtherStarStepsLine DEF StarStep
<1>3. CASE \E s \in StarIds, r \in RoundIds : RoundStep(s, r)
  BY <1>3, OtherStarStepsLine
<1>4. CASE \E k \in PushKeys : ResolvePush(k) \/ ClosePush(k)
  BY <1>4, RefundPushLine, SettlePushLine, ClosePushLine DEF ResolvePush
<1>5. CASE HouseStep \/ NextSlot
  BY <1>5, LineInvUnchanged
     DEF HouseStep, FundProtocol, WithdrawProtocolFees, NextSlot
<1>6. CASE NextSecond
  BY <1>6, NextSecondSame, SameQueueLine
<1>7. CASE UNCHANGED vars
  BY <1>7, LineInvUnchanged DEF vars
<1> QED
  BY <1>1, <1>2, <1>3, <1>4, <1>5, <1>6, <1>7 DEF Next

-----------------------------------------------------------------------------
(* What the invariant says                                                 *)

\* LineInv holds in every reachable state.
LEMMA LineInvAlways == Spec => []LineInv
<1>1. TypeOK /\ LineInv /\ [Next]_vars => LineInv'
  BY LineStep
<1> QED
  BY <1>1, InitLine, TypeCorrect, PTL DEF Spec

\* A star's queue never promises more than the star can take, so no stake is ever
\* clipped or stuck behind the hole cap.
THEOREM NeverOverpromised == Spec => []CommittedWithinHole
<1>1. LineInv => CommittedWithinHole
  BY DEF LineInv, StarInv, Fits, CommittedWithinHole
<1> QED
  BY <1>1, LineInvAlways, PTL

\* What was handed out is what resolved plus what waits, and what resolved
\* landed or was cancelled: feeds, settles and refunds lose no id.
THEOREM CountersAlwaysAgree == Spec => []CountersAgree
<1>1. LineInv => CountersAgree
  BY DEF LineInv, StarInv, Counts, CountersAgree
<1> QED
  BY <1>1, LineInvAlways, PTL

\* Mass and stakes never leave the step lattice, whatever was clipped, recycled
\* or endowed.
THEOREM AlwaysOnLattice == Spec => []OnLattice
<1>1. LineInv => OnLattice
  BY DEF LineInv, StarInv, Fits, OnLattice
<1> QED
  BY <1>1, LineInvAlways, PTL

-----------------------------------------------------------------------------
(* How a step moves a line.  Thirteen instructions move the line in five   *)
(* ways; what is in line, where, and what it is worth is proved of these.  *)

Resolved == {"Survived", "Killed", "Cancelled"}

\* The line of two stars is the same.
SameLine(a, b) ==
  /\ a.push_counter = b.push_counter
  /\ a.settle_cursor = b.settle_cursor
  /\ a.pending_pushes = b.pending_pushes
  /\ a.pending_lamports = b.pending_lamports

OnlyLine(s) == \A t \in StarIds : t # s => SameLine(star'[t], star[t])

OnlyPush(k) == \A j \in PushKeys : j # k => pending_push'[j] = pending_push[j]

\* request_push: a stake takes the next id.
StakeJoins(s, k) ==
  LET p == pending_push'[k]
  IN /\ pending_push[k].status = "Absent"
     /\ p.status = "Pending" /\ p.star_id = s
     /\ p.push_id = star[s].push_counter
     /\ p.round_id = star[s].current_round
     /\ p.amount \in Nat \ {0}
     /\ OnlyPush(k)
     /\ pending_liability' = pending_liability + p.amount
     /\ star'[s].push_counter = star[s].push_counter + 1
     /\ star'[s].settle_cursor = star[s].settle_cursor
     /\ star'[s].pending_pushes = star[s].pending_pushes + 1
     /\ star'[s].pending_lamports = star[s].pending_lamports + p.amount
     /\ OnlyLine(s)

\* resolve_push: the push at the cursor leaves with its whole stake.
HeadLeaves(k) ==
  LET p == pending_push[k]
      s == p.star_id
  IN /\ AtCursor(k)
     /\ pending_push'[k].status \in Resolved
     /\ pending_push'[k].star_id = s
     /\ pending_push'[k].push_id = p.push_id
     /\ pending_push'[k].amount = p.amount
     /\ OnlyPush(k)
     /\ pending_liability' = pending_liability - p.amount
     /\ star'[s].push_counter = star[s].push_counter
     /\ star'[s].settle_cursor = star[s].settle_cursor + 1
     /\ star'[s].pending_pushes = star[s].pending_pushes - 1
     /\ star'[s].pending_lamports = star[s].pending_lamports - p.amount
     /\ OnlyLine(s)

\* feed: an id passes by an empty line.
IdPasses(s) ==
  /\ UNCHANGED <<pending_push, pending_liability>>
  /\ star[s].total_mass < FEED_MASS /\ star[s].pending_lamports = 0
  /\ star'[s].push_counter = star[s].push_counter + 1
  /\ star'[s].settle_cursor = star[s].settle_cursor + 1
  /\ star'[s].pending_pushes = star[s].pending_pushes
  /\ star'[s].pending_lamports = star[s].pending_lamports
  /\ OnlyLine(s)

\* close_push: the account of a push that left is swept.
AccountSwept(k) ==
  /\ pending_push[k].status \in Resolved
  /\ pending_push'[k] = NoPush
  /\ OnlyPush(k)
  /\ UNCHANGED pending_liability
  /\ \A s \in StarIds : SameLine(star'[s], star[s])

\* Everything else.
LinesStay ==
  /\ UNCHANGED <<pending_push, pending_liability>>
  /\ \A s \in StarIds : SameLine(star'[s], star[s])

\* What a refund or a settle does to a star's numbers.
LEMMA LeaverFields ==
  ASSUME NEW st \in StarRecord, NEW amount
  PROVE  /\ Refunded(st, amount).push_counter = st.push_counter
         /\ Refunded(st, amount).settle_cursor = st.settle_cursor + 1
         /\ Refunded(st, amount).pending_pushes = st.pending_pushes - 1
         /\ Refunded(st, amount).pending_lamports = st.pending_lamports - amount
         /\ Refunded(st, amount).total_mass = st.total_mass
         /\ Refunded(st, amount).status = st.status
         /\ Refunded(st, amount).prize_pool = st.prize_pool
         /\ Refunded(st, amount).final_prize = st.final_prize
         /\ Refunded(st, amount).prize_claimed = st.prize_claimed
         /\ Refunded(st, amount).killer = st.killer
  BY DEF Refunded, StarRecord

\* The same of the settle path.
LEMMA LandedFields ==
  ASSUME NEW st \in StarRecord, NEW amount
  PROVE  LET new == Landed(st, amount, amount)
         IN /\ new.push_counter = st.push_counter
            /\ new.settle_cursor = st.settle_cursor + 1
            /\ new.pending_pushes = st.pending_pushes - 1
            /\ new.pending_lamports = st.pending_lamports - amount
            /\ new.total_mass = st.total_mass + amount
            /\ new.status = st.status
            /\ new.prize_pool = st.prize_pool + PrizeCut(amount)
            /\ new.final_prize = st.final_prize
            /\ new.prize_claimed = st.prize_claimed
  BY DEF Landed, StarRecord

\* What ending a star does to the rest of it.
LEMMA EndedFields ==
  ASSUME NEW st \in StarRecord, NEW status, NEW prize, NEW player, NEW early
  PROVE  /\ \A new \in {Finish(st, status, prize), Kill(st, player),
                        CollapseIntoHole(st, early)} :
              /\ SameLine(new, st)
              /\ new.total_mass = st.total_mass
              /\ new.prize_pool = st.prize_pool
              /\ new.prize_claimed = st.prize_claimed
         /\ Finish(st, status, prize).status = status
         /\ Finish(st, status, prize).final_prize = prize
         /\ Kill(st, player).status = "Dead"
         /\ Kill(st, player).killer = player
         /\ Kill(st, player).final_prize = st.prize_pool
         /\ CollapseIntoHole(st, early).status = "BlackHole"
         /\ CollapseIntoHole(st, early).final_prize
              = st.prize_pool - Recycled(st, early)
<1> DEFINE fin == Finish(st, status, prize)
           kil == Kill(st, player)
           col == CollapseIntoHole(st, early)
<1>1. /\ SameLine(fin, st)
      /\ fin.total_mass = st.total_mass
      /\ fin.prize_pool = st.prize_pool
      /\ fin.prize_claimed = st.prize_claimed
      /\ fin.status = status
      /\ fin.final_prize = prize
  BY DEF Finish, SameLine, StarRecord
<1>2. /\ SameLine(kil, st)
      /\ kil.total_mass = st.total_mass
      /\ kil.prize_pool = st.prize_pool
      /\ kil.prize_claimed = st.prize_claimed
      /\ kil.status = "Dead"
      /\ kil.killer = player
      /\ kil.final_prize = st.prize_pool
  BY DEF Kill, Finish, SameLine, StarRecord
<1>3. /\ SameLine(col, st)
      /\ col.total_mass = st.total_mass
      /\ col.prize_pool = st.prize_pool
      /\ col.prize_claimed = st.prize_claimed
      /\ col.status = "BlackHole"
      /\ col.final_prize = st.prize_pool - Recycled(st, early)
  BY DEF CollapseIntoHole, Finish, SameLine, StarRecord
<1> HIDE DEF fin, kil, col
<1>4. \A new \in {fin, kil, col} :
        /\ SameLine(new, st)
        /\ new.total_mass = st.total_mass
        /\ new.prize_pool = st.prize_pool
        /\ new.prize_claimed = st.prize_claimed
  BY <1>1, <1>2, <1>3
<1> QED
  BY <1>1, <1>2, <1>3, <1>4 DEF fin, kil, col

\* A star below the nursery cap has nothing in line, so a stake that lands lands
\* past the nursery.
LEMMA NurseryEmpty ==
  ASSUME NEW st \in StarRecord, StarInv(st), NEW amount \in Nat \ {0},
         amount <= st.pending_lamports
  PROVE  st.total_mass >= FEED_MASS
  BY MathAssumption DEF StarInv, Fits, StarRecord

\* What resolve_push's settle path does: the head leaves with all of its stake,
\* nothing is fed, and the star is dead, a hole, or goes on.
LEMMA SettleMoves ==
  ASSUME TypeOK, LineInv, NEW k \in PushKeys, NEW rolls \in BOOLEAN,
         SettlePush(k, rolls), pending_push[k].amount > 0
  PROVE  LET p == pending_push[k]
             s == p.star_id
             old == star[s]
             new == star'[s]
             early == star_feed[s].early_volume
             recycled == IF new.status = "BlackHole" THEN Recycled(new, early)
                                                     ELSE 0
         IN /\ s \in StarIds /\ p.amount \in Nat
            /\ HeadLeaves(k)
            /\ UNCHANGED feeds
            /\ \A t \in StarIds : t # s => star'[t] = star[t]
            /\ ~IsFinished(old)
            /\ old.total_mass >= FEED_MASS
            /\ new.total_mass = old.total_mass + p.amount
            /\ new.prize_pool = old.prize_pool + PrizeCut(p.amount)
            /\ new.prize_claimed = old.prize_claimed
            /\ prize_liability' = prize_liability + PrizeCut(p.amount) - recycled
            /\ \/ /\ new.status = "Dead" /\ new.killer = k[1]
                  /\ new.final_prize = new.prize_pool
                  /\ pending_push'[k].status = "Killed"
               \/ /\ new.status = "BlackHole"
                  /\ new.final_prize = new.prize_pool - recycled
                  /\ pending_push'[k].status = "Survived"
               \/ /\ new.status = old.status
                  /\ new.final_prize = old.final_prize
                  /\ new.total_mass < HOLE_MASS
                  /\ ~Stranded(s, new)
                  /\ pending_push'[k].status = "Survived"
<1> DEFINE p == pending_push[k]
           s == p.star_id
           st == star[s]
           nursery == st.total_mass < FEED_MASS
           accepted == AcceptedSettleAmount(p.amount, st.total_mass)
           landed == Landed(st, p.amount, accepted)
           early == star_feed[s].early_volume + IF nursery THEN accepted ELSE 0
           lethal == rolls /\ ~nursery
           hole == ~lethal /\ (landed.total_mass >= HOLE_MASS
                                 \/ Stranded(s, landed))
           after == IF lethal THEN Kill(landed, k[1])
                    ELSE IF hole THEN CollapseIntoHole(landed, early)
                    ELSE landed
           outcome == IF lethal THEN "Killed" ELSE "Survived"
           push == [p EXCEPT !.status = outcome, !.amount = accepted]
           recycled == IF hole THEN Recycled(landed, early) ELSE 0
<1>1. /\ AtCursor(k) /\ ~Refundable(k) /\ p.status = "Pending"
      /\ st.pending_pushes >= 1
      /\ p.amount <= st.pending_lamports
  BY DEF SettlePush, AtCursor
<1>2. s \in StarIds /\ p.amount \in Nat
  BY <1>1, PushType
<1>3. st \in StarRecord /\ StarInv(st) /\ OnStep(p.amount)
  BY <1>2 DEF TypeOK, LineInv
<1>4. st.total_mass >= FEED_MASS
  BY <1>1, <1>2, <1>3, NurseryEmpty
<1>5. ~nursery
  BY <1>3, <1>4, MathAssumption DEF StarRecord
<1>6. accepted = p.amount
  BY <1>1, <1>2, <1>3, WholeStakeLands
<1>7. star_feed[s].early_volume \in Nat /\ early = star_feed[s].early_volume
  BY <1>2, <1>5 DEF TypeOK
<1>8. /\ star' = [star EXCEPT ![s] = after]
      /\ pending_push' = [pending_push EXCEPT ![k] = push]
      /\ pending_liability' = pending_liability - p.amount
      /\ prize_liability' = prize_liability + PrizeCut(accepted) - recycled
  BY DEF SettlePush
<1>9. UNCHANGED feeds
  <2>1. /\ star_feed' = [star_feed EXCEPT ![s].early_volume = early]
        /\ feed_share' = [feed_share EXCEPT ![s][k[1]].amount =
              @ + IF nursery THEN accepted ELSE 0]
    BY DEF SettlePush
  <2>2. star_feed' = star_feed
    BY <1>2, <1>7, <2>1 DEF TypeOK
  <2>3. feed_share' = [feed_share EXCEPT ![s][k[1]].amount = @ + 0]
    BY <1>5, <2>1
  <2>4. k[1] \in Players
    BY <1>1, PushType
  <2>5. feed_share[s][k[1]].amount + 0 = feed_share[s][k[1]].amount
    BY <1>2, <2>4 DEF TypeOK
  <2> DEFINE shares == feed_share[s]
             sum == [shares[k[1]] EXCEPT !.amount = shares[k[1]].amount + 0]
  <2>6. /\ feed_share' = [feed_share EXCEPT ![s] = [shares EXCEPT ![k[1]] = sum]]
        /\ feed_share = [feed_share EXCEPT ![s] = shares]
    BY <2>3, <1>2 DEF TypeOK
  <2>7. shares = [shares EXCEPT ![k[1]] = shares[k[1]]]
    BY <1>2, <2>4 DEF TypeOK
  <2>8. sum = shares[k[1]]
    BY <1>2, <2>4, <2>5 DEF TypeOK
  <2> HIDE DEF shares, sum
  <2> QED
    BY <2>2, <2>6, <2>7, <2>8 DEF feeds
<1> HIDE DEF accepted
<1> USE <1>6
<1>10. /\ push.status = outcome /\ push.star_id = s /\ push.push_id = p.push_id
       /\ push.amount = p.amount
  BY <1>1 DEF TypeOK, PushRecord, NoPush
<1>11. pending_push'[k] = push /\ OnlyPush(k)
  BY <1>8 DEF TypeOK, OnlyPush
<1>12. star'[s] = after /\ \A t \in StarIds : t # s => star'[t] = star[t]
  BY <1>2, <1>8 DEF TypeOK
<1>13. landed \in StarRecord
  BY <1>1, <1>2, <1>3, LandedType
<1>14. /\ landed.push_counter = st.push_counter
       /\ landed.settle_cursor = st.settle_cursor + 1
       /\ landed.pending_pushes = st.pending_pushes - 1
       /\ landed.pending_lamports = st.pending_lamports - p.amount
       /\ landed.total_mass = st.total_mass + p.amount
       /\ landed.status = st.status
       /\ landed.prize_pool = st.prize_pool + PrizeCut(p.amount)
       /\ landed.final_prize = st.final_prize
       /\ landed.prize_claimed = st.prize_claimed
  BY <1>3, LandedFields
<1> HIDE DEF landed, push, p, early, nursery
<1>15. /\ SameLine(after, landed)
       /\ after.total_mass = landed.total_mass
       /\ after.prize_pool = landed.prize_pool
       /\ after.prize_claimed = landed.prize_claimed
  BY <1>13, EndedFields DEF SameLine
<1>16. HeadLeaves(k)
  BY <1>1, <1>8, <1>10, <1>11, <1>12, <1>14, <1>15
     DEF HeadLeaves, OnlyLine, SameLine, Resolved, p
<1>17. ~IsFinished(st)
  BY <1>1 DEF Refundable, p
<1>18. /\ after.total_mass = st.total_mass + p.amount
       /\ after.prize_pool = st.prize_pool + PrizeCut(p.amount)
       /\ after.prize_claimed = st.prize_claimed
  BY <1>14, <1>15
<1>19. Recycled(after, early) = Recycled(landed, early)
  BY <1>15 DEF Recycled
<1>20. CASE lethal
  <2>1. after.status = "Dead" /\ after.killer = k[1]
        /\ after.final_prize = after.prize_pool
    BY <1>13, <1>15, <1>20, EndedFields
  <2>2. pending_push'[k].status = "Killed" /\ recycled = 0
    BY <1>10, <1>11, <1>20
  <2> QED
    BY <1>2, <1>4, <1>8, <1>9, <1>12, <1>16, <1>17, <1>18, <2>1, <2>2 DEF p
<1>21. CASE hole
  <2>1. after.status = "BlackHole"
        /\ after.final_prize = landed.prize_pool - Recycled(landed, early)
    BY <1>13, <1>21, EndedFields
  <2>2. /\ pending_push'[k].status = "Survived"
        /\ recycled = Recycled(after, early)
    BY <1>10, <1>11, <1>19, <1>21
  <2>3. recycled = Recycled(after, star_feed[s].early_volume)
    BY <1>7, <2>2
  <2>4. after.final_prize = after.prize_pool - recycled
    BY <1>15, <1>19, <2>1, <2>2
  <2> QED
    BY <1>2, <1>4, <1>8, <1>9, <1>12, <1>16, <1>17, <1>18,
       <2>1, <2>2, <2>3, <2>4 DEF p
<1>22. CASE ~lethal /\ ~hole
  <2>1. after = landed
    BY <1>22
  <2>2. pending_push'[k].status = "Survived" /\ recycled = 0
    BY <1>10, <1>11, <1>22
  <2>3. after.status # "BlackHole"
    BY <1>14, <1>17, <2>1 DEF IsFinished
  <2>4. landed.total_mass < HOLE_MASS /\ ~Stranded(s, landed)
    BY <1>13, <1>22, MathAssumption DEF StarRecord
  <2> QED
    BY <1>2, <1>4, <1>8, <1>9, <1>12, <1>14, <1>16, <1>17, <1>18,
       <2>1, <2>2, <2>3, <2>4 DEF p
<1> QED
  BY <1>20, <1>21, <1>22

\* What resolve_push's refund path does: the head leaves with all of its stake,
\* and the star stays as it was, unless that strands it.
LEMMA RefundMoves ==
  ASSUME TypeOK, LineInv, NEW k \in PushKeys, RefundPush(k)
  PROVE  LET p == pending_push[k]
             s == p.star_id
             old == star[s]
             new == star'[s]
             early == star_feed[s].early_volume
             ends == IsAlive(old) /\ ~IsAlive(new)
             recycled == IF ends THEN Recycled(old, early) ELSE 0
         IN /\ s \in StarIds /\ p.amount \in Nat
            /\ HeadLeaves(k)
            /\ UNCHANGED feeds
            /\ \A t \in StarIds : t # s => star'[t] = star[t]
            /\ pending_push'[k].status = "Cancelled"
            /\ new.total_mass = old.total_mass
            /\ new.prize_pool = old.prize_pool
            /\ new.prize_claimed = old.prize_claimed
            /\ prize_liability' = prize_liability - recycled
            /\ \/ /\ ends
                  /\ new.status = "BlackHole"
                  /\ new.pending_pushes = 0
                  /\ new.final_prize = old.prize_pool - recycled
               \/ /\ new.status = old.status
                  /\ new.final_prize = old.final_prize
                  /\ new.killer = old.killer
                  /\ ~Stranded(s, new)
<1> DEFINE p == pending_push[k]
           s == p.star_id
           st == star[s]
           rest == Refunded(st, p.amount)
           early == star_feed[s].early_volume
           deadEnd == Stranded(s, rest)
           after == IF deadEnd THEN CollapseIntoHole(rest, early) ELSE rest
           push == [p EXCEPT !.status = "Cancelled"]
           recycled == IF deadEnd THEN Recycled(rest, early) ELSE 0
<1>1. /\ AtCursor(k) /\ p.status = "Pending"
      /\ st.pending_pushes >= 1
      /\ p.amount <= st.pending_lamports
  BY DEF RefundPush, AtCursor
<1>2. s \in StarIds /\ p.amount \in Nat
  BY <1>1, PushType
<1>3. st \in StarRecord
  BY <1>2 DEF TypeOK
<1>4. /\ star' = [star EXCEPT ![s] = after]
      /\ pending_push' = [pending_push EXCEPT ![k] = push]
      /\ pending_liability' = pending_liability - p.amount
      /\ prize_liability' = prize_liability - recycled
      /\ UNCHANGED feeds
  BY DEF RefundPush
<1>5. /\ push.status = "Cancelled" /\ push.star_id = s
      /\ push.push_id = p.push_id /\ push.amount = p.amount
  BY <1>1 DEF TypeOK, PushRecord, NoPush
<1>6. pending_push'[k] = push /\ OnlyPush(k)
  BY <1>4 DEF TypeOK, OnlyPush
<1>7. star'[s] = after /\ \A t \in StarIds : t # s => star'[t] = star[t]
  BY <1>2, <1>4 DEF TypeOK
<1>8. rest \in StarRecord
  BY <1>1, <1>2, <1>3, RefundedType
<1>9. /\ rest.push_counter = st.push_counter
      /\ rest.settle_cursor = st.settle_cursor + 1
      /\ rest.pending_pushes = st.pending_pushes - 1
      /\ rest.pending_lamports = st.pending_lamports - p.amount
      /\ rest.total_mass = st.total_mass
      /\ rest.status = st.status
      /\ rest.prize_pool = st.prize_pool
      /\ rest.final_prize = st.final_prize
      /\ rest.prize_claimed = st.prize_claimed
      /\ rest.killer = st.killer
  BY <1>3, LeaverFields
<1> HIDE DEF rest, push, p, early
<1>10. /\ SameLine(after, rest)
       /\ after.total_mass = rest.total_mass
       /\ after.prize_pool = rest.prize_pool
       /\ after.prize_claimed = rest.prize_claimed
  BY <1>8, EndedFields DEF SameLine
<1>11. HeadLeaves(k)
  BY <1>1, <1>4, <1>5, <1>6, <1>7, <1>9, <1>10
     DEF HeadLeaves, OnlyLine, SameLine, Resolved, p
<1>12. Recycled(rest, early) = Recycled(st, early)
  BY <1>9 DEF Recycled
<1>13. CASE deadEnd
  <2>1. IsAlive(st) /\ rest.pending_pushes = 0
    BY <1>9, <1>13 DEF Stranded, IsAlive
  <2>2. /\ after.status = "BlackHole"
        /\ after.final_prize = rest.prize_pool - Recycled(rest, early)
        /\ after.pending_pushes = 0
    BY <1>8, <1>10, <1>13, <2>1, EndedFields DEF SameLine
  <2>3. ~IsAlive(after)
    BY <2>2 DEF IsAlive
  <2>4. recycled = Recycled(st, early)
    BY <1>12, <1>13
  <2> QED
    BY <1>2, <1>4, <1>5, <1>6, <1>7, <1>9, <1>10, <1>11, <1>12,
       <2>1, <2>2, <2>3, <2>4 DEF p, early
<1>14. CASE ~deadEnd
  <2>1. after = rest /\ recycled = 0
    BY <1>14
  <2>2. ~(IsAlive(st) /\ ~IsAlive(after))
    BY <1>9, <2>1 DEF IsAlive
  <2> QED
    BY <1>2, <1>4, <1>5, <1>6, <1>7, <1>9, <1>11, <1>14, <2>1, <2>2
       DEF p, early
<1> QED
  BY <1>13, <1>14

\* What request_push does: a stake that is worth something joins the line of a
\* live star, and the star is as it was otherwise.
LEMMA RequestMoves ==
  ASSUME TypeOK, LineInv,
         NEW s \in StarIds, NEW k \in PushKeys, NEW a \in PushAmounts,
         RequestPush(s, k, a)
  PROVE  /\ StakeJoins(s, k)
         /\ IsAlive(star[s]) /\ IsAlive(star'[s])
         /\ star[s].total_mass >= FEED_MASS
         /\ \A t \in StarIds : t # s => star'[t] = star[t]
         /\ star'[s].total_mass = star[s].total_mass
         /\ star'[s].prize_pool = star[s].prize_pool
         /\ star'[s].final_prize = star[s].final_prize
         /\ star'[s].prize_claimed = star[s].prize_claimed
<1> DEFINE st == star[s]
           room == QueueRoom(st)
           amount == AcceptPushAmount(a, room)
           push == [status |-> "Pending", star_id |-> s,
                    push_id |-> st.push_counter,
                    round_id |-> st.current_round, amount |-> amount]
           new == Joined(st, amount)
<1>1. /\ st \in StarRecord /\ StarInv(st)
      /\ st.total_mass \in Nat /\ st.pending_lamports \in Nat
  BY DEF TypeOK, LineInv, StarRecord
<1>2. /\ st.total_mass >= FEED_MASS /\ CommittedMass(st) < HOLE_MASS
      /\ LegalPush(a) /\ a \in Nat
  BY SoldustAssumption DEF RequestPush
<1>3. FEED_MASS \in Nat /\ HOLE_MASS \in Nat
  BY MathAssumption
<1>4. room \in Nat /\ OnStep(room) /\ room > 0
  <2>1. CommittedMass(st) \in Nat /\ OnStep(CommittedMass(st))
    BY <1>1, OnStepSum DEF StarInv, Fits, CommittedMass
  <2>2. CommittedMass(st) >= FEED_MASS
    BY <1>1, <1>2, <1>3 DEF CommittedMass
  <2>3. room = HOLE_MASS - CommittedMass(st)
    BY <1>2, <1>3, <2>1, <2>2, RoomFacts DEF QueueRoom
  <2>4. room \in Nat /\ OnStep(room)
    BY <1>2, <1>3, <2>1, RoomFacts DEF QueueRoom
  <2> QED
    BY <1>2, <1>3, <2>1, <2>3, <2>4
<1>5. amount \in Nat \ {0}
  BY <1>2, <1>4, AcceptPositive
<1>6. /\ star' = [star EXCEPT ![s] = new]
      /\ pending_push' = [pending_push EXCEPT ![k] = push]
      /\ pending_liability' = pending_liability + amount
      /\ pending_push[k].status = "Absent"
      /\ IsAlive(st)
  BY DEF RequestPush
<1> HIDE DEF amount
<1>7. /\ new.push_counter = st.push_counter + 1
      /\ new.settle_cursor = st.settle_cursor
      /\ new.pending_pushes = st.pending_pushes + 1
      /\ new.pending_lamports = st.pending_lamports + amount
      /\ new.total_mass = st.total_mass
      /\ new.prize_pool = st.prize_pool
      /\ new.final_prize = st.final_prize
      /\ new.prize_claimed = st.prize_claimed
      /\ new.status = st.status
  BY <1>1 DEF Joined, StarRecord
<1> HIDE DEF new
<1>8. star'[s] = new /\ \A t \in StarIds : t # s => star'[t] = star[t]
  BY <1>6 DEF TypeOK
<1>9. pending_push'[k] = push /\ OnlyPush(k)
  BY <1>6 DEF TypeOK, OnlyPush
<1>10. StakeJoins(s, k)
  BY <1>5, <1>6, <1>7, <1>8, <1>9 DEF StakeJoins, OnlyLine, SameLine
<1> QED
  BY <1>2, <1>6, <1>7, <1>8, <1>10 DEF IsAlive

\* What feed does: an id passes by the empty line of a live star in its nursery,
\* and the amount is credited to the star, the pot and the feeder.
LEMMA FeedMoves ==
  ASSUME TypeOK, LineInv,
         NEW s \in StarIds, NEW p \in Players, NEW a \in PushAmounts,
         Feed(s, p, a)
  PROVE  \E amount \in Nat \ {0} :
           /\ OnStep(amount)
           /\ IdPasses(s)
           /\ IsAlive(star[s]) /\ IsAlive(star'[s])
           /\ \A t \in StarIds : t # s => star'[t] = star[t]
           /\ star[s].total_mass < FEED_MASS
           /\ star'[s].total_mass = star[s].total_mass + amount
           /\ star'[s].total_mass <= FEED_MASS
           /\ star'[s].prize_pool = star[s].prize_pool + PrizeCut(amount)
           /\ star'[s].final_prize = star[s].final_prize
           /\ star'[s].prize_claimed = star[s].prize_claimed
           /\ prize_liability' = prize_liability + PrizeCut(amount)
           /\ feed_share' = [feed_share EXCEPT ![s][p].amount = @ + amount]
           /\ star_feed'[s].early_volume = star_feed[s].early_volume + amount
           /\ \A t \in StarIds : t # s => star_feed'[t] = star_feed[t]
<1> DEFINE st == star[s]
           room == RoomAt(st.total_mass)
           amount == AcceptPushAmount(a, room)
           new == Fed(st, amount)
<1>1. /\ st \in StarRecord /\ StarInv(st)
      /\ st.total_mass \in Nat /\ st.pending_lamports \in Nat
  BY DEF TypeOK, LineInv, StarRecord
<1>2. /\ st.total_mass < FEED_MASS /\ LegalPush(a) /\ room > 0
      /\ a \in Nat
  BY SoldustAssumption DEF Feed
<1>3. FEED_MASS \in Nat /\ HOLE_MASS \in Nat /\ FEED_MASS < HOLE_MASS
  BY MathAssumption
<1>4. /\ room \in Nat /\ OnStep(room)
      /\ room = FEED_MASS - st.total_mass
  <2>1. OnStep(st.total_mass) /\ st.total_mass <= HOLE_MASS
    BY <1>1, <1>2, <1>3 DEF StarInv, Fits
  <2> QED
    BY <1>1, <1>2, <2>1, RoomFacts
<1>5. st.pending_lamports = 0
  BY <1>1, <1>2, <1>3 DEF StarInv, Fits
<1>6. /\ star' = [star EXCEPT ![s] = new]
      /\ UNCHANGED <<pending_push, pending_liability>>
      /\ IsAlive(st)
      /\ prize_liability' = prize_liability + PrizeCut(amount)
      /\ feed_share' = [feed_share EXCEPT ![s][p].amount = @ + amount]
  BY DEF Feed
<1>7. star_feed' = [star_feed EXCEPT ![s] =
        [exists |-> TRUE, early_volume |-> star_feed[s].early_volume + amount]]
  BY DEF Feed, TypeOK
<1> HIDE DEF room
<1>8. amount \in Nat \ {0} /\ OnStep(amount) /\ amount <= room
  BY <1>2, <1>4, AcceptFacts, AcceptPositive
<1> HIDE DEF amount
<1>9. /\ new.push_counter = st.push_counter + 1
      /\ new.settle_cursor = st.settle_cursor + 1
      /\ new.pending_pushes = st.pending_pushes
      /\ new.pending_lamports = st.pending_lamports
      /\ new.total_mass = st.total_mass + amount
      /\ new.prize_pool = st.prize_pool + PrizeCut(amount)
      /\ new.final_prize = st.final_prize
      /\ new.prize_claimed = st.prize_claimed
      /\ new.status = st.status
  BY <1>1 DEF Fed, StarRecord
<1> HIDE DEF new
<1>10. star'[s] = new /\ \A t \in StarIds : t # s => star'[t] = star[t]
  BY <1>6 DEF TypeOK
<1>11. /\ star_feed'[s].early_volume = star_feed[s].early_volume + amount
       /\ \A t \in StarIds : t # s => star_feed'[t] = star_feed[t]
  BY <1>7 DEF TypeOK
<1>12. IdPasses(s)
  BY <1>2, <1>5, <1>6, <1>9, <1>10 DEF IdPasses, OnlyLine, SameLine
<1>13. new.total_mass <= FEED_MASS
  BY <1>1, <1>2, <1>3, <1>4, <1>8, <1>9
<1>14. IsAlive(new)
  BY <1>6, <1>9 DEF IsAlive
<1> QED
  BY <1>2, <1>6, <1>8, <1>9, <1>10, <1>11, <1>12, <1>13, <1>14

-----------------------------------------------------------------------------
(* Sums over the line                                                      *)

\* Every set of pushes, stars or players is finite, and every stake a number.
LEMMA FiniteKeys ==
  /\ IsFiniteSet(PushKeys) /\ IsFiniteSet(StarIds) /\ IsFiniteSet(Players)
  /\ \A S \in SUBSET PushKeys : IsFiniteSet(S)
  /\ TypeOK => \A k \in PushKeys : Escrowed[k] \in Nat
  /\ TypeOK' => \A k \in PushKeys : Escrowed'[k] \in Nat
<1>1. IsFiniteSet(PushKeys)
  BY FiniteAssumption, FS_Product DEF PushKeys
<1>2. IsFiniteSet(StarIds)
  BY SoldustAssumption, FS_Interval DEF StarIds
<1>3. \A S \in SUBSET PushKeys : IsFiniteSet(S)
  BY <1>1, FS_Subset
<1>4. \A p \in PushRecord : p.amount \in Nat
  BY DEF PushRecord, NoPush
<1>5. TypeOK => \A k \in PushKeys : Escrowed[k] \in Nat
  BY <1>4 DEF TypeOK, Escrowed
<1>6. TypeOK' => \A k \in PushKeys : Escrowed'[k] \in Nat
  BY <1>4 DEF TypeOK, Escrowed
<1> QED
  BY <1>1, <1>2, <1>3, <1>5, <1>6, FiniteAssumption

\* A set of pushes a step leaves alone is worth what it was.
LEMMA StakesKept ==
  ASSUME NEW S \in SUBSET PushKeys,
         \A j \in S : pending_push'[j].amount = pending_push[j].amount
  PROVE  Total(Escrowed', S) = Total(Escrowed, S)
<1>1. \A j \in S : Escrowed'[j] = Escrowed[j]
  BY DEF Escrowed
<1> QED
  BY <1>1, FiniteKeys, TotalCongruent

\* A set of pushes one more joins is worth that much more.
LEMMA StakeAdded ==
  ASSUME TypeOK, TypeOK', NEW S \in SUBSET PushKeys, NEW k \in PushKeys,
         k \notin S, OnlyPush(k)
  PROVE  /\ Total(Escrowed', S \cup {k})
              = Total(Escrowed, S) + pending_push'[k].amount
         /\ Cardinality(S \cup {k}) = Cardinality(S) + 1
<1>1. Total(Escrowed', S) = Total(Escrowed, S)
  BY StakesKept DEF OnlyPush
<1>2. Total(Escrowed', S \cup {k}) = Total(Escrowed', S) + Escrowed'[k]
  BY FiniteKeys, TotalGrows
<1>3. Escrowed'[k] = pending_push'[k].amount
  BY DEF Escrowed
<1> QED
  BY <1>1, <1>2, <1>3, FiniteKeys, FS_AddElement

\* A set of pushes one leaves is worth that much less.
LEMMA StakeTaken ==
  ASSUME TypeOK, TypeOK', NEW S \in SUBSET PushKeys, NEW k \in S, OnlyPush(k)
  PROVE  /\ Total(Escrowed', S \ {k})
              = Total(Escrowed, S) - pending_push[k].amount
         /\ Cardinality(S \ {k}) = Cardinality(S) - 1
<1>1. Total(Escrowed', S \ {k}) = Total(Escrowed, S \ {k})
  BY StakesKept DEF OnlyPush
<1>2. Total(Escrowed, S) = Escrowed[k] + Total(Escrowed, S \ {k})
  BY FiniteKeys, TotalSplits
<1>3. Escrowed[k] = pending_push[k].amount
  BY DEF Escrowed
<1>4. Total(Escrowed, S \ {k}) \in Int /\ pending_push[k].amount \in Int
  <2>1. /\ IsFiniteSet(S \ {k}) /\ Escrowed[k] \in Int
        /\ \A j \in S \ {k} : Escrowed[j] \in Int
    BY FiniteKeys
  <2> QED
    BY <1>3, <2>1, TotalInt
<1>5. Total(Escrowed', S \ {k})
        = Total(Escrowed, S) - pending_push[k].amount
  BY <1>1, <1>2, <1>3, <1>4
<1>6. Cardinality(S \ {k}) = Cardinality(S) - 1
  BY FiniteKeys, FS_RemoveElement
<1> QED
  BY <1>5, <1>6

-----------------------------------------------------------------------------
(* Places in line                                                          *)

\* A push in line is worth something and has an id the cursor has not reached.
InPlace(k) ==
  LET p == pending_push[k]
  IN p.status = "Pending" =>
       /\ p.amount > 0
       /\ star[p.star_id].settle_cursor <= p.push_id
       /\ p.push_id < star[p.star_id].push_counter

\* The cursor is past a push that left the line.
BehindCursor(k) ==
  LET p == pending_push[k]
  IN p.status \in Resolved => p.push_id < star[p.star_id].settle_cursor

\* No two pushes of a star have the same id.
OnePlaceEach ==
  \A j, k \in InLine :
    /\ pending_push[j].star_id = pending_push[k].star_id
    /\ pending_push[j].push_id = pending_push[k].push_id
    => j = k

\* Every id from the cursor on is some push's.
NoGap(s) ==
  \A id \in star[s].settle_cursor .. star[s].push_counter - 1 :
    \E k \in PendingOn(s) : pending_push[k].push_id = id

PlaceInv ==
  /\ \A k \in PushKeys : InPlace(k) /\ BehindCursor(k)
  /\ OnePlaceEach
  /\ \A s \in StarIds : NoGap(s)

\* A stake that joins is new to the line, and to its star's part of it.
LEMMA JoinSets ==
  ASSUME NEW s \in StarIds, NEW k \in PushKeys, StakeJoins(s, k)
  PROVE  /\ k \notin InLine /\ InLine' = InLine \cup {k}
         /\ k \notin PendingOn(s) /\ PendingOn(s)' = PendingOn(s) \cup {k}
         /\ \A t \in StarIds : t # s =>
              PendingOn(t)' = PendingOn(t) /\ k \notin PendingOn(t)'
  BY DEF StakeJoins, OnlyPush, InLine, PendingOn

\* The head leaves the line, and its star's part of it.
LEMMA LeaveSets ==
  ASSUME NEW k \in PushKeys, HeadLeaves(k),
         NEW s \in StarIds, pending_push[k].star_id = s
  PROVE  /\ k \in InLine /\ InLine' = InLine \ {k}
         /\ k \in PendingOn(s) /\ PendingOn(s)' = PendingOn(s) \ {k}
         /\ \A t \in StarIds : t # s =>
              PendingOn(t)' = PendingOn(t) /\ k \notin PendingOn(t)
  BY DEF HeadLeaves, AtCursor, OnlyPush, InLine, PendingOn, Resolved

\* A swept account was in nobody's line.
LEMMA SweptSets ==
  ASSUME NEW k \in PushKeys, AccountSwept(k)
  PROVE  /\ InLine' = InLine /\ k \notin InLine
         /\ \A t \in StarIds : PendingOn(t)' = PendingOn(t)
  BY DEF AccountSwept, OnlyPush, InLine, PendingOn, Resolved, NoPush

-----------------------------------------------------------------------------
(* The escrow                                                              *)

\* A star's two counters of its line.
StarEscrow(s) ==
  /\ star[s].pending_lamports = Total(Escrowed, PendingOn(s))
  /\ star[s].pending_pushes = Cardinality(PendingOn(s))

\* A line no move touches is worth what it was.
LEMMA StarEscrowKept ==
  ASSUME NEW s \in StarIds, StarEscrow(s), SameLine(star'[s], star[s]),
         PendingOn(s)' = PendingOn(s),
         \A j \in PendingOn(s) : pending_push'[j].amount = pending_push[j].amount
  PROVE  StarEscrow(s)'
<1>1. PendingOn(s) \in SUBSET PushKeys
  BY DEF PendingOn, InLine
<1>2. Total(Escrowed', PendingOn(s)) = Total(Escrowed, PendingOn(s))
  BY <1>1, StakesKept
<1> QED
  BY <1>2 DEF StarEscrow, SameLine

\* A stake that joins is counted in all three.
LEMMA EscrowJoins ==
  ASSUME TypeOK, TypeOK', EscrowBacked,
         NEW s \in StarIds, NEW k \in PushKeys, StakeJoins(s, k)
  PROVE  EscrowBacked'
<1>1. /\ InLine \in SUBSET PushKeys /\ PendingOn(s) \in SUBSET PushKeys
      /\ k \notin InLine /\ InLine' = InLine \cup {k}
      /\ k \notin PendingOn(s) /\ PendingOn(s)' = PendingOn(s) \cup {k}
  BY JoinSets DEF InLine, PendingOn
<1>2. OnlyPush(k)
  BY DEF StakeJoins
<1>3. pending_liability' = Total(Escrowed', InLine')
  BY <1>1, <1>2, StakeAdded DEF EscrowBacked, StakeJoins
<1>4. StarEscrow(s)'
  BY <1>1, <1>2, StakeAdded DEF EscrowBacked, StakeJoins, StarEscrow
<1>5. ASSUME NEW t \in StarIds, t # s PROVE StarEscrow(t)'
  <2>1. /\ PendingOn(t)' = PendingOn(t) /\ k \notin PendingOn(t)'
        /\ SameLine(star'[t], star[t])
    BY <1>5, JoinSets DEF StakeJoins, OnlyLine
  <2>2. \A j \in PendingOn(t) : pending_push'[j] = pending_push[j]
    BY <1>2, <2>1 DEF OnlyPush, PendingOn, InLine
  <2> QED
    BY <2>1, <2>2, StarEscrowKept DEF EscrowBacked, StarEscrow
<1> QED
  BY <1>3, <1>4, <1>5 DEF EscrowBacked, StarEscrow

\* The head leaves all three with its whole stake.
LEMMA EscrowLeaves ==
  ASSUME TypeOK, TypeOK', EscrowBacked, NEW k \in PushKeys, HeadLeaves(k)
  PROVE  EscrowBacked'
<1>0. PICK s \in StarIds : pending_push[k].star_id = s
  BY PushType DEF HeadLeaves, AtCursor
<1>1. /\ InLine \in SUBSET PushKeys /\ PendingOn(s) \in SUBSET PushKeys
      /\ k \in InLine /\ InLine' = InLine \ {k}
      /\ k \in PendingOn(s) /\ PendingOn(s)' = PendingOn(s) \ {k}
  BY <1>0, LeaveSets DEF InLine, PendingOn
<1>2. OnlyPush(k)
  BY DEF HeadLeaves
<1>3. pending_liability' = Total(Escrowed', InLine')
  BY <1>1, <1>2, StakeTaken DEF EscrowBacked, HeadLeaves
<1>4. StarEscrow(s)'
  BY <1>0, <1>1, <1>2, StakeTaken DEF EscrowBacked, HeadLeaves, StarEscrow
<1>5. ASSUME NEW t \in StarIds, t # s PROVE StarEscrow(t)'
  <2>1. /\ PendingOn(t)' = PendingOn(t) /\ k \notin PendingOn(t)
        /\ SameLine(star'[t], star[t])
    BY <1>0, <1>5, LeaveSets DEF HeadLeaves, OnlyLine
  <2>2. \A j \in PendingOn(t) : pending_push'[j] = pending_push[j]
    BY <1>2, <2>1 DEF OnlyPush, PendingOn, InLine
  <2> QED
    BY <2>1, <2>2, StarEscrowKept DEF EscrowBacked, StarEscrow
<1> QED
  BY <1>3, <1>4, <1>5 DEF EscrowBacked, StarEscrow

\* The other moves leave the escrow alone.
LEMMA EscrowStays ==
  ASSUME TypeOK, EscrowBacked,
         \/ LinesStay
         \/ \E k \in PushKeys : AccountSwept(k)
         \/ \E s \in StarIds : IdPasses(s)
  PROVE  EscrowBacked'
<1>1. InLine' = InLine /\ \A t \in StarIds : PendingOn(t)' = PendingOn(t)
  BY SweptSets DEF LinesStay, IdPasses, InLine, PendingOn
<1>2. /\ \A j \in InLine : pending_push'[j] = pending_push[j]
      /\ UNCHANGED pending_liability
  BY SweptSets DEF LinesStay, IdPasses, AccountSwept, OnlyPush, InLine
<1>3. \A t \in StarIds : /\ star'[t].pending_pushes = star[t].pending_pushes
                         /\ star'[t].pending_lamports = star[t].pending_lamports
  BY DEF LinesStay, IdPasses, AccountSwept, OnlyLine, SameLine
<1>4. /\ InLine \in SUBSET PushKeys
      /\ \A t \in StarIds : PendingOn(t) \in SUBSET InLine
  BY DEF InLine, PendingOn
<1>5. Total(Escrowed', InLine) = Total(Escrowed, InLine)
  BY <1>2, <1>4, StakesKept
<1>6. \A t \in StarIds :
        Total(Escrowed', PendingOn(t)) = Total(Escrowed, PendingOn(t))
  BY <1>2, <1>4, StakesKept
<1> QED
  BY <1>1, <1>2, <1>3, <1>5, <1>6 DEF EscrowBacked

\* The numbers of a line, and where a push that is or was in one points.
LEMMA LineNumbers ==
  ASSUME TypeOK, LineInv
  PROVE  /\ \A s \in StarIds :
              /\ star[s].settle_cursor \in Nat /\ star[s].push_counter \in Nat
              /\ star[s].pending_pushes \in Nat
              /\ star[s].pending_lamports \in Nat
              /\ star[s].settle_cursor + star[s].pending_pushes
                   = star[s].push_counter
         /\ \A k \in PushKeys :
              pending_push[k].status # "Absent" =>
                /\ pending_push[k].star_id \in StarIds
                /\ pending_push[k].push_id \in Nat
                /\ pending_push[k].amount \in Nat
         /\ \A k \in InLine : k \in PushKeys /\ pending_push[k].status = "Pending"
<1>1. \A s \in StarIds :
        /\ star[s].settle_cursor \in Nat /\ star[s].push_counter \in Nat
        /\ star[s].pending_pushes \in Nat /\ star[s].pending_lamports \in Nat
  BY DEF TypeOK, StarRecord
<1>2. \A s \in StarIds : star[s].settle_cursor + star[s].pending_pushes
                           = star[s].push_counter
  BY DEF LineInv, StarInv, Counts
<1> QED
  BY <1>1, <1>2, PushType DEF InLine

\* A stake that joins takes the place after the last.
LEMMA PlaceJoins ==
  ASSUME TypeOK, LineInv, PlaceInv,
         NEW s \in StarIds, NEW k \in PushKeys, StakeJoins(s, k)
  PROVE  PlaceInv'
<1>1. /\ InLine' = InLine \cup {k} /\ k \notin InLine
      /\ PendingOn(s)' = PendingOn(s) \cup {k}
      /\ \A t \in StarIds : t # s =>
           PendingOn(t)' = PendingOn(t) /\ k \notin PendingOn(t)'
  BY JoinSets
<1>2. /\ pending_push'[k].status = "Pending" /\ pending_push'[k].star_id = s
      /\ pending_push'[k].push_id = star[s].push_counter
      /\ pending_push'[k].amount \in Nat \ {0}
      /\ \A j \in PushKeys : j # k => pending_push'[j] = pending_push[j]
  BY DEF StakeJoins, OnlyPush
<1>3. \A t \in StarIds :
        /\ star'[t].settle_cursor = star[t].settle_cursor
        /\ star'[t].push_counter
             = IF t = s THEN star[t].push_counter + 1 ELSE star[t].push_counter
  BY DEF StakeJoins, OnlyLine, SameLine
<1>4. \A j \in PushKeys : InPlace(j)'
  <2> SUFFICES ASSUME NEW j \in PushKeys PROVE InPlace(j)'
    OBVIOUS
  <2>1. CASE j = k
    BY <1>2, <1>3, <2>1, LineNumbers DEF InPlace
  <2>2. CASE j # k
    BY <1>2, <1>3, <2>2, LineNumbers DEF InPlace, PlaceInv
  <2> QED
    BY <2>1, <2>2
<1>5. \A j \in PushKeys : BehindCursor(j)'
  <2> SUFFICES ASSUME NEW j \in PushKeys PROVE BehindCursor(j)'
    OBVIOUS
  <2>1. CASE j = k
    BY <1>2, <2>1 DEF BehindCursor, Resolved
  <2>2. CASE j # k
    BY <1>2, <1>3, <2>2, LineNumbers DEF BehindCursor, PlaceInv, Resolved
  <2> QED
    BY <2>1, <2>2
<1>6. OnePlaceEach'
  <2>1. \A j \in InLine : pending_push'[j] = pending_push[j]
    BY <1>1, <1>2, LineNumbers
  <2>2. \A j \in InLine : pending_push[j].star_id = s =>
          pending_push[j].push_id # star[s].push_counter
    BY LineNumbers DEF PlaceInv, InPlace
  <2> QED
    BY <1>1, <1>2, <2>1, <2>2 DEF OnePlaceEach, PlaceInv
<1>7. ASSUME NEW t \in StarIds PROVE NoGap(t)'
  <2> SUFFICES ASSUME NEW id \in star'[t].settle_cursor ..
                                  star'[t].push_counter - 1
               PROVE  \E j \in PendingOn(t)' : pending_push'[j].push_id = id
    BY DEF NoGap
  <2>1. CASE t = s /\ id = star[s].push_counter
    BY <1>1, <1>2, <2>1
  <2>2. CASE ~(t = s /\ id = star[s].push_counter)
    <3>1. id \in star[t].settle_cursor .. star[t].push_counter - 1
      <4>1. star[t].settle_cursor \in Nat /\ star[t].push_counter \in Nat
        BY LineNumbers
      <4>2. /\ star'[t].settle_cursor = star[t].settle_cursor
            /\ star'[t].push_counter = IF t = s THEN star[t].push_counter + 1
                                                ELSE star[t].push_counter
        BY <1>3
      <4> QED
        BY <2>2, <4>1, <4>2
    <3>2. PICK j \in PendingOn(t) : pending_push[j].push_id = id
      BY <3>1 DEF PlaceInv, NoGap
    <3>3. j \in PendingOn(t)' /\ pending_push'[j] = pending_push[j]
      BY <1>1, <1>2 DEF PendingOn, InLine
    <3> QED
      BY <3>2, <3>3
  <2> QED
    BY <2>1, <2>2
<1> QED
  BY <1>4, <1>5, <1>6, <1>7 DEF PlaceInv

\* The head leaves the place the cursor is at.
LEMMA PlaceLeaves ==
  ASSUME TypeOK, LineInv, PlaceInv, NEW k \in PushKeys, HeadLeaves(k)
  PROVE  PlaceInv'
<1>1. PICK s \in StarIds : pending_push[k].star_id = s
  BY PushType DEF HeadLeaves, AtCursor
<1>2. /\ InLine' = InLine \ {k} /\ k \in InLine
      /\ PendingOn(s)' = PendingOn(s) \ {k}
      /\ \A t \in StarIds : t # s => PendingOn(t)' = PendingOn(t)
  BY <1>1, LeaveSets
<1>3. /\ pending_push[k].push_id = star[s].settle_cursor
      /\ pending_push'[k].status \in Resolved
      /\ pending_push'[k].star_id = s
      /\ pending_push'[k].push_id = star[s].settle_cursor
      /\ \A j \in PushKeys : j # k => pending_push'[j] = pending_push[j]
  BY <1>1 DEF HeadLeaves, OnlyPush, AtCursor
<1>4. \A t \in StarIds :
        /\ star'[t].push_counter = star[t].push_counter
        /\ star'[t].settle_cursor = IF t = s THEN star[t].settle_cursor + 1
                                             ELSE star[t].settle_cursor
  BY <1>1 DEF HeadLeaves, OnlyLine, SameLine
<1>5. \A j \in PushKeys : InPlace(j)'
  <2> SUFFICES ASSUME NEW j \in PushKeys PROVE InPlace(j)'
    OBVIOUS
  <2>1. CASE j = k
    BY <1>3, <2>1 DEF InPlace, Resolved
  <2>2. CASE j # k /\ pending_push[j].status # "Pending"
    BY <1>3, <2>2 DEF InPlace
  <2>3. CASE j # k /\ pending_push[j].status = "Pending"
    <3>1. j \in InLine
      BY <2>3 DEF InLine
    <3>2. pending_push[j].star_id = s =>
            pending_push[j].push_id # star[s].settle_cursor
      BY <1>1, <1>2, <1>3, <2>3, <3>1 DEF PlaceInv, OnePlaceEach
    <3> QED
      BY <1>3, <1>4, <2>3, <3>2, LineNumbers DEF InPlace, PlaceInv
  <2> QED
    BY <2>1, <2>2, <2>3
<1>6. \A j \in PushKeys : BehindCursor(j)'
  <2> SUFFICES ASSUME NEW j \in PushKeys PROVE BehindCursor(j)'
    OBVIOUS
  <2>1. CASE j = k
    BY <1>3, <1>4, <2>1, LineNumbers DEF BehindCursor
  <2>2. CASE j # k
    BY <1>3, <1>4, <2>2, LineNumbers DEF BehindCursor, PlaceInv, Resolved
  <2> QED
    BY <2>1, <2>2
<1>7. OnePlaceEach'
  <2>1. \A j \in InLine' : j \in InLine /\ pending_push'[j] = pending_push[j]
    BY <1>2, <1>3, LineNumbers
  <2> QED
    BY <2>1 DEF OnePlaceEach, PlaceInv
<1>8. ASSUME NEW t \in StarIds PROVE NoGap(t)'
  <2> SUFFICES ASSUME NEW id \in star'[t].settle_cursor ..
                                  star'[t].push_counter - 1
               PROVE  \E j \in PendingOn(t)' : pending_push'[j].push_id = id
    BY DEF NoGap
  <2>1. /\ id \in star[t].settle_cursor .. star[t].push_counter - 1
        /\ t = s => id # star[s].settle_cursor
    BY <1>4, LineNumbers
  <2>2. PICK j \in PendingOn(t) : pending_push[j].push_id = id
    BY <2>1 DEF PlaceInv, NoGap
  <2>3. j # k
    BY <1>1, <1>3, <2>1, <2>2 DEF PendingOn
  <2>4. j \in PendingOn(t)' /\ pending_push'[j] = pending_push[j]
    BY <1>2, <1>3, <2>3 DEF PendingOn, InLine
  <2> QED
    BY <2>2, <2>4
<1> QED
  BY <1>5, <1>6, <1>7, <1>8 DEF PlaceInv

\* With nothing in escrow there is nobody in line.
LEMMA LineEmpty ==
  ASSUME TypeOK, LineInv, EscrowBacked, PlaceInv,
         NEW s \in StarIds,
         star[s].pending_lamports = 0 \/ star[s].pending_pushes = 0
  PROVE  PendingOn(s) = {} /\ star[s].pending_pushes = 0
<1>1. /\ PendingOn(s) \in SUBSET PushKeys /\ IsFiniteSet(PendingOn(s))
      /\ \A k \in PendingOn(s) : Escrowed[k] \in Nat \ {0}
  BY FiniteKeys DEF PendingOn, InLine, PlaceInv, InPlace, Escrowed
<1>2. CASE star[s].pending_lamports = 0
  <2>1. Total(Escrowed, PendingOn(s)) = 0
    BY <1>2 DEF EscrowBacked
  <2>2. PendingOn(s) = {}
    BY <1>1, <2>1, FiniteKeys, TotalNat
  <2> QED
    BY <2>2, FS_EmptySet DEF EscrowBacked
<1>3. CASE star[s].pending_pushes = 0
  BY <1>1, <1>3, FS_EmptySet DEF EscrowBacked
<1> QED
  BY <1>2, <1>3

\* The other moves change no place; an id only passes by an empty line.
LEMMA PlaceStays ==
  ASSUME TypeOK, LineInv, PlaceInv, EscrowBacked,
         \/ LinesStay
         \/ \E k \in PushKeys : AccountSwept(k)
         \/ \E s \in StarIds : IdPasses(s)
  PROVE  PlaceInv'
<1>1. InLine' = InLine /\ \A t \in StarIds : PendingOn(t)' = PendingOn(t)
  BY SweptSets DEF LinesStay, IdPasses, InLine, PendingOn
<1>2. /\ \A j \in PushKeys : \/ pending_push'[j] = pending_push[j]
                             \/ pending_push'[j].status = "Absent"
      /\ \A j \in InLine : pending_push'[j] = pending_push[j]
  BY SweptSets
     DEF LinesStay, IdPasses, AccountSwept, OnlyPush, InLine, NoPush
<1>3. \A t \in StarIds :
        \/ /\ star'[t].push_counter = star[t].push_counter
           /\ star'[t].settle_cursor = star[t].settle_cursor
        \/ /\ star'[t].push_counter = star[t].push_counter + 1
           /\ star'[t].settle_cursor = star[t].settle_cursor + 1
           /\ PendingOn(t) = {} /\ star[t].pending_pushes = 0
  <2>1. ASSUME NEW s \in StarIds, IdPasses(s)
        PROVE  PendingOn(s) = {} /\ star[s].pending_pushes = 0
    BY <2>1, LineEmpty DEF IdPasses
  <2> QED
    BY <2>1 DEF LinesStay, IdPasses, AccountSwept, OnlyLine, SameLine
<1>4. \A j \in PushKeys : InPlace(j)'
  <2> SUFFICES ASSUME NEW j \in PushKeys, pending_push'[j].status = "Pending"
               PROVE  InPlace(j)'
    BY DEF InPlace
  <2>1. pending_push'[j] = pending_push[j] /\ j \in PendingOn(pending_push[j].star_id)
    BY <1>2 DEF PendingOn, InLine
  <2> QED
    BY <1>3, <2>1, LineNumbers DEF InPlace, PlaceInv
<1>5. \A j \in PushKeys : BehindCursor(j)'
  <2> SUFFICES ASSUME NEW j \in PushKeys, pending_push'[j].status \in Resolved
               PROVE  BehindCursor(j)'
    BY DEF BehindCursor
  <2>1. pending_push'[j] = pending_push[j]
    BY <1>2 DEF Resolved
  <2> QED
    BY <1>3, <2>1, LineNumbers DEF BehindCursor, PlaceInv, Resolved
<1>6. OnePlaceEach'
  BY <1>1, <1>2 DEF OnePlaceEach, PlaceInv
<1>7. ASSUME NEW t \in StarIds PROVE NoGap(t)'
  <2> SUFFICES ASSUME NEW id \in star'[t].settle_cursor ..
                                  star'[t].push_counter - 1
               PROVE  \E j \in PendingOn(t)' : pending_push'[j].push_id = id
    BY DEF NoGap
  <2>1. id \in star[t].settle_cursor .. star[t].push_counter - 1
    BY <1>3, LineNumbers
  <2>2. PICK j \in PendingOn(t) : pending_push[j].push_id = id
    BY <2>1 DEF PlaceInv, NoGap
  <2>3. j \in PendingOn(t)' /\ pending_push'[j] = pending_push[j]
    BY <1>1, <1>2 DEF PendingOn
  <2> QED
    BY <2>2, <2>3
<1> QED
  BY <1>4, <1>5, <1>6, <1>7 DEF PlaceInv

\* A star not yet born has nothing in line.
LEMMA UnbornEmpty ==
  ASSUME TypeOK, LineInv, RoundInv, EscrowBacked,
         NEW s \in StarIds, star[s].status = "Unborn"
  PROVE  SameLine(star[s], NewStar("Unborn", 0))
<1>1. star[s].pending_pushes = 0 /\ star[s].push_counter = 0
  BY DEF RoundInv, StarRounds, NoTrace
<1>2. star[s].settle_cursor = 0
  BY <1>1, LineNumbers
<1>3. IsFiniteSet(PendingOn(s)) /\ Cardinality(PendingOn(s)) = 0
  BY <1>1, FiniteKeys DEF EscrowBacked, PendingOn, InLine
<1>4. PendingOn(s) = {}
  BY <1>3, FS_EmptySet
<1>5. star[s].pending_lamports = 0
  BY <1>4, FS_EmptySet, TotalUnfolds DEF EscrowBacked
<1> QED
  BY <1>1, <1>2, <1>5 DEF SameLine, NewStar

\* Creating a star moves no line.
LEMMA CreateMoves ==
  ASSUME TypeOK, LineInv, RoundInv, EscrowBacked,
         CreateFirstStar \/ CreateNextStar
  PROVE  LinesStay
<1>1. \A endowment : SameLine(NewStar("Alive", endowment), NewStar("Unborn", 0))
  BY DEF SameLine, NewStar
<1>2. UNCHANGED <<pending_push, pending_liability>>
  BY DEF CreateFirstStar, CreateNextStar, money, buckets
<1>3. CASE CreateFirstStar
  <2>1. 1 \in StarIds /\ star[1].status = "Unborn"
    BY <1>3 DEF CreateFirstStar, RoundInv
  <2>2. \A t \in StarIds :
          star'[t] = IF t = 1 THEN NewStar("Alive", 0) ELSE star[t]
    BY <1>3 DEF CreateFirstStar, TypeOK
  <2>3. SameLine(star'[1], star[1])
    BY <1>1, <2>1, <2>2, UnbornEmpty DEF SameLine
  <2> QED
    BY <1>2, <2>2, <2>3 DEF LinesStay, SameLine
<1>4. CASE CreateNextStar
  <2> DEFINE new == current_star_id + 1
             prev == current_star_id
             older == [star[prev] EXCEPT !.next_star_created = TRUE]
             born == NewStar("Alive", Endowment)
  <2>1. /\ new \in StarIds /\ prev \in StarIds /\ new # prev
        /\ star[new].status = "Unborn"
    BY <1>4 DEF CreateNextStar, StarIds
  <2>2. SameLine(older, star[prev])
    BY <2>1 DEF SameLine, TypeOK, StarRecord
  <2>3. \A t \in StarIds :
          star'[t] = IF t = new THEN born
                     ELSE IF t = prev THEN older ELSE star[t]
    BY <1>4, <2>1 DEF CreateNextStar, TypeOK
  <2>4. SameLine(born, star[new])
    BY <1>1, <2>1, UnbornEmpty DEF SameLine
  <2> HIDE DEF new, prev, older, born
  <2>5. \A t \in StarIds : SameLine(star'[t], star[t])
    BY <2>2, <2>3, <2>4 DEF SameLine
  <2> QED
    BY <1>2, <2>5 DEF LinesStay
<1> QED
  BY <1>3, <1>4

\* Every step moves the lines in one of the five ways.
LEMMA LineMoves ==
  ASSUME TypeOK, LineInv, RoundInv, EscrowBacked, PlaceInv, [Next]_vars
  PROVE  \/ \E s \in StarIds, k \in PushKeys, a \in PushAmounts :
              RequestPush(s, k, a) /\ StakeJoins(s, k)
         \/ \E k \in PushKeys : HeadLeaves(k)
         \/ \E s \in StarIds : IdPasses(s)
         \/ \E k \in PushKeys : AccountSwept(k)
         \/ LinesStay
<1>1. ASSUME NEW k \in PushKeys, RefundPush(k) PROVE HeadLeaves(k)
  BY <1>1, RefundMoves
<1>2. ASSUME NEW k \in PushKeys, NEW rolls \in BOOLEAN, SettlePush(k, rolls)
      PROVE  HeadLeaves(k)
  <2>1. pending_push[k].amount > 0
    BY <1>2 DEF SettlePush, AtCursor, PlaceInv, InPlace
  <2> QED
    BY <1>2, <2>1, SettleMoves
<1>3. ASSUME NEW k \in PushKeys, ClosePush(k) PROVE AccountSwept(k)
  <2>1. /\ pending_push[k].status \in Resolved
        /\ pending_push' = [pending_push EXCEPT ![k] = NoPush]
        /\ UNCHANGED <<pending_liability, star>>
    BY <1>3 DEF ClosePush, Resolved, money, buckets
  <2> QED
    BY <2>1 DEF AccountSwept, OnlyPush, SameLine, TypeOK
<1>4. ASSUME NEW s \in StarIds, CollapseStalledStar(s) PROVE LinesStay
  <2>1. PICK prize :
          /\ star' = [star EXCEPT ![s] = Finish(star[s], "Stalled", prize)]
          /\ UNCHANGED <<pending_push, pending_liability>>
    BY <1>4 DEF CollapseStalledStar
  <2>2. \A t \in StarIds : \/ star'[t] = star[t]
                           \/ star'[t] = Finish(star[t], "Stalled", prize)
    BY <2>1 DEF TypeOK
  <2>3. \A st \in StarRecord : SameLine(Finish(st, "Stalled", prize), st)
    BY DEF SameLine, Finish, StarRecord
  <2> QED
    BY <2>1, <2>2, <2>3 DEF LinesStay, SameLine, TypeOK
<1>5. ASSUME UNCHANGED <<pending_push, pending_liability>>,
             \A t \in StarIds : SameQueue(star'[t], star[t])
      PROVE  LinesStay
  BY <1>5 DEF LinesStay, SameLine, SameQueue
<1>6. ASSUME UNCHANGED <<pending_push, pending_liability, star>> PROVE LinesStay
  BY <1>6 DEF LinesStay, SameLine
<1>7. ASSUME NEW s \in StarIds, StarStep(s)
      PROVE  \/ \E k \in PushKeys, a \in PushAmounts :
                  RequestPush(s, k, a) /\ StakeJoins(s, k)
             \/ IdPasses(s)
             \/ LinesStay
  BY <1>4, <1>5, <1>7, FeedMoves, RequestMoves, OtherStarStepsSame DEF StarStep
<1>8. CASE \E s \in StarIds, r \in RoundIds : RoundStep(s, r)
  BY <1>5, <1>8, OtherStarStepsSame
<1>9. CASE HouseStep \/ NextSlot \/ UNCHANGED vars
  BY <1>6, <1>9 DEF HouseStep, FundProtocol, WithdrawProtocolFees, NextSlot,
                    vars, money, buckets
<1>10. CASE NextSecond
  BY <1>5, <1>10, NextSecondSame
<1> QED
  BY <1>1, <1>2, <1>3, <1>7, <1>8, <1>9, <1>10, CreateMoves
     DEF Next, ResolvePush

\* The escrow and the places in line, together with what they rest on, in every
\* reachable state.
LEMMA LinesAlways == Spec => [](EscrowBacked /\ PlaceInv)
<1>1. Init => EscrowBacked /\ PlaceInv
  <2> SUFFICES ASSUME Init PROVE EscrowBacked /\ PlaceInv
    OBVIOUS
  <2>1. /\ \A k \in PushKeys : pending_push[k].status = "Absent"
        /\ \A s \in StarIds :
             /\ star[s].pending_lamports = 0 /\ star[s].pending_pushes = 0
             /\ star[s].settle_cursor = 0 /\ star[s].push_counter = 0
        /\ pending_liability = 0
    BY DEF Init, NoPush, NewStar
  <2>2. InLine = {} /\ \A s \in StarIds : PendingOn(s) = {}
    BY <2>1 DEF InLine, PendingOn
  <2>3. EscrowBacked
    BY <2>1, <2>2, FS_EmptySet, TotalUnfolds DEF EscrowBacked
  <2>4. PlaceInv
    BY <2>1, <2>2
       DEF PlaceInv, InPlace, BehindCursor, OnePlaceEach, NoGap, Resolved
  <2> QED
    BY <2>3, <2>4
<1>2. TypeOK /\ TypeOK' /\ LineInv /\ RoundInv /\ EscrowBacked /\ PlaceInv
        /\ [Next]_vars => (EscrowBacked /\ PlaceInv)'
  BY LineMoves, EscrowJoins, EscrowLeaves, EscrowStays,
     PlaceJoins, PlaceLeaves, PlaceStays
<1> QED
  BY <1>1, <1>2, TypeCorrect, LineInvAlways, RoundInvAlways, PTL DEF Spec

\* The escrow is exactly the stakes in line, over all stars and star by star,
\* through every join, landing, refund and sweep (request_push, resolve_push).
THEOREM EscrowAlwaysBacked == Spec => []EscrowBacked
  BY LinesAlways, PTL

\* A star's line is its ids from the cursor up, one push each: no id is lost,
\* reused or skipped, however feeds, refunds and sweeps interleave.
THEOREM QueueAlwaysLine == Spec => []QueueIsLine
<1>1. ASSUME TypeOK, LineInv, EscrowBacked, PlaceInv, NEW s \in StarIds
      PROVE  LET ids == {pending_push[k].push_id : k \in PendingOn(s)}
             IN /\ ids = star[s].settle_cursor .. star[s].push_counter - 1
                /\ Cardinality(ids) = Cardinality(PendingOn(s))
  <2> DEFINE lo == star[s].settle_cursor
             hi == star[s].push_counter
             ids == {pending_push[k].push_id : k \in PendingOn(s)}
  <2>1. /\ lo \in Nat /\ hi \in Nat
        /\ lo + star[s].pending_pushes = hi /\ star[s].pending_pushes \in Nat
    BY <1>1, LineNumbers
  <2>2. \A k \in PendingOn(s) : /\ pending_push[k].push_id \in Nat
                                /\ lo <= pending_push[k].push_id
                                /\ pending_push[k].push_id < hi
    BY <1>1, LineNumbers DEF PendingOn, InLine, PlaceInv, InPlace
  <2>3. \A id \in lo .. hi - 1 : id \in ids
    BY <1>1 DEF PlaceInv, NoGap
  <2>4. ids = lo .. hi - 1
    BY <2>1, <2>2, <2>3
  <2>5. Cardinality(PendingOn(s)) = star[s].pending_pushes
    BY <1>1 DEF EscrowBacked
  <2> HIDE DEF lo, hi, ids
  <2>6. Cardinality(lo .. hi - 1) = IF lo > hi - 1 THEN 0 ELSE (hi - 1) - lo + 1
    BY <2>1, hi - 1 \in Int, FS_Interval
  <2>7. Cardinality(ids) = Cardinality(PendingOn(s))
    BY <2>1, <2>4, <2>5, <2>6
  <2> QED
    BY <2>4, <2>7 DEF ids, lo, hi
<1>2. TypeOK /\ LineInv /\ EscrowBacked /\ PlaceInv => QueueIsLine
  BY <1>1 DEF QueueIsLine
<1> QED
  BY <1>2, TypeCorrect, LineInvAlways, LinesAlways, PTL

\* A push in line is worth at most what its star, and the whole program, holds
\* in escrow.
LEMMA StakeInEscrow ==
  ASSUME TypeOK, LineInv, EscrowBacked,
         NEW k \in PushKeys, pending_push[k].status = "Pending"
  PROVE  LET p == pending_push[k]
         IN /\ p.star_id \in StarIds /\ p.amount \in Nat
            /\ p.amount <= pending_liability
            /\ p.amount <= star[p.star_id].pending_lamports
            /\ star[p.star_id].pending_pushes >= 1
<1> DEFINE s == pending_push[k].star_id
<1>1. s \in StarIds /\ pending_push[k].amount \in Nat
  BY LineNumbers
<1>2. /\ InLine \in SUBSET PushKeys /\ PendingOn(s) \in SUBSET PushKeys
      /\ k \in InLine /\ k \in PendingOn(s)
  BY DEF InLine, PendingOn
<1>3. /\ Escrowed[k] <= Total(Escrowed, InLine)
      /\ Escrowed[k] <= Total(Escrowed, PendingOn(s))
  BY <1>2, FiniteKeys, TotalNat
<1>4. Escrowed[k] = pending_push[k].amount
  BY DEF Escrowed
<1>5. star[s].pending_pushes \in Nat /\ star[s].pending_pushes # 0
  BY <1>1, <1>2, FiniteKeys, FS_EmptySet, LineNumbers DEF EscrowBacked
<1> QED
  BY <1>1, <1>3, <1>4, <1>5 DEF EscrowBacked

\* The clip in resolve_push never cuts a stake: what the queue promised a push
\* when it joined still fits when it lands.
THEOREM SettleNeverEverClips == Spec => []SettleNeverClips
<1>1. ASSUME TypeOK, LineInv, EscrowBacked PROVE SettleNeverClips
  <2> SUFFICES ASSUME NEW k \in PushKeys, AtCursor(k)
               PROVE  AcceptedSettleAmount(pending_push[k].amount,
                          star[pending_push[k].star_id].total_mass)
                        = pending_push[k].amount
    BY DEF SettleNeverClips
  <2> DEFINE s == pending_push[k].star_id
  <2>1. /\ s \in StarIds /\ pending_push[k].amount \in Nat
        /\ pending_push[k].amount <= star[s].pending_lamports
    BY <1>1, StakeInEscrow DEF AtCursor
  <2>2. star[s] \in StarRecord /\ StarInv(star[s])
    BY <1>1, <2>1 DEF TypeOK, LineInv
  <2> QED
    BY <2>1, <2>2, WholeStakeLands
<1> QED
  BY <1>1, TypeCorrect, LineInvAlways, LinesAlways, PTL
=============================================================================

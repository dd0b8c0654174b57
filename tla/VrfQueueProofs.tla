--------------------------- MODULE VrfQueueProofs ---------------------------
(***************************************************************************)
(* Rounds and the oracle's queue stay matched, for every number of stars,  *)
(* rounds, slots and queue items and for an oracle of either kind.         *)
(* QueueInv is inductive: a request names its round in its seed, and only  *)
(* rounds the star's counter has left behind have one.  With RoundsFilled  *)
(* it also gives every round the life RoundLife promises.                  *)
(***************************************************************************)
EXTENDS VrfQueue, TLAPS

Entropy == (Contributions \X Nat) \cup {<<>>}
Seed == RoundKeys \X Entropy \X Nat \X Crankers

RoundRecord ==
  [status : {"Absent", "Open", "Requested", "Drawn", "Expired"},
   member_count : Nat, entropy : Entropy, seed : Seed \cup {<<>>},
   seed_slot : Nat, opened_slot : Nat, requested_slot : Nat,
   randomness : Answers]

TypeOK ==
  /\ slot \in Nat
  /\ slot_hashes \subseteq Nat
  /\ finished \in [StarIds -> BOOLEAN]
  /\ push_counter \in [StarIds -> Nat]
  /\ current_round \in [StarIds -> Nat]
  /\ round \in [RoundKeys -> RoundRecord]
  /\ queue \subseteq [seed : Seed, round : RoundKeys, slot : Nat]
  /\ honours_queue \in BOOLEAN

\* A request is for the round its seed names, which is behind the counter.
RequestsNamed ==
  \A i \in queue :
    /\ i.seed[1] = i.round
    /\ i.round[2] < current_round[i.round[1]]

OneEach == \A i, j \in queue : i.round = j.round => i = j

\* Only slots that are over have an entry.
HashesArePast == \A s \in slot_hashes : s < slot

\* A round has a seed of its own, decided by a slot before it was sealed, and
\* an undrawn one no randomness.
RoundOwns(k) ==
  /\ round[k].seed # <<>> =>
       round[k].seed[1] = k /\ round[k].seed_slot < round[k].requested_slot
  /\ round[k].status = "Requested" => RequestOf(k) \in queue
  /\ round[k].status \in {"Absent", "Open", "Requested"} =>
       round[k].randomness = Zero

NoneAnswered == honours_queue => \A i \in queue : round[i.round].status # "Drawn"

\* A star has had a push for every round its counter left behind, and for the
\* one it names if that is open; the rounds to come have no account.
RoundsFit(s) ==
  /\ current_round[s] <= push_counter[s] /\ push_counter[s] <= MaxPushes
  /\ round[<<s, current_round[s]>>].status = "Open"
       => current_round[s] < push_counter[s]
  /\ \A r \in RoundIds :
       r > current_round[s] => round[<<s, r>>].status = "Absent"

QueueInv ==
  /\ TypeOK
  /\ \A s \in StarIds : RoundsFit(s)
  /\ RequestsNamed
  /\ OneEach
  /\ HashesArePast
  /\ \A k \in RoundKeys : RoundOwns(k)
  /\ NoneAnswered

-----------------------------------------------------------------------------

\* The account that does not exist is a well-formed one.
LEMMA NoRoundTyped == NoRound \in RoundRecord
BY VrfAssumption DEF NoRound, RoundRecord, Entropy

\* A step that leaves rounds, queue and counters alone.
LEMMA Idle ==
  ASSUME QueueInv, UNCHANGED <<current_round, round, queue, honours_queue>>,
         slot' \in Nat, slot_hashes' \subseteq Nat, HashesArePast',
         finished' \in [StarIds -> BOOLEAN], push_counter' = push_counter
  PROVE  QueueInv'
BY DEF QueueInv, TypeOK, RequestsNamed, OneEach, RoundOwns, NoneAnswered,
       RequestOf, RoundsFit

\* NextSlot and FinishStar.
LEMMA NextSlotKeeps == QueueInv /\ NextSlot => QueueInv'
<1> SUFFICES ASSUME QueueInv, NextSlot PROVE QueueInv'
  OBVIOUS
<1>1. /\ slot' \in Nat /\ slot_hashes' \subseteq Nat /\ HashesArePast'
      /\ slot' > slot
  BY DEF QueueInv, TypeOK, NextSlot, HashesArePast
<1> QED
  BY <1>1, Idle DEF NextSlot, stars, QueueInv, TypeOK

LEMMA FinishKeeps ==
  ASSUME QueueInv, NEW s \in StarIds, FinishStar(s)
  PROVE  QueueInv'
<1>1. HashesArePast'
  BY DEF QueueInv, FinishStar, HashesArePast, clock
<1> QED
  BY <1>1, Idle DEF FinishStar, clock, QueueInv, TypeOK

\* One round is rewritten, the queue kept: what a round's new state has to be.
LEMMA Rewrite ==
  ASSUME QueueInv, NEW key \in RoundKeys, NEW new \in RoundRecord,
         round' = [round EXCEPT ![key] = new],
         UNCHANGED <<clock, queue, honours_queue, finished>>,
         push_counter' \in [StarIds -> Nat],
         current_round' \in [StarIds -> Nat],
         \A s \in StarIds : current_round'[s] >= current_round[s],
         \A s \in StarIds : RoundsFit(s)',
         new.seed # <<>> =>
           new.seed[1] = key /\ new.seed_slot < new.requested_slot,
         new.status # "Requested",
         new.status \in {"Absent", "Open"} => new.randomness = Zero,
         honours_queue /\ new.status = "Drawn" =>
           \A i \in queue : i.round # key
  PROVE  QueueInv'
<1>1. TypeOK'
  BY DEF QueueInv, TypeOK, clock
<1>2. RequestsNamed'
  <2> SUFFICES ASSUME NEW i \in queue
               PROVE  i.seed[1] = i.round /\ i.round[2] < current_round'[i.round[1]]
    BY DEF RequestsNamed
  <2>1. i.round[1] \in StarIds /\ i.round[2] \in Nat
    BY DEF QueueInv, TypeOK, RoundKeys, RoundIds
  <2> QED
    BY <2>1 DEF QueueInv, TypeOK, RequestsNamed
<1>3. OneEach' /\ HashesArePast'
  BY DEF QueueInv, OneEach, HashesArePast, clock
<1>4. round'[key] = new /\ \A k \in RoundKeys : k # key => round'[k] = round[k]
  BY DEF QueueInv, TypeOK
<1>5. ASSUME NEW k \in RoundKeys PROVE RoundOwns(k)'
  <2>1. CASE k = key
    BY <2>1, <1>4 DEF RoundOwns
  <2>2. CASE k # key
    BY <2>2, <1>4 DEF QueueInv, RoundOwns, RequestOf
  <2> QED
    BY <2>1, <2>2
<1>6. NoneAnswered'
  BY <1>4 DEF QueueInv, TypeOK, NoneAnswered
<1> QED
  BY <1>1, <1>2, <1>3, <1>5, <1>6 DEF QueueInv

\* request_push: the round it opens or joins is the star's current one.
LEMMA PushKeeps ==
  ASSUME QueueInv, NEW s \in StarIds, NEW c \in Contributions, RequestPush(s, c)
  PROVE  QueueInv'
<1> DEFINE key == <<s, current_round[s]>>
           rd == round[key]
           entropy == FoldEntropy(c, push_counter[s])
           opened == [NoRound EXCEPT !.status = "Open", !.member_count = 1,
                                     !.opened_slot = slot, !.entropy = entropy]
           joined == [rd EXCEPT !.member_count = @ + 1]
           new == Joined(rd, entropy)
<1>1. /\ key \in RoundKeys
      /\ entropy \in Entropy
  <2>1. RoundsFit(s) /\ current_round[s] \in Nat /\ push_counter[s] \in Nat
    BY DEF QueueInv, TypeOK
  <2>2. current_round[s] \in 0..MaxPushes
    BY <2>1, VrfAssumption DEF RoundsFit
  <2> QED
    BY <2>1, <2>2 DEF RoundKeys, RoundIds, FoldEntropy, Entropy
<1>2. rd \in RoundRecord /\ RoundOwns(key)
  BY <1>1 DEF QueueInv, TypeOK
<1>3. opened \in RoundRecord
  <2>1. slot \in Nat /\ NoRound \in RoundRecord
    BY NoRoundTyped DEF QueueInv, TypeOK
  <2> QED
    BY <2>1, <1>1 DEF RoundRecord
<1>4. joined \in RoundRecord
  BY <1>2 DEF RoundRecord
<1>5. /\ new \in RoundRecord
      /\ new.seed # <<>> =>
           new.seed[1] = key /\ new.seed_slot < new.requested_slot
      /\ new.status \in {"Absent", "Open"}
      /\ new.randomness = Zero
  <2>1. rd.status \in {"Absent", "Open"}
    BY DEF RequestPush
  <2>2. new = IF rd.member_count = 0 THEN opened ELSE joined
    BY DEF Joined
  <2>3. opened.status = "Open" /\ opened.seed = <<>> /\ opened.randomness = Zero
    BY DEF NoRound
  <2>4. /\ joined.status = rd.status /\ joined.seed = rd.seed
        /\ joined.seed_slot = rd.seed_slot
        /\ joined.requested_slot = rd.requested_slot
        /\ joined.randomness = rd.randomness
    BY <1>2 DEF RoundRecord
  <2> HIDE DEF opened, joined, new
  <2> QED
    BY <2>1, <2>2, <2>3, <2>4, <1>2, <1>3, <1>4 DEF RoundOwns
<1>6. /\ round' = [round EXCEPT ![key] = new]
      /\ push_counter' = [push_counter EXCEPT ![s] = @ + 1]
      /\ push_counter[s] < MaxPushes
      /\ UNCHANGED <<clock, queue, honours_queue, finished, current_round>>
  BY DEF RequestPush
<1>7. push_counter' \in [StarIds -> Nat]
  BY <1>6 DEF QueueInv, TypeOK
<1> HIDE DEF new
<1>8. ASSUME NEW t \in StarIds PROVE RoundsFit(t)'
  BY <1>1, <1>6, VrfAssumption
     DEF QueueInv, TypeOK, RoundsFit, RoundKeys, RoundIds
<1>9. current_round' \in [StarIds -> Nat]
      /\ \A t \in StarIds : current_round'[t] >= current_round[t]
  BY <1>6 DEF QueueInv, TypeOK
<1> HIDE DEF key
<1> QED
  BY <1>1, <1>5, <1>6, <1>7, <1>8, <1>9, Rewrite

\* Leaving an open current round behind, whatever becomes of it.
LEMMA CounterAdvances ==
  ASSUME QueueInv, NEW key \in RoundKeys, NEW new,
         round[key].status = "Open", key[2] = current_round[key[1]],
         round' = [round EXCEPT ![key] = new],
         current_round' = [current_round EXCEPT ![key[1]] = @ + 1],
         push_counter' = push_counter
  PROVE  \A t \in StarIds : RoundsFit(t)'
<1>1. key[1] \in StarIds /\ key[2] \in Nat /\ key = <<key[1], key[2]>>
  BY DEF RoundKeys, RoundIds
<1>2. \A k \in RoundKeys : k # key => round'[k] = round[k]
  BY DEF QueueInv, TypeOK
<1> TAKE t \in StarIds
<1>3. RoundsFit(t) /\ RoundsFit(key[1])
  BY <1>1 DEF QueueInv
<1>4. CASE t = key[1]
  <2>1. current_round'[t] = current_round[t] + 1
        /\ current_round[t] \in Nat /\ push_counter[t] \in Nat
    BY <1>1, <1>4 DEF QueueInv, TypeOK
  <2>2. current_round[t] < push_counter[t]
    BY <1>1, <1>3, <1>4 DEF RoundsFit
  <2>3. ASSUME NEW r \in RoundIds, r > current_round[t]
        PROVE  round'[<<t, r>>].status = "Absent"
    BY <1>1, <1>2, <1>3, <1>4, <2>3 DEF RoundsFit, RoundKeys
  <2>4. round'[<<t, current_round'[t]>>].status = "Absent"
    BY <1>3, <2>1, <2>2, <2>3, VrfAssumption DEF RoundsFit, RoundIds
  <2> QED
    BY <1>3, <2>1, <2>2, <2>3, <2>4 DEF RoundsFit, RoundIds
<1>5. CASE t # key[1]
  <2>1. current_round'[t] = current_round[t] /\ push_counter'[t] = push_counter[t]
    BY <1>1, <1>5 DEF QueueInv, TypeOK
  <2>2. ASSUME NEW r \in RoundIds PROVE round'[<<t, r>>] = round[<<t, r>>]
    BY <1>1, <1>2, <1>5 DEF RoundKeys
  <2>3. current_round[t] \in RoundIds
    BY <1>3, VrfAssumption DEF RoundsFit, RoundIds, QueueInv, TypeOK
  <2> QED
    BY <1>3, <2>1, <2>2, <2>3 DEF RoundsFit
<1> QED
  BY <1>4, <1>5

\* A round that is not open afterwards, the counters kept.
LEMMA CountersStay ==
  ASSUME QueueInv, NEW key \in RoundKeys, NEW new,
         new.status # "Open",
         round[key].status # "Absent" \/ new.status = "Absent",
         round' = [round EXCEPT ![key] = new],
         current_round' = current_round, push_counter' = push_counter
  PROVE  \A t \in StarIds : RoundsFit(t)'
<1>1. /\ round'[key] = new
      /\ \A k \in RoundKeys : k # key => round'[k] = round[k]
  BY DEF QueueInv, TypeOK
<1> TAKE t \in StarIds
<1>2. RoundsFit(t)
  BY DEF QueueInv
<1>3. current_round[t] \in RoundIds
  BY <1>2, VrfAssumption DEF RoundsFit, RoundIds, QueueInv, TypeOK
<1>4. round'[<<t, current_round[t]>>].status = "Open" =>
        current_round[t] < push_counter[t]
  BY <1>1, <1>2, <1>3 DEF RoundsFit, RoundKeys
<1>5. ASSUME NEW r \in RoundIds, r > current_round[t]
      PROVE  round'[<<t, r>>].status = "Absent"
  BY <1>1, <1>2, <1>5 DEF RoundsFit, RoundKeys
<1> QED
  BY <1>2, <1>4, <1>5 DEF RoundsFit

\* draw_round: the one action that files a request, for a round that had none.
LEMMA DrawKeeps ==
  ASSUME QueueInv, NEW key \in RoundKeys, NEW s \in slot_hashes,
         NEW c \in Crankers, DrawRound(key, s, c)
  PROVE  QueueInv'
<1> DEFINE seed == RoundSeed(key, round[key].entropy, s, c)
           new == [round[key] EXCEPT !.status = "Requested", !.seed = seed,
                                     !.seed_slot = s, !.requested_slot = slot]
           i0 == [seed |-> seed, round |-> key, slot |-> slot]
<1>1. /\ round[key] \in RoundRecord /\ seed \in Seed /\ seed[1] = key
      /\ s \in Nat /\ s < slot /\ slot \in Nat
      /\ key[1] \in StarIds /\ key[2] \in Nat /\ key = <<key[1], key[2]>>
  BY DEF QueueInv, TypeOK, HashesArePast, RoundSeed, Seed, RoundRecord,
         RoundKeys, RoundIds
<1>2. new \in RoundRecord
  BY <1>1 DEF RoundRecord
<1>3. /\ queue' = queue \cup {i0}
      /\ current_round' = [current_round EXCEPT ![key[1]] = @ + 1]
      /\ key[2] = current_round[key[1]]
      /\ round[key].status = "Open"
      /\ UNCHANGED <<clock, finished, push_counter, honours_queue>>
  BY DEF DrawRound, RequestRandomness, Request, AfterSeal
<1>4. round' = [round EXCEPT ![key] = new]
  BY DEF DrawRound
<1>5. /\ new.status = "Requested" /\ new.seed = seed /\ new.seed_slot = s
      /\ new.requested_slot = slot /\ new.randomness = round[key].randomness
      /\ seed # <<>>
  BY <1>1 DEF RoundRecord, RoundSeed
<1>6. RoundOwns(key)
  BY DEF QueueInv
<1> HIDE DEF seed, new
<1>7. /\ round'[key] = new
      /\ \A k \in RoundKeys : k # key => round'[k] = round[k]
  BY <1>4 DEF QueueInv, TypeOK
<1>8. \A i \in queue : i.round # key
  BY <1>1, <1>3 DEF TypeOK, QueueInv, RequestsNamed
<1>9. TypeOK'
  <2>1. i0 \in [seed : Seed, round : RoundKeys, slot : Nat]
    BY <1>1
  <2>2. queue' \subseteq [seed : Seed, round : RoundKeys, slot : Nat]
    BY <2>1, <1>3 DEF QueueInv, TypeOK
  <2>3. current_round' \in [StarIds -> Nat]
    BY <1>3, <1>1 DEF QueueInv, TypeOK
  <2>4. round' \in [RoundKeys -> RoundRecord]
    BY <1>4, <1>2 DEF QueueInv, TypeOK
  <2> QED
    BY <2>2, <2>3, <2>4, <1>3 DEF QueueInv, TypeOK, clock
<1>10. RequestsNamed'
  <2>1. ASSUME NEW i \in queue PROVE i.seed[1] = i.round /\ i.round[2] < current_round'[i.round[1]]
    <3>1. i.round[1] \in StarIds /\ i.round[2] \in Nat
      BY DEF QueueInv, TypeOK, RoundKeys, RoundIds
    <3> QED
      BY <3>1, <1>1, <1>3 DEF QueueInv, TypeOK, RequestsNamed
  <2>2. i0.seed[1] = i0.round /\ i0.round[2] < current_round'[i0.round[1]]
    BY <1>1, <1>3 DEF QueueInv, TypeOK
  <2> QED
    BY <2>1, <2>2, <1>3 DEF RequestsNamed
<1>11. OneEach'
  BY <1>3, <1>8 DEF QueueInv, OneEach
<1>12. HashesArePast'
  BY <1>3 DEF QueueInv, HashesArePast, clock
<1>13. ASSUME NEW k \in RoundKeys PROVE RoundOwns(k)'
  <2>1. CASE k = key
    BY <2>1, <1>1, <1>3, <1>5, <1>6, <1>7 DEF RoundOwns, RequestOf
  <2>2. CASE k # key
    BY <2>2, <1>3, <1>7 DEF QueueInv, RoundOwns, RequestOf
  <2> QED
    BY <2>1, <2>2
<1>14. NoneAnswered'
  BY <1>3, <1>5, <1>7, <1>8 DEF QueueInv, TypeOK, NoneAnswered
<1>15. \A t \in StarIds : RoundsFit(t)'
  BY <1>3, <1>4, CounterAdvances
<1> QED
  BY <1>9, <1>10, <1>11, <1>12, <1>13, <1>14, <1>15 DEF QueueInv

\* expire_round.
LEMMA ExpireKeeps ==
  ASSUME QueueInv, NEW key \in RoundKeys, ExpireRound(key)
  PROVE  QueueInv'
<1> DEFINE new == [round[key] EXCEPT !.status = "Expired"]
<1>1. round[key] \in RoundRecord /\ RoundOwns(key)
      /\ key[1] \in StarIds /\ key[2] \in Nat
  BY DEF QueueInv, TypeOK, RoundKeys, RoundIds
<1>2. /\ new \in RoundRecord /\ new.status = "Expired" /\ new.seed = round[key].seed
      /\ new.seed_slot = round[key].seed_slot
      /\ new.requested_slot = round[key].requested_slot
  BY <1>1 DEF RoundRecord
<1>3. /\ round' = [round EXCEPT ![key] = new]
      /\ round[key].status \in {"Open", "Requested"}
      /\ round[key].status = "Open" =>
           /\ key[2] = current_round[key[1]]
           /\ current_round' = [current_round EXCEPT ![key[1]] = @ + 1]
      /\ round[key].status # "Open" => current_round' = current_round
      /\ UNCHANGED <<clock, finished, push_counter, queue, honours_queue>>
  BY DEF ExpireRound, ExpirableAt, AfterSeal
<1> HIDE DEF new
<1>4. \A t \in StarIds : RoundsFit(t)'
  BY <1>2, <1>3, CounterAdvances, CountersStay
<1>5. /\ current_round' \in [StarIds -> Nat]
      /\ \A t \in StarIds : current_round'[t] >= current_round[t]
  BY <1>1, <1>3 DEF QueueInv, TypeOK
<1>6. push_counter' \in [StarIds -> Nat]
  BY <1>3 DEF QueueInv, TypeOK
<1>7. new.seed # <<>> =>
        new.seed[1] = key /\ new.seed_slot < new.requested_slot
  BY <1>1, <1>2 DEF RoundOwns
<1> QED
  BY <1>2, <1>3, <1>4, <1>5, <1>6, <1>7, Rewrite

\* close_round_account.
LEMMA CloseKeeps ==
  ASSUME QueueInv, NEW key \in RoundKeys, CloseRoundAccount(key)
  PROVE  QueueInv'
<1>1. NoRound.status = "Absent" /\ NoRound.seed = <<>> /\ NoRound.randomness = Zero
  BY DEF NoRound
<1>2. /\ round' = [round EXCEPT ![key] = NoRound]
      /\ UNCHANGED <<clock, stars, queue, honours_queue>>
  BY DEF CloseRoundAccount
<1>3. \A t \in StarIds : RoundsFit(t)'
  BY <1>1, <1>2, CountersStay DEF stars
<1>4. /\ push_counter' \in [StarIds -> Nat] /\ current_round' \in [StarIds -> Nat]
      /\ \A t \in StarIds : current_round'[t] >= current_round[t]
  BY <1>2 DEF QueueInv, TypeOK, stars
<1> QED
  BY <1>1, <1>2, <1>3, <1>4, NoRoundTyped, Rewrite DEF stars

\* What the callback leaves behind.
LEMMA Callback ==
  ASSUME QueueInv, NEW key \in RoundKeys, NEW a \in Answers,
         ConsumeRandomness(key, a)
  PROVE  \E new \in RoundRecord :
           /\ round' = [round EXCEPT ![key] = new]
           /\ new.status = "Drawn"
           /\ new.seed # <<>> =>
                new.seed[1] = key /\ new.seed_slot < new.requested_slot
<1> DEFINE new == [round[key] EXCEPT !.status = "Drawn", !.randomness = a]
<1>1. round[key] \in RoundRecord /\ RoundOwns(key)
  BY DEF QueueInv, TypeOK
<1>2. /\ new \in RoundRecord /\ new.status = "Drawn" /\ new.seed = round[key].seed
      /\ new.seed_slot = round[key].seed_slot
      /\ new.requested_slot = round[key].requested_slot
  BY <1>1 DEF RoundRecord
<1>3. round' = [round EXCEPT ![key] = new]
  BY DEF ConsumeRandomness
<1> HIDE DEF new
<1> QED
  BY <1>1, <1>2, <1>3 DEF RoundOwns

\* mock_fulfill_unpinned: the callback without the queue.
LEMMA UnpinnedKeeps ==
  ASSUME QueueInv, NEW key \in RoundKeys, NEW a \in Answers,
         MockFulfillUnpinned(key, a)
  PROVE  QueueInv'
<1>1. /\ ConsumeRandomness(key, a) /\ ~honours_queue
      /\ UNCHANGED <<clock, stars, queue, honours_queue>>
      /\ round[key].status = "Requested"
  BY DEF MockFulfillUnpinned, ConsumeRandomness
<1>2. PICK new \in RoundRecord :
        /\ round' = [round EXCEPT ![key] = new]
        /\ new.status = "Drawn"
        /\ new.seed # <<>> =>
             new.seed[1] = key /\ new.seed_slot < new.requested_slot
  BY <1>1, Callback
<1>3. \A t \in StarIds : RoundsFit(t)'
  BY <1>1, <1>2, CountersStay DEF stars
<1>4. /\ push_counter' \in [StarIds -> Nat] /\ current_round' \in [StarIds -> Nat]
      /\ \A t \in StarIds : current_round'[t] >= current_round[t]
  BY <1>1 DEF QueueInv, TypeOK, stars
<1> QED
  BY <1>1, <1>2, <1>3, <1>4, Rewrite DEF stars

\* mock_fulfill: the only request of the round that is answered leaves.
LEMMA FulfillKeeps ==
  ASSUME QueueInv, NEW i \in queue, NEW a \in Answers,
         ConsumeRandomness(i.round, a), queue' = queue \ {i},
         UNCHANGED <<clock, stars, honours_queue>>
  PROVE  QueueInv'
<1>1. i.round \in RoundKeys /\ round[i.round].status = "Requested"
  BY DEF QueueInv, TypeOK, ConsumeRandomness
<1>2. PICK new \in RoundRecord :
        /\ round' = [round EXCEPT ![i.round] = new]
        /\ new.status = "Drawn"
        /\ new.seed # <<>> =>
             new.seed[1] = i.round /\ new.seed_slot < new.requested_slot
  BY <1>1, Callback
<1>3. \A t \in StarIds : RoundsFit(t)'
  BY <1>1, <1>2, CountersStay DEF stars
<1>4. TypeOK'
  BY <1>1, <1>2 DEF QueueInv, TypeOK, clock, stars
<1>5. RequestsNamed' /\ OneEach' /\ HashesArePast'
  BY DEF QueueInv, RequestsNamed, OneEach, HashesArePast, clock, stars
<1>6. /\ round'[i.round] = new
      /\ \A k \in RoundKeys : k # i.round => round'[k] = round[k]
  BY <1>1, <1>2 DEF QueueInv, TypeOK
<1>7. ASSUME NEW k \in RoundKeys PROVE RoundOwns(k)'
  <2>1. CASE k = i.round
    BY <1>2, <1>6, <2>1 DEF RoundOwns
  <2>2. CASE k # i.round
    BY <1>6, <2>2 DEF QueueInv, RoundOwns, RequestOf
  <2> QED
    BY <2>1, <2>2
<1>8. NoneAnswered'
  BY <1>1, <1>6 DEF QueueInv, TypeOK, NoneAnswered, OneEach
<1> QED
  BY <1>3, <1>4, <1>5, <1>7, <1>8 DEF QueueInv

-----------------------------------------------------------------------------

LEMMA QueueInvInit == Init => QueueInv
<1> SUFFICES ASSUME Init PROVE QueueInv
  OBVIOUS
<1>1. TypeOK
  BY NoRoundTyped DEF Init, TypeOK
<1>2. ASSUME NEW s \in StarIds PROVE RoundsFit(s)
  BY VrfAssumption DEF Init, RoundsFit, RoundKeys, RoundIds, NoRound
<1> QED
  BY <1>1, <1>2 DEF Init, QueueInv, RequestsNamed, OneEach, HashesArePast,
                    RoundOwns, NoneAnswered, NoRound

LEMMA QueueInvStep == QueueInv /\ [Next]_vars => QueueInv'
<1> SUFFICES ASSUME QueueInv, [Next]_vars PROVE QueueInv'
  OBVIOUS
<1>1. CASE UNCHANGED vars
  <2>1. HashesArePast'
    BY <1>1 DEF QueueInv, HashesArePast, vars, clock
  <2> QED
    BY <1>1, <2>1, Idle DEF vars, clock, stars, QueueInv, TypeOK
<1>2. CASE NextSlot
  BY <1>2, NextSlotKeeps
<1>3. CASE \E s \in StarIds, c \in Contributions : RequestPush(s, c)
  BY <1>3, PushKeeps
<1>4. CASE \E k \in RoundKeys, s \in slot_hashes, c \in Crankers : DrawRound(k, s, c)
  BY <1>4, DrawKeeps
<1>5. CASE \E k \in RoundKeys : ExpireRound(k)
  BY <1>5, ExpireKeeps
<1>6. CASE \E k \in RoundKeys : CloseRoundAccount(k)
  BY <1>6, CloseKeeps
<1>7. CASE \E s \in StarIds : FinishStar(s)
  BY <1>7, FinishKeeps
<1>8. CASE \E j \in queue, k \in RoundKeys, a \in Answers :
             MockFulfill(j.seed, k, a)
  BY <1>8, FulfillKeeps DEF MockFulfill
<1>9. CASE \E k \in RoundKeys, a \in Answers : MockFulfillUnpinned(k, a)
  BY <1>9, UnpinnedKeeps
<1> QED
  BY <1>1, <1>2, <1>3, <1>4, <1>5, <1>6, <1>7, <1>8, <1>9 DEF Next

LEMMA QueueInvAlways == Spec => []QueueInv
BY QueueInvInit, QueueInvStep, PTL DEF Spec

\* A round sealed by draw_round keeps its request in the oracle's queue until the
\* oracle answers it, whatever else happens and however the oracle behaves.
THEOREM RequestsAlwaysMatch == Spec => []RequestsMatchRounds
<1>1. QueueInv => RequestsMatchRounds
  BY DEF QueueInv, RequestsMatchRounds, RoundOwns, RequestsNamed, OneEach,
         NoneAnswered
<1> QED
  BY <1>1, QueueInvAlways, PTL

\* round_seed never gives two rounds one seed, and no seed of a round still there
\* is that of a request another round left in the queue.
THEOREM SeedsAreUnique == Spec => []SeedsNeverRepeat
<1>1. QueueInv => SeedsNeverRepeat
  BY DEF QueueInv, SeedsNeverRepeat, RoundOwns, RequestsNamed
<1> QED
  BY <1>1, QueueInvAlways, PTL

-----------------------------------------------------------------------------

\* Actions other than the callbacks leave every round's randomness alone.
LEMMA NothingLands ==
  ASSUME QueueInv, NEW key \in RoundKeys, NEW new,
         round' = [round EXCEPT ![key] = new],
         new.status = "Absent" \/ new.randomness = round[key].randomness
  PROVE  \A k \in RoundKeys : ~Lands(k)
BY DEF QueueInv, TypeOK, Lands

\* The callback for an answered request.
LEMMA AnswerLands ==
  ASSUME QueueInv, NEW i \in queue, NEW a \in Answers, slot > i.slot,
         ConsumeRandomness(i.round, a), queue' = queue \ {i}
  PROVE  \A k \in RoundKeys : Lands(k) => AnswersIt(k)
<1> SUFFICES ASSUME NEW k \in RoundKeys, Lands(k) PROVE AnswersIt(k)
  OBVIOUS
<1>1. i.round \in RoundKeys /\ round[i.round].status = "Requested"
  BY DEF QueueInv, TypeOK, ConsumeRandomness
<1>2. k = i.round
  BY <1>1 DEF Lands, ConsumeRandomness, QueueInv, TypeOK
<1>3. RequestOf(k) \in queue /\ round[k].randomness = Zero
  BY <1>1, <1>2 DEF QueueInv, RoundOwns
<1>4. RequestOf(k) = i
  BY <1>2, <1>3 DEF QueueInv, OneEach, RequestOf
<1>5. round[k].requested_slot = i.slot
  BY <1>4 DEF RequestOf
<1>6. queue \ queue' = {i}
  OBVIOUS
<1> QED
  BY <1>1, <1>2, <1>3, <1>4, <1>5, <1>6 DEF AnswersIt

LEMMA StepAnswers ==
  QueueInv /\ [Next]_vars => [\A k \in RoundKeys : Lands(k) => AnswersIt(k)]_vars
<1> SUFFICES ASSUME QueueInv, Next
             PROVE  \A k \in RoundKeys : Lands(k) => AnswersIt(k)
  OBVIOUS
<1>1. CASE NextSlot
  BY <1>1 DEF NextSlot, Lands
<1>2. ASSUME NEW s \in StarIds, NEW c \in Contributions, RequestPush(s, c)
      PROVE  \A k \in RoundKeys : ~Lands(k)
  <2> DEFINE key == <<s, current_round[s]>>
             entropy == FoldEntropy(c, push_counter[s])
  <2>1. key \in RoundKeys
    <3>1. RoundsFit(s) /\ current_round[s] \in Nat /\ push_counter[s] \in Nat
      BY DEF QueueInv, TypeOK
    <3>2. current_round[s] \in 0..MaxPushes
      BY <3>1, VrfAssumption DEF RoundsFit
    <3> QED
      BY <3>2 DEF RoundKeys, RoundIds
  <2>2. round[key] \in RoundRecord /\ round[key].randomness = Zero
    BY <1>2, <2>1 DEF QueueInv, TypeOK, RoundOwns, RequestPush
  <2>3. round' = [round EXCEPT ![key] = Joined(round[key], entropy)]
    BY <1>2 DEF RequestPush
  <2>4. Joined(round[key], entropy).randomness = Zero
    BY <2>2 DEF Joined, NoRound, RoundRecord
  <2> QED
    BY <2>1, <2>2, <2>3, <2>4, NothingLands
<1>3. ASSUME NEW key \in RoundKeys, NEW s \in slot_hashes, NEW c \in Crankers,
             DrawRound(key, s, c)
      PROVE  \A k \in RoundKeys : ~Lands(k)
  <2> DEFINE seed == RoundSeed(key, round[key].entropy, s, c)
             new == [round[key] EXCEPT !.status = "Requested", !.seed = seed,
                                       !.seed_slot = s, !.requested_slot = slot]
  <2>1. round' = [round EXCEPT ![key] = new]
    BY <1>3 DEF DrawRound
  <2>2. new.randomness = round[key].randomness
    BY DEF QueueInv, TypeOK, RoundRecord
  <2> HIDE DEF new
  <2> QED
    BY <2>1, <2>2, NothingLands
<1>4. ASSUME NEW key \in RoundKeys, ExpireRound(key)
      PROVE  \A k \in RoundKeys : ~Lands(k)
  <2> DEFINE new == [round[key] EXCEPT !.status = "Expired"]
  <2>1. round' = [round EXCEPT ![key] = new]
    BY <1>4 DEF ExpireRound
  <2>2. new.randomness = round[key].randomness
    BY DEF QueueInv, TypeOK, RoundRecord
  <2> HIDE DEF new
  <2> QED
    BY <2>1, <2>2, NothingLands
<1>5. ASSUME NEW key \in RoundKeys, CloseRoundAccount(key)
      PROVE  \A k \in RoundKeys : ~Lands(k)
  BY <1>5, NothingLands DEF CloseRoundAccount, NoRound
<1>6. ASSUME NEW s \in StarIds, FinishStar(s)
      PROVE  \A k \in RoundKeys : ~Lands(k)
  BY <1>6 DEF FinishStar, Lands
<1>7. ASSUME NEW j \in queue, NEW key \in RoundKeys, NEW a \in Answers,
             MockFulfill(j.seed, key, a)
      PROVE  \A k \in RoundKeys : Lands(k) => AnswersIt(k)
  BY <1>7, AnswerLands DEF MockFulfill
<1>8. ASSUME NEW key \in RoundKeys, NEW a \in Answers,
             MockFulfillUnpinned(key, a)
      PROVE  \A k \in RoundKeys : Lands(k) => AnswersIt(k)
  BY <1>8 DEF MockFulfillUnpinned, ConsumeRandomness, Lands, AnswersIt,
              QueueInv, TypeOK, RoundOwns
<1> QED
  BY <1>1, <1>2, <1>3, <1>4, <1>5, <1>6, <1>7, <1>8 DEF Next

\* Randomness reaches a round only as the answer to the request that round filed
\* (consume_randomness, mock_fulfill), and at most once.
THEOREM EveryDrawIsAnAnswer == Spec => DrawsAreAnswers
<1>1. DrawsAreAnswers <=> [][\A k \in RoundKeys : Lands(k) => AnswersIt(k)]_vars
  BY DEF DrawsAreAnswers
<1> QED
  BY <1>1, StepAnswers, QueueInvAlways, PTL DEF Spec

-----------------------------------------------------------------------------
(* The life of a round                                                     *)

\* A round with an account has members, and the one that is open is the one its
\* star's counter names.
RoundsFilled ==
  \A s \in StarIds, r \in RoundIds :
    LET rd == round[<<s, r>>]
    IN /\ rd.status = "Absent" <=> rd.member_count = 0
       /\ rd.status = "Open" => r = current_round[s]

\* The five ways a round moves: its status, its members and its star's counter.
Joins(s, r, new) ==
  LET old == round[<<s, r>>]
  IN /\ ~finished[s] /\ r = current_round[s]
     /\ old.status \in {"Absent", "Open"} /\ new.status = "Open"
     /\ new.member_count = old.member_count + 1
     /\ UNCHANGED current_round

Seals(s, r, new) ==
  LET old == round[<<s, r>>]
  IN /\ ~finished[s] /\ r = current_round[s]
     /\ old.status = "Open" /\ new.status = "Requested"
     /\ new.member_count = old.member_count
     /\ current_round' = AfterSeal(s)

Draws(s, r, new) ==
  LET old == round[<<s, r>>]
  IN /\ old.status = "Requested" /\ new.status = "Drawn"
     /\ new.member_count = old.member_count
     /\ UNCHANGED current_round

Voids(s, r, new) ==
  LET old == round[<<s, r>>]
  IN /\ new.status = "Expired"
     /\ new.member_count = old.member_count
     /\ \/ /\ old.status = "Open" /\ r = current_round[s]
           /\ current_round' = AfterSeal(s)
        \/ old.status = "Requested" /\ UNCHANGED current_round

Sweeps(s, r, new) ==
  LET old == round[<<s, r>>]
  IN /\ old.status # "Absent" /\ new = NoRound
     /\ ~finished[s] =>
          old.status \in {"Drawn", "Expired"} /\ r # current_round[s]
     /\ UNCHANGED current_round

Becomes(s, r, new) ==
  /\ round' = [round EXCEPT ![<<s, r>>] = new]
  /\ UNCHANGED finished
  /\ \/ Joins(s, r, new) \/ Seals(s, r, new) \/ Draws(s, r, new)
     \/ Voids(s, r, new) \/ Sweeps(s, r, new)

OneMoves(s, r) == \E new : Becomes(s, r, new)

\* What a round's key is made of.
LEMMA KeyParts ==
  /\ \A s \in StarIds, r \in RoundIds : <<s, r>> \in RoundKeys
  /\ \A k \in RoundKeys : \E s \in StarIds, r \in RoundIds : k = <<s, r>>
<1>1. \A s \in StarIds, r \in RoundIds : <<s, r>> \in RoundKeys
  BY DEF RoundKeys
<1>2. ASSUME NEW k \in RoundKeys
      PROVE  \E s \in StarIds, r \in RoundIds : k = <<s, r>>
  <2>1. k \in StarIds \X RoundIds
    BY DEF RoundKeys
  <2> QED
    BY <2>1
<1> QED
  BY <1>1, <1>2

\* The star's counter names a round it may have.
LEMMA CounterNames ==
  ASSUME QueueInv, NEW s \in StarIds
  PROVE  current_round[s] \in RoundIds
<1>1. RoundsFit(s) /\ current_round[s] \in Nat /\ push_counter[s] \in Nat
  BY DEF QueueInv, TypeOK
<1> QED
  BY <1>1, VrfAssumption DEF RoundsFit, RoundIds

\* request_push joins.
LEMMA PushJoins ==
  ASSUME QueueInv, RoundsFilled,
         NEW s \in StarIds, NEW c \in Contributions, RequestPush(s, c)
  PROVE  \E r \in RoundIds : OneMoves(s, r)
<1>1. PICK r \in RoundIds : r = current_round[s]
  BY CounterNames
<1> DEFINE key == <<s, r>>
           old == round[key]
           entropy == FoldEntropy(c, push_counter[s])
           new == Joined(old, entropy)
<1>2. old \in RoundRecord
  BY KeyParts DEF QueueInv, TypeOK
<1>3. /\ round' = [round EXCEPT ![key] = new]
      /\ ~finished[s] /\ old.status \in {"Absent", "Open"}
      /\ UNCHANGED <<finished, current_round>>
  BY <1>1 DEF RequestPush
<1>4. old.status = "Absent" <=> old.member_count = 0
  BY DEF RoundsFilled
<1>5. new.status = "Open" /\ new.member_count = old.member_count + 1
  <2>1. CASE old.member_count = 0
    BY <2>1 DEF Joined, NoRound
  <2>2. CASE old.member_count # 0
    BY <1>2, <1>3, <1>4, <2>2 DEF Joined, RoundRecord
  <2> QED
    BY <2>1, <2>2
<1> HIDE DEF new
<1>6. Becomes(s, r, new)
  BY <1>1, <1>3, <1>5 DEF Becomes, Joins
<1> QED
  BY <1>6 DEF OneMoves

\* draw_round seals.
LEMMA DrawSeals ==
  ASSUME QueueInv, NEW key \in RoundKeys, NEW seed_slot, NEW c,
         DrawRound(key, seed_slot, c)
  PROVE  \E s \in StarIds, r \in RoundIds : OneMoves(s, r)
<1>1. PICK s \in StarIds, r \in RoundIds : key = <<s, r>>
  BY KeyParts
<1> DEFINE old == round[key]
           seed == RoundSeed(key, old.entropy, seed_slot, c)
           new == [old EXCEPT !.status = "Requested", !.seed = seed,
                              !.seed_slot = seed_slot, !.requested_slot = slot]
<1>2. /\ round' = [round EXCEPT ![key] = new]
      /\ UNCHANGED finished
      /\ ~finished[s] /\ r = current_round[s] /\ old.status = "Open"
      /\ current_round' = AfterSeal(s)
  BY <1>1 DEF DrawRound
<1>3. new.status = "Requested" /\ new.member_count = old.member_count
  BY DEF QueueInv, TypeOK, RoundRecord
<1> HIDE DEF new
<1>4. Becomes(s, r, new)
  BY <1>1, <1>2, <1>3 DEF Becomes, Seals
<1> QED
  BY <1>4 DEF OneMoves

\* expire_round voids.
LEMMA ExpiryVoids ==
  ASSUME QueueInv, NEW key \in RoundKeys, ExpireRound(key)
  PROVE  \E s \in StarIds, r \in RoundIds : OneMoves(s, r)
<1>1. PICK s \in StarIds, r \in RoundIds : key = <<s, r>>
  BY KeyParts
<1> DEFINE old == round[key]
           new == [old EXCEPT !.status = "Expired"]
<1>2. /\ round' = [round EXCEPT ![key] = new]
      /\ UNCHANGED finished
      /\ \/ /\ old.status = "Open" /\ r = current_round[s]
            /\ current_round' = AfterSeal(s)
         \/ old.status = "Requested" /\ UNCHANGED current_round
  BY <1>1 DEF ExpireRound, ExpirableAt
<1>3. new.status = "Expired" /\ new.member_count = old.member_count
  BY DEF QueueInv, TypeOK, RoundRecord
<1> HIDE DEF new
<1>4. Becomes(s, r, new)
  BY <1>1, <1>2, <1>3 DEF Becomes, Voids
<1> QED
  BY <1>4 DEF OneMoves

\* close_round_account sweeps.
LEMMA CloseSweeps ==
  ASSUME NEW key \in RoundKeys, CloseRoundAccount(key)
  PROVE  \E s \in StarIds, r \in RoundIds : OneMoves(s, r)
<1>1. PICK s \in StarIds, r \in RoundIds : key = <<s, r>>
  BY KeyParts
<1>2. Becomes(s, r, NoRound)
  BY <1>1 DEF CloseRoundAccount, Becomes, Sweeps, stars
<1> QED
  BY <1>2 DEF OneMoves

\* The oracle's callback draws.
LEMMA AnswerDraws ==
  ASSUME QueueInv, NEW key \in RoundKeys, NEW a, ConsumeRandomness(key, a),
         UNCHANGED stars
  PROVE  \E s \in StarIds, r \in RoundIds : OneMoves(s, r)
<1>1. PICK s \in StarIds, r \in RoundIds : key = <<s, r>>
  BY KeyParts
<1> DEFINE old == round[key]
           new == [old EXCEPT !.status = "Drawn", !.randomness = a]
<1>2. /\ round' = [round EXCEPT ![key] = new]
      /\ old.status = "Requested"
      /\ UNCHANGED <<finished, current_round>>
  BY DEF ConsumeRandomness, stars
<1>3. new.status = "Drawn" /\ new.member_count = old.member_count
  BY DEF QueueInv, TypeOK, RoundRecord
<1> HIDE DEF new
<1>4. Becomes(s, r, new)
  BY <1>1, <1>2, <1>3 DEF Becomes, Draws
<1> QED
  BY <1>4 DEF OneMoves

\* A star ends.
OneEnds(s) ==
  /\ ~finished[s] /\ finished' = [finished EXCEPT ![s] = TRUE]
  /\ UNCHANGED <<round, current_round>>

\* Every step moves one round, ends one star, or does neither.
LEMMA RoundSteps ==
  ASSUME QueueInv, RoundsFilled, [Next]_vars
  PROVE  \/ \E s \in StarIds, r \in RoundIds : OneMoves(s, r)
         \/ \E s \in StarIds : OneEnds(s)
         \/ UNCHANGED <<round, current_round, finished>>
<1>1. CASE UNCHANGED vars \/ NextSlot
  BY <1>1 DEF vars, stars, NextSlot
<1>2. CASE \E s \in StarIds, c \in Contributions : RequestPush(s, c)
  BY <1>2, PushJoins
<1>3. CASE \E k \in RoundKeys, s \in slot_hashes, c \in Crankers : DrawRound(k, s, c)
  BY <1>3, DrawSeals
<1>4. CASE \E k \in RoundKeys : ExpireRound(k) \/ CloseRoundAccount(k)
  BY <1>4, ExpiryVoids, CloseSweeps
<1>5. CASE \E s \in StarIds : FinishStar(s)
  BY <1>5 DEF FinishStar, OneEnds
<1>6. ASSUME NEW j \in queue, NEW k \in RoundKeys, NEW a \in Answers,
             MockFulfill(j.seed, k, a)
      PROVE  \E s \in StarIds, r \in RoundIds : OneMoves(s, r)
  BY <1>6, AnswerDraws DEF MockFulfill
<1>7. ASSUME NEW k \in RoundKeys, NEW a \in Answers, MockFulfillUnpinned(k, a)
      PROVE  \E s \in StarIds, r \in RoundIds : OneMoves(s, r)
  BY <1>7, AnswerDraws DEF MockFulfillUnpinned
<1> QED
  BY <1>1, <1>2, <1>3, <1>4, <1>5, <1>6, <1>7 DEF Next

\* What Becomes leaves of the other rounds.
LEMMA OthersStay ==
  ASSUME QueueInv, NEW s \in StarIds, NEW r \in RoundIds, NEW new,
         Becomes(s, r, new)
  PROVE  /\ round'[<<s, r>>] = new
         /\ \A t \in StarIds, q \in RoundIds :
              t # s \/ q # r =>
                /\ round'[<<t, q>>] = round[<<t, q>>]
                /\ q < current_round'[t] <=> q < current_round[t]
         /\ \A t \in StarIds : t # s => current_round'[t] = current_round[t]
<1>1. /\ round' = [round EXCEPT ![<<s, r>>] = new]
      /\ \/ UNCHANGED current_round
         \/ r = current_round[s] /\ current_round' = AfterSeal(s)
  BY DEF Becomes, Joins, Seals, Draws, Voids, Sweeps
<1>2. /\ round'[<<s, r>>] = new
      /\ \A t \in StarIds, q \in RoundIds :
           t # s \/ q # r => round'[<<t, q>>] = round[<<t, q>>]
  BY <1>1, KeyParts DEF QueueInv, TypeOK
<1>3. /\ \A t \in StarIds : t # s => current_round'[t] = current_round[t]
      /\ \/ current_round'[s] = current_round[s]
         \/ r = current_round[s] /\ current_round'[s] = r + 1
  BY <1>1 DEF AfterSeal, QueueInv, TypeOK
<1>4. ASSUME NEW t \in StarIds, NEW q \in RoundIds, t # s \/ q # r
      PROVE  q < current_round'[t] <=> q < current_round[t]
  BY <1>3, <1>4 DEF RoundIds
<1> QED
  BY <1>2, <1>3, <1>4

\* RoundsFilled is kept.
LEMMA FilledStep ==
  ASSUME QueueInv, RoundsFilled, [Next]_vars
  PROVE  RoundsFilled'
<1>1. ASSUME NEW s \in StarIds, NEW r \in RoundIds, NEW new, Becomes(s, r, new)
      PROVE  RoundsFilled'
  <2> SUFFICES ASSUME NEW t \in StarIds, NEW q \in RoundIds
               PROVE  LET rd == round'[<<t, q>>]
                      IN /\ rd.status = "Absent" <=> rd.member_count = 0
                         /\ rd.status = "Open" => q = current_round'[t]
    BY DEF RoundsFilled
  <2>1. /\ round[<<s, r>>].member_count \in Nat
        /\ round[<<s, r>>].status = "Absent" <=> round[<<s, r>>].member_count = 0
    BY KeyParts DEF QueueInv, TypeOK, RoundRecord, RoundsFilled
  <2>2. CASE t = s /\ q = r
    <3>1. round'[<<t, q>>] = new
      BY <1>1, <2>2, OthersStay
    <3>2. /\ new.status = "Absent" <=> new.member_count = 0
          /\ new.status = "Open" => r = current_round'[s]
      BY <1>1, <2>1
         DEF Becomes, Joins, Seals, Draws, Voids, Sweeps, NoRound
    <3> QED
      BY <2>2, <3>1, <3>2
  <2>3. CASE t # s \/ q # r
    <3>1. round'[<<t, q>>] = round[<<t, q>>]
      BY <1>1, <2>3, OthersStay
    <3>2. \/ current_round'[t] = current_round[t]
          \/ t = s /\ r = current_round[s]
      BY <1>1, OthersStay DEF Becomes, Joins, Seals, Draws, Voids, Sweeps
    <3> QED
      BY <2>3, <3>1, <3>2 DEF RoundsFilled
  <2> QED
    BY <2>2, <2>3
<1>2. ASSUME UNCHANGED <<round, current_round>> PROVE RoundsFilled'
  BY <1>2 DEF RoundsFilled
<1> QED
  BY <1>1, <1>2, RoundSteps DEF OneMoves, OneEnds

\* RoundsFilled in every reachable state.
LEMMA FilledAlways == Spec => []RoundsFilled
<1>1. Init => RoundsFilled
  <2>1. NoRound.status = "Absent" /\ NoRound.member_count = 0
    BY DEF NoRound
  <2>2. Init => \A s \in StarIds, r \in RoundIds : round[<<s, r>>] = NoRound
    BY KeyParts DEF Init
  <2> QED
    BY <2>1, <2>2 DEF RoundsFilled
<1>2. QueueInv /\ RoundsFilled /\ [Next]_vars => RoundsFilled'
  BY FilledStep
<1> QED
  BY <1>1, <1>2, QueueInvAlways, PTL DEF Spec

\* RoundLife sees no difference in a round.
RoundSame(s, r) ==
  /\ Stage(s, r)' = Stage(s, r)
  /\ round'[<<s, r>>].member_count = round[<<s, r>>].member_count

\* One round moves as RoundLife says, and nothing else does.
LEMMA MoveImplements ==
  ASSUME QueueInv, RoundsFilled,
         NEW s \in StarIds, NEW r \in RoundIds, NEW new, Becomes(s, r, new)
  PROVE  Batches!Next
<1> DEFINE old == round[<<s, r>>]
<1>1. round'[<<s, r>>] = new
  BY OthersStay
<1>2. UNCHANGED finished
  BY DEF Becomes
<1>3. ASSUME NEW t \in StarIds, NEW q \in RoundIds, t # s \/ q # r
      PROVE  Batches!Same(t, q)
  <2>1. /\ round'[<<t, q>>] = round[<<t, q>>]
        /\ q < current_round'[t] <=> q < current_round[t]
    BY <1>3, OthersStay
  <2>2. RoundSame(t, q)
    BY <1>2, <2>1 DEF RoundSame, Stage
  <2> QED
    BY <2>2 DEF RoundSame, Batches!Same
<1>4. /\ old \in RoundRecord
      /\ current_round[s] \in Nat /\ r \in Nat
      /\ old.status # "Absent" => r <= current_round[s]
      /\ old.status = "Absent" <=> old.member_count = 0
      /\ old.status = "Open" => r = current_round[s]
  <2>1. /\ old \in RoundRecord /\ current_round[s] \in Nat
        /\ RoundsFit(s)
    BY KeyParts DEF QueueInv, TypeOK
  <2>2. /\ r \in Nat
        /\ r > current_round[s] => old.status = "Absent"
    BY <2>1 DEF RoundsFit, RoundIds
  <2>3. /\ old.status = "Absent" <=> old.member_count = 0
        /\ old.status = "Open" => r = current_round[s]
    BY DEF RoundsFilled
  <2> QED
    BY <2>1, <2>2, <2>3
<1>5. /\ old.status \in {"Absent", "Open", "Requested", "Drawn", "Expired"}
      /\ old.member_count \in Nat
  BY <1>4 DEF RoundRecord
<1> HIDE DEF old
<1>6. CASE Joins(s, r, new)
  <2>1. /\ ~finished[s] /\ r = current_round[s] /\ new.status = "Open"
        /\ old.status \in {"Absent", "Open"}
        /\ new.member_count = old.member_count + 1
        /\ UNCHANGED current_round
    BY <1>6 DEF Joins, old
  <2>2. Stage(s, r) \in {"Ahead", "Open"} /\ Stage(s, r)' = "Open"
    BY <1>1, <1>4, <2>1 DEF Stage, old
  <2>3. ASSUME NEW q \in RoundIds, q < r
        PROVE  Stage(s, q) \notin {"Ahead", "Open"}
    <3>1. round[<<s, q>>] \in RoundRecord
      BY KeyParts DEF QueueInv, TypeOK
    <3>2. round[<<s, q>>].status
            \in {"Absent", "Open", "Requested", "Drawn", "Expired"}
      BY <3>1 DEF RoundRecord
    <3>3. q # r
      BY <1>4, <2>3 DEF RoundIds
    <3>4. round[<<s, q>>].status # "Open"
      BY <2>1, <3>3 DEF RoundsFilled
    <3> QED
      BY <2>1, <2>3, <3>2, <3>4 DEF Stage
  <2>4. Batches!Join(s, r)
    BY <1>1, <2>1, <2>2, <2>3 DEF Batches!Join, old
  <2> QED
    BY <1>2, <1>3, <2>4, Zenon DEF Batches!Next, Batches!Move
<1>7. CASE Seals(s, r, new)
  <2>1. /\ ~finished[s] /\ old.status = "Open" /\ new.status = "Requested"
        /\ new.member_count = old.member_count
    BY <1>7 DEF Seals, old
  <2>2. Stage(s, r) = "Open" /\ Stage(s, r)' = "Requested"
    BY <1>1, <2>1 DEF Stage, old
  <2>3. old.member_count > 0
    BY <1>4, <1>5, <2>1
  <2>4. Batches!Seal(s, r)
    BY <1>1, <2>1, <2>2, <2>3 DEF Batches!Seal, old
  <2> QED
    BY <1>2, <1>3, <2>4, Zenon DEF Batches!Next, Batches!Move
<1>8. CASE Draws(s, r, new)
  <2>1. Batches!Draw(s, r)
    BY <1>1, <1>8 DEF Draws, Batches!Draw, Stage
  <2> QED
    BY <1>2, <1>3, <2>1, Zenon DEF Batches!Next, Batches!Move
<1>9. CASE Voids(s, r, new)
  <2>1. Batches!Void(s, r)
    BY <1>1, <1>9 DEF Voids, Batches!Void, Stage
  <2> QED
    BY <1>2, <1>3, <2>1, Zenon DEF Batches!Next, Batches!Move
<1>10. CASE Sweeps(s, r, new)
  <2>1. /\ old.status # "Absent" /\ new = NoRound
        /\ ~finished[s] =>
             old.status \in {"Drawn", "Expired"} /\ r # current_round[s]
        /\ UNCHANGED current_round
    BY <1>10 DEF Sweeps, old
  <2>2. new.status = "Absent" /\ new.member_count = 0
    BY <2>1 DEF NoRound
  <2>3. r < current_round[s] \/ finished[s]
    BY <1>4, <2>1
  <2>4. Stage(s, r) = old.status /\ Stage(s, r)' = "Swept"
    BY <1>1, <1>2, <2>1, <2>2, <2>3 DEF Stage, old
  <2>5. Batches!Sweep(s, r)
    BY <1>1, <1>5, <2>1, <2>2, <2>4 DEF Batches!Sweep
  <2> QED
    BY <1>2, <1>3, <2>5, Zenon DEF Batches!Next, Batches!Move
<1> QED
  BY <1>6, <1>7, <1>8, <1>9, <1>10 DEF Becomes

\* The rounds to come of a star that ends are gone with it.
LEMMA EndImplements ==
  ASSUME QueueInv, NEW s \in StarIds, OneEnds(s)
  PROVE  Batches!Next
<1>1. /\ ~finished[s] /\ finished' = [finished EXCEPT ![s] = TRUE]
      /\ UNCHANGED <<round, current_round>>
  BY DEF OneEnds
<1>2. \A t \in StarIds : finished'[t] <=> t = s \/ finished[t]
  BY <1>1 DEF QueueInv, TypeOK
<1>3. ASSUME NEW t \in StarIds, NEW q \in RoundIds,
             ~(t = s /\ Stage(t, q) = "Ahead")
      PROVE  Batches!Same(t, q)
  <2>1. RoundSame(t, q)
    BY <1>1, <1>2, <1>3 DEF RoundSame, Stage
  <2> QED
    BY <2>1 DEF RoundSame, Batches!Same
<1>4. ASSUME NEW q \in RoundIds, Stage(s, q) = "Ahead"
      PROVE  Stage(s, q)' = "Swept"
  <2>1. round[<<s, q>>] \in RoundRecord
    BY KeyParts DEF QueueInv, TypeOK
  <2>2. round[<<s, q>>].status
          \in {"Absent", "Open", "Requested", "Drawn", "Expired"}
    BY <2>1 DEF RoundRecord
  <2>3. round[<<s, q>>].status = "Absent"
    BY <1>4, <2>2 DEF Stage
  <2> QED
    BY <1>1, <1>2, <2>3 DEF Stage
<1>5. \A t \in StarIds, q \in RoundIds :
        IF t = s /\ Stage(t, q) = "Ahead"
        THEN Stage(t, q)' = "Swept"
             /\ round'[<<t, q>>].member_count = round[<<t, q>>].member_count
        ELSE Batches!Same(t, q)
  BY <1>1, <1>3, <1>4
<1>6. Batches!End(s)
  BY <1>1, <1>5 DEF Batches!End
<1> QED
  BY <1>6, Zenon DEF Batches!Next

\* From the first push to the sweep, through an oracle of either kind, a round
\* lives the life RoundLife promises its members: the one open round takes the
\* stakes, draw_round seals it, the oracle's answer draws it once or expire_round
\* voids it once, and close_round_account sweeps it (request_push, draw_round,
\* consume_randomness, expire_round, close_round_account).
THEOREM RoundsServed == Spec => ServesRounds
<1>1. Init => Batches!Init
  <2> SUFFICES ASSUME Init PROVE Batches!Init
    OBVIOUS
  <2>1. \A r \in RoundIds : ~(r < 0)
    BY DEF RoundIds
  <2>2. \A s \in StarIds, r \in RoundIds :
          /\ round[<<s, r>>] = NoRound
          /\ current_round[s] = 0 /\ ~finished[s]
    BY KeyParts DEF Init
  <2>3. \A s \in StarIds, r \in RoundIds :
          Stage(s, r) = "Ahead" /\ round[<<s, r>>].member_count = 0
    <3>1. NoRound.status = "Absent" /\ NoRound.member_count = 0
      BY DEF NoRound
    <3> QED
      BY <2>1, <2>2, <3>1 DEF Stage
  <2>4. finished = [s \in StarIds |-> FALSE]
    BY DEF Init
  <2> QED
    BY <2>3, <2>4, Zenon DEF Batches!Init
<1>2. QueueInv /\ RoundsFilled /\ [Next]_vars => [Batches!Next]_(Batches!state)
  <2> SUFFICES ASSUME QueueInv, RoundsFilled, [Next]_vars
               PROVE  [Batches!Next]_(Batches!state)
    OBVIOUS
  <2>1. ASSUME UNCHANGED <<round, current_round, finished>>
        PROVE  UNCHANGED Batches!state
    BY <2>1 DEF Batches!state, Stage
  <2> QED
    BY <2>1, RoundSteps, MoveImplements, EndImplements DEF OneMoves
<1> QED
  BY <1>1, <1>2, QueueInvAlways, FilledAlways, PTL
     DEF Spec, ServesRounds, Batches!Spec
=============================================================================

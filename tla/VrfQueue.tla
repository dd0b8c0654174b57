------------------------------- MODULE VrfQueue -------------------------------
(***************************************************************************)
(* A round's draw, from the entropy its first member leaves to the answer  *)
(* the oracle calls back with: vrf.rs and the draw's side of round.rs on   *)
(* one end, the oracle's request queue (mock-magicblock-vrf) on the other. *)
(*                                                                         *)
(* draw_round decides a seed and files a request in one transaction.       *)
(* Later, in a transaction of its own, the oracle takes the request out of *)
(* its queue and calls consume_randomness; when the callback is refused    *)
(* the whole transaction reverts and the request stays queued.  Meanwhile  *)
(* the round may be voided, or swept after its star has finished.          *)
(*                                                                         *)
(* When a round may be sealed and in which order members resolve is        *)
(* Soldust's: here any open round may be sealed and any terminal one may   *)
(* be drained.  A hash is the tuple of what it is a hash of, so it repeats *)
(* exactly if all of that does; a slot has one hash, named by the slot.    *)
(***************************************************************************)
EXTENDS Integers, FiniteSets

CONSTANTS
  Contributions,         \* what a push brings along: its player and client_seed
  Crankers,
  Answers,               \* what the oracle may deliver, the zero word included
  Zero,                  \* thirty-two zero bytes
  MaxStars,              \* bound: stars
  MaxPushes,             \* bound: pushes per star
  MaxSlot,               \* bound: slots
  QUEUE_ITEMS,           \* requests the queue has room for
  SLOT_HASH_LOOKBACK,
  ROUND_EXPIRY_SLOTS

ASSUME VrfAssumption ==
  /\ MaxStars \in Nat /\ MaxPushes \in Nat /\ MaxSlot \in Nat
  /\ QUEUE_ITEMS \in Nat /\ SLOT_HASH_LOOKBACK \in Nat
  /\ ROUND_EXPIRY_SLOTS \in Nat /\ Zero \in Answers

StarIds == 1..MaxStars
RoundIds == 0..MaxPushes
RoundKeys == StarIds \X RoundIds      \* a Round PDA: <<star_id, round_id>>

VARIABLES
  slot,            \* the cluster's slot
  slot_hashes,     \* the slots SlotHashes has an entry for: past, not skipped
  finished,        \* Star: whether it takes no more pushes
  push_counter,    \* Star
  current_round,   \* Star
  round,           \* Round accounts, by key
  queue,           \* requests the oracle has not answered
  honours_queue    \* whether the oracle takes the callback's accounts from its
                   \* queue; mock_fulfill_unpinned is an oracle that does not

stars == <<finished, push_counter, current_round>>
clock == <<slot, slot_hashes>>
vars == <<clock, stars, round, queue, honours_queue>>

NoRound == [status |-> "Absent", member_count |-> 0, entropy |-> <<>>,
            seed |-> <<>>, seed_slot |-> 0, opened_slot |-> 0,
            requested_slot |-> 0, randomness |-> Zero]

-----------------------------------------------------------------------------
(* Seeds (vrf.rs)                                                          *)

FoldEntropy(contribution, push_id) == <<contribution, push_id>>

\* Mutant: the star is not hashed in.
RoundSeed_NoStar(key, entropy, seed_slot, cranker) ==
  <<key[2], entropy, seed_slot, cranker>>

RoundSeed(key, entropy, seed_slot, cranker) ==
  <<key, entropy, seed_slot, cranker>>

\* The slots among the newest SLOT_HASH_LOOKBACK entries.
Recent ==
  {s \in slot_hashes :
     Cardinality({t \in slot_hashes : t > s}) < SLOT_HASH_LOOKBACK}

-----------------------------------------------------------------------------
(* The program                                                             *)

Request(seed, key) == [seed |-> seed, round |-> key, slot |-> slot]

\* The request a sealed round filed.
RequestOf(key) ==
  [seed |-> round[key].seed, round |-> key, slot |-> round[key].requested_slot]

\* Filing a request: a seed in flight is refused, and so is a full queue.
RequestRandomness(seed, key) ==
  /\ \A i \in queue : i.seed # seed
  /\ Cardinality(queue) < QUEUE_ITEMS
  /\ queue' = queue \cup {Request(seed, key)}

\* The push that opens a round leaves the round's entropy; the ones that join
\* add nothing to it.
Joined(rd, entropy) ==
  IF rd.member_count = 0
  THEN [NoRound EXCEPT !.status = "Open", !.member_count = 1,
                       !.opened_slot = slot, !.entropy = entropy]
  ELSE [rd EXCEPT !.member_count = @ + 1]

\* request_push, as far as rounds go.
RequestPush(s, contribution) ==
  LET key == <<s, current_round[s]>>
      entropy == FoldEntropy(contribution, push_counter[s])
  IN /\ ~finished[s]
     /\ round[key].status \in {"Absent", "Open"}
     /\ push_counter[s] < MaxPushes
     /\ push_counter' = [push_counter EXCEPT ![s] = @ + 1]
     /\ round' = [round EXCEPT ![key] = Joined(round[key], entropy)]
     /\ UNCHANGED <<clock, finished, current_round, queue, honours_queue>>

AfterSeal(s) == [current_round EXCEPT ![s] = @ + 1]

DrawRound(key, seed_slot, cranker) ==
  LET seed == RoundSeed(key, round[key].entropy, seed_slot, cranker)
  IN /\ round[key].status = "Open"
     /\ key[2] = current_round[key[1]]
     /\ ~finished[key[1]]
     /\ seed_slot \in Recent
     /\ RequestRandomness(seed, key)
     /\ round' = [round EXCEPT ![key].status = "Requested",
                               ![key].seed = seed,
                               ![key].seed_slot = seed_slot,
                               ![key].requested_slot = slot]
     /\ current_round' = AfterSeal(key[1])
     /\ UNCHANGED <<clock, finished, push_counter, honours_queue>>

\* Mutant: an answer that comes after the round was voided still counts.
ConsumeRandomness_Late(key, randomness) ==
  /\ round[key].status \in {"Requested", "Expired"}
  /\ randomness # Zero
  /\ round' = [round EXCEPT ![key].status = "Drawn",
                            ![key].randomness = randomness]

\* The callback.
ConsumeRandomness(key, randomness) ==
  /\ round[key].status = "Requested"
  /\ randomness # Zero
  /\ round' = [round EXCEPT ![key].status = "Drawn",
                            ![key].randomness = randomness]

ExpirableAt(rd) ==
  CASE rd.status = "Open" -> slot >= rd.opened_slot + ROUND_EXPIRY_SLOTS
    [] rd.status = "Requested" ->
         slot >= rd.requested_slot + ROUND_EXPIRY_SLOTS
    [] OTHER -> FALSE

ExpireRound(key) ==
  /\ ExpirableAt(round[key])
  /\ round[key].status = "Open" => key[2] = current_round[key[1]]
  /\ round' = [round EXCEPT ![key].status = "Expired"]
  /\ current_round' = IF round[key].status = "Open"
                      THEN AfterSeal(key[1])
                      ELSE current_round
  /\ UNCHANGED <<clock, finished, push_counter, queue, honours_queue>>

\* Sweeping a round whose members have all resolved: they settle or refund once
\* it is drawn or voided, and refund in any state once their star has finished.
CloseRoundAccount(key) ==
  /\ round[key].status # "Absent"
  /\ ~finished[key[1]] =>
       /\ round[key].status \in {"Drawn", "Expired"}
       /\ key[2] # current_round[key[1]]
  /\ round' = [round EXCEPT ![key] = NoRound]
  /\ UNCHANGED <<clock, stars, queue, honours_queue>>

\* A star finishes: a roll comes up, or it is called off.
FinishStar(s) ==
  /\ ~finished[s]
  /\ finished' = [finished EXCEPT ![s] = TRUE]
  /\ UNCHANGED <<clock, push_counter, current_round, round, queue,
                 honours_queue>>

-----------------------------------------------------------------------------
(* The oracle                                                              *)

\* Mutant: the request is spent even when the callback is refused.
MockFulfill_SpentAnyway(seed, passed, randomness) ==
  \E i \in queue :
    /\ i.seed = seed
    /\ slot > i.slot
    /\ queue' = queue \ {i}
    /\ \/ passed = i.round /\ ConsumeRandomness(i.round, randomness)
       \/ randomness = Zero /\ UNCHANGED round
    /\ UNCHANGED <<clock, stars, honours_queue>>

\* Mutant: the callback gets the accounts the caller passed.
MockFulfill_CallersAccounts(seed, passed, randomness) ==
  \E i \in queue :
    /\ i.seed = seed
    /\ slot > i.slot
    /\ queue' = queue \ {i}
    /\ ConsumeRandomness(passed, randomness)
    /\ UNCHANGED <<clock, stars, honours_queue>>

\* Answering the request with that seed, in a later slot than it was filed: the
\* accounts passed must be the ones it recorded.
MockFulfill(seed, passed, randomness) ==
  \E i \in queue :
    /\ i.seed = seed
    /\ slot > i.slot
    /\ queue' = queue \ {i}
    /\ passed = i.round
    /\ ConsumeRandomness(i.round, randomness)
    /\ UNCHANGED <<clock, stars, honours_queue>>

\* An oracle program that answers without a look at its queue.
MockFulfillUnpinned(key, randomness) ==
  /\ ~honours_queue
  /\ ConsumeRandomness(key, randomness)
  /\ UNCHANGED <<clock, stars, queue, honours_queue>>

\* The next slot with a block, up to one skipped slot later: SlotHashes then
\* has an entry for the slot that ended.
NextSlot ==
  \E s \in {slot + 1, slot + 2} :
    /\ s <= MaxSlot
    /\ slot' = s
    /\ slot_hashes' = slot_hashes \cup {slot}
    /\ UNCHANGED <<stars, round, queue, honours_queue>>

-----------------------------------------------------------------------------

Init ==
  /\ slot = 1
  /\ slot_hashes = {0}
  /\ finished = [s \in StarIds |-> FALSE]
  /\ push_counter = [s \in StarIds |-> 0]
  /\ current_round = [s \in StarIds |-> 0]
  /\ round = [k \in RoundKeys |-> NoRound]
  /\ queue = {}
  /\ honours_queue \in BOOLEAN

Next ==
  \/ NextSlot
  \/ \E s \in StarIds, c \in Contributions : RequestPush(s, c)
  \/ \E k \in RoundKeys, s \in slot_hashes, c \in Crankers : DrawRound(k, s, c)
  \/ \E k \in RoundKeys : ExpireRound(k)
  \/ \E k \in RoundKeys : CloseRoundAccount(k)
  \/ \E s \in StarIds : FinishStar(s)
  \/ \E i \in queue, k \in RoundKeys, a \in Answers : MockFulfill(i.seed, k, a)
  \/ \E k \in RoundKeys, a \in Answers : MockFulfillUnpinned(k, a)

Spec == Init /\ [][Next]_vars

-----------------------------------------------------------------------------
(* Properties                                                              *)

\* Whatever the oracle does, a sealed round that waits for its draw can get it:
\* its own request is in the queue (draw_round, mock_fulfill).  No round ever
\* has two, and an oracle that honours its queue keeps none it has answered.
RequestsMatchRounds ==
  /\ \A k \in RoundKeys : round[k].status = "Requested" => RequestOf(k) \in queue
  /\ \A i, j \in queue : i.round = j.round \/ i.seed = j.seed => i = j
  /\ honours_queue => \A i \in queue : round[i.round].status # "Drawn"

\* Randomness that reaches a round is the answer to its request.
Lands(k) ==
  round'[k].status # "Absent" /\ round'[k].randomness # round[k].randomness

AnswersIt(k) ==
  /\ round[k].status = "Requested" /\ round[k].randomness = Zero
  /\ honours_queue =>
       /\ queue \ queue' = {RequestOf(k)}
       /\ round[k].requested_slot < slot

\* A draw lands only on a round that asked and had none, never on a voided or a
\* swept one (consume_randomness); from an oracle that honours its queue it uses
\* up the request that round filed, and no other, in a later slot.
DrawsAreAnswers == [][\A k \in RoundKeys : Lands(k) => AnswersIt(k)]_vars

\* No two rounds share a seed, of one star or of two, even when their entropies
\* agree; nor does a request left behind by a swept round share one; and a seed
\* rests on a block already final when its round was sealed (round_seed).
SeedsNeverRepeat ==
  LET Sealed == {k \in RoundKeys : round[k].seed # <<>>}
  IN /\ \A k, l \in Sealed : round[k].seed = round[l].seed => k = l
     /\ \A i \in queue, k \in Sealed : i.seed = round[k].seed => i.round = k
     /\ \A k \in Sealed : round[k].seed_slot < round[k].requested_slot

\* Seen from the rounds, with slots, seeds and requests left out.
Stage(s, r) ==
  IF round[<<s, r>>].status # "Absent" THEN round[<<s, r>>].status
  ELSE IF r < current_round[s] \/ finished[s] THEN "Swept"
  ELSE "Ahead"

Batches == INSTANCE RoundLife WITH
          Stars <- StarIds,
          Rounds <- RoundIds,
          stage <- [s \in StarIds |-> [r \in RoundIds |-> Stage(s, r)]],
          members <- [s \in StarIds |->
                        [r \in RoundIds |-> round[<<s, r>>].member_count]],
          over <- finished

\* Through an oracle of either kind a round lives as RoundLife says, which is how
\* it lives in Soldust as well: both modules speak of the same rounds.
ServesRounds == Batches!Spec

=============================================================================

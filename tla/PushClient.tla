----------------------------- MODULE PushClient -----------------------------
(***************************************************************************)
(* A player's client (scripts/push.ts) that asks for one push, through the *)
(* RPC proxy (scripts/rpc-proxy.ts).                                       *)
(*                                                                         *)
(* A request names the round it wants to join, and is refused once that    *)
(* round is sealed; so the client reads the round, signs, sends, and on an *)
(* error decides whether to sign again.  The proxy sends the same signed   *)
(* bytes up to three times; a node that has processed them once refuses    *)
(* them from then on.  What a node has accepted may land at once, later or *)
(* never, and any answer may be lost.                                      *)
(*                                                                         *)
(* Of the game the client meets only its star's round counter and the      *)
(* account its push would have, which is created by the request, settled   *)
(* some time after its round was sealed, and then swept by a crank.        *)
(***************************************************************************)
EXTENDS Integers, FiniteSets

CONSTANTS
  MAX_ATTEMPTS,       \* transactions the client signs for one push
  UPSTREAM_ATTEMPTS,  \* times the proxy sends one body
  MaxRound            \* bound: star.current_round

ASSUME PushClientAssumption ==
  /\ MAX_ATTEMPTS \in Nat \ {0} /\ UPSTREAM_ATTEMPTS \in Nat \ {0}
  /\ MaxRound \in Nat

Attempts == 1..MAX_ATTEMPTS
Absent == [status |-> "absent", round |-> 0]

VARIABLES
  current_round,  \* Star.current_round
  push,           \* per client seed the PendingPush account it addresses
  inflight,       \* transactions a node has taken and that have not landed yet
  processed,      \* attempts whose transaction has landed, failed or not
  client,         \* push.ts
  sends,          \* times the proxy has sent the body it holds
  staked,         \* history: attempts whose transaction took the stake
  swept           \* history: pushes of this player resolved and swept

chain == <<current_round, push, inflight, processed, staked, swept>>
vars == <<chain, client, sends>>

\* attempt also names the transaction signed in it; round is what it pins.
Init ==
  /\ current_round = 0
  /\ push = [n \in Attempts |-> Absent]
  /\ inflight = {} /\ processed = {}
  /\ client = [pc |-> "read", attempt |-> 1, round |-> 0, landed |-> FALSE]
  /\ sends = 0
  /\ staked = {} /\ swept = 0

-----------------------------------------------------------------------------
(* The program                                                             *)

\* Mutant: a fresh seed for every transaction.
SeedOf_Fresh(attempt) == attempt

\* clientSeed: drawn once, before the first attempt.
SeedOf(attempt) == 1

Tx(attempt, round) == [attempt |-> attempt, round |-> round]

\* request_push takes it: the round is still the one to join, and init finds the
\* address of the push free.
Acceptable(tx) ==
  /\ tx.round = current_round
  /\ push[SeedOf(tx.attempt)] = Absent

\* A transaction lands: it takes the stake, or fails.
Land(tx) ==
  /\ tx \in inflight
  /\ inflight' = inflight \ {tx}
  /\ processed' = processed \cup {tx.attempt}
  /\ IF Acceptable(tx)
     THEN /\ push' = [push EXCEPT ![SeedOf(tx.attempt)] =
                        [status |-> "pending", round |-> tx.round]]
          /\ staked' = staked \cup {tx.attempt}
     ELSE UNCHANGED <<push, staked>>
  /\ UNCHANGED <<current_round, swept, client, sends>>

\* ...or is dropped, or its blockhash gets too old.
Expire(tx) ==
  /\ tx \in inflight
  /\ inflight' = inflight \ {tx}
  /\ UNCHANGED <<current_round, push, processed, staked, swept, client, sends>>

\* draw_round seals the round, whoever its members are.
SealRound ==
  /\ current_round < MaxRound
  /\ current_round' = current_round + 1
  /\ UNCHANGED <<push, inflight, processed, staked, swept, client, sends>>

\* resolve_push, once the push's round is sealed and has its draw.
ResolvePush(n) ==
  /\ push[n].status = "pending" /\ push[n].round < current_round
  /\ push' = [push EXCEPT ![n].status = "resolved"]
  /\ UNCHANGED <<current_round, inflight, processed, staked, swept, client, sends>>

\* close_push: the address is free again.
ClosePush(n) ==
  /\ push[n].status = "resolved"
  /\ push' = [push EXCEPT ![n] = Absent]
  /\ swept' = swept + 1
  /\ UNCHANGED <<current_round, inflight, processed, staked, client, sends>>

-----------------------------------------------------------------------------
(* The client and the proxy                                                *)

Signed == Tx(client.attempt, client.round)

\* The star, read again for every attempt, and a transaction signed for its round.
ReadStar ==
  /\ client.pc = "read"
  /\ client' = [client EXCEPT !.pc = "send", !.round = current_round]
  /\ sends' = 0
  /\ UNCHANGED chain

\* What the node says of the body: taken, refused, or nothing that the proxy hears
\* before its time-out.
Answer(pc) ==
  /\ sends' = sends + 1
  /\ client' \in {[client EXCEPT !.pc = pc], client}

\* forward: a node simulates the transaction and takes it, or refuses it as it
\* would fail or has been processed before.  A refusal is an answer like any
\* other and is passed on; a missing one is a reason to send again.
Forward ==
  /\ client.pc = "send" /\ sends < UPSTREAM_ATTEMPTS
  /\ IF Acceptable(Signed) /\ client.attempt \notin processed
     THEN /\ inflight' = inflight \cup {Signed}
          /\ Answer("confirm")
     ELSE /\ Answer("failed")
          /\ UNCHANGED inflight
  /\ UNCHANGED <<current_round, push, processed, staked, swept>>

\* forward: throttled, or no node was reached.
Throttled ==
  /\ client.pc = "send" /\ sends < UPSTREAM_ATTEMPTS
  /\ sends' = sends + 1
  /\ UNCHANGED <<chain, client>>

\* forward: the last error is what the client gets.
GiveUp ==
  /\ client.pc = "send" /\ sends = UPSTREAM_ATTEMPTS
  /\ client' = [client EXCEPT !.pc = "failed"]
  /\ UNCHANGED <<chain, sends>>

\* rpc() waits for the transaction: it hears that it landed, or that it failed, or
\* stops waiting.
Confirm ==
  /\ client.pc = "confirm"
  /\ \/ /\ client.attempt \in staked
        /\ client' = [client EXCEPT !.pc = "reported"]
     \/ client' = [client EXCEPT !.pc = "failed"]
  /\ UNCHANGED <<chain, sends>>

\* The catch, first read: is there a push at this address?
ReadLanded ==
  /\ client.pc = "failed"
  /\ client' = [client EXCEPT !.pc = "landed",
                              !.landed = push[SeedOf(client.attempt)] # Absent]
  /\ UNCHANGED <<chain, sends>>

\* Mutant: sign again after any error that left no push.
MaySignAgain_Anyway == ~client.landed /\ client.attempt < MAX_ATTEMPTS

\* Retrying is for a round that was sealed meanwhile, and only if nothing landed.
MaySignAgain ==
  /\ ~client.landed
  /\ current_round # client.round
  /\ client.attempt < MAX_ATTEMPTS

\* The catch, second read: has the round moved?
ReadMoved ==
  /\ client.pc = "landed"
  /\ client' = IF MaySignAgain
               THEN [client EXCEPT !.pc = "read", !.attempt = @ + 1]
               ELSE [client EXCEPT !.pc = "thrown"]
  /\ UNCHANGED <<chain, sends>>

Next ==
  \/ \E tx \in inflight : Land(tx) \/ Expire(tx)
  \/ SealRound
  \/ \E n \in Attempts : ResolvePush(n) \/ ClosePush(n)
  \/ ReadStar \/ Forward \/ Throttled \/ GiveUp \/ Confirm
  \/ ReadLanded \/ ReadMoved

Spec == Init /\ [][Next]_vars

-----------------------------------------------------------------------------

\* Of all the transactions signed for one push, whatever was lost, repeated or
\* delayed, the program would still take at most one.
OneCanLand ==
  \A tx, other \in inflight : Acceptable(tx) /\ Acceptable(other) => tx = other

\* The player never has two stakes in play for the one push: each stake after the
\* first was taken after the one before it had been resolved and swept.
StakesNeverOverlap == Cardinality(staked) <= 1 + swept

\* push.ts:145-148: "Retrying is safe only because nothing landed - checked below,
\* not assumed, since a double push would cost real stake."  A push that landed,
\* was resolved and was swept while its confirmation was awaited leaves the same
\* empty address as one that never landed, and the client signs again.
StakedOnce == Cardinality(staked) <= 1
=============================================================================

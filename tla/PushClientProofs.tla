-------------------------- MODULE PushClientProofs --------------------------
(***************************************************************************)
(* What a retrying client can do to its player, for every number of        *)
(* attempts, of sends and of rounds.  PushInv is inductive: the            *)
(* transactions a client has signed name rounds that grow from attempt to  *)
(* attempt, and every stake but the one in play has been swept.            *)
(***************************************************************************)
EXTENDS PushClient, FiniteSetTheorems, TLAPS

Tr == [attempt : Attempts, round : Nat]

TypeOK ==
  /\ current_round \in Nat
  /\ push \in [Attempts -> [status : {"absent", "pending", "resolved"}, round : Nat]]
  /\ inflight \subseteq Tr
  /\ processed \subseteq Attempts
  /\ client \in [pc : {"read", "send", "confirm", "failed", "landed", "thrown",
                       "reported"},
                 attempt : Attempts, round : Nat, landed : BOOLEAN]
  /\ sends \in Nat
  /\ staked \subseteq Attempts
  /\ swept \in Nat

\* What is in flight was signed in this attempt or in an earlier one, for a round
\* that grows with the attempt, and has not been processed.
SignedInOrder ==
  /\ client.round <= current_round
  /\ \A tx \in inflight :
       /\ tx.attempt <= client.attempt
       /\ tx.attempt \notin processed
       /\ tx.attempt = client.attempt =>
            tx.round = client.round /\ client.pc # "read"
       /\ tx.attempt < client.attempt =>
            IF client.pc = "read" THEN tx.round < current_round
            ELSE tx.round < client.round
  /\ \A tx, other \in inflight :
       tx.attempt = other.attempt \/ tx.round = other.round => tx = other

\* Every stake but the one in play has been swept.
StakesCounted ==
  /\ staked \subseteq processed
  /\ \A n \in Attempts : n # 1 => push[n] = Absent
  /\ Cardinality(staked) = swept + (IF push[1] = Absent THEN 0 ELSE 1)

PushInv == TypeOK /\ SignedInOrder /\ StakesCounted

-----------------------------------------------------------------------------

\* The first push is signed for with nothing in flight and nothing staked.
LEMMA InitPush == Init => PushInv
<1> SUFFICES ASSUME Init PROVE PushInv
  OBVIOUS
<1> USE PushClientAssumption DEF Attempts, Absent
<1>1. TypeOK
  BY DEF Init, TypeOK, Tr
<1>2. SignedInOrder
  BY DEF Init, SignedInOrder
<1>3. StakesCounted
  BY FS_EmptySet DEF Init, StakesCounted
<1> QED BY <1>1, <1>2, <1>3 DEF PushInv

\* Landing takes a stake only where there is none in play.
LEMMA LandPush ==
  ASSUME PushInv, NEW tx \in inflight, Land(tx) PROVE PushInv'
<1> USE PushClientAssumption DEF PushInv, TypeOK
<1>1. tx \in Tr /\ tx.attempt \in Attempts /\ tx.round \in Nat
  BY DEF Tr
<1>2. 1 \in Attempts
  BY DEF Attempts
<1>3. /\ current_round' = current_round /\ client' = client
      /\ sends' = sends /\ swept' = swept
      /\ inflight' = inflight \ {tx} /\ processed' = processed \cup {tx.attempt}
  BY DEF Land
<1>4. SignedInOrder'
  <2>1. \A u \in inflight' : u \in inflight /\ u.attempt # tx.attempt
    BY <1>3 DEF SignedInOrder
  <2> QED BY <1>3, <2>1 DEF SignedInOrder
<1>5. CASE Acceptable(tx)
  <2>1. /\ push' = [push EXCEPT ![1] = [status |-> "pending", round |-> tx.round]]
        /\ staked' = staked \cup {tx.attempt} /\ push[1] = Absent
    BY <1>5 DEF Land, Acceptable, SeedOf
  <2>2. tx.attempt \notin staked
    BY DEF SignedInOrder, StakesCounted
  <2>3. IsFiniteSet(staked)
    <3>1. IsFiniteSet(Attempts)
      BY FS_Interval DEF Attempts
    <3> QED BY <3>1, FS_Subset
  <2>4. Cardinality(staked') = Cardinality(staked) + 1
    BY <2>1, <2>2, <2>3, FS_AddElement
  <2>5. push' \in [Attempts -> [status : {"absent", "pending", "resolved"}, round : Nat]]
    BY <1>1, <2>1
  <2>6. TypeOK'
    BY <1>1, <1>3, <2>1, <2>5
  <2>7. push'[1] # Absent /\ \A n \in Attempts : n # 1 => push'[n] = Absent
    BY <1>2, <2>1 DEF StakesCounted, Absent
  <2>8. Cardinality(staked) = swept
    BY <2>1 DEF StakesCounted
  <2>9. StakesCounted'
    BY <1>3, <2>1, <2>4, <2>7, <2>8 DEF StakesCounted
  <2> QED BY <1>4, <2>6, <2>9
<1>6. CASE ~Acceptable(tx)
  <2>1. push' = push /\ staked' = staked
    BY <1>6 DEF Land
  <2>2. TypeOK'
    BY <1>1, <1>3, <2>1
  <2>3. StakesCounted'
    BY <1>3, <2>1 DEF StakesCounted
  <2> QED BY <1>4, <2>2, <2>3
<1> QED BY <1>5, <1>6

\* The client only ever adds the transaction of the attempt it is in, for a round
\* none before it was signed for.
LEMMA ClientPush ==
  ASSUME PushInv,
         ReadStar \/ Forward \/ Throttled \/ GiveUp \/ Confirm \/ ReadLanded \/ ReadMoved
  PROVE  PushInv'
<1> USE PushClientAssumption DEF PushInv, TypeOK
<1>1. /\ push' = push /\ staked' = staked /\ swept' = swept
      /\ processed' = processed /\ current_round' = current_round
  BY DEF ReadStar, Forward, Throttled, GiveUp, Confirm, ReadLanded, ReadMoved, chain
<1>2. StakesCounted'
  BY <1>1 DEF StakesCounted
<1>3. CASE ReadStar
  <2>1. TypeOK'
    BY <1>3 DEF ReadStar, chain
  <2>2. SignedInOrder'
    BY <1>3 DEF ReadStar, chain, SignedInOrder, Tr
  <2> QED BY <1>2, <2>1, <2>2
<1>4. CASE Forward
  <2>1. sends' \in Nat /\ client.pc = "send"
    BY <1>4 DEF Forward, Answer
  <2>2. /\ client' \in {[client EXCEPT !.pc = "confirm"],
                        [client EXCEPT !.pc = "failed"], client}
    BY <1>4 DEF Forward, Answer
  <2>3. client'.attempt = client.attempt /\ client'.round = client.round
    BY <2>2
  <2>4. client'.pc # "read"
    BY <2>1, <2>2
  <2>5. \/ inflight' = inflight
        \/ /\ inflight' = inflight \cup {Signed}
           /\ client.attempt \notin processed
    BY <1>4 DEF Forward
  <2>6. Signed \in Tr /\ Signed.attempt = client.attempt /\ Signed.round = client.round
    BY DEF Signed, Tx, Tr
  <2>7. TypeOK'
    BY <1>1, <2>1, <2>2, <2>5, <2>6
  <2>8. \A tx \in inflight :
          tx.attempt = client.attempt \/ tx.round = client.round => tx = Signed
    <3> SUFFICES ASSUME NEW tx \in inflight,
                        tx.attempt = client.attempt \/ tx.round = client.round
                 PROVE  tx = Signed
      OBVIOUS
    <3>1. tx \in Tr /\ tx.attempt \in Nat /\ tx.round \in Nat
      BY DEF Tr, Attempts
    <3>2. tx.attempt = client.attempt /\ tx.round = client.round
      BY <2>1, <3>1 DEF SignedInOrder, Attempts
    <3> QED BY <3>1, <3>2 DEF Signed, Tx, Tr
  <2>9. \A tx \in inflight' : tx \in inflight \/ tx = Signed
    BY <2>5
  <2>10. \A tx \in inflight' :
           /\ tx.attempt <= client.attempt
           /\ tx.attempt \notin processed
           /\ tx.attempt = client.attempt => tx.round = client.round
           /\ tx.attempt < client.attempt => tx.round < client.round
    <3> SUFFICES ASSUME NEW tx \in inflight'
                 PROVE  /\ tx.attempt <= client.attempt
                        /\ tx.attempt \notin processed
                        /\ tx.attempt = client.attempt => tx.round = client.round
                        /\ tx.attempt < client.attempt => tx.round < client.round
      OBVIOUS
    <3>1. CASE tx \in inflight
      BY <2>1, <3>1 DEF SignedInOrder
    <3>2. CASE tx \notin inflight
      <4>1. tx = Signed /\ client.attempt \notin processed
        BY <2>5, <3>2
      <4> QED BY <2>6, <4>1 DEF Attempts
    <3> QED BY <3>1, <3>2
  <2>11. \A tx, other \in inflight' :
           tx.attempt = other.attempt \/ tx.round = other.round => tx = other
    BY <2>6, <2>8, <2>9 DEF SignedInOrder
  <2>12. SignedInOrder'
    BY <1>1, <2>3, <2>4, <2>10, <2>11 DEF SignedInOrder
  <2> QED BY <1>2, <2>7, <2>12
<1>5. CASE Throttled \/ GiveUp \/ Confirm \/ ReadLanded
  <2>1. inflight' = inflight /\ sends' \in Nat
    BY <1>5 DEF Throttled, GiveUp, Confirm, ReadLanded, chain
  <2>2. /\ client' \in [pc : {"send", "confirm", "failed", "landed", "reported"},
                       attempt : {client.attempt}, round : {client.round},
                       landed : BOOLEAN]
        /\ client.pc # "read"
    <3>1. CASE Throttled
      BY <3>1 DEF Throttled
    <3>2. CASE GiveUp
      BY <3>2 DEF GiveUp
    <3>3. CASE Confirm
      BY <3>3 DEF Confirm
    <3>4. CASE ReadLanded
      <4>1. (push[SeedOf(client.attempt)] # Absent) \in BOOLEAN
        OBVIOUS
      <4> QED BY <3>4, <4>1 DEF ReadLanded
    <3> QED BY <1>5, <3>1, <3>2, <3>3, <3>4
  <2>3. TypeOK'
    BY <1>1, <2>1, <2>2
  <2>4. SignedInOrder'
    BY <1>1, <2>1, <2>2 DEF SignedInOrder
  <2> QED BY <1>2, <2>3, <2>4
<1>6. CASE ReadMoved
  <2>1. inflight' = inflight /\ sends' = sends /\ client.pc = "landed"
    BY <1>6 DEF ReadMoved, chain
  <2>2. CASE MaySignAgain
    <3>1. client' = [client EXCEPT !.pc = "read", !.attempt = client.attempt + 1]
      BY <1>6, <2>2 DEF ReadMoved
    <3>2. client.attempt + 1 \in Attempts
      BY <2>2 DEF MaySignAgain, Attempts
    <3>3. TypeOK'
      BY <1>1, <2>1, <3>1, <3>2
    <3>4. client.round < current_round
      BY <2>2 DEF MaySignAgain, SignedInOrder
    <3>5. \A tx \in inflight :
            tx.attempt < client.attempt + 1 /\ tx.round < current_round
      BY <2>1, <3>4 DEF SignedInOrder, Attempts, Tr
    <3>6. SignedInOrder'
      BY <1>1, <2>1, <3>1, <3>5 DEF SignedInOrder, Attempts, Tr
    <3> QED BY <1>2, <3>3, <3>6
  <2>3. CASE ~MaySignAgain
    <3>1. client' = [client EXCEPT !.pc = "thrown"]
      BY <1>6, <2>3 DEF ReadMoved
    <3>2. TypeOK'
      BY <1>1, <2>1, <3>1
    <3>3. SignedInOrder'
      BY <1>1, <2>1, <3>1 DEF SignedInOrder
    <3> QED BY <1>2, <3>2, <3>3
  <2> QED BY <2>2, <2>3
<1> QED BY <1>3, <1>4, <1>5, <1>6

\* Every step of the client, of the proxy and of the program keeps PushInv.
LEMMA NextPush == PushInv /\ [Next]_vars => PushInv'
<1> SUFFICES ASSUME PushInv, [Next]_vars PROVE PushInv'
  OBVIOUS
<1> USE PushClientAssumption
<1>1. CASE \E tx \in inflight : Land(tx)
  BY <1>1, LandPush
<1>2. CASE \E tx \in inflight : Expire(tx)
  BY <1>2 DEF Expire, PushInv, TypeOK, SignedInOrder, StakesCounted
<1>3. CASE SealRound
  <2>1. TypeOK' /\ StakesCounted'
    BY <1>3 DEF SealRound, PushInv, TypeOK, StakesCounted
  <2>2. SignedInOrder'
    BY <1>3 DEF SealRound, PushInv, TypeOK, SignedInOrder, Tr
  <2> QED BY <2>1, <2>2 DEF PushInv
<1>4. ASSUME NEW n \in Attempts, ResolvePush(n) PROVE PushInv'
  <2> USE <1>4 DEF PushInv, TypeOK, ResolvePush
  <2>1. n = 1 /\ push[1] # Absent
    BY DEF StakesCounted, Absent
  <2>2. push' = [push EXCEPT ![1] = [push[1] EXCEPT !.status = "resolved"]]
    BY <2>1
  <2>3. TypeOK'
    BY <2>1, <2>2
  <2>4. push'[1] # Absent /\ \A m \in Attempts : m # 1 => push'[m] = Absent
    BY <2>1, <2>2 DEF StakesCounted, Absent
  <2>5. StakesCounted'
    BY <2>1, <2>4 DEF StakesCounted
  <2>6. SignedInOrder'
    BY DEF SignedInOrder
  <2> QED BY <2>3, <2>5, <2>6
<1>5. ASSUME NEW n \in Attempts, ClosePush(n) PROVE PushInv'
  <2> USE <1>5 DEF PushInv, TypeOK, ClosePush
  <2>1. n = 1 /\ push[1] # Absent
    BY DEF StakesCounted, Absent
  <2>2. push'[1] = Absent /\ \A m \in Attempts : m # 1 => push'[m] = Absent
    BY <2>1 DEF StakesCounted
  <2>3. TypeOK'
    BY DEF Absent
  <2>4. StakesCounted'
    BY <2>1, <2>2 DEF StakesCounted
  <2>5. SignedInOrder'
    BY DEF SignedInOrder
  <2> QED BY <2>3, <2>4, <2>5
<1>6. CASE \/ ReadStar \/ Forward \/ Throttled \/ GiveUp \/ Confirm
           \/ ReadLanded \/ ReadMoved
  BY <1>6, ClientPush
<1>7. CASE UNCHANGED vars
  BY <1>7 DEF vars, chain, PushInv, TypeOK, SignedInOrder, StakesCounted
<1> QED BY <1>1, <1>2, <1>3, <1>4, <1>5, <1>6, <1>7 DEF Next

\* The invariant holds in every state the client, the proxy and the chain can reach.
THEOREM PushInvariant == Spec => []PushInv
<1> QED BY InitPush, NextPush, PTL DEF Spec

\* However many transactions a client signs for one push, and whatever the proxy
\* and the network do with them, the program would take at most one of those still
\* in flight.
THEOREM OnlyOneCanLand == Spec => []OneCanLand
<1>1. PushInv => OneCanLand
  BY DEF PushInv, SignedInOrder, OneCanLand, Acceptable
<1> QED BY <1>1, PushInvariant, PTL

\* The player has at most one stake in play for one push: any other has been
\* resolved and its account swept.
THEOREM StakesAreApart == Spec => []StakesNeverOverlap
<1>1. PushInv => StakesNeverOverlap
  <2> SUFFICES ASSUME PushInv PROVE StakesNeverOverlap
    OBVIOUS
  <2>1. swept \in Nat
    BY DEF PushInv, TypeOK
  <2>2. Cardinality(staked) = swept + (IF push[1] = Absent THEN 0 ELSE 1)
    BY DEF PushInv, StakesCounted
  <2> QED BY <2>1, <2>2 DEF StakesNeverOverlap
<1> QED BY <1>1, PushInvariant, PTL
=============================================================================

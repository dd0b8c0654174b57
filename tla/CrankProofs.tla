----------------------------- MODULE CrankProofs -----------------------------
(***************************************************************************)
(* The crank's wakes, and what its passes send, for any number of stars,   *)
(* pushes and failing calls.                                               *)
(***************************************************************************)
EXTENDS Crank, FiniteSetTheorems, WellFoundedInduction, TLAPS

-----------------------------------------------------------------------------
(* Waking                                                                  *)

\* What every step of the game does to the crank's waking: it wakes it, or its
\* event is lost.
LEMMA EmitsKeeps ==
  ASSUME NoWakeLost, Emits
  PROVE  NoWakeLost'
  BY Zenon DEF NoWakeLost, Emits, Wake, loop, None

\* No step forgets a wake: it is waiting in the timer or in the queue, or the
\* tick that begins takes it along.
LEMMA WakeStep == NoWakeLost /\ [Next]_vars => NoWakeLost'
<1> SUFFICES ASSUME NoWakeLost, [Next]_vars PROVE NoWakeLost'
  OBVIOUS
<1>1. CASE UNCHANGED loop
  BY <1>1 DEF NoWakeLost, loop
<1>2. CASE Emits
  BY <1>2, EmitsKeeps
<1>3. CASE Others
  <2>1. Emits \/ UNCHANGED loop
    BY <1>3 DEF Others, Feed, RequestPush, GoQuiet, CollapseStalled, CreateNext,
                SealRounds, MoveRounds, Settle
  <2> QED
    BY <1>1, <1>2, <2>1
<1>4. CASE Poll
  BY <1>4 DEF Poll, Wake, NoWakeLost, None
<1>5. CASE Fire
  BY <1>5 DEF Fire, Call, NoWakeLost
<1>6. CASE Tick \/ Throw
  <2>1. CASE End
    BY <2>1 DEF End, NoWakeLost
  <2>2. CASE ~End
    <3>1. Emits \/ UNCHANGED loop
      BY <1>6, <2>2
         DEF Tick, Throw, AdvanceRounds, FetchPushes, LoadStar, SettleHead,
             ReadStalled, SendCollapse, ReadFull, SendCreate,
             SealRounds, MoveRounds, Settle, CollapseStalled, CreateNext
    <3> QED
      BY <1>1, <1>2, <3>1
  <2> QED
    BY <2>1, <2>2
<1>7. CASE UNCHANGED vars
  BY <1>1, <1>7 DEF vars
<1> QED
  BY <1>3, <1>4, <1>5, <1>6, <1>7 DEF Next

\* Nothing that woke the crank is forgotten: until a tick begins after it, there
\* is a timer or a queued tick for it (crank.ts: wake, tick and its finally).
THEOREM WakesNeverLost == Spec => []NoWakeLost
<1>1. Init => NoWakeLost
  BY DEF Init, NoWakeLost
<1> QED
  BY <1>1, WakeStep, PTL DEF Spec

-----------------------------------------------------------------------------
(* What a pass sends                                                       *)

\* What the accounts are; no push and no refund has touched a star to come.  What
\* a line holds plays no part here.
ChainInv ==
  /\ current \in Nat
  /\ star \in [Stars -> [status : {"unborn", "alive", "finished"}, mass : Nat,
                         cursor : Nat, fed : BOOLEAN, quiet : BOOLEAN]]
  /\ DOMAIN line = Stars
  /\ \A s \in Stars : \E T : line[s] \in Seq(T)
  /\ \A s \in Stars : s > current => star[s].cursor = 0 /\ Len(line[s]) = 0
                                      /\ star[s].status = "unborn"

\* The program only goes forward, whoever moves it.
Onward ==
  \A s \in Stars : /\ star[s].cursor <= star'[s].cursor
                   /\ Len(line[s]) <= Len(line'[s])
                   /\ star[s].status = "finished" => star'[s].status = "finished"

Fields == {"pc", "reason", "pending", "star", "finished", "expected", "cache",
           "resolved"}

\* With a push a tick has fetched every push before it that is still in line; and
\* a pass expects no push whose turn has not come, unless it went on past one that
\* failed.
PassInv ==
  /\ DOMAIN tick = Fields
  /\ errors \in Nat
  /\ tick.pending \subseteq Stars \X Nat
  /\ \A p \in tick.pending :
       /\ p[2] <= Len(line[p[1]])
       /\ \A n \in Nat : star[p[1]].cursor < n /\ n < p[2]
                           => <<p[1], n>> \in tick.pending
  /\ tick.pc = "pass" =>
       /\ tick.star \in Stars /\ tick.expected \in Nat /\ tick.finished \in BOOLEAN
       /\ tick.finished => star[tick.star].status = "finished"
       /\ (tick.finished => errors = 0)
            => tick.expected <= star[tick.star].cursor + 1

\* A set of numbers has a least one: the least of the intervals up to them.
LEMMA LeastNumber ==
  ASSUME NEW S, S \subseteq Nat, S # {}
  PROVE  \E n \in S : \A m \in S : n <= m
<1>1. PICK k \in S : TRUE
  OBVIOUS
<1> DEFINE T == {1..m : m \in {i \in S : i <= k}}
<1>2. T \subseteq SUBSET (1..k) /\ T # {}
  BY <1>1
<1>3. IsWellFoundedOn(StrictSubsetOrdering(1..k), SUBSET (1..k))
  <2>1. IsFiniteSet(1..k)
    BY <1>1, FS_Interval
  <2>2. FiniteSubsetsOf(1..k) = SUBSET (1..k)
    BY <2>1, FS_FiniteSubsetsOfFinite
  <2> QED
    BY <2>2, FS_StrictSubsetOrderingWellFounded
<1>4. PICK t \in T : \A u \in T : ~(<<u, t>> \in StrictSubsetOrdering(1..k))
  <2> HIDE DEF T
  <2> QED
    BY <1>2, <1>3, WFMin
<1>5. PICK n \in S : n <= k /\ t = 1..n
  BY <1>4
<1>6. ASSUME NEW m \in S, m < n PROVE FALSE
  <2>1. 1..m \in T /\ 1..m \in SUBSET (1..k) /\ t \in SUBSET (1..k)
    BY <1>2, <1>5, <1>6
  <2>2. 1..m \subseteq t /\ n \in t /\ n \notin 1..m
    BY <1>5, <1>6
  <2> QED
    BY <1>4, <2>1, <2>2 DEF StrictSubsetOrdering
<1> QED
  BY <1>5, <1>6

\* A set of pushes of one star has a first one.
LEMMA FirstPush ==
  ASSUME NEW s, NEW S, S \subseteq {s} \X Nat, S # {}
  PROVE  \E p \in S : \A q \in S : p[2] <= q[2]
<1> DEFINE N == {p[2] : p \in S}
<1>1. N \subseteq Nat /\ N # {}
  OBVIOUS
<1>2. PICK n \in N : \A m \in N : n <= m
  <2> HIDE DEF N
  <2> QED
    BY <1>1, LeastNumber
<1> QED
  BY <1>2

\* The push a pass works on is one it fetched, and the first of those left.
LEMMA NextPushFirst ==
  ASSUME PassInv, tick.pc = "pass", Group # {}
  PROVE  /\ NextPush \in tick.pending /\ NextPush[1] = tick.star
         /\ NextPush[2] \in Nat /\ NextPush[2] >= tick.expected
         /\ NextPush = <<tick.star, NextPush[2]>>
         /\ \A q \in Group : NextPush[2] <= q[2]
<1>1. Group \subseteq {tick.star} \X Nat
  BY DEF Group, PassInv
<1>2. \E p \in Group : \A q \in Group : p[2] <= q[2]
  BY <1>1, FirstPush
<1>3. NextPush \in Group /\ \A q \in Group : NextPush[2] <= q[2]
  BY <1>2 DEF NextPush
<1> QED
  BY <1>1, <1>3 DEF Group

\* Neither invariant lets a pass send a push that can be neither settled nor has
\* been: its turn came no later than all the pass knows of it, and no earlier.
LEMMA PassSendsInTurn ==
  ASSUME ChainInv, PassInv
  PROVE  SendsInTurn
<1> DEFINE p == NextPush
<1> SUFFICES ASSUME tick.pc = "pass", Group # {}, Ready(p),
                    tick.finished => errors = 0,
                    ~(p[2] <= star[p[1]].cursor)
             PROVE  Settleable(p)
  BY DEF SendsInTurn
<1>1. /\ p \in tick.pending /\ p[1] = tick.star /\ p[2] \in Nat
      /\ p[2] >= tick.expected /\ p = <<tick.star, p[2]>>
      /\ \A q \in Group : p[2] <= q[2]
  BY NextPushFirst
<1> HIDE DEF p
<1>2. /\ tick.star \in Stars /\ tick.expected \in Nat /\ tick.finished \in BOOLEAN
      /\ tick.finished => star[tick.star].status = "finished"
      /\ tick.expected <= star[tick.star].cursor + 1
  BY DEF PassInv
<1>3. star[tick.star].cursor \in Nat
  BY <1>2 DEF ChainInv
<1>4. p[2] <= Len(line[tick.star])
      /\ \A n \in Nat : star[tick.star].cursor < n /\ n < p[2]
                          => <<tick.star, n>> \in tick.pending
  BY <1>1 DEF PassInv
<1>5. p[2] = star[tick.star].cursor + 1
  <2> SUFFICES ASSUME p[2] # star[tick.star].cursor + 1 PROVE FALSE
    OBVIOUS
  <2> DEFINE n == star[tick.star].cursor + 1
  <2>1. n \in Nat /\ n < p[2] /\ star[tick.star].cursor < n /\ tick.expected <= n
    BY <1>1, <1>2, <1>3
  <2>2. <<tick.star, n>> \in Group
    BY <1>4, <2>1 DEF Group
  <2> QED
    BY <1>1, <2>1, <2>2
<1>6. Len(line[tick.star]) \in Nat
  BY <1>2 DEF ChainInv
<1>7. p \in Pending
  <2>1. p \in PendingOn(tick.star)
    BY <1>1, <1>3, <1>4, <1>5, <1>6 DEF PendingOn
  <2> QED
    BY <1>2, <2>1 DEF Pending
<1> QED
  BY <1>1, <1>2, <1>5, <1>7 DEF Settleable, Ready, Decided, Finished

\* No program action moves a star back: a settle moves the cursor by one, a join
\* prolongs the line, and a star is born with neither.
LEMMA ChainMoves ==
  ASSUME ChainInv, CrankAssumption
  PROVE  /\ \A s \in Stars : RequestPush(s) => ChainInv' /\ Onward
         /\ \A rs, from, to : MoveRounds(rs, from, to) => ChainInv' /\ Onward
         /\ \A p : \A kills \in BOOLEAN :
              Settle(p, kills) => /\ ChainInv' /\ Onward
                                  /\ star'[p[1]].cursor = p[2]
         /\ \A s : CollapseStalled(s) => ChainInv' /\ Onward
         /\ \A s : CreateNext(s) => ChainInv' /\ Onward
         /\ \A s \in Stars : Feed(s) \/ GoQuiet(s) => ChainInv' /\ Onward
         /\ UNCHANGED chain => ChainInv' /\ Onward
<1> USE DEF Stars
<1>0. \A s \in Stars : star[s].cursor \in Nat /\ Len(line[s]) \in Nat
  BY DEF ChainInv
<1>1. ASSUME NEW s \in Stars, RequestPush(s) PROVE ChainInv' /\ Onward
  <2>1. PICK n : line' = [line EXCEPT ![s] = Append(@, n)]
    BY <1>1 DEF RequestPush
  <2>2. s = current /\ UNCHANGED <<current, star>>
    BY <1>1 DEF RequestPush
  <2>3. PICK T : line[s] \in Seq(T)
    BY DEF ChainInv
  <2>4. line[s] \in Seq(T \cup {n})
    BY <2>3
  <2>5. /\ Append(line[s], n) \in Seq(T \cup {n})
        /\ Len(Append(line[s], n)) = Len(line[s]) + 1
    BY <2>4
  <2>6. DOMAIN line' = Stars /\ line'[s] = Append(line[s], n)
        /\ \A t \in Stars : t # s => line'[t] = line[t]
    BY <2>1 DEF ChainInv
  <2>7. \A t \in Stars : \E U : line'[t] \in Seq(U)
    BY <2>5, <2>6 DEF ChainInv
  <2>8. \A t \in Stars : Len(line[t]) <= Len(line'[t])
    BY <1>0, <2>5, <2>6
  <2>9. \A t \in Stars : t > current => Len(line'[t]) = 0
    BY <2>2, <2>6 DEF ChainInv
  <2>10. Onward
    BY <1>0, <2>2, <2>8 DEF Onward
  <2>11. \A t \in Stars : t > current => star[t].cursor = 0
                                         /\ star[t].status = "unborn"
    BY DEF ChainInv
  <2>12. current \in Nat
         /\ star \in [Stars -> [status : {"unborn", "alive", "finished"},
                                mass : Nat, cursor : Nat, fed : BOOLEAN,
                                quiet : BOOLEAN]]
    BY DEF ChainInv
  <2> QED
    BY <2>2, <2>6, <2>7, <2>9, <2>10, <2>11, <2>12 DEF ChainInv
<1>2. ASSUME UNCHANGED <<current, star, line>> PROVE ChainInv' /\ Onward
  <2>1. ChainInv'
    BY <1>2 DEF ChainInv
  <2>2. Onward
    BY <1>0, <1>2 DEF Onward
  <2> QED
    BY <2>1, <2>2
<1>3. ASSUME NEW p, NEW kills \in BOOLEAN, Settle(p, kills)
      PROVE  ChainInv' /\ Onward /\ star'[p[1]].cursor = p[2]
  <2> DEFINE s == p[1]
  <2>1. Settleable(p) /\ UNCHANGED <<current, line>>
    BY <1>3 DEF Settle
  <2>2. PICK t \in Stars : p \in PendingOn(t)
    BY <2>1 DEF Settleable, Pending
  <2>3. s \in Stars /\ p[2] \in 1..Len(line[s]) /\ p[2] = star[s].cursor + 1
    BY <2>1, <2>2 DEF PendingOn, Settleable
  <2>4. ~(s > current)
    BY <1>0, <2>3 DEF ChainInv
  <2>5. PICK ends \in BOOLEAN, lands \in BOOLEAN :
          /\ star[s].status = "finished" => ends
          /\ star' = [star EXCEPT ![s] =
                  [status |-> IF ends THEN "finished" ELSE "alive",
                   mass |-> star[s].mass + (IF lands THEN 1 ELSE 0),
                   cursor |-> p[2], fed |-> @.fed,
                   quiet |-> @.quiet /\ ~lands /\ ~ends]]
    <3>1. Finished(s) <=> star[s].status = "finished"
      BY DEF Finished
    <3> QED
      BY <1>3, <3>1 DEF Settle
  <2> HIDE DEF s
  <2>6. star[s].mass \in Nat /\ star[s].quiet \in BOOLEAN /\ p[2] \in Nat
        /\ star[s].fed \in BOOLEAN
    BY <1>0, <2>3 DEF ChainInv
  <2>7. star' \in [Stars -> [status : {"unborn", "alive", "finished"}, mass : Nat,
                             cursor : Nat, fed : BOOLEAN, quiet : BOOLEAN]]
    BY <2>3, <2>5, <2>6 DEF ChainInv
  <2>8. /\ star'[s].cursor = p[2] /\ (star[s].status = "finished" => star'[s].status = "finished")
        /\ \A u \in Stars : u # s => star'[u] = star[u]
    BY <2>3, <2>5 DEF ChainInv
  <2>9. Onward
    BY <1>0, <2>1, <2>3, <2>8 DEF Onward
  <2>10. \A u \in Stars : u > current =>
            star'[u].cursor = 0 /\ star'[u].status = "unborn"
    BY <2>3, <2>4, <2>8 DEF ChainInv
  <2> QED
    BY <2>1, <2>7, <2>8, <2>9, <2>10 DEF ChainInv, s
<1>4. ASSUME NEW s, CollapseStalled(s) PROVE ChainInv' /\ Onward
  <2>1. s = current /\ UNCHANGED <<current, line>>
        /\ star' = [star EXCEPT ![s].status = "finished", ![s].quiet = FALSE]
    BY <1>4 DEF CollapseStalled, Collapsible, Stalled
  <2> DEFINE new == [star[s] EXCEPT !.status = "finished", !.quiet = FALSE]
  <2>4. s \in Stars => new \in [status : {"unborn", "alive", "finished"}, mass : Nat,
                                cursor : Nat, fed : BOOLEAN, quiet : BOOLEAN]
    BY DEF ChainInv
  <2>5. star' = [star EXCEPT ![s] = new]
    BY <2>1
  <2>2. star' \in [Stars -> [status : {"unborn", "alive", "finished"}, mass : Nat,
                             cursor : Nat, fed : BOOLEAN, quiet : BOOLEAN]]
    <3> HIDE DEF new
    <3> QED
      BY <2>4, <2>5 DEF ChainInv
  <2>3. \A u \in Stars :
          /\ star'[u].cursor = star[u].cursor
          /\ star'[u].status = IF u = s THEN "finished" ELSE star[u].status
    BY <2>1 DEF ChainInv
  <2> QED
    BY <1>0, <2>1, <2>2, <2>3 DEF ChainInv, Onward
<1>5. ASSUME NEW s, CreateNext(s) PROVE ChainInv' /\ Onward
  <2>1. s = current /\ s < MaxStars /\ current' = s + 1 /\ UNCHANGED line
        /\ star' = [star EXCEPT ![s + 1] = Born]
    BY <1>5 DEF CreateNext, Succeedable
  <2>2. s \in Nat /\ s + 1 \in Stars /\ s + 1 > current
    BY <2>1 DEF ChainInv, CrankAssumption
  <2>3. Born \in [status : {"unborn", "alive", "finished"}, mass : Nat,
                  cursor : Nat, fed : BOOLEAN, quiet : BOOLEAN]
        /\ Born.cursor = 0 /\ Born.status = "alive"
    BY DEF Born, Unborn
  <2> HIDE DEF Born
  <2>4. star' \in [Stars -> [status : {"unborn", "alive", "finished"}, mass : Nat,
                             cursor : Nat, fed : BOOLEAN, quiet : BOOLEAN]]
    BY <2>1, <2>3 DEF ChainInv
  <2>5. star'[s + 1] = Born /\ \A u \in Stars : u # s + 1 => star'[u] = star[u]
    BY <2>1, <2>2 DEF ChainInv
  <2>6. star[s + 1].cursor = 0 /\ star[s + 1].status = "unborn"
    BY <2>2 DEF ChainInv
  <2>7. Onward
    BY <1>0, <2>1, <2>3, <2>5, <2>6 DEF Onward
  <2>8. \A u \in Stars : u > current' => u > current /\ u # s + 1
    BY <2>1, <2>2
  <2> QED
    BY <2>1, <2>2, <2>4, <2>5, <2>7, <2>8 DEF ChainInv
<1>6. ASSUME NEW s \in Stars, Feed(s) \/ GoQuiet(s) PROVE ChainInv' /\ Onward
  <2>1. /\ UNCHANGED <<current, line>>
        /\ \E fed, quiet \in BOOLEAN :
             star' = [star EXCEPT ![s] = [@ EXCEPT !.fed = fed, !.quiet = quiet]]
    <3>1. star[s].fed \in BOOLEAN /\ star[s] = [star[s] EXCEPT !.fed = star[s].fed]
      BY DEF ChainInv
    <3>2. CASE Feed(s)
      BY <3>2 DEF Feed
    <3>3. CASE GoQuiet(s)
      <4>1. star' = [star EXCEPT ![s] = [star[s] EXCEPT !.quiet = TRUE]]
        BY <3>3 DEF GoQuiet
      <4>2. [star[s] EXCEPT !.quiet = TRUE]
            = [star[s] EXCEPT !.fed = star[s].fed, !.quiet = TRUE]
        BY <3>1
      <4> QED
        BY <3>1, <3>3, <4>1, <4>2 DEF GoQuiet
    <3> QED
      BY <1>6, <3>2, <3>3
  <2>2. PICK fed, quiet \in BOOLEAN :
          star' = [star EXCEPT ![s] = [@ EXCEPT !.fed = fed, !.quiet = quiet]]
    BY <2>1
  <2> DEFINE new == [star[s] EXCEPT !.fed = fed, !.quiet = quiet]
  <2>3. /\ new \in [status : {"unborn", "alive", "finished"}, mass : Nat,
                    cursor : Nat, fed : BOOLEAN, quiet : BOOLEAN]
        /\ new.cursor = star[s].cursor /\ new.status = star[s].status
    BY DEF ChainInv
  <2>4. star' = [star EXCEPT ![s] = new]
    BY <2>2
  <2> HIDE DEF new
  <2>5. star' \in [Stars -> [status : {"unborn", "alive", "finished"}, mass : Nat,
                             cursor : Nat, fed : BOOLEAN, quiet : BOOLEAN]]
    BY <2>3, <2>4 DEF ChainInv
  <2>6. \A u \in Stars : star'[u].cursor = star[u].cursor
                         /\ star'[u].status = star[u].status
    BY <2>3, <2>4 DEF ChainInv
  <2> QED
    BY <1>0, <2>1, <2>5, <2>6 DEF ChainInv, Onward
<1>7. \A rs, from, to : MoveRounds(rs, from, to) => UNCHANGED <<current, star, line>>
  BY DEF MoveRounds
<1>8. UNCHANGED chain => UNCHANGED <<current, star, line>>
  BY DEF chain
<1> QED
  BY <1>1, <1>2, <1>3, <1>4, <1>5, <1>6, <1>7, <1>8

\* A pass that does nothing itself is not overtaken: what it holds stays true of a
\* program that goes on, whatever else it does or however it ends.
LEMMA PassOvertaken ==
  ASSUME ChainInv, ChainInv', Onward, PassInv,
         DOMAIN tick' = Fields, tick'.pending = tick.pending, errors' \in Nat,
         \/ tick'.pc # "pass"
         \/ UNCHANGED <<tick, errors>>
  PROVE  PassInv'
<1>0. \A s \in Stars : /\ star[s].cursor \in Nat /\ star'[s].cursor \in Nat
                       /\ Len(line[s]) \in Nat /\ Len(line'[s]) \in Nat
  BY DEF ChainInv
<1>1. \A p \in tick.pending : p[1] \in Stars /\ p[2] \in Nat
  BY DEF PassInv
<1>2. \A p \in tick.pending : p[2] <= Len(line'[p[1]])
  BY <1>0, <1>1 DEF PassInv, Onward
<1>3. \A p \in tick.pending : \A n \in Nat :
        star'[p[1]].cursor < n /\ n < p[2] => <<p[1], n>> \in tick.pending
  <2> TAKE p \in tick.pending
  <2> TAKE n \in Nat
  <2> HAVE star'[p[1]].cursor < n /\ n < p[2]
  <2>1. star[p[1]].cursor < n
    BY <1>0, <1>1 DEF Onward
  <2> QED
    BY <2>1 DEF PassInv
<1>4. tick.pending \subseteq Stars \X Nat
  BY DEF PassInv
<1>5. CASE tick'.pc # "pass"
  BY <1>2, <1>3, <1>4, <1>5 DEF PassInv
<1>6. CASE UNCHANGED <<tick, errors>>
  <2>1. tick.pc = "pass" =>
          /\ tick.star \in Stars /\ tick.expected \in Nat /\ tick.finished \in BOOLEAN
          /\ tick.finished => star[tick.star].status = "finished"
          /\ (tick.finished => errors = 0)
               => tick.expected <= star[tick.star].cursor + 1
    BY DEF PassInv
  <2>2. tick.pc = "pass" =>
          /\ tick.finished => star'[tick.star].status = "finished"
          /\ (tick.finished => errors = 0)
               => tick.expected <= star'[tick.star].cursor + 1
    <3> HAVE tick.pc = "pass"
    <3>1. star[tick.star].cursor <= star'[tick.star].cursor
          /\ (star[tick.star].status = "finished" => star'[tick.star].status = "finished")
      BY <2>1 DEF Onward
    <3>2. star[tick.star].cursor \in Nat /\ star'[tick.star].cursor \in Nat
      BY <1>0, <2>1
    <3> QED
      BY <2>1, <3>1, <3>2
  <2> QED
    BY <1>2, <1>3, <1>4, <1>6, <2>1, <2>2 DEF PassInv
<1> QED
  BY <1>5, <1>6

\* A tick that begins, or that rests, has fetched nothing yet.
LEMMA PassAnew ==
  ASSUME NEW reason, errors' \in Nat,
         tick' = Begun(reason) \/ tick' = AtRest
         \/ tick' = [AtRest EXCEPT !.pc = "stalled", !.reason = tick.reason,
                                   !.resolved = tick.resolved]
         \/ Leave
  PROVE  PassInv'
<1>1. DOMAIN tick' = Fields /\ tick'.pending = {} /\ tick'.pc # "pass"
  <2>1. DOMAIN AtRest = Fields /\ AtRest.pending = {} /\ AtRest.pc = "idle"
    BY DEF AtRest, Idle, Fields
  <2> HIDE DEF AtRest
  <2>2. CASE tick' = AtRest
    BY <2>1, <2>2
  <2>3. CASE tick' = Begun(reason)
    BY <2>1, <2>3 DEF Begun, Fields
  <2>4. CASE tick' = [AtRest EXCEPT !.pc = "stalled", !.reason = tick.reason,
                                    !.resolved = tick.resolved]
    BY <2>1, <2>4 DEF Fields
  <2>5. CASE Leave
    BY <2>1, <2>5 DEF Leave, Fields
  <2> QED
    BY <2>2, <2>3, <2>4, <2>5
<1> QED
  BY <1>1 DEF PassInv

\* A step of a tick by Goto keeps what the tick holds.
LEMMA GoneTo ==
  ASSUME NEW pc, DOMAIN tick = Fields, Goto(pc)
  PROVE  DOMAIN tick' = Fields /\ tick'.pending = tick.pending /\ tick'.pc = pc
  BY DEF Goto, Fields

\* A fetch sees every line whole, from its cursor to its end.
LEMMA PassFetches ==
  ASSUME ChainInv, PassInv, FetchPushes
  PROVE  PassInv'
<1>1. UNCHANGED <<star, line, errors>>
  BY DEF FetchPushes, chain
<1>2. DOMAIN tick' = Fields /\ tick'.pending = Pending /\ tick'.pc = "star"
  BY DEF FetchPushes, PassInv, Fields
<1>3. \A s \in Stars : star[s].cursor \in Nat /\ Len(line[s]) \in Nat
  BY DEF ChainInv
<1>4. \A p \in Pending : /\ p[1] \in Stars /\ p[2] \in Nat /\ p = <<p[1], p[2]>>
                         /\ p[2] <= Len(line[p[1]])
  BY <1>3 DEF Pending, PendingOn
<1>5. ASSUME NEW p \in Pending, NEW n \in Nat, star[p[1]].cursor < n, n < p[2]
      PROVE  <<p[1], n>> \in Pending
  <2>1. <<p[1], n>> \in PendingOn(p[1])
    BY <1>3, <1>4, <1>5 DEF PendingOn
  <2> QED
    BY <1>4, <2>1 DEF Pending
<1> QED
  BY <1>1, <1>2, <1>4, <1>5 DEF PassInv

\* A pass over a star begins at its cursor.
LEMMA PassBegins ==
  ASSUME ChainInv, PassInv, LoadStar
  PROVE  PassInv'
<1> DEFINE left == {p[1] : p \in tick.pending} \ 1..tick.star
           s == CHOOSE s \in left : \A t \in left : s <= t
           ahead == tick.pending \cap PendingOn(s)
<1>1. UNCHANGED <<chain, errors>> /\ UNCHANGED <<star, line>> /\ errors \in Nat
  BY DEF LoadStar, PassInv, chain
<1>2. CASE left = {}
  <2>1. tick' = [AtRest EXCEPT !.pc = "stalled", !.reason = tick.reason,
                               !.resolved = tick.resolved]
    BY <1>2 DEF LoadStar
  <2> QED
    BY <1>1, <2>1, PassAnew
<1>3. CASE left # {}
  <2>1. left \subseteq Stars /\ left \subseteq Nat
    BY DEF PassInv, Stars
  <2>2. \E t \in left : \A u \in left : t <= u
    <3> HIDE DEF left
    <3> QED
      BY <1>3, <2>1, LeastNumber
  <2>3. s \in Stars
    <3> HIDE DEF left
    <3> QED
      BY <2>1, <2>2
  <2>4. tick' = [tick EXCEPT !.pc = IF ahead = {} THEN "star" ELSE "pass",
                             !.star = s,
                             !.finished = Finished(s),
                             !.expected = star[s].cursor + 1]
    BY <1>3 DEF LoadStar
  <2> HIDE DEF s, ahead
  <2>5. /\ DOMAIN tick' = Fields /\ tick'.pending = tick.pending
        /\ tick'.star = s /\ tick'.finished = Finished(s)
        /\ tick'.expected = star[s].cursor + 1
    BY <2>4 DEF PassInv, Fields
  <2>6. star[s].cursor \in Nat /\ Finished(s) \in BOOLEAN
    BY <2>3 DEF ChainInv, Finished
  <2>8. tick'.finished => star'[tick'.star].status = "finished"
    BY <1>1, <2>5 DEF Finished
  <2>9. tick'.expected \in Nat /\ tick'.expected <= star'[tick'.star].cursor + 1
    BY <1>1, <2>5, <2>6
  <2>10. tick'.star \in Stars /\ tick'.finished \in BOOLEAN
    BY <2>3, <2>5, <2>6
  <2> HIDE DEF left
  <2>11. \A p \in tick.pending :
          /\ p[2] <= Len(line'[p[1]])
          /\ \A n \in Nat : star'[p[1]].cursor < n /\ n < p[2]
                              => <<p[1], n>> \in tick.pending
    BY <1>1 DEF PassInv
  <2>12. tick.pending \subseteq Stars \X Nat
    BY DEF PassInv
  <2> QED
    BY <1>1, <2>5, <2>8, <2>9, <2>10, <2>11, <2>12 DEF PassInv
<1> QED
  BY <1>2, <1>3

\* A pass goes on to the next push only past one that is settled, unless it failed.
LEMMA PassSettles ==
  ASSUME ChainInv, PassInv, SettleHead, CrankAssumption
  PROVE  ChainInv' /\ PassInv'
<1> DEFINE p == NextPush
           read == [tick EXCEPT !.cache = Reads(RoundOf(p))]
           past == [read EXCEPT !.expected = p[2] + 1,
                                !.pc = IF Group = {p} THEN "star" ELSE "pass"]
           failed == AfterFailure(read, past)
           done == [past EXCEPT !.resolved = TRUE, !.pending = @ \ {p}]
<1>1. tick.pc = "pass" /\ Group # {}
  BY DEF SettleHead
<1>2. /\ p \in tick.pending /\ p[1] = tick.star /\ p[2] \in Nat
      /\ p = <<tick.star, p[2]>>
  BY <1>1, NextPushFirst
<1>3. \/ /\ \E kills \in BOOLEAN : Settle(p, kills)
         /\ \/ tick' = done /\ UNCHANGED errors
            \/ errors' = errors + 1 /\ tick' = failed
      \/ /\ ~(Ready(p) /\ Settleable(p))
         /\ tick' = failed /\ UNCHANGED <<chain, errors>>
      \/ errors' = errors + 1 /\ tick' = failed /\ UNCHANGED chain
  BY DEF SettleHead
<1>4. /\ DOMAIN past = Fields /\ past.pending = tick.pending /\ past.star = tick.star
      /\ past.finished = tick.finished /\ past.expected = p[2] + 1
  BY DEF PassInv, Fields
<1>5. /\ DOMAIN done = Fields /\ done.pending = tick.pending \ {p}
      /\ done.star = tick.star /\ done.finished = tick.finished
      /\ done.expected = p[2] + 1
  <2> HIDE DEF past
  <2> QED
    BY <1>4 DEF Fields
<1>6. /\ DOMAIN failed = Fields /\ failed.pending = tick.pending
      /\ failed.star = tick.star /\ failed.finished = tick.finished
      /\ failed.pc = "pass" => tick.finished /\ failed.expected = p[2] + 1
  <2>1. CASE tick.finished
    <3> HIDE DEF past
    <3> QED
      BY <1>4, <2>1 DEF AfterFailure
  <2>2. CASE ~tick.finished
    <3>1. failed = [read EXCEPT !.pc = "star"]
      BY <2>2 DEF AfterFailure
    <3> QED
      BY <3>1 DEF PassInv, Fields
  <2> QED
    BY <2>1, <2>2
<1> HIDE DEF p, read, past, failed, done
<1>7. ChainInv' /\ Onward
  <2>1. (\E kills \in BOOLEAN : Settle(p, kills)) \/ UNCHANGED chain
    BY <1>3
  <2> QED
    BY <2>1, ChainMoves
<1>8. /\ tick.star \in Stars /\ tick.expected \in Nat /\ tick.finished \in BOOLEAN
      /\ tick.finished => star[tick.star].status = "finished"
      /\ (tick.finished => errors = 0)
           => tick.expected <= star[tick.star].cursor + 1
  BY <1>1 DEF PassInv
<1>9. star[tick.star].cursor \in Nat /\ star'[tick.star].cursor \in Nat
  BY <1>7, <1>8 DEF ChainInv
<1>10. errors \in Nat /\ errors' \in Nat
  BY <1>3 DEF PassInv
<1>11. ASSUME NEW q \in tick.pending
       PROVE  /\ q[1] \in Stars /\ q[2] \in Nat
              /\ q[2] <= Len(line'[q[1]])
              /\ \A n \in Nat : star'[q[1]].cursor < n /\ n < q[2]
                                  => <<q[1], n>> \in tick.pending
  <2>1. /\ q[1] \in Stars /\ q[2] \in Nat /\ q[2] <= Len(line[q[1]])
        /\ \A n \in Nat : star[q[1]].cursor < n /\ n < q[2]
                            => <<q[1], n>> \in tick.pending
    BY DEF PassInv
  <2>2. /\ star[q[1]].cursor \in Nat /\ star'[q[1]].cursor \in Nat
        /\ Len(line[q[1]]) \in Nat /\ Len(line'[q[1]]) \in Nat
    BY <1>7, <2>1 DEF ChainInv
  <2>3. /\ star[q[1]].cursor <= star'[q[1]].cursor
        /\ Len(line[q[1]]) <= Len(line'[q[1]])
    BY <1>7, <2>1 DEF Onward
  <2> QED
    BY <2>1, <2>2, <2>3
<1>12. tick.pending \subseteq Stars \X Nat
  BY DEF PassInv
<1>13. tick.finished => star'[tick.star].status = "finished"
  BY <1>7, <1>8 DEF Onward
<1>14. ASSUME NEW kills \in BOOLEAN, Settle(p, kills)
       PROVE  star'[tick.star].cursor = p[2]
  BY <1>2, <1>14, ChainMoves
<1>15. CASE tick' = done /\ UNCHANGED errors
            /\ \E kills \in BOOLEAN : Settle(p, kills)
  <2>1. star'[tick.star].cursor = p[2]
    BY <1>14, <1>15
  <2>2. ASSUME NEW q \in tick.pending \ {p}, NEW n \in Nat,
               star'[q[1]].cursor < n, n < q[2]
        PROVE  <<q[1], n>> \in tick.pending \ {p}
    <3>1. <<q[1], n>> \in tick.pending
      BY <1>11, <2>2
    <3>2. <<q[1], n>> # p
      <4> SUFFICES ASSUME <<q[1], n>> = p PROVE FALSE
        OBVIOUS
      <4>1. q[1] = tick.star /\ n = p[2]
        BY <1>2
      <4> QED
        BY <1>2, <2>1, <2>2, <4>1
    <3> QED
      BY <3>1, <3>2
  <2>4. tick'.expected = star'[tick'.star].cursor + 1
    BY <1>5, <1>15, <2>1
  <2>5. \A q \in tick'.pending :
          /\ q[2] <= Len(line'[q[1]])
          /\ \A n \in Nat : star'[q[1]].cursor < n /\ n < q[2]
                              => <<q[1], n>> \in tick'.pending
    BY <1>5, <1>11, <1>15, <2>2
  <2>6. /\ tick'.star \in Stars /\ tick'.expected \in Nat
        /\ tick'.finished \in BOOLEAN
        /\ tick'.expected <= star'[tick'.star].cursor + 1
    BY <1>2, <1>5, <1>8, <1>9, <1>15, <2>4
  <2>7. DOMAIN tick' = Fields /\ tick'.pending \subseteq Stars \X Nat
    BY <1>5, <1>12, <1>15
  <2>8. tick'.finished => star'[tick'.star].status = "finished"
    BY <1>5, <1>13, <1>15
  <2> QED
    <3> HIDE DEF PassInv
    <3>1. PassInv'
      BY <1>10, <2>5, <2>6, <2>7, <2>8 DEF PassInv
    <3> QED
      BY <1>7, <3>1
<1>16. CASE tick' = failed
  <2>1. DOMAIN tick' = Fields /\ tick'.pending \subseteq Stars \X Nat
    BY <1>6, <1>12, <1>16
  <2>2. \A q \in tick'.pending :
          /\ q[2] <= Len(line'[q[1]])
          /\ \A n \in Nat : star'[q[1]].cursor < n /\ n < q[2]
                              => <<q[1], n>> \in tick'.pending
    BY <1>6, <1>11, <1>16
  <2>4. ASSUME tick'.pc = "pass"
        PROVE  /\ tick'.star \in Stars /\ tick'.expected \in Nat
               /\ tick'.finished \in BOOLEAN
               /\ tick'.finished => star'[tick'.star].status = "finished"
               /\ tick'.finished /\ tick'.expected = p[2] + 1
    BY <1>2, <1>6, <1>8, <1>13, <1>16, <2>4
  <2>5. ASSUME tick'.pc = "pass", errors' = 0
        PROVE  p[2] <= star'[tick.star].cursor
    <3>1. CASE errors' = errors + 1
      BY <1>10, <2>5, <3>1
    <3>2. CASE UNCHANGED <<chain, errors>> /\ ~(Ready(p) /\ Settleable(p))
      <4>1. tick.finished /\ errors = 0
        BY <1>6, <1>16, <2>5, <3>2
      <4>2. Ready(p) /\ ~Settleable(p)
        BY <3>2, <4>1 DEF Ready
      <4>3. p[2] <= star[p[1]].cursor
        <5>1. SendsInTurn
          BY PassSendsInTurn
        <5> QED
          BY <1>1, <4>1, <4>2, <5>1 DEF SendsInTurn, p
      <4> QED
        BY <1>2, <3>2, <4>3 DEF chain
    <3>3. ASSUME tick' = done, UNCHANGED errors,
                 \E kills \in BOOLEAN : Settle(p, kills)
          PROVE  p[2] <= star'[tick.star].cursor
      BY <1>2, <1>14, <3>3
    <3> QED
      BY <1>3, <3>1, <3>2, <3>3
  <2>6. tick'.pc = "pass" /\ (tick'.finished => errors' = 0)
          => tick'.expected <= star'[tick'.star].cursor + 1
    BY <1>2, <1>6, <1>9, <1>16, <2>4, <2>5
  <2> QED
    <3>1. PassInv'
      BY <1>10, <2>1, <2>2, <2>4, <2>6 DEF PassInv
    <3> QED
      BY <1>7, <3>1
<1> QED
  BY <1>3, <1>15, <1>16

\* What a step of a tick does to the chain when it is not the one that settles.
LEMMA TickMoves ==
  ASSUME ChainInv, CrankAssumption, Tick \/ Throw, ~SettleHead
  PROVE  ChainInv' /\ Onward
<1>1. \/ UNCHANGED chain
      \/ \E rs, from, to : MoveRounds(rs, from, to)
      \/ \E s : CollapseStalled(s)
      \/ \E s : CreateNext(s)
  BY DEF Tick, Throw, AdvanceRounds, SealRounds, FetchPushes, LoadStar, ReadStalled,
         SendCollapse, ReadFull, SendCreate, End
<1> QED
  BY <1>1, ChainMoves

\* A step of a tick keeps both invariants.
LEMMA TickStep ==
  ASSUME ChainInv, PassInv, CrankAssumption, Tick \/ Throw
  PROVE  ChainInv' /\ PassInv'
<1>1. CASE SettleHead
  BY <1>1, PassSettles
<1>2. CASE ~SettleHead
  <2>1. ChainInv' /\ Onward
    BY <1>2, TickMoves
  <2>2. DOMAIN tick = Fields /\ errors \in Nat /\ errors' \in Nat
    <3>1. DOMAIN tick = Fields /\ errors \in Nat
      BY DEF PassInv
    <3>2. errors' = errors \/ errors' = errors + 1
      BY <1>2 DEF Tick, Throw, AdvanceRounds, FetchPushes, LoadStar, ReadStalled,
                  SendCollapse, ReadFull, SendCreate, End
    <3> QED
      BY <3>1, <3>2
  <2>3. CASE FetchPushes
    BY <2>1, <2>3, PassFetches
  <2>4. CASE LoadStar
    BY <2>1, <2>4, PassBegins
  <2>5. CASE End \/ Leave
    <3>1. tick' = Begun(queued) \/ tick' = AtRest \/ Leave
      BY <2>5 DEF End
    <3> QED
      BY <2>1, <2>2, <3>1, PassAnew
  <2>6. CASE \E s : tick' = [tick EXCEPT !.pc = "collapse", !.star = s]
    <3>1. DOMAIN tick' = Fields /\ tick'.pending = tick.pending /\ tick'.pc # "pass"
      BY <2>2, <2>6 DEF Fields
    <3> QED
      BY <2>1, <2>2, <3>1, PassOvertaken
  <2>7. CASE \E s : tick' = [tick EXCEPT !.pc = "create", !.star = s]
    <3>1. DOMAIN tick' = Fields /\ tick'.pending = tick.pending /\ tick'.pc # "pass"
      BY <2>2, <2>7 DEF Fields
    <3> QED
      BY <2>1, <2>2, <3>1, PassOvertaken
  <2>8. CASE \E pc \in {"fetch", "full"} : Goto(pc)
    <3>1. PICK pc \in {"fetch", "full"} : Goto(pc)
      BY <2>8
    <3>2. DOMAIN tick' = Fields /\ tick'.pending = tick.pending /\ tick'.pc = pc
      BY <2>2, <3>1, GoneTo
    <3>3. tick'.pc # "pass"
      BY <3>2
    <3> QED
      BY <2>1, <2>2, <3>2, <3>3, PassOvertaken
  <2>9. \/ FetchPushes \/ LoadStar \/ End \/ Leave
        \/ \E s : tick' = [tick EXCEPT !.pc = "collapse", !.star = s]
        \/ \E s : tick' = [tick EXCEPT !.pc = "create", !.star = s]
        \/ \E pc \in {"fetch", "full"} : Goto(pc)
    <3>1. CASE AdvanceRounds
      BY <3>1 DEF AdvanceRounds
    <3>2. CASE ReadStalled
      BY <3>2 DEF ReadStalled
    <3>3. CASE SendCollapse
      BY <3>3 DEF SendCollapse
    <3>4. CASE ReadFull
      BY <3>4 DEF ReadFull
    <3>5. CASE SendCreate
      BY <3>5 DEF SendCreate
    <3>6. CASE Throw
      BY <3>6 DEF Throw
    <3> QED
      BY <1>2, <3>1, <3>2, <3>3, <3>4, <3>5, <3>6 DEF Tick
  <2> QED
    BY <2>3, <2>4, <2>5, <2>6, <2>7, <2>8, <2>9
<1> QED
  BY <1>1, <1>2

\* Nothing anyone does breaks either invariant.
LEMMA PassStep ==
  ASSUME ChainInv, PassInv, CrankAssumption, [Next]_vars
  PROVE  ChainInv' /\ PassInv'
<1>0. DOMAIN tick = Fields /\ errors \in Nat
  BY DEF PassInv
<1>1. CASE UNCHANGED <<tick, errors>> /\ ChainInv' /\ Onward
  BY <1>0, <1>1, PassOvertaken
<1>2. CASE Others
  <2>1. \/ \E s \in Stars : Feed(s) \/ RequestPush(s) \/ GoQuiet(s)
        \/ \E s : CollapseStalled(s) \/ CreateNext(s)
        \/ \E rs, from, to : MoveRounds(rs, from, to)
        \/ \E p : \E kills \in BOOLEAN : Settle(p, kills)
    BY <1>2 DEF Others, SealRounds
  <2>2. ChainInv' /\ Onward
    BY <2>1, ChainMoves
  <2> QED
    BY <1>1, <1>2, <2>2 DEF Others
<1>3. CASE Poll \/ UNCHANGED vars
  <2>1. UNCHANGED <<chain, tick, errors>>
    BY <1>3 DEF Poll, vars
  <2>2. ChainInv' /\ Onward
    BY <2>1, ChainMoves
  <2> QED
    BY <1>1, <2>1, <2>2
<1>4. CASE Fire
  <2>1. UNCHANGED <<chain, errors>>
        /\ (UNCHANGED tick \/ tick' = Begun(debounce))
    BY <1>4 DEF Fire, Call
  <2>2. ChainInv' /\ Onward
    BY <2>1, ChainMoves
  <2>3. CASE tick' = Begun(debounce)
    BY <1>0, <2>1, <2>2, <2>3, PassAnew
  <2> QED
    BY <1>1, <2>1, <2>2, <2>3
<1>5. CASE Tick \/ Throw
  BY <1>5, TickStep
<1> QED
  BY <1>2, <1>3, <1>4, <1>5 DEF Next

\* A crank starts on a new star, with an empty line and a tick that knows nothing.
LEMMA PassInit == CrankAssumption /\ Init => ChainInv /\ PassInv
<1> SUFFICES ASSUME CrankAssumption, Init PROVE ChainInv /\ PassInv
  OBVIOUS
<1>1. /\ current = 1 /\ errors = 0
      /\ star = [s \in Stars |-> IF s = 1 THEN Born ELSE Unborn]
      /\ line = [s \in Stars |-> <<>>]
      /\ tick = [Idle EXCEPT !.pc = "rounds", !.reason = "poll"]
  BY DEF Init
<1> DEFINE Star == [status : {"unborn", "alive", "finished"}, mass : Nat, cursor : Nat,
                    fed : BOOLEAN, quiet : BOOLEAN]
<1>2. Born \in Star /\ Unborn \in Star /\ Unborn.cursor = 0 /\ Unborn.status = "unborn"
  <2>1. Unborn \in Star /\ Unborn.cursor = 0 /\ Unborn.status = "unborn"
    BY DEF Unborn
  <2> QED
    BY <2>1 DEF Born, Unborn
<1>3. ChainInv
  <2> HIDE DEF Born, Unborn
  <2>1. \A s \in Stars : line[s] = <<>> /\ <<>> \in Seq({}) /\ Len(<<>>) = 0
    BY <1>1
  <2>2. \A s \in Stars : s > current => star[s] = Unborn
    BY <1>1 DEF Stars
  <2>3. \A s \in Stars : \E T : line[s] \in Seq(T)
    BY <2>1
  <2>4. star \in [Stars -> [status : {"unborn", "alive", "finished"}, mass : Nat,
                            cursor : Nat, fed : BOOLEAN, quiet : BOOLEAN]]
    BY <1>1, <1>2
  <2>5. DOMAIN line = Stars /\ current \in Nat
    BY <1>1
  <2> QED
    BY <1>2, <2>1, <2>2, <2>3, <2>4, <2>5 DEF ChainInv
<1>4. DOMAIN tick = Fields /\ tick.pending = {} /\ tick.pc # "pass"
  BY <1>1 DEF Idle, Fields
<1> QED
  BY <1>1, <1>3, <1>4 DEF PassInv

\* Whoever else settles, and whatever the pass saw of the chain, it sends a push
\* only when its turn has come and its outcome is known, or when somebody was faster
\* (resolve.ts: resolveAll's order, its readiness and what it does on a failure).
THEOREM PassesSendInTurn == Spec => []SendsInTurn
<1>1. Init => ChainInv /\ PassInv
  BY CrankAssumption, PassInit
<1>2. ChainInv /\ PassInv /\ [Next]_vars => (ChainInv /\ PassInv)'
  BY CrankAssumption, PassStep
<1>3. ChainInv /\ PassInv => SendsInTurn
  BY PassSendsInTurn
<1> QED
  BY <1>1, <1>2, <1>3, PTL DEF Spec
=============================================================================

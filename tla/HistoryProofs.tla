---------------------------- MODULE HistoryProofs ----------------------------
(***************************************************************************)
(* The cursor never claims a row that is missing, but for those a catch-up *)
(* moved past without getting them, for any number of indexers, crashes,   *)
(* withheld transactions and pages, and whatever the traffic.              *)
(*                                                                         *)
(* The saved cursor goes back as well as forth, for any indexer may save   *)
(* the one it loaded long ago.  So the invariant says of every cursor, the *)
(* saved one and those the indexers hold, that it is honest by itself; and *)
(* of a batch of new signatures that nothing lies between it and the tip   *)
(* but what the code skips.                                                *)
(***************************************************************************)
EXTENDS History, TLAPS

Extra == {"randomness", "closeSignature"}
Cursors == [tip : Nat, oldest : Nat, complete : BOOLEAN]
Places == {"idle", "attach", "patch", "record", "newest", "new", "older", "save",
           "rents"}
Processes == [pc : Places, cur : Cursors, lo : Nat, hi : Nat, pages : Nat,
              patch : SUBSET Extra, prev : SUBSET Extra, back : {"idle", "older"}]

Typed ==
  /\ log \in Seq(Kinds)
  /\ extras \in SUBSET Extra
  /\ cursor \in Cursors
  /\ ix \in [Indexers -> Processes]

\* What a cursor claims is in the table or was passed.
Honest(c) ==
  /\ c.tip <= Len(log)
  /\ c.tip = None <=> c.oldest = None
  /\ c.oldest <= c.tip
  /\ c.tip # None => c.oldest..c.tip \subseteq rows \cup passed
  /\ c.complete => 1..c.tip \subseteq rows \cup passed

\* A batch of new signatures starts right above the tip or as far down as the
\* pages reach.
Adjoins(x) ==
  /\ x.cur.tip < x.lo /\ x.lo <= x.hi /\ x.hi <= Len(log)
  /\ x.lo = x.cur.tip + 1 \/ x.lo = x.hi - Reach(x.cur.tip) + 1

Sound(x) ==
  /\ Honest(x.cur)
  /\ x.pc = "new" => Adjoins(x)
  /\ x.pc = "older" => x.cur.tip # None
  /\ x.back = "older" => x.cur.tip # None

IInv ==
  /\ Typed
  /\ Honest(cursor)
  /\ \A i \in Indexers : Sound(ix[i])

\* What the chain, the table and what was passed may do.
Growth ==
  /\ log' \in Seq(Kinds) /\ Len(log) <= Len(log')
  /\ rows \subseteq rows' /\ passed \subseteq passed'
  /\ extras' \in SUBSET Extra

-----------------------------------------------------------------------------

LEMMA IdleTyped == Idle \in Processes /\ NoCursor \in Cursors
<1>1. NoCursor \in Cursors
  BY DEF NoCursor, Cursors, None
<1>2. {} \in SUBSET Extra
  OBVIOUS
<1> QED
  BY <1>1, <1>2 DEF Idle, Processes, Places

LEMMA Initially == Init => IInv
<1> SUFFICES ASSUME Init PROVE IInv
  OBVIOUS
<1>1. PICK n \in 0..MaxOld : log = [t \in 1..n |-> "hit"]
  BY DEF Init
<1>2. n \in Nat
  BY HistoryAssumption, <1>1
<1>3. log \in Seq(Kinds) /\ Len(log) = n
  BY <1>1, <1>2 DEF Kinds
<1>4. Typed
  BY <1>3, IdleTyped DEF Init, Typed
<1>5. Honest(NoCursor)
  BY <1>2, <1>3 DEF Honest, NoCursor, None
<1>6. Sound(Idle)
  BY <1>5 DEF Sound, Idle
<1> QED
  BY <1>4, <1>5, <1>6 DEF IInv, Init

-----------------------------------------------------------------------------
(* What is right stays right, for nothing is ever taken away               *)

LEMMA HonestStays ==
  ASSUME NEW c \in Cursors, Typed, Growth, Honest(c)
  PROVE  Honest(c)'
<1>1. c.tip \in Nat /\ Len(log) \in Nat /\ Len(log') \in Nat
  BY DEF Cursors, Typed, Growth
<1> QED
  BY <1>1 DEF Honest, Growth

LEMMA SoundStays ==
  ASSUME NEW x \in Processes, Typed, Growth, Sound(x)
  PROVE  Sound(x)'
<1>1. Honest(x.cur)'
  BY HonestStays DEF Sound, Processes
<1>2. ASSUME x.pc = "new"
      PROVE  Adjoins(x)'
  <2>1. x.hi \in Nat /\ Len(log) \in Nat /\ Len(log') \in Nat
    BY DEF Processes, Typed, Growth
  <2>2. Adjoins(x)
    BY <1>2 DEF Sound
  <2> QED
    BY <2>1, <2>2 DEF Adjoins, Growth, Reach
<1> QED
  BY <1>1, <1>2 DEF Sound

LEMMA SavedStays ==
  ASSUME IInv, Growth, UNCHANGED cursor
  PROVE  cursor' \in Cursors /\ Honest(cursor)'
<1>1. \A c \in Cursors : Honest(c) => Honest(c)'
  BY HonestStays DEF IInv
<1> QED
  BY <1>1 DEF IInv, Typed, Honest

\* One indexer moves, and the cursor that is saved is honest.
LEMMA OneMoves ==
  ASSUME NEW i \in Indexers, NEW x \in Processes, IInv, Growth,
         cursor' \in Cursors, Honest(cursor)',
         ix' = [ix EXCEPT ![i] = x], Sound(x)'
  PROVE  IInv'
<1>1. Typed'
  BY DEF IInv, Typed, Growth
<1>2. ASSUME NEW j \in Indexers
      PROVE  Sound(ix[j])'
  <2>1. CASE j = i
    <3>1. ix'[j] = x
      BY <2>1 DEF IInv, Typed
    <3> QED
      BY <3>1 DEF Sound, Honest, Adjoins, Reach
  <2>2. CASE j # i
    <3>1. ix'[j] = ix[j] /\ ix[j] \in Processes /\ Sound(ix[j])
      BY <2>2 DEF IInv, Typed
    <3>2. \A y \in Processes : Sound(y) => Sound(y)'
      BY SoundStays DEF IInv
    <3> QED
      BY <3>1, <3>2 DEF Sound, Honest, Adjoins, Reach
  <2> QED
    BY <2>1, <2>2
<1> QED
  BY <1>1, <1>2 DEF IInv

\* No indexer moves.
LEMMA NoneMoves ==
  ASSUME IInv, Growth, UNCHANGED <<cursor, ix>>
  PROVE  IInv'
<1>1. Honest(cursor)'
  BY SavedStays
<1>2. \A x \in Processes : Sound(x) => Sound(x)'
  BY SoundStays DEF IInv
<1>3. \A i \in Indexers : Sound(ix[i])'
  BY <1>2 DEF IInv, Typed, Sound, Honest, Adjoins, Reach
<1>4. Typed'
  BY DEF IInv, Typed, Growth
<1> QED
  BY <1>1, <1>3, <1>4 DEF IInv

\* One indexer moves and keeps its cursor, or begins anew.
LEMMA MovesInPlace ==
  ASSUME NEW i \in Indexers, NEW x \in Processes, IInv, Growth,
         UNCHANGED cursor, ix' = [ix EXCEPT ![i] = x],
         x.cur = ix[i].cur, x.pc # "new",
         x.pc = "older" => x.cur.tip # None,
         x.back = "older" => x.cur.tip # None
  PROVE  IInv'
<1>1. Honest(x.cur)
  BY DEF IInv, Sound
<1>2. Honest(x.cur)'
  BY <1>1, HonestStays DEF IInv, Processes
<1>3. Sound(x)'
  BY <1>2 DEF Sound
<1> QED
  BY <1>3, OneMoves, SavedStays

LEMMA ToIdle ==
  ASSUME NEW i \in Indexers, IInv, Growth, UNCHANGED cursor,
         ix' = [ix EXCEPT ![i] = Idle]
  PROVE  IInv'
<1>1. Len(log') \in Nat
  BY DEF Growth
<1>2. Sound(Idle)'
  BY <1>1 DEF Sound, Honest, Idle, NoCursor, None
<1> QED
  BY <1>2, IdleTyped, OneMoves, SavedStays

LEMMA LeaveKeeps ==
  ASSUME NEW i \in Indexers, IInv, Growth, UNCHANGED cursor, Leave(i)
  PROVE  IInv'
<1> DEFINE x == [ix[i] EXCEPT !.pc = ix[i].back, !.patch = {}, !.prev = {},
                              !.back = "idle"]
<1>1. ix[i] \in Processes /\ Sound(ix[i])
  BY DEF IInv, Typed
<1>2. /\ x \in Processes /\ x.cur = ix[i].cur
      /\ x.pc = ix[i].back /\ x.pc # "new" /\ x.back = "idle"
  BY <1>1 DEF Processes, Places
<1>3. x.pc = "older" => x.cur.tip # None
  BY <1>1, <1>2 DEF Sound
<1>4. ix' = [ix EXCEPT ![i] = x]
  BY DEF Leave
<1> QED
  BY <1>2, <1>3, <1>4, MovesInPlace

-----------------------------------------------------------------------------
(* The chain, the table and the links                                      *)

LEMMA UpsertGrows ==
  ASSUME IInv, NEW ts, NEW hasSlot, Upsert(ts, hasSlot), UNCHANGED log,
         passed \subseteq passed'
  PROVE  Growth
BY DEF IInv, Typed, Upsert, Growth

LEMMA StandsStill ==
  ASSUME IInv, UNCHANGED <<log, rows, passed>>, extras' \in SUBSET Extra
  PROVE  Growth
BY DEF IInv, Typed, Growth

LEMMA LandsGrows ==
  ASSUME IInv, NEW kind \in Kinds, Lands(kind), UNCHANGED <<rows, extras, passed>>
  PROVE  Growth
BY DEF IInv, Typed, Lands, Growth

LEMMA LandKeeps ==
  ASSUME IInv, NEW kind \in Kinds, Land(kind)
  PROVE  IInv'
<1>1. Growth
  BY LandsGrows DEF Land
<1> QED
  BY <1>1, NoneMoves DEF Land

LEMMA StoreLiveKeeps ==
  ASSUME IInv, NEW i, NEW t, StoreLive(i, t)
  PROVE  IInv'
<1>1. Growth
  BY UpsertGrows DEF StoreLive
<1> QED
  BY <1>1, NoneMoves DEF StoreLive

LEMMA AttachReadKeeps ==
  ASSUME NEW i \in Indexers, IInv, AttachRead(i)
  PROVE  IInv'
<1>1. UNCHANGED cursor /\ extras \in SUBSET Extra /\ Growth
  BY StandsStill DEF AttachRead, IInv, Typed
<1>2. CASE Leave(i)
  BY <1>1, <1>2, LeaveKeeps
<1>3. CASE ix' = [ix EXCEPT ![i].pc = "patch", ![i].prev = extras]
  <2> DEFINE x == [ix[i] EXCEPT !.pc = "patch", !.prev = extras]
  <2>1. ix[i] \in Processes /\ Sound(ix[i])
    BY DEF IInv, Typed
  <2>2. /\ x \in Processes /\ x.cur = ix[i].cur
        /\ x.pc = "patch" /\ x.back = ix[i].back
    BY <1>1, <2>1 DEF Processes, Places
  <2>3. ix' = [ix EXCEPT ![i] = x]
    BY <1>3
  <2>4. x.back = "older" => x.cur.tip # None
    BY <2>1, <2>2 DEF Sound
  <2> QED
    BY <1>1, <2>2, <2>3, <2>4, MovesInPlace
<1> QED
  BY <1>2, <1>3 DEF AttachRead

LEMMA AttachPatchKeeps ==
  ASSUME NEW i \in Indexers, IInv, AttachPatch(i)
  PROVE  IInv'
<1>1. ix[i] \in Processes
  BY DEF IInv, Typed
<1>2. ix[i].prev \in SUBSET Extra /\ ix[i].patch \in SUBSET Extra
  BY <1>1 DEF Processes
<1>3. extras' \in SUBSET Extra
  BY <1>2 DEF AttachPatch
<1> QED
  BY <1>3, StandsStill, LeaveKeeps DEF AttachPatch

LEMMA AttachFailsKeeps ==
  ASSUME NEW i \in Indexers, IInv, AttachFails(i)
  PROVE  IInv'
<1>1. extras' \in SUBSET Extra
  BY DEF AttachFails, IInv, Typed
<1> QED
  BY <1>1, StandsStill, LeaveKeeps DEF AttachFails

LEMMA SettleOneKeeps ==
  ASSUME NEW i \in Indexers, IInv, SettleOne(i)
  PROVE  IInv'
<1> DEFINE x == [ix[i] EXCEPT !.pc = "attach", !.patch = {"randomness"},
                              !.back = "idle"]
<1>1. ix[i] \in Processes
  BY DEF IInv, Typed
<1>2. /\ x \in Processes /\ x.cur = ix[i].cur
      /\ x.pc = "attach" /\ x.back = "idle"
  BY <1>1 DEF Processes, Places, Extra
<1>3. Growth
  <2>1. "settle" \in Kinds
    BY DEF Kinds
  <2> QED
    BY <2>1, LandsGrows DEF SettleOne
<1>4. ix' = [ix EXCEPT ![i] = x] /\ UNCHANGED cursor
  BY DEF SettleOne
<1> QED
  BY <1>2, <1>3, <1>4, MovesInPlace

LEMMA CloseOneKeeps ==
  ASSUME NEW i \in Indexers, IInv, CloseOne(i)
  PROVE  IInv'
<1>1. PICK draw \in SUBSET {"randomness"} :
        ix' = [ix EXCEPT ![i].pc = "record", ![i].back = "idle",
                         ![i].patch = {"closeSignature"} \cup draw]
  BY DEF CloseOne
<1> DEFINE x == [ix[i] EXCEPT !.pc = "record", !.back = "idle",
                              !.patch = {"closeSignature"} \cup draw]
<1>2. ix[i] \in Processes /\ {"closeSignature"} \cup draw \in SUBSET Extra
  BY DEF IInv, Typed, Extra
<1>3. /\ x \in Processes /\ x.cur = ix[i].cur
      /\ x.pc = "record" /\ x.back = "idle"
  BY <1>2 DEF Processes, Places
<1>4. Growth
  <2>1. "close" \in Kinds
    BY DEF Kinds
  <2> QED
    BY <2>1, LandsGrows DEF CloseOne
<1>5. ix' = [ix EXCEPT ![i] = x] /\ UNCHANGED cursor
  BY <1>1 DEF CloseOne
<1> QED
  BY <1>3, <1>4, <1>5, MovesInPlace

LEMMA RecordPushClosedKeeps ==
  ASSUME NEW i \in Indexers, IInv, RecordPushClosed(i)
  PROVE  IInv'
<1> DEFINE x == [ix[i] EXCEPT !.pc = "attach"]
<1>1. Growth
  BY UpsertGrows DEF RecordPushClosed
<1>2. ix[i] \in Processes /\ Sound(ix[i])
  BY DEF IInv, Typed
<1>3. /\ x \in Processes /\ x.cur = ix[i].cur
      /\ x.pc = "attach" /\ x.back = ix[i].back
  BY <1>2 DEF Processes, Places
<1>4. ix' = [ix EXCEPT ![i] = x] /\ UNCHANGED cursor
  BY DEF RecordPushClosed, Goto
<1>5. x.back = "older" => x.cur.tip # None
  BY <1>2, <1>3 DEF Sound
<1> QED
  BY <1>1, <1>3, <1>4, <1>5, MovesInPlace

LEMMA BackfillRentsKeeps ==
  ASSUME NEW i \in Indexers, IInv, BackfillRents(i)
  PROVE  IInv'
<1>1. UNCHANGED cursor /\ Growth
  BY StandsStill DEF BackfillRents, IInv, Typed
<1>2. ix[i] \in Processes
  BY DEF IInv, Typed
<1>3. CASE ix' = [ix EXCEPT ![i].pc = "record", ![i].back = "idle",
                            ![i].patch = {"closeSignature"}]
  <2> DEFINE x == [ix[i] EXCEPT !.pc = "record", !.back = "idle",
                                !.patch = {"closeSignature"}]
  <2>1. /\ x \in Processes /\ x.cur = ix[i].cur
        /\ x.pc = "record" /\ x.back = "idle"
    BY <1>2 DEF Processes, Places, Extra
  <2>2. ix' = [ix EXCEPT ![i] = x]
    BY <1>3
  <2> QED
    BY <1>1, <2>1, <2>2, MovesInPlace
<1>4. CASE ix' = [ix EXCEPT ![i] = Idle]
  BY <1>1, <1>4, ToIdle
<1> QED
  BY <1>3, <1>4 DEF BackfillRents

LEMMA FaultKeeps ==
  ASSUME NEW i \in Indexers, IInv, Fault(i)
  PROVE  IInv'
<1>1. Growth
  BY UpsertGrows DEF Fault
<1> QED
  BY <1>1, ToIdle DEF Fault

-----------------------------------------------------------------------------
(* The catch-up                                                            *)

LEMMA Completed ==
  ASSUME NEW c \in Cursors, NEW d \in BOOLEAN
  PROVE  \E e \in Cursors : /\ e = [c EXCEPT !.complete = d]
                            /\ e.tip = c.tip /\ e.oldest = c.oldest
                            /\ e.complete = d
<1> DEFINE e == [c EXCEPT !.complete = d]
<1>1. /\ e \in Cursors /\ e.tip = c.tip
      /\ e.oldest = c.oldest /\ e.complete = d
  BY DEF Cursors
<1> QED
  BY <1>1

LEMMA GoesToSave ==
  ASSUME NEW y \in Processes, NEW c \in Cursors
  PROVE  \E x \in Processes : /\ x = [y EXCEPT !.pc = "save", !.cur = c]
                              /\ x.cur = c /\ x.pc = "save" /\ x.back = y.back
<1> DEFINE x == [y EXCEPT !.pc = "save", !.cur = c]
<1>1. x \in Processes /\ x.cur = c /\ x.pc = "save" /\ x.back = y.back
  BY DEF Processes, Places
<1> QED
  BY <1>1

LEMMA SavesInPlace ==
  ASSUME NEW f \in [Indexers -> Processes], NEW i \in Indexers, NEW d
  PROVE  [f EXCEPT ![i].pc = "save", ![i].cur.complete = d]
         = [f EXCEPT ![i] = [f[i] EXCEPT !.pc = "save",
                                         !.cur = [f[i].cur EXCEPT !.complete = d]]]
<1> DEFINE g == [f EXCEPT ![i].pc = "save"]
           y == [f[i] EXCEPT !.pc = "save"]
<1>1. g = [f EXCEPT ![i] = y]
  OBVIOUS
<1>2. y.cur = f[i].cur
  BY DEF Processes
<1>3. g[i] = y /\ i \in DOMAIN g
  BY <1>1
<1>4. [g EXCEPT ![i].cur.complete = d]
      = [g EXCEPT ![i] = [g[i] EXCEPT !.cur = [g[i].cur EXCEPT !.complete = d]]]
  OBVIOUS
<1>5. \A z : [g EXCEPT ![i] = z] = [f EXCEPT ![i] = z]
  BY <1>1
<1> QED
  BY <1>2, <1>3, <1>4, <1>5

LEMMA LoadCursorKeeps ==
  ASSUME NEW i \in Indexers, IInv, LoadCursor(i)
  PROVE  IInv'
<1> DEFINE x == [Idle EXCEPT !.pc = "newest", !.cur = cursor]
<1>1. Growth /\ UNCHANGED cursor /\ ix' = [ix EXCEPT ![i] = x]
  BY StandsStill DEF LoadCursor, IInv, Typed
<1>2. cursor \in Cursors
  BY DEF IInv, Typed
<1>3. /\ x \in Processes /\ x.cur = cursor
      /\ x.pc = "newest" /\ x.back = "idle"
  BY <1>2, IdleTyped DEF Processes, Places, Idle
<1>4. Honest(x.cur)'
  BY <1>1, <1>2, <1>3, HonestStays DEF IInv
<1>5. Sound(x)'
  BY <1>3, <1>4 DEF Sound
<1> QED
  BY <1>1, <1>3, <1>5, OneMoves, SavedStays

\* Where the new signatures start.
LEMMA FreshAdjoins ==
  ASSUME NEW i \in Indexers, IInv
  PROVE  LET tip == ix[i].cur.tip
             from == FirstFresh(tip)
         IN /\ from \in Nat /\ tip < from
            /\ from = tip + 1 \/ from = Len(log) - Reach(tip) + 1
            /\ from > Len(log) /\ log # <<>> => tip # None
<1> DEFINE tip == ix[i].cur.tip
<1>1. ix[i] \in Processes /\ Honest(ix[i].cur)
  BY DEF IInv, Typed, Sound
<1>2. tip \in Nat /\ tip <= Len(log)
  BY <1>1 DEF Processes, Cursors, Honest
<1>3. Len(log) \in Nat
  BY DEF IInv, Typed
<1>4. Reach(tip) \in Nat /\ 1 <= Reach(tip)
  <2>1. PAGE \in Nat /\ MAX_PAGES \in Nat /\ 1 <= PAGE /\ 1 <= MAX_PAGES
    BY HistoryAssumption
  <2>2. PAGE * MAX_PAGES \in Nat /\ 1 <= PAGE * MAX_PAGES
    BY <2>1, SMTT(30)
  <2> QED
    BY <2>1, <2>2 DEF Reach
<1>5. FirstFresh(tip) = IF Len(log) - Reach(tip) > tip
                        THEN Len(log) - Reach(tip) + 1 ELSE tip + 1
  BY DEF FirstFresh
<1> HIDE DEF tip
<1>6. /\ FirstFresh(tip) \in Nat /\ tip < FirstFresh(tip)
      /\ FirstFresh(tip) = tip + 1 \/ FirstFresh(tip) = Len(log) - Reach(tip) + 1
  BY <1>2, <1>3, <1>4, <1>5
<1>7. ASSUME FirstFresh(tip) > Len(log), tip = None
      PROVE  log = <<>>
  <2>1. Len(log) = 0
    BY <1>2, <1>3, <1>4, <1>5, <1>7 DEF None
  <2> QED
    BY <2>1 DEF IInv, Typed
<1> QED
  BY <1>6, <1>7 DEF tip

LEMMA ReadNewestKeeps ==
  ASSUME NEW i \in Indexers, IInv, ReadNewest(i)
  PROVE  IInv'
<1> PICK y \in Processes : y = ix[i]
  BY DEF IInv, Typed
<1> DEFINE from == FirstFresh(y.cur.tip)
<1>1. y.cur \in Cursors /\ Sound(y)
  BY DEF IInv, Processes
<1>2. UNCHANGED <<log, cursor>> /\ Growth
  BY StandsStill DEF ReadNewest, IInv, Typed
<1>3. /\ from \in Nat /\ y.cur.tip < from
      /\ from = y.cur.tip + 1 \/ from = Len(log) - Reach(y.cur.tip) + 1
      /\ from > Len(log) /\ log # <<>> => y.cur.tip # None
  BY FreshAdjoins
<1>4. y.back = "older" => y.cur.tip # None
  BY <1>1 DEF Sound
<1>5. CASE /\ log = <<>>
           /\ ix' = [ix EXCEPT ![i].pc = "save", ![i].cur.complete = TRUE]
  <2>1. PICK c \in Cursors : /\ c = [y.cur EXCEPT !.complete = TRUE]
                             /\ c.tip = y.cur.tip
                             /\ c.oldest = y.cur.oldest /\ c.complete
    BY <1>1, Completed
  <2>2. PICK x \in Processes : /\ x = [y EXCEPT !.pc = "save", !.cur = c]
                               /\ x.cur = c /\ x.pc = "save" /\ x.back = y.back
    BY GoesToSave
  <2>3. ix' = [ix EXCEPT ![i] = x]
    <3>1. ix' = [ix EXCEPT ![i] = [ix[i] EXCEPT !.pc = "save",
                             !.cur = [ix[i].cur EXCEPT !.complete = TRUE]]]
      BY <1>5, SavesInPlace DEF IInv, Typed
    <3> QED
      BY <2>1, <2>2, <3>1
  <2>4. Honest(c)
    <3>1. c.tip \in Nat /\ c.tip <= 0
      BY <1>1, <1>5, <2>1 DEF Sound, Honest, Cursors
    <3>2. 1..c.tip = {}
      BY <3>1
    <3> QED
      BY <1>1, <2>1, <3>2 DEF Sound, Honest
  <2>5. Honest(c)'
    BY <1>2, <2>4, HonestStays DEF IInv
  <2>6. Sound(x)'
    BY <1>4, <2>1, <2>2, <2>5 DEF Sound
  <2> QED
    BY <1>2, <2>2, <2>3, <2>6, OneMoves, SavedStays
<1>6. CASE log # <<>> /\ from > Len(log) /\ Goto(i, "older")
  <2> DEFINE x == [y EXCEPT !.pc = "older"]
  <2>1. /\ x \in Processes /\ x.cur = y.cur
        /\ x.pc = "older" /\ x.back = y.back
    BY DEF Processes, Places
  <2>2. ix' = [ix EXCEPT ![i] = x]
    BY <1>6 DEF Goto
  <2> QED
    BY <1>2, <1>3, <1>6, <2>1, <2>2, MovesInPlace
<1>7. CASE /\ ~(from > Len(log))
           /\ ix' = [ix EXCEPT ![i].pc = "new", ![i].lo = from,
                               ![i].hi = Len(log)]
  <2>1. Len(log) \in Nat
    BY DEF IInv, Typed
  <2> PICK lo \in Nat, hi \in Nat : lo = from /\ hi = Len(log)
    BY <1>3, <2>1
  <2> DEFINE x == [y EXCEPT !.pc = "new", !.lo = lo, !.hi = hi]
  <2>2. /\ x \in Processes /\ x.cur = y.cur /\ x.pc = "new" /\ x.back = y.back
        /\ x.lo = lo /\ x.hi = hi
    BY DEF Processes, Places
  <2>3. ix' = [ix EXCEPT ![i] = x]
    BY <1>7
  <2> HIDE DEF x
  <2>4. Adjoins(x)
    BY <1>3, <1>7, <2>1, <2>2 DEF Adjoins
  <2>5. Sound(x)
    BY <1>1, <2>2, <2>4 DEF Sound
  <2>6. Sound(x)'
    BY <1>2, <2>2, <2>5, SoundStays DEF IInv
  <2> QED
    BY <1>2, <2>2, <2>3, <2>6, OneMoves, SavedStays
<1> QED
  BY <1>5, <1>6, <1>7 DEF ReadNewest

LEMMA EndWalkKeeps ==
  ASSUME NEW i \in Indexers, IInv, EndWalk(i)
  PROVE  IInv'
<1> PICK y \in Processes : y = ix[i]
  BY DEF IInv, Typed
<1> DEFINE done == WalkedDown(y)
<1>1. y.cur \in Cursors /\ Sound(y) /\ y.cur.tip # None
  BY DEF IInv, Processes, Sound, EndWalk
<1>2. UNCHANGED cursor /\ Growth
  BY StandsStill DEF EndWalk, IInv, Typed
<1>3. done \in BOOLEAN /\ (done => y.cur.complete \/ y.cur.oldest = 1)
  BY <1>1 DEF WalkedDown, AtBottom, WalkFrom, Cursors
<1>4. ix' = [ix EXCEPT ![i].pc = "save", ![i].cur.complete = done]
  BY DEF EndWalk
<1> HIDE DEF done
<1>5. PICK c \in Cursors : /\ c = [y.cur EXCEPT !.complete = done]
                           /\ c.tip = y.cur.tip
                           /\ c.oldest = y.cur.oldest /\ c.complete = done
  BY <1>1, <1>3, Completed
<1>6. PICK x \in Processes : /\ x = [y EXCEPT !.pc = "save", !.cur = c]
                             /\ x.cur = c /\ x.pc = "save" /\ x.back = y.back
  BY GoesToSave
<1>7. ix' = [ix EXCEPT ![i] = x]
  <2>1. ix' = [ix EXCEPT ![i] = [ix[i] EXCEPT !.pc = "save",
                           !.cur = [ix[i].cur EXCEPT !.complete = done]]]
    BY <1>4, SavesInPlace DEF IInv, Typed
  <2> QED
    BY <1>5, <1>6, <2>1
<1>8. Honest(c)
  BY <1>1, <1>3, <1>5 DEF Sound, Honest
<1>9. Honest(c)'
  BY <1>2, <1>8, HonestStays DEF IInv
<1>10. Sound(x)'
  BY <1>1, <1>5, <1>6, <1>9 DEF Sound
<1> QED
  BY <1>2, <1>6, <1>7, <1>10, OneMoves, SavedStays

LEMMA SaveCursorKeeps ==
  ASSUME NEW i \in Indexers, IInv, SaveCursor(i)
  PROVE  IInv'
<1> DEFINE x == [Idle EXCEPT !.pc = "rents"]
<1>1. Growth /\ cursor' = ix[i].cur /\ ix' = [ix EXCEPT ![i] = x]
  BY StandsStill DEF SaveCursor, IInv, Typed
<1>2. PICK c \in Cursors : c = ix[i].cur /\ Honest(c)
  BY DEF IInv, Typed, Sound, Processes
<1>3. x \in Processes /\ x.cur = NoCursor /\ x.pc = "rents" /\ x.back = "idle"
  BY IdleTyped DEF Processes, Places, Idle
<1>4. Honest(c)'
  BY <1>1, <1>2, HonestStays DEF IInv
<1>5. cursor' \in Cursors /\ Honest(cursor)'
  BY <1>1, <1>2, <1>4 DEF Honest
<1>6. Len(log') \in Nat
  BY <1>1 DEF Growth
<1>7. Sound(x)'
  BY <1>3, <1>6 DEF Sound, Honest, NoCursor, None
<1> QED
  BY <1>1, <1>3, <1>5, <1>7, OneMoves

-----------------------------------------------------------------------------
(* Storing a batch: all of it is in the table or passed, and so is what    *)
(* was skipped                                                             *)

LEMMA BatchAccounted ==
  ASSUME IInv, NEW i, NEW batch, NEW skipped, NEW c, NEW pages,
         StoreBatch(i, batch, skipped, c, pages)
  PROVE  /\ Growth /\ UNCHANGED <<log, cursor>>
         /\ rows \cup passed \cup batch \cup skipped \subseteq rows' \cup passed'
<1>1. PICK withheld \in SUBSET batch :
        /\ Upsert(batch \ withheld, TRUE)
        /\ passed' = passed \cup skipped \cup withheld
        /\ UNCHANGED <<log, cursor>>
  BY DEF StoreBatch
<1>2. Growth
  BY <1>1, UpsertGrows
<1>3. rows' = rows \cup (batch \ withheld)
  BY <1>1 DEF Upsert
<1> QED
  BY <1>1, <1>2, <1>3

LEMMA BatchStored ==
  ASSUME IInv, NEW i \in Indexers, NEW batch, NEW skipped, NEW c \in Cursors,
         NEW pages \in Nat, StoreBatch(i, batch, skipped, c, pages),
         c.tip # None, Honest(c)'
  PROVE  IInv'
<1> PICK y \in Processes : y = ix[i]
  BY DEF IInv, Typed
<1> DEFINE next == [y EXCEPT !.cur = c, !.pages = pages, !.lo = 1, !.hi = 0]
           linking == [next EXCEPT !.pc = "attach", !.back = "older",
                                   !.patch = {"closeSignature"}]
           walking == [next EXCEPT !.pc = "older"]
<1>1. Growth /\ UNCHANGED cursor
  BY BatchAccounted
<1>2. next \in Processes /\ next.cur = c
  BY DEF Processes, Places
<1> HIDE DEF next
<1>3. /\ linking \in Processes /\ linking.cur = c /\ linking.pc = "attach"
      /\ walking \in Processes /\ walking.cur = c /\ walking.pc = "older"
  BY <1>2 DEF Processes, Places, Extra
<1>4. PICK x \in {linking, walking} : ix' = [ix EXCEPT ![i] = x]
  BY DEF StoreBatch, next
<1> HIDE DEF linking, walking
<1>5. x \in Processes /\ x.cur = c /\ x.pc # "new"
  BY <1>3, <1>4
<1>6. Sound(x)'
  BY <1>5 DEF Sound
<1> QED
  BY <1>1, <1>4, <1>5, <1>6, OneMoves, SavedStays

LEMMA StoreFreshKeeps ==
  ASSUME NEW i \in Indexers, IInv, StoreFresh(i)
  PROVE  IInv'
<1>1. PICK y \in Processes : y = ix[i]
  BY DEF IInv, Typed
<1>2. /\ y.cur \in Cursors /\ y.lo \in Nat /\ y.hi \in Nat /\ y.pages \in Nat
      /\ y.cur.tip \in Nat /\ y.cur.oldest \in Nat
  BY DEF Processes, Cursors
<1>3. Honest(y.cur) /\ Adjoins(y)
  BY <1>1 DEF IInv, Sound, StoreFresh
<1> DEFINE oldest == IF y.cur.oldest = None THEN y.lo ELSE y.cur.oldest
           c == [y.cur EXCEPT !.tip = y.hi, !.oldest = oldest]
           got == rows' \cup passed'
<1>4. oldest \in Nat /\ 1 <= y.lo /\ 1 <= oldest /\ oldest <= y.hi
  BY <1>2, <1>3 DEF Honest, Adjoins, None
<1>5. StoreBatch(i, y.lo..y.hi, Skipped(y), c, y.pages)
  BY <1>1 DEF StoreFresh
<1> HIDE DEF oldest
<1>6. /\ c \in Cursors /\ c.tip = y.hi /\ c.oldest = oldest
      /\ c.complete = y.cur.complete
  BY <1>2, <1>4 DEF Cursors
<1> HIDE DEF c
<1>7. /\ rows \cup passed \subseteq got /\ y.lo..y.hi \subseteq got
      /\ Skipped(y) \subseteq got /\ UNCHANGED log
  BY <1>5, BatchAccounted
<1> HIDE DEF got
<1>8. ASSUME y.cur.tip # None \/ y.cur.complete
      PROVE  y.cur.tip + 1..y.hi \subseteq got
  <2>1. Skipped(y) = y.cur.tip + 1..y.hi - Reach(y.cur.tip)
    BY <1>8 DEF Skipped
  <2>2. y.cur.tip + 1..y.lo - 1 \subseteq got
    <3>1. CASE y.lo = y.cur.tip + 1
      <4>1. y.cur.tip + 1..y.lo - 1 = {}
        BY <1>2, <3>1
      <4> QED
        BY <4>1
    <3>2. CASE y.lo = y.hi - Reach(y.cur.tip) + 1
      <4>1. PICK r \in Nat : r = Reach(y.cur.tip)
        BY HistoryAssumption DEF Reach
      <4>2. y.lo - 1 = y.hi - r
        BY <1>2, <3>2, <4>1
      <4> QED
        BY <1>7, <2>1, <4>1, <4>2
    <3> QED
      BY <1>3, <3>1, <3>2 DEF Adjoins
  <2>3. \A t \in Int : t \in y.cur.tip + 1..y.hi =>
          t \in y.cur.tip + 1..y.lo - 1 \/ t \in y.lo..y.hi
    BY <1>2
  <2> QED
    BY <1>7, <2>2, <2>3
<1>9. oldest..y.hi \subseteq got
  <2>1. CASE y.cur.oldest = None
    BY <1>7, <2>1 DEF oldest
  <2>2. CASE y.cur.oldest # None
    <3>1. y.cur.tip # None /\ oldest..y.cur.tip \subseteq rows \cup passed
      BY <1>3, <2>2 DEF Honest, oldest
    <3>2. \A t \in Int : t \in oldest..y.hi =>
            t \in oldest..y.cur.tip \/ t \in y.cur.tip + 1..y.hi
      BY <1>2, <1>4
    <3> QED
      BY <1>7, <1>8, <3>1, <3>2
  <2> QED
    BY <2>1, <2>2
<1>10. c.complete => 1..y.hi \subseteq got
  <2>1. \A t \in Int : t \in 1..y.hi =>
          t \in 1..y.cur.tip \/ t \in y.cur.tip + 1..y.hi
    BY <1>2
  <2> QED
    BY <1>3, <1>6, <1>7, <1>8, <2>1 DEF Honest
<1>11. y.hi <= Len(log') /\ y.hi # None /\ oldest # None
  BY <1>2, <1>3, <1>4, <1>7 DEF Adjoins, None
<1>12. Honest(c)'
  BY <1>4, <1>6, <1>9, <1>10, <1>11 DEF Honest, got
<1> QED
  BY <1>2, <1>5, <1>6, <1>11, <1>12, BatchStored

LEMMA StoreOlderKeeps ==
  ASSUME NEW i \in Indexers, IInv, StoreOlder(i)
  PROVE  IInv'
<1>1. PICK y \in Processes : y = ix[i]
  BY DEF IInv, Typed
<1>2. /\ y.cur \in Cursors /\ y.pages \in Nat
      /\ y.cur.tip \in Nat /\ y.cur.oldest \in Nat
  BY DEF Processes, Cursors
<1>3. Honest(y.cur) /\ y.cur.tip # None
  BY <1>1 DEF IInv, Sound, StoreOlder
<1>4. y.cur.oldest <= y.cur.tip /\ 1 <= y.cur.oldest
  BY <1>2, <1>3 DEF Honest, None
<1> DEFINE from == IF y.cur.oldest > PAGE THEN y.cur.oldest - PAGE ELSE 1
           short == y.cur.oldest - from < PAGE
           c == [y.cur EXCEPT !.oldest = from, !.complete = short]
           got == rows' \cup passed'
<1>5. PAGE \in Nat /\ 1 <= PAGE
  BY HistoryAssumption
<1>6. from \in Nat /\ 1 <= from /\ from <= y.cur.oldest /\ (short => from = 1)
  BY <1>2, <1>4, <1>5
<1>7. OlderFrom(y) = from /\ OlderPage(y) = from..y.cur.oldest - 1
  BY DEF OlderFrom, OlderPage, WalkFrom
<1>8. StoreBatch(i, from..y.cur.oldest - 1, {}, c, y.pages + 1)
  BY <1>1, <1>7 DEF StoreOlder, WalkFrom
<1>9. c \in Cursors /\ c.tip = y.cur.tip /\ c.oldest = from /\ c.complete = short
  <2>1. short \in BOOLEAN
    OBVIOUS
  <2> QED
    BY <1>2, <1>6, <2>1 DEF Cursors
<1> HIDE DEF c, short, from
<1>10. /\ rows \cup passed \subseteq got /\ from..y.cur.oldest - 1 \subseteq got
       /\ UNCHANGED log
  BY <1>8, BatchAccounted
<1> HIDE DEF got
<1>11. from..y.cur.tip \subseteq got
  <2>1. \A t \in Int : t \in from..y.cur.tip =>
          t \in from..y.cur.oldest - 1 \/ t \in y.cur.oldest..y.cur.tip
    BY <1>2, <1>6
  <2> QED
    BY <1>3, <1>10, <2>1 DEF Honest
<1>12. from <= y.cur.tip /\ from # None /\ y.cur.tip <= Len(log')
  BY <1>2, <1>3, <1>4, <1>6, <1>10 DEF Honest, None
<1>13. Honest(c)'
  BY <1>3, <1>6, <1>9, <1>11, <1>12 DEF Honest, got
<1>14. y.pages + 1 \in Nat /\ c.tip # None
  BY <1>2, <1>3, <1>9
<1> QED
  BY <1>8, <1>9, <1>13, <1>14, BatchStored

-----------------------------------------------------------------------------

LEMMA Step == IInv /\ [Next]_vars => IInv'
<1> SUFFICES ASSUME IInv, [Next]_vars PROVE IInv'
  OBVIOUS
<1>1. CASE UNCHANGED vars
  <2>1. Growth
    BY <1>1, StandsStill DEF vars, IInv, Typed
  <2> QED
    BY <1>1, <2>1, NoneMoves DEF vars
<1>2. ASSUME NEW kind \in Kinds, Land(kind)
      PROVE  IInv'
  BY <1>2, LandKeeps
<1>3. ASSUME NEW i \in Indexers, CatchUp(i)
      PROVE  IInv'
  <2>1. CASE LoadCursor(i)
    BY <2>1, LoadCursorKeeps
  <2>2. CASE ReadNewest(i)
    BY <2>2, ReadNewestKeeps
  <2>3. CASE StoreFresh(i)
    BY <2>3, StoreFreshKeeps
  <2>4. CASE StoreOlder(i)
    BY <2>4, StoreOlderKeeps
  <2>5. CASE EndWalk(i)
    BY <2>5, EndWalkKeeps
  <2>6. CASE SaveCursor(i)
    BY <2>6, SaveCursorKeeps
  <2>7. CASE BackfillRents(i)
    BY <2>7, BackfillRentsKeeps
  <2>8. CASE RecordPushClosed(i)
    BY <2>8, RecordPushClosedKeeps
  <2>9. CASE AttachRead(i)
    BY <2>9, AttachReadKeeps
  <2>10. CASE AttachPatch(i)
    BY <2>10, AttachPatchKeeps
  <2> QED
    BY <1>3, <2>1, <2>2, <2>3, <2>4, <2>5, <2>6, <2>7, <2>8, <2>9, <2>10 DEF CatchUp
<1>4. ASSUME NEW i \in Indexers,
             \/ SettleOne(i) \/ CloseOne(i)
             \/ Fault(i) \/ AttachFails(i)
      PROVE  IInv'
  BY <1>4, SettleOneKeeps, CloseOneKeeps, FaultKeeps, AttachFailsKeeps
<1>5. ASSUME NEW i \in Indexers, NEW t \in Txs, StoreLive(i, t)
      PROVE  IInv'
  BY <1>5, StoreLiveKeeps
<1> QED
  BY <1>1, <1>2, <1>3, <1>4, <1>5 DEF Next

\* The cursor claims nothing that is missing from the table, whoever saved it after
\* whose crash, except what a catch-up moved past knowingly: what lay beyond its
\* pages, and what the node did not return.  Nothing is assumed of how much lands
\* between two catch-ups.
THEOREM CursorAlwaysHonest == Spec => []CursorIsHonest
<1>1. Init => IInv
  BY Initially
<1>2. IInv /\ [Next]_vars => IInv'
  BY Step
<1>3. IInv => CursorIsHonest
  BY DEF IInv, Honest, CursorIsHonest
<1> QED
  BY <1>1, <1>2, <1>3, PTL DEF Spec
=============================================================================

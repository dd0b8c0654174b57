------------------------------- MODULE History -------------------------------
(***************************************************************************)
(* The history indexer (scripts/history.ts, driven by scripts/crank.ts):   *)
(* it copies the program's transactions into a table, page by page, and    *)
(* keeps a cursor of what it has.                                          *)
(*                                                                         *)
(* The chain is the list of the program's transactions, oldest first; one  *)
(* push is followed through it, from the transaction that settles it to    *)
(* the one that closes it.  Several indexers may run (two cranks, or a     *)
(* crank and index-once.ts) on one table: every call to the table or to    *)
(* the node is a step of its own, and any of them may fail or be the last  *)
(* one its process makes.                                                  *)
(*                                                                         *)
(* A page of older signatures never changes, so the newest page and those  *)
(* behind it down to the tip are read in one step, and an older page is    *)
(* stored in the step that reads it.  Every transaction has a slot of its  *)
(* own, its place on the chain.  Of the rows the websocket brings only the *)
(* hits' are kept: they replace a slot and what was merged into a row, and *)
(* every other one merely adds a row early.                                *)
(***************************************************************************)
EXTENDS Integers, Sequences, FiniteSets

CONSTANTS
  Indexers,     \* processes that run catchUpHistory
  Listeners,    \* those of them that store websocket events too: the cranks
  PAGE,         \* signatures per page
  MAX_PAGES,    \* maxPages: pages of new, and of old signatures per catch-up
  LIMIT,        \* limit: hits per backfillRents
  Traffic,      \* bound: the kinds of transactions that land
  MaxOld,       \* bound: transactions landed before anything is indexed
  MaxTxs,       \* bound: the length of the chain after which nothing more lands
  MaxFaults     \* bound: calls that fail or withhold and processes that stop

\* What a transaction did: settle the push, close it, settle another player's push.
Kinds == {"other", "hit", "settle", "close"}
Hits == {"hit", "settle"}

ASSUME HistoryAssumption ==
  /\ Listeners \subseteq Indexers
  /\ PAGE \in Nat \ {0} /\ MAX_PAGES \in Nat \ {0} /\ LIMIT \in Nat \ {0}
  /\ Traffic \subseteq Kinds
  /\ MaxOld \in Nat /\ MaxTxs \in Nat /\ MaxFaults \in Nat

VARIABLES
  log,       \* the chain: what each transaction did, oldest first
  live,      \* hits a listener has still to store: <<listener, transaction>>
  rows,      \* soldust_events: transactions that have their row
  sunk,      \* those of them whose row says slot 0
  extras,    \* what has been merged into the settle's row
  cursor,    \* soldust_cursor, the one row of this program
  ix,        \* the indexers
  passed,    \* history: what a catch-up moved past although it did not get it
  faults

vars == <<log, live, rows, sunk, extras, cursor, ix, passed, faults>>

Txs == 1..Len(log)
None == 0                               \* no signature

Found(kind) == \E t \in Txs : log[t] = kind
TxOf(kind) == CHOOSE t \in Txs : log[t] = kind

\* What an indexer knows: the cursor it loaded and moves, the batch it has yet to
\* store (lo..hi), and the attachRentToSettle it is in.
NoCursor == [tip |-> None, oldest |-> None, complete |-> FALSE]
Idle == [pc |-> "idle", cur |-> NoCursor, lo |-> 1, hi |-> 0, pages |-> 0,
         patch |-> {}, prev |-> {}, back |-> "idle"]

Init ==
  /\ \E n \in 0..MaxOld : log = [t \in 1..n |-> "hit"]
  /\ live = {} /\ rows = {} /\ sunk = {} /\ extras = {}
  /\ cursor = NoCursor
  /\ ix = [i \in Indexers |-> Idle]
  /\ passed = {} /\ faults = 0

-----------------------------------------------------------------------------
(* The chain                                                               *)

\* What may land next: anything, but one settle and then one close.
MayLand(kind) ==
  /\ kind \in Traffic
  /\ Len(log) < MaxTxs
  /\ kind = "settle" => ~Found("settle")
  /\ kind = "close" => Found("settle") /\ ~Found("close")

Lands(kind) ==
  /\ MayLand(kind)
  /\ log' = Append(log, kind)
  /\ live' = IF kind \in Hits THEN live \cup Listeners \X {Len(log) + 1} ELSE live

\* Somebody else's transaction.
Land(kind) ==
  /\ Lands(kind)
  /\ UNCHANGED <<rows, sunk, extras, cursor, ix, passed, faults>>

-----------------------------------------------------------------------------
(* The table                                                               *)

\* upsertEvents: an existing row is replaced, its slot and what was merged into
\* its data included.
Upsert(ts, hasSlot) ==
  /\ rows' = rows \cup ts
  /\ sunk' = IF hasSlot THEN sunk \ ts ELSE sunk \cup ts
  /\ extras' = IF \E t \in ts : log[t] = "settle" THEN {} ELSE extras

\* listenAndStore: an event, stored whenever it arrives; a log brings no slot.
StoreLive(i, t) ==
  /\ <<i, t>> \in live
  /\ live' = live \ {<<i, t>>}
  /\ Upsert({t}, FALSE)
  /\ UNCHANGED <<log, cursor, ix, passed, faults>>

Goto(i, pc) == ix' = [ix EXCEPT ![i].pc = pc]

\* An indexer leaves attachRentToSettle for what it was called from.
Leave(i) ==
  ix' = [ix EXCEPT ![i] = [@ EXCEPT !.pc = ix[i].back, !.patch = {}, !.prev = {},
                                    !.back = "idle"]]

\* attachRentToSettle, the SELECT: nothing to do without a settle row, or when
\* the row already says so.
AttachRead(i) ==
  /\ ix[i].pc = "attach"
  /\ IF /\ Found("settle") /\ TxOf("settle") \in rows
        /\ ~(ix[i].patch \subseteq extras)
     THEN ix' = [ix EXCEPT ![i].pc = "patch", ![i].prev = extras]
     ELSE Leave(i)
  /\ UNCHANGED <<log, live, rows, sunk, extras, cursor, passed, faults>>

\* attachRentToSettle, the PATCH: of the data read before.
AttachPatch(i) ==
  /\ ix[i].pc = "patch"
  /\ extras' = ix[i].prev \cup ix[i].patch
  /\ Leave(i)
  /\ UNCHANGED <<log, live, rows, sunk, cursor, passed, faults>>

-----------------------------------------------------------------------------
(* The resolver's records                                                  *)

\* settleOne: the push settles, then its draw goes onto the settle's row.
SettleOne(i) ==
  /\ ix[i].pc = "idle"
  /\ Lands("settle")
  /\ ix' = [ix EXCEPT ![i].pc = "attach", ![i].patch = {"randomness"},
                      ![i].back = "idle"]
  /\ UNCHANGED <<rows, sunk, extras, cursor, passed, faults>>

\* The close in resolveAll: the transaction, then recordPushClosed.  The draw is
\* known unless the round's account is gone.
CloseOne(i) ==
  /\ ix[i].pc = "idle"
  /\ Lands("close")
  /\ \E draw \in SUBSET {"randomness"} :
       ix' = [ix EXCEPT ![i].pc = "record", ![i].back = "idle",
                        ![i].patch = {"closeSignature"} \cup draw]
  /\ UNCHANGED <<rows, sunk, extras, cursor, passed, faults>>

\* recordPushClosed: the close's own row first.
RecordPushClosed(i) ==
  /\ ix[i].pc = "record"
  /\ Upsert({TxOf("close")}, FALSE)
  /\ Goto(i, "attach")
  /\ UNCHANGED <<log, live, cursor, passed, faults>>

-----------------------------------------------------------------------------
(* catchUpHistory                                                          *)

LoadCursor(i) ==
  /\ ix[i].pc = "idle"
  /\ ix' = [ix EXCEPT ![i] = [Idle EXCEPT !.pc = "newest", !.cur = cursor]]
  /\ UNCHANGED <<log, live, rows, sunk, extras, cursor, passed, faults>>

\* How many new signatures a catch-up reads: one page without a tip, MAX_PAGES of
\* them with one.
Reach(tip) == IF tip = None THEN PAGE ELSE PAGE * MAX_PAGES

FirstFresh(tip) ==
  LET last == Len(log) - Reach(tip)
  IN IF last > tip THEN last + 1 ELSE tip + 1

\* The newest page, and those behind it down to the tip.  An empty one means there
\* is no history at all.
ReadNewest(i) ==
  /\ ix[i].pc = "newest"
  /\ LET from == FirstFresh(ix[i].cur.tip)
     IN CASE log = <<>> ->
               ix' = [ix EXCEPT ![i].pc = "save", ![i].cur.complete = TRUE]
          [] log # <<>> /\ from > Len(log) -> Goto(i, "older")
          [] OTHER ->
               ix' = [ix EXCEPT ![i].pc = "new", ![i].lo = from,
                                ![i].hi = Len(log)]
  /\ UNCHANGED <<log, live, rows, sunk, extras, cursor, passed, faults>>

\* parseAndStore: a row for every transaction of the batch that the node returns
\* and whose logs decode, none for those it withholds; then a close among them is
\* linked to its settle.  The cursor moves past all of them, and past those that
\* were skipped.
StoreBatch(i, batch, skipped, cur, pages) ==
  \E withheld \in SUBSET batch :
    /\ withheld # {} => faults < MaxFaults
    /\ faults' = IF withheld = {} THEN faults ELSE faults + 1
    /\ Upsert(batch \ withheld, TRUE)
    /\ passed' = passed \cup skipped \cup withheld
    /\ LET next == [ix[i] EXCEPT !.cur = cur, !.pages = pages, !.lo = 1, !.hi = 0]
       IN ix' = [ix EXCEPT ![i] =
                  IF Found("close") /\ TxOf("close") \in batch \ withheld
                  THEN [next EXCEPT !.pc = "attach", !.back = "older",
                                    !.patch = {"closeSignature"}]
                  ELSE [next EXCEPT !.pc = "older"]]
    /\ UNCHANGED <<log, live, cursor>>

\* What a catch-up leaves unread for good between its tip and its new signatures:
\* all that its pages do not reach.  Without a tip the walk down comes by it, unless
\* the cursor says there is nothing to walk to.
Skipped(x) ==
  IF x.cur.tip = None /\ ~x.cur.complete THEN {}
  ELSE x.cur.tip + 1..x.hi - Reach(x.cur.tip)

\* The new signatures; the loaded cursor moves up to the newest of them.
StoreFresh(i) ==
  /\ ix[i].pc = "new"
  /\ LET x == ix[i]
     IN StoreBatch(i, x.lo..x.hi, Skipped(x),
                   [x.cur EXCEPT !.tip = x.hi,
                                 !.oldest = IF @ = None THEN x.lo ELSE @],
                   x.pages)

\* Mutant: every catch-up walks down from the tip again.
WalkFrom_Tip(cur) == cur.tip

WalkFrom(cur) == cur.oldest

AtBottom(x) == WalkFrom(x.cur) = 1      \* the next page would be empty

\* A page of older signatures starts here.
OlderFrom(x) ==
  IF WalkFrom(x.cur) > PAGE THEN WalkFrom(x.cur) - PAGE ELSE 1

OlderPage(x) == OlderFrom(x)..WalkFrom(x.cur) - 1

\* The next page of older signatures; a short one is the last.
StoreOlder(i) ==
  /\ ix[i].pc = "older"
  /\ LET x == ix[i]
     IN /\ ~x.cur.complete /\ x.pages < MAX_PAGES /\ ~AtBottom(x)
        /\ StoreBatch(i, OlderPage(x), {},
                      [x.cur EXCEPT !.oldest = OlderFrom(x),
                                    !.complete = WalkFrom(x.cur) - OlderFrom(x) < PAGE],
                      x.pages + 1)

\* Mutant: the walk is over when its pages are.
WalkedDown_Capped(x) == x.cur.complete \/ AtBottom(x) \/ x.pages = MAX_PAGES

\* What the walk found out when it stops: a page spent in full says nothing.
WalkedDown(x) == x.cur.complete \/ (x.pages < MAX_PAGES /\ AtBottom(x))

EndWalk(i) ==
  /\ ix[i].pc = "older"
  /\ WalkedDown(ix[i]) \/ ix[i].pages = MAX_PAGES
  /\ ix' = [ix EXCEPT ![i].pc = "save", ![i].cur.complete = WalkedDown(ix[i])]
  /\ UNCHANGED <<log, live, rows, sunk, extras, cursor, passed, faults>>

SaveCursor(i) ==
  /\ ix[i].pc = "save"
  /\ cursor' = ix[i].cur
  /\ ix' = [ix EXCEPT ![i] = [Idle EXCEPT !.pc = "rents"]]
  /\ UNCHANGED <<log, live, rows, sunk, extras, passed, faults>>

-----------------------------------------------------------------------------
(* backfillRents                                                           *)

\* What its query may return: the LIMIT newest hits by slot, those of one slot in
\* any order.
Pages ==
  LET hits == {t \in rows : log[t] \in Hits}
      Slot(t) == IF t \in sunk THEN 0 ELSE t
      size == IF Cardinality(hits) < LIMIT THEN Cardinality(hits) ELSE LIMIT
  IN {page \in SUBSET hits :
        /\ Cardinality(page) = size
        /\ \A t \in page, u \in hits \ page : Slot(t) >= Slot(u)}

\* Mutant: a close that has its row is taken for linked.
Unlinked_Recorded(page) ==
  /\ Found("settle") /\ TxOf("settle") \in page
  /\ Found("close") /\ TxOf("close") \notin rows

\* A settle row without a close signature, of a push that is closed on chain.
Unlinked(page) ==
  /\ Found("settle") /\ TxOf("settle") \in page
  /\ Found("close") /\ "closeSignature" \notin extras

BackfillRents(i) ==
  /\ ix[i].pc = "rents"
  /\ \E page \in Pages :
       IF Unlinked(page)
       THEN ix' = [ix EXCEPT ![i].pc = "record", ![i].back = "idle",
                             ![i].patch = {"closeSignature"}]
       ELSE ix' = [ix EXCEPT ![i] = Idle]
  /\ UNCHANGED <<log, live, rows, sunk, extras, cursor, passed, faults>>

-----------------------------------------------------------------------------

\* What a failing upsertEvents may leave: the older part of its batch.
Remains(i) ==
  LET x == ix[i]
      batch == CASE x.pc = "new" -> x.lo..x.hi
                 [] x.pc = "older" /\ ~AtBottom(x) -> OlderPage(x)
                 [] OTHER -> {}
  IN {{u \in batch : u < t} : t \in batch \cup {0}}

\* A call that throws or finds no close, or a process that stops: what it knew is
\* gone, what it wrote stays.
Fault(i) ==
  /\ ix[i].pc # "idle"
  /\ faults < MaxFaults
  /\ faults' = faults + 1
  /\ ix' = [ix EXCEPT ![i] = Idle]
  /\ \E ts \in Remains(i) : Upsert(ts, TRUE)
  /\ UNCHANGED <<log, live, cursor, passed>>

\* A link that fails is given up: whatever called attachRentToSettle goes on.
AttachFails(i) ==
  /\ ix[i].pc \in {"attach", "patch"}
  /\ faults < MaxFaults
  /\ faults' = faults + 1
  /\ Leave(i)
  /\ UNCHANGED <<log, live, rows, sunk, extras, cursor, passed>>

CatchUp(i) ==
  \/ LoadCursor(i) \/ ReadNewest(i) \/ StoreFresh(i) \/ StoreOlder(i)
  \/ EndWalk(i) \/ SaveCursor(i) \/ BackfillRents(i)
  \/ RecordPushClosed(i) \/ AttachRead(i) \/ AttachPatch(i)

Next ==
  \/ \E kind \in Kinds : Land(kind)
  \/ \E i \in Indexers :
       \/ CatchUp(i) \/ SettleOne(i) \/ CloseOne(i)
       \/ \E t \in Txs : StoreLive(i, t)
       \/ Fault(i) \/ AttachFails(i)

\* The crank calls catchUpHistory and backfillRents on every poll; nothing is
\* assumed of the chain or of the websocket.
Fairness == \A i \in Indexers : WF_vars(CatchUp(i))

Spec == Init /\ [][Next]_vars /\ Fairness

-----------------------------------------------------------------------------

\* What the cursor claims is in the table, whoever saved it after whose crash:
\* everything between its two ends, and down to the first transaction once it says
\* complete.  The only holes are those the code makes knowingly: what lay beyond the
\* pages of one catch-up, and what the node did not return.
CursorIsHonest ==
  /\ cursor.tip # None => cursor.oldest..cursor.tip \subseteq rows \cup passed
  /\ cursor.complete => 1..cursor.tip \subseteq rows \cup passed

\* Once the chain is quiet the walk down ends: all of it is in the table, but for
\* those holes, and the cursor says so.
HistoryCompletes ==
  <>[](rows \cup passed = Txs /\ (log # <<>> => cursor.complete))

\* A closed push ends up with its close on its settle's row, although either row
\* may come first and storing the settle again wipes what was merged into it, as
\* long as that row is among the hits the backfill looks at.
CloseGetsLinked ==
  <>[](/\ Found("close")
       /\ \A page \in Pages : TxOf("settle") \in page
       => "closeSignature" \in extras)

-----------------------------------------------------------------------------

\* catchUpHistory's comment: "New signatures first (so live history is complete)".
\* With more new signatures than its pages hold, what lies between them and the
\* old tip is passed over, and no later catch-up looks there.
LiveHistoryComplete ==
  cursor.tip # None => cursor.oldest..cursor.tip \subseteq rows
=============================================================================

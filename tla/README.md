# Corium / soldust: specifications, checks and proofs

This directory holds TLA+ models of the program in `onchain/`, the TLC
configurations that check them on small instances, and TLAPS proofs of the
properties that matter most for every value of the constants. `PROJECT.json`
lists every run, theorem, hazard and the source lines each definition models.
Paths below are relative to `src/`; `P/` stands for
`src/onchain/programs/soldust/src/`.

## 1. The system

A *star* collects lamports. Until its mass reaches `FEED_MASS` it is a nursery:
`feed` adds mass at once and earns a share of a later hole. Above that, players
escrow *pushes* (`request_push`), which wait in one line per star. Pushes that
arrive together share a *round*, and a round shares one VRF draw: `draw_round`
seals it and buys the draw, the oracle calls `consume_randomness`, and
`resolve_push` takes the line's head, which survives (the star grows) or kills
the star and wins its pot. A star that survives to `HOLE_MASS` collapses and its
feeders share the pot; a star nobody feeds any more can be called off. All money
is in one vault account, claimed by four buckets of `Config`.

| Component | State | Operations | Hard behaviour | What makes it correct |
|---|---|---|---|---|
| Stars, queue, rounds (`P/instructions`, `P/state.rs`) | `Star`, `StarFeed`, `FeedShare`, `Round`, `PendingPush` accounts | 16 instructions, nearly all permissionless | any caller, any order; expiry racing the oracle; a kill in the middle of a round; succession while the old queue is full; sweeping of accounts others still read | every push resolves once, in order, whole; nothing is promised twice; no star or push is stuck |
| Vault and house (`P/vault.rs`, `P/instructions/admin.rs`) | vault lamports, the four buckets of `Config` | paying out, donations, withdrawals, draw reimbursement | draws dearer than their price, balances under the float | the vault always covers its claims; the house spends only its own |
| Economics (`P/game_config.rs`, `P/math.rs`, `P/constants.rs`) | none | clipping, splitting, odds, sweeteners, stages | rounding, boundaries | nothing lost to rounding, no fill jumps a boundary, fair odds |
| VRF request (`P/vrf.rs`) | none | seed from slot hash and entropy, CPI to the oracle, roll | stale slots, redelivery | one request and one draw per round, no seed used twice |
| Mock oracle (`localnet/mock-magicblock-vrf`) | request queue | request, fulfil, callback | late, repeated and unpinned answers | an answer reaches only the round that asked |
| Crank (`scripts/crank.ts`, `create-next-star.ts`) | a wake timer, a running and a queued tick, subscriptions | the tick, websocket wakes, a poll | coalesced wakes, events that are lost, reads gone stale within a tick, rival cranks, calls that fail | no wake is forgotten; whatever has an outcome settles, and the game moves on |
| Resolver, push client (`scripts/resolve.ts`, `push.ts`, `lib.ts`) | per-pass caches; an attempt and its signed transaction | resolve, void, sweep; request with retry | caches outliving what they cache; an error about a transaction that landed or still may | no pass stuck; no two transactions of one push stand to land |
| History indexer (`scripts/history.ts`, `index-once.ts`, `backfill-rents.ts`) | rows and a cursor in Supabase | paging new and old signatures, linking a close to its settle, backfill | two writers of a cursor, a stop between rows and cursor, rows that arrive in any order, transactions the node withholds, more of them than a catch-up has pages for | the cursor claims nothing that is missing but what a catch-up moved past; the walk ends; a close is linked to a settle the backfill looks at |
| RPC proxy (`scripts/rpc-proxy.ts`) | token buckets, connection counts | HTTP forward, websocket bridge, chat | retries upstream, limits | a retried body is carried out once; limits hold |
| Events, errors; operator scripts; localnet scenarios | none | | | not modelled |

Components meet in accounts (every instruction reads and writes shared ones
inside an atomic transaction), in the oracle's callback, and off chain in RPC
polling and account subscriptions.

## 2. Modules

| Module | Models | Role |
|---|---|---|
| `GameMath` | `P/game_config.rs`, `P/math.rs` | pure operators, used by everything |
| `StarFill` | a star filling at the deployed proportions | checks `GameMath` over a star's whole life |
| `Soldust` | every instruction that changes an account | the core state machine |
| `SoldustSafety` | – | invariants, action and liveness properties, the mappings to `PushLine` and `RoundLife` |
| `SoldustDocs` | – | statements of the documentation the code does not keep |
| `VaultLedger` | – | abstract: seven ways money may move |
| `PushLine` | – | abstract: the plain line a star promises its players |
| `RoundLife` | – | abstract: the life of a round, which `Soldust` and `VrfQueue` both implement |
| `VrfQueue` | the draw's way from entropy to callback: `P/vrf.rs`, `P/instructions/round.rs`, `localnet/mock-magicblock-vrf` | rounds and the oracle's queue, composed |
| `Crank` | `scripts/crank.ts` with `scripts/resolve.ts`, beside as much of the program as they look at | one crank among rivals |
| `History` | `scripts/history.ts` and what `crank.ts` and `resolve.ts` call of it | indexers, the table and the chain |
| `PushClient` | `scripts/push.ts` through `scripts/rpc-proxy.ts` (`forward`) | a client, the proxy, nodes and the push's account |
| `MCSoldust`, `MCStarFill` | – | instances for TLC |
| `GameMathProofs` | – | lemmas on steps, splits, room and sums over accounts |
| `SoldustStateProofs`, `SoldustSafetyProofs`, `StarFillProofs`, `VrfQueueProofs`, `CrankProofs`, `PushClientProofs`, `HistoryProofs` | – | the theorems (section 6) |

### How `Soldust` corresponds to the code

A Solana transaction happens in full or reverts, and its instruction sees no
other instruction half done. So one instruction is one action; its guards are
the account constraints, `require!`s and checked subtractions, and `Next` is the
interleaving of all callers. Accounts are functions over their PDA seeds:
`star[id]`, `round[star][round]`, `pending_push[<<player, client_seed>>]`; an
account that does not exist reads `"Unborn"` or `"Absent"` with zeroes.

* `ResolvePush` is `RefundPush` or `SettlePush`, the two paths of
  `resolve_push`. Whether a push rolls under its threshold is a free choice
  (`rolls`): the properties must hold whatever the oracle says.
* `DrawRound` takes the cranker's outlay from `Outlays`, since the code measures
  it rather than trusting a constant, and pays back at most `protocol_accrued`.
* `initialize` runs once, signed by the upgrade authority, and is `Init`.
* *Time.* The code compares slots and seconds with stored stamps. The model
  stores the difference: `round.age` is slots since `Round::stalled_since`,
  `star.quiet` seconds since `last_mass_ts`, each counted no further than the
  largest value a guard tells apart, which merges only states no instruction can
  distinguish. `NextSlot` and `NextSecond` advance independently.
* *Abstracted data.* Player statistics and STARDUST, event logs, account rents,
  the visual seed and the entropy fold touch none of the state above. The u64
  upper bound is left out: all lamports in existence fit. Subtractions are
  checked as in the code, so an action whose subtraction would fail is disabled,
  and `HeadNeverWedges` says that the head of the line is never disabled so.
### How `VrfQueue` corresponds to the code

`Soldust` lets the oracle answer any sealed round; `VrfQueue` models why it may.
It keeps of a star only what rounds need (its two counters and whether it has
finished), and of a round what the draw reads and writes. `draw_round` and its
call into the oracle are one action, `DrawRound`, since they are one
transaction; `MockFulfill` takes the request out and runs the callback in one
action for the same reason, so a refused callback leaves the request queued.
Hashes are tuples of what they hash, a slot stands for its own hash, and
`NextSlot` may skip a slot, which then has no `SlotHashes` entry. When a round
may be sealed, and that a drained round's members resolved in order, is
`Soldust`'s; here both are free, so every behaviour of `Soldust`'s rounds is
covered. Both modules are mapped to `RoundLife`, so what they say of rounds agrees
where they overlap. `honours_queue` is chosen in `Init`: `mock_fulfill_unpinned` stands for
an oracle that calls back without a request, and the properties say what the
program still guarantees then.

### How `Crank` corresponds to the code

Off chain nothing is atomic but the code between two awaits. A tick is a process
(`tick.pc`), one step per account read or transaction sent; what it read stays in
`tick` (`reason`, `pending`, `star`, `expected`, `cache`, `resolved`) while the
program's actions, taken by players, the oracle and rival cranks, go on between
any two steps. `debounce` and `queued` are `main`'s variables of these names.
`ReadFull` and `SendCreate`, `ReadStalled` and `SendCollapse` are each two steps,
so what was read may have changed when it is sent; the program's refusal is then
the call's exception, swallowed or ending the tick as in the code. `collapse_stalled`
asks for the star's `StarFeed` account, which exists once anybody fed the star
(`fed`, set by `Feed`): a quiet star that nobody ever fed is `Stalled` and not
`Collapsible`, so `crank.ts` sends its call at every poll and the program refuses it
(`crank.ts:91-95` names the refusal). Such a star still takes a feed or a push; nothing the crank does ends it. A send may also
fail in itself, before or after it was carried out. `cache` holds
the rounds a pass has read before their outcome; `resolveAll` builds its caches anew in
each pass, which `AtRest` states. Transactions wake the crank (`Emits`) or their
event is lost. The program is reduced to what a tick reads: a line of pushes in
rounds per star, whether it finished, how full it is, whether it has been quiet
for its window. Sweeping, and a tick's indexing, are in `History`.

### How `History` corresponds to the code

The chain is the sequence of the program's transactions; a signature is its index
and its slot. A transaction leaves a row of a kind the backfill asks for
(`history.ts:371`; a `"hit"`), does anything else (`"other"`), or belongs to the one push that is followed
through (`"settle"`, then `"close"`), since linking concerns a settle and its close.
`catchUpHistory` is one process per indexer (`ix[i]`),
cut at its calls to the table: `LoadCursor`, `ReadNewest`, `StoreFresh`, one
`StoreOlder` per page, `EndWalk`, `SaveCursor`; then `BackfillRents`.
`attachRentToSettle` is a read and a write of the whole `data` column
(`AttachRead`, `AttachPatch`), between which another indexer may store the settle
again, and it returns to its caller (`back`). `Fault` is a call that throws or a
process that stops: what it stored stays, including the older part of a batch that
was cut short, and its local cursor is gone.

Three ways in which a row may be missing or out of sight are part of the actions.
`StoreBatch` gives no row to any subset of its batch that the node withholds
(`history.ts:220`) or whose logs do not decode (`history.ts:232`), while the cursor
moves past the whole batch; `MaxFaults` bounds how often. A catch-up that has used
up its pages of new signatures moves its tip past those it did not read
(`Skipped`). Both are remembered in `passed`, a history variable that no guard
reads. And `BackfillRents` looks at `Pages`: the `LIMIT` newest hits by slot, where a row
written from the websocket (`StoreLive`) or by the resolver has slot 0 (`sunk`) until a
catch-up stores it again.

### How `PushClient` corresponds to the code

The client is `push.ts`'s loop for one push: `ReadStar`, the send, `rpc()`'s wait
(`Confirm`), and in the catch the two reads that decide about signing again.
`Forward`, `Throttled` and `GiveUp` are the proxy's loop; a node's answer may be
lost after it took the transaction (`Answer`), and what it took lands or expires
at any later time. Beside them rounds are sealed, and a push that landed is
resolved and swept by others.

### Mutants

A definition whose name ends in `_Something` and whose comment starts with
"Mutant" is a plausible bug in the definition below it. No specification uses
it; it records what each property can catch.

## 3. Runs

Model bounds: a step is 4 lamports, of which the house takes 1; a nursery is 2
steps and a hole 5 (6 in `succession`, where every amount is a multiple of 3
steps). These are the smallest numbers with a nursery that needs two feeds, a
queue that needs several pushes to fill, amounts that clip (`24`), amounts off
the lattice (`6`), a round that covers its draw and one that does not
(`VRF_REQUEST_FEE = 2`, one step rakes 1). `MaxPushes` bounds the ids handed out
per star, `MaxStars` the stars, `MaxAccrued` what donations bring.

| Run | Shows | Instance |
|---|---|---|
| `queue` | line, rounds, escrow and prizes agree through every interleaving of requests, seals, answers, voids, resolutions, sweeps; rounds live as `RoundLife` says; rounding starves no claim | 1 star, 2 players x 2 open pushes, 4 ids, legal, clipped and illegal amounts |
| `succession` | replaced stars drain, stranded stars end, stalls recycle and endow; `Soldust` implements `PushLine` | 2 stars, 3 ids each |
| `house` | `Soldust` implements `VaultLedger` through donations, withdrawals and dear draws; with nobody drawing and no answer every stake returns and every fed star ends | 1 star, 1 player x 2 open pushes, 3 ids, outlays 2 and 3, float 3; fairness below |
| `crank` | a full star takes its last rolls although its round does not pay for its draw | fairness below |
| `fill` | a star's whole life, 2100 steps: the pot is the exact share, fills stop at boundaries, chance x pot = the stake's prize share at every mass, and neither waiting nor splitting a stake earns more stardust | deployed proportions and stage table, units of 2000 lamports, chances in thousandths |
| `oracle` | late answers, voids, sweeps and a full queue between the seal and the draw: requests and sealed rounds match, seeds never repeat, a draw answers its own round's request, rounds live as `RoundLife` says | `VrfQueue`: 2 stars, 2 pushes each, 3 slots, queue of 2, expiry after 2 |
| `wakes` | no wake is forgotten; no pass sends a push out of turn or before its outcome; drawn pushes settle, a full star is succeeded and a quiet one that was ever fed is called off, although events are lost, reads go stale and a call fails | 2 stars of 2 pushes, 2 pushes in all, 1 failing call, any rival |
| `history` | what a cursor claims is in the table or was moved past; the walk down ends; the close reaches its settle's row if the backfill looks at that row | 2 indexers, 1 of them listening, 1 fault or withheld transaction, pages of 1, 1 page per catch-up, a window of 1 hit, up to 3 transactions at the start, a settle and a close landing while there are fewer than 3 |
| `push_client` | no two transactions of one push could both be taken; stakes never overlap | 3 attempts of 3 sends, 3 seals |
| `docs_*` | one statement of a document each, violated (section 5) | as `queue` and `push_client`; 2 indexers, pages of 2, up to 4 transactions, no fault |

Why these are enough: every guard of `Soldust` compares at most two members of a
line, two rounds or two stars, and four ids give two rounds of two members with
one voided, one drawn, one swept. Two seeds per player let an address be swept
and reused while another push waits. Bugs that need more (a third star) would
have to pass through a successor whose predecessor is already finished and
drained, a state `succession` reaches.
In `oracle`, two slots after a request let it expire and a late answer follow, two
stars with one contributor let every part of a seed but the star coincide, and
four pushes for two places fill the queue.
The bounded id space also stops players eventually, which the liveness in `house`
needs: with endless pushes a star could be kept open for ever.
In `wakes` two pushes let a pass hold one push that is ready and one that is not, a
rival settle between fetch and send, and a star be full with a push still in
line; the pass treats all stars alike, so a third adds nothing. The last star
never goes quiet: none can follow it within the bound, and the first does all that a star can.
In `history` every bound is passed by one: three transactions are a newest page, the
page that one catch-up walks, and one more, so a walk takes several catch-ups; two
that land after a tip was saved are more than the next catch-up reads, so it leaves a
gap, and so are two that land on an empty chain. Two indexers overtake each
other at every call, and one fault reaches every step, in every order with the
other indexer. The window of one hit holds either the settle or the hit
beside it, and a settle's row with slot 0 lies below the hit's. Pages of two are in
`docs_history`; a failure in the middle of a batch, which takes a page of more than one,
is in theorem `CursorAlwaysHonest`, for pages of any size. The code has pages of
100 (`history.ts:16`), 20 of them in the catch-up at the crank's start, four at a
poll and two at another wake (`crank.ts:262`, `207`), and a window of 12
(`crank.ts:214`); no bound on traffic is assumed beyond the length of the chain.

`CHECK_DEADLOCK FALSE`: when ids run out and everything is swept there is
nothing left to do, and a client that has its answer stops.

## 4. Fairness

* `DarkOracleFairness`: time passes, and whoever is owed voids stalled rounds,
  resolves what can be resolved and calls off stalled stars. All three are
  permissionless (`P/instructions/round.rs`, `resolve_push.rs`,
  `collapse_stalled.rs`), so the owed player alone can discharge them; weak
  fairness suffices because none is disabled by anything but its own effect, or
  by another that resolves the same thing. Draws, answers, feeds and pushes are
  not assumed.
* `CrankFairness`: the oracle answers, a crank draws and resolves; nobody has to
  void. `scripts/crank.ts` does both on every tick.

* `Crank`: the poll's timer and the debounce timer go off, and the calls of a
  tick return or fail (`WF` of `Poll`, `Fire`, `Tick`): JavaScript's timers and
  the RPC's time-outs. Nothing is assumed of events, players, rivals or the oracle.
  Liveness is stated as `[]<>`, no push (star) is left waiting for ever, since a
  rival may always make another one ready.
* `History`: each indexer that runs goes on with its catch-up (`WF` of
  `CatchUp(i)`): the crank calls it on every poll, and a process that stopped is
  started again. Nothing is assumed of the chain, the websocket or the resolver's
  own records.

## 5. Where documents and code disagree

| Run | A document says | The code does |
|---|---|---|
| `docs_draw_paid` | `P/state.rs:450` every draw is already paid for by its round's stake | after a kill the rest of the round is refunded and pays no cut |
| `docs_history` | `onchain/scripts/history.ts:396` new signatures first, so live history is complete | with more new signatures than `maxPages` pages hold the tip moves past those not read, for good |
| `docs_push` | `onchain/scripts/push.ts:146` a retry is safe as nothing landed, "checked below, not assumed" | the check is an empty address, which a push that landed, was resolved and was swept while it was awaited leaves too; the second stake is taken |

`docs_push` needs a confirmation that takes longer than a draw, a resolution and a
sweep, and a round sealed meanwhile. What `push_client` shows remains: the first stake is out of play by
then, and two transactions never race.

Smaller notes on the off-chain programs, no run:

* `resolve.ts:225` says a finished star's stakes go back in any order;
  `resolve_push.rs:245` holds refunds to the cursor. `resolve.ts` does sort them,
  but, unlike on a live star, goes on after a failure, and every later refund of
  that pass is then refused.
* `crank.ts:234-240`: a later wake replaces the timer and its reason, so under
  steady traffic a tick for `'poll'`, the only one that calls off stalled stars and
  always looks for a successor and for history, can be put off again and again. The
  liveness checked here holds because the chain's own events are finite.
* `crank.ts:203-206`: a refused `create_next_star` ends the tick before its
  indexing.
* `history.ts:414-423`: a first catch-up that finds no transaction saves
  `oldest_complete` without a tip, and a catch-up without a tip reads one page:
  if more than one page lands before the next, the rest is never walked to. This
  gap is in `passed` too (`Skipped`). An outage of
  more new signatures than the catch-up at the crank's start has pages for leaves one
  as well (`docs_history`).
* `history.ts:220` skips transactions the node does not return, and the cursor
  passes them. So "the cursor is honest" and "the walk ends" are stated up to
  `passed`; that every transaction is stored in the end is not true of the code.
* `history.ts:144`: storing a settle's row again replaces what was
  merged into it; the close comes back by backfill, the draw does not.
  `history.ts:369-373` takes the twelve newest hits by slot, and rows from the
  websocket have slot 0: a settle's row that lies below twelve others is not
  linked again by a crank, only by `backfill-rents.ts`, which pages through all of them.
* `rpc-proxy.ts:269`: the second send of a transaction that landed is answered
  with an error about it, and the client takes that for its outcome.

Smaller notes on the program, no run: `onchain/README.md:206` says whoever's resolution lands
first is processed first, but only the head of the line is; `P/state.rs:129` says
a star is never mutated once dead apart from two latches, but refunds move its
queue's counters and voiding its round counter; `P/state.rs:48` says only
`Requested` permits a settle, but only `Drawn` does; `P/constants.rs:37` gives the smallest cut as 250 000
lamports although the locked split makes it 314 000; `P/state.rs:260` says a last
feed may overshoot `FEED_MASS` although `feed` clips; `P/instructions/request_push.rs:149`
says what the queue took meanwhile is clipped at settle, which lemma
`WholeStakeLands` shows cannot happen; `P/instructions/resolve_push.rs:242` promises an
outcome within `ROUND_EXPIRY_SLOTS`, which is per stage, up to twice that in all.

## 6. What is proved

The theorems hold for every value of the constants that satisfies these
assumptions, which TLC evaluates on the runs of the modules that declare them:

| Assumption | Says | Why the code justifies it |
|---|---|---|
| `MathAssumption` | steps divide the caps, the cut is a fraction | asserted by `P/game_config.rs`'s tests (lines 333-339) |
| `SoldustAssumption` | the parameters are numbers; a window is no longer than the expiry, the nursery's stall no longer than the star's | `P/constants.rs` |
| `FiniteAssumption` | finitely many players and seeds | public keys and seeds have a fixed width |
| `ShareAssumption` | the pot's share of a step, times a step, is at least a step | the step is 10 million lamports (`P/constants.rs`, `PUSH_STEP`), `BPS` is 10 000 |
| `StageAssumption` | the stage table is not empty and pays no more for a later stage | test `stardust_declines_across_stages` of `P/game_config.rs`; `StardustAt` is one SOL over `stardust_per_sol` (`stardust_for`) |
| `FillAssumption` | a step splits without remainder, endowments are whole steps | test `split_is_exact_on_the_lattice` of `P/game_config.rs`; `floor_to_step` in `create_next_star` |
| `VrfAssumption`, `CrankAssumption`, `PushClientAssumption`, `HistoryAssumption` | bounds are numbers | – |

`SoldustStateProofs`, what the accounts are:

* `TypeCorrect`: `Spec => []TypeOK`. Balances and counters are naturals, so no
  checked subtraction is passed by a negative result. One lemma per instruction.
* `AlwaysJoinable`, `RoundsOnlyMoveForward`, `FinishedStarsStayFinished`: the
  first is an invariant, the others action properties. All rest on `RoundInv`: a
  round that exists has members and does not lie beyond its star's round counter;
  the counter's own round is unsealed; the round counter never outruns
  `push_counter`; a star not yet created has left no trace. The last part is
  what keeps `create_star` from landing on an address with a history.
  `RoundsMoveForward` says of every round, open ones too: it is opened only where
  its star's counter points; its status takes only the five steps of `Becomes`; its
  members, stake and first id are frozen by the seal or the void; and its account
  goes only once the cursor is past its last member (`IsDrained`).
* `NeverOverpromised`, `CountersAlwaysAgree`, `AlwaysOnLattice`: none is
  inductive alone. That the line fits under the cap needs every mass and stake
  on the lattice: a room that is not a whole step is quoted as none, and none is
  not clipped. That needs stakes on the lattice too, and a feed needs an empty
  line under the nursery cap. `LineInv` is the conjunction, star by star.
* `EscrowAlwaysBacked`, `QueueAlwaysLine`, `SettleNeverEverClips`: lemma
  `LineMoves` sorts the thirteen instructions by what they do to a line: a stake
  joins it (`StakeJoins`), its head leaves (`HeadLeaves`), an id passes with
  nobody in it (`IdPasses`, a feed), a resolved push is swept (`AccountSwept`),
  or nothing (`LinesStay`). Each invariant about the line is then five lemmas.
  `EscrowBacked` is inductive with `LineInv`. `QueueIsLine` rests on `PlaceInv`:
  every id from the cursor on has one push, a stake is worth something, and the
  cursor is past all that left; without the last, an account swept and reused
  could stand in line twice.

`SoldustSafetyProofs`, what the program keeps to:

* `RoundsAlwaysRanges`, `StakeAlwaysMembers`: `RangeInv` adds that a later round
  starts after an earlier one ends, that only the current round is unsealed and
  that it ends where the ids handed out end. A refund or a settle takes the head,
  which stands in the first round not yet drained; a join prolongs the last.
* `NothingEverLandsAfterKill`: inductive beside `PlaceInv`, since a push behind
  the killer's is one the cursor had not reached.
* `NoStarEverStranded`: `LifeInv` adds that a live star is below the hole cap.
  A star may be replaced only when closed; closed but alive, it has a line; and
  whoever leaves last ends it.
* `LineImplemented`: `Soldust` implements `PushLine`. `LinesKnown` says that the
  choice in `Waiters` picks the one push at each place; then a join appends, a
  head that leaves is the tail, and everything else keeps every star's sequence.
  `[Next]_vars` maps instruction by instruction (`CreateImplements`,
  `FeedImplements`, `RequestImplements`, `SettleImplements`, `RefundImplements`,
  `StallImplements`); draws, expiry, sweeps, claims and clocks stutter.
* `RoundsImplemented`: `Soldust` implements `RoundLife`. The mapping reads a round
  whose account is gone as swept or still to come by the star's counter, so every
  step has to keep that reading apart: `RoundInv` and `RangeInv` give most of it.
  What they lack is `WholeInv`: while a star lives, its cursor has not passed the
  first member of a round without an outcome. Hence `close_round_account`, which asks for nothing but the cursor
  or the star's end, sweeps only decided rounds of a live star. Each
  instruction is one of `RoundLife`'s moves or leaves all rounds as they are
  (`RoundStepImplemented`); a kill, a collapse and a stall end the star.
* `VaultAlwaysCovered`, `LedgerImplemented`: with `TypeOK`, each instruction is
  one of `VaultLedger`'s movements. `VaultCovered` is inductive by itself.
* `PrizesAlwaysBacked`, `HoleNeverEverRecycles`, `StallAlwaysPaysAtCost`: `PotInv`
  relates a star's pot to the shares fed into it, before and after its end.
  `PotMoves` says that an instruction moves one pot and the bucket by the same
  amount. That no pot owes less than nothing is lemma `FeedersFit`: shares rounded down,
  one by one, fit in the prize they are shares of.
* `ClaimsNeverEverBlocked`, `HeadNeverEverWedges`: what one star owes is at most
  what all do (`PrizesBacked`), one stake at most the escrow (`EscrowBacked`), and
  both buckets are in the vault (`VaultCovered`). That a feeder's share does not
  round down to nothing needs `ShareAssumption`.

Sums over accounts are `Total`, a fold. No induction theorem can be cited for
it, but none is needed: if an equation about sums failed for some finite set, it
would fail for a smallest one (lemma `MinimalSubset`, since inclusion among the
subsets of a finite set is well-founded), and taking one element out of that (`TotalUnfolds`) contradicts
it. `TotalSplits`, `TotalChanges`, `TotalPart` and `RoundedParts` in
`GameMathProofs` are proved so.

* `PotAlwaysExact`, `FillsAlwaysStop`, `OddsAlwaysFair` (`StarFillProofs`):
  `FillInv` keeps mass and endowment on the lattice, where the split distributes
  over addition (`CutAdds`). The chance is fair because pot, stake and mass are
  then multiples of the same share of a step, which cancels (`FactorOut`).
* `StardustAlwaysTapers`: the three roundings, the stage table and the curve are
  followed one by one. A floor grows with its argument and two floors fit in the
  floor of a sum (`QuotientGrows`, `QuotientsFit`); the chance of a stake falls
  and the multiplier with it as mass grows (`ChanceGrows`, `SweetenerGrows`, `StageGrows`), so one
  stake earns less later (`EarnsTapers`) and two pieces no more than the whole
  (`EarnsFit`). Of the stage table only `StageAssumption` is used, of the curve
  only that it never falls with the chance.
* `RequestsAlwaysMatch`, `SeedsAreUnique`, `EveryDrawIsAnAnswer` (`VrfQueueProofs`):
  the inductive invariant `QueueInv` adds that a request's seed
  names its round, that only rounds the star's counter has left behind have a
  request, one each, and that `SlotHashes` holds only past slots. That a counter
  never outruns the pushes (`RoundsFit`) keeps it on rounds that exist.
* `RoundsServed`: `VrfQueue` implements `RoundLife` too, from the oracle's side:
  late, repeated and unasked answers either draw a round that waits for one or
  change nothing. `RoundsFilled` adds that a round with an account has members, and
  that the open one is the one its star's counter names.
* `PassesSendInTurn` (`CrankProofs`): `PassInv` says that a tick which fetched a
  push fetched every push before it that is still in line, and that a pass never
  expects more than the cursor's successor, unless it went on past a failure on a
  finished star. Since the program only goes `Onward`, whoever moves it, what a
  pass holds stays true while others act (`PassOvertaken`).
* `WakesNeverLost` (`CrankProofs`): `NoWakeLost` is inductive by itself, since a
  call that finds a tick running leaves its reason for the tick's `finally`,
  which runs however the tick ends.
* `OnlyOneCanLand`, `StakesAreApart` (`PushClientProofs`): the
  invariant `PushInv` says that the client signs again only past a sealed round,
  so transactions in flight pin different rounds unless they are the same, and that every stake
  but the one in play has been swept.
* `CursorAlwaysHonest` (`HistoryProofs`): a saved cursor may be replaced by an
  older one whose owner knows nothing of what was stored since, so `IInv` says of
  every cursor, saved or held, that it is honest by itself; and of a batch of new
  signatures that it starts right above its cursor's tip or as far down as the pages
  reach, so what lies between is exactly what `Skipped` moves to `passed`. Rows and
  `passed` only grow (`Growth`), so whatever an indexer believed before others moved
  stays true. Nothing is assumed of the traffic.

Only model-checked: the liveness properties of `house`, `crank`, `wakes` and
`history`, since liveness under fairness and `ENABLED` are
beyond the prover. Every other property of a passing run is a theorem.
Three theorems state what no run checks by itself: `VaultCovered` is a conjunct of
every step of `VaultLedger`, `CountersAgree` is what `QueueIsLine` counts from, and
`RoundsMoveForward` adds to `ImplementsRounds`, which the runs check, what a round
records: its members, stake and ids from the seal on. The other way round,
`queue` has one star and so never endows one: that an endowment keeps a star on the lattice
is shown by theorem `AlwaysOnLattice`, for any number of stars.

## 7. Not modelled

Player statistics and STARDUST balances; event and error records; account rents;
the hashing of a draw into rolls (`roll_for`, `widen`: pure, a roll is a free
choice); operator scripts, audits and localnet scenarios, which hold no state.
`expirable_at` at the last slot (the `u64::MAX` sentinel) is outside the relative
clock. Of the off-chain programs: the crank's bookkeeping of its subscriptions (a
lost subscription is a lost event) and its shutdown; `resolveAll` for one named
push, and `push.ts` feeding a nursery; what a row says; the offset paging of
`backfill-rents.ts`; the proxy's token buckets, websocket bridge and chat, whose
counters no other component reads. `advanceRounds`, `resolvePush` and
`chain/send` come from a shared package outside this repository and are modelled
from how these scripts use them.

## 8. What could come next

1. The proxy's buckets and connection counts; a bucket idle for a minute starts
   full, which is right while `RATE_BURST / RATE_REFILL_PER_SEC` is at most 60 s.
2. Width-exact saturation of `expirable_at` and `closeable_at`.
3. A mapping from `Soldust` under which its lines implement `Crank`'s, as its rounds
   and `VrfQueue`'s implement `RoundLife`'s.

-------------------------------- MODULE Crank --------------------------------
(***************************************************************************)
(* The crank (scripts/crank.ts with scripts/resolve.ts): a process that    *)
(* wakes on the program's logs, on its rounds' accounts and on a timer,    *)
(* and then makes one pass over the game, sending whatever moves it on.    *)
(*                                                                         *)
(* Everything it sends, anyone may send: a rival crank is the environment  *)
(* taking the same actions of the program at any time, between any two     *)
(* calls of a pass.  Of the program a pass sees little, and so does this   *)
(* module: per star a line of pushes in rounds, whether it has finished,   *)
(* how full it is, whether anybody fed it, whether it has gone quiet.  A   *)
(* program action that its checks refuse is a call that throws.            *)
(*                                                                         *)
(* A transaction's websocket event reaches the crank or is lost.  The two  *)
(* kinds of it, a log and a round that changed, differ only in whether     *)
(* settled pushes are swept, and sweeping is module History's.             *)
(***************************************************************************)
EXTENDS Integers, Sequences, FiniteSets

CONSTANTS
  MaxStars,   \* bound: stars ever created, the last of which never goes quiet
  Capacity,   \* pushes that fill a star
  MaxPushes,  \* bound: pushes ever requested
  MaxErrors   \* bound: calls of the crank that fail for no reason of the game's

ASSUME CrankAssumption ==
  /\ MaxStars \in Nat \ {0} /\ Capacity \in Nat \ {0}
  /\ MaxPushes \in Nat /\ MaxErrors \in Nat

Stars == 1..MaxStars
Rounds == Stars \X (0..MaxPushes)          \* a Round PDA: <<star, round_id>>
None == "none"

VARIABLES
  current,   \* Config.current_star_id
  star,      \* Star accounts
  line,      \* per star the rounds its pushes joined, in push_id order
  round,     \* Round accounts: their status
  debounce,  \* the reason of the pending wake timer
  queued,    \* the reason of the tick to run after this one
  tick,      \* the tick that is running: where it is and what it has read
  news,      \* history: something woke the crank since it began its last tick
  errors

chain == <<current, star, line, round>>
loop == <<debounce, queued, news>>
vars == <<chain, loop, tick, errors>>

\* cursor counts the pushes settled; from pending to resolved, what a pass has
\* read and done.  cache: the rounds it read before their outcome.
Idle == [pc |-> "idle", reason |-> None, pending |-> {}, star |-> 0,
         finished |-> FALSE, expected |-> 0, cache |-> {}, resolved |-> FALSE]

\* fed: the star's StarFeed exists.
Unborn == [status |-> "unborn", mass |-> 0, cursor |-> 0, fed |-> FALSE,
           quiet |-> FALSE]
Born == [Unborn EXCEPT !.status = "alive"]

\* main calls tick('start') once its subscriptions and its poll are set up; it
\* does what a tick of the poll does.
Init ==
  /\ current = 1
  /\ star = [s \in Stars |-> IF s = 1 THEN Born ELSE Unborn]
  /\ line = [s \in Stars |-> <<>>]
  /\ round = [r \in Rounds |-> "absent"]
  /\ debounce = None /\ queued = None
  /\ tick = [Idle EXCEPT !.pc = "rounds", !.reason = "poll"]
  /\ news = FALSE /\ errors = 0

-----------------------------------------------------------------------------
(* The program, as far as a crank sees it                                  *)

\* A PendingPush is <<star, push_id>>, ids from 1 and settled up to the cursor.
PendingOn(s) == {p \in {s} \X (1..Len(line[s])) : p[2] > star[s].cursor}
Pending == UNION {PendingOn(s) : s \in Stars}
RoundOf(p) == <<p[1], line[p[1]][p[2]]>>
Finished(s) == star[s].status = "finished"
Committed(s) == star[s].mass + Cardinality(PendingOn(s))
Closed(s) == Finished(s) \/ Committed(s) >= Capacity
Requested == Cardinality({p \in Stars \X (1..MaxPushes) : p[2] <= Len(line[p[1]])})

\* The round the next push joins: the first that is neither sealed nor voided.
Joinable(s) ==
  CHOOSE n \in 0..MaxPushes :
    /\ round[<<s, n>>] \in {"absent", "open"}
    /\ \A m \in 0..n - 1 : round[<<s, m>>] \notin {"absent", "open"}

\* wake: one timer; a later wake puts its own reason in place of the one waiting.
Wake(reason) ==
  /\ debounce' = reason
  /\ news' = TRUE
  /\ UNCHANGED queued

\* A transaction of the program wakes the crank by onLogs or onAccountChange, or
\* its event is lost.
Emits == Wake("event") \/ UNCHANGED loop

\* feed: its first one creates the StarFeed, and any is mass that lands.  No push
\* is taken before the nursery is full.
Feed(s) ==
  /\ s = current /\ star[s].status = "alive"
  /\ line[s] = <<>>
  /\ star' = [star EXCEPT ![s].fed = TRUE, ![s].quiet = FALSE]
  /\ Emits
  /\ UNCHANGED <<current, line, round>>

\* A full nursery was fed: an endowment stops short of it.
RequestPush(s) ==
  /\ s = current /\ star[s].status = "alive" /\ star[s].fed
  /\ Committed(s) < Capacity /\ Requested < MaxPushes
  /\ LET n == Joinable(s)
     IN /\ line' = [line EXCEPT ![s] = Append(@, n)]
        /\ round' = [round EXCEPT ![<<s, n>>] = "open"]
  /\ Emits
  /\ UNCHANGED <<current, star>>

\* Rounds move on: sealed by anyone, drawn by the oracle, voided by anyone.
MoveRounds(rs, from, to) ==
  /\ rs # {} /\ \A r \in rs : round[r] \in from
  /\ round' = [r \in Rounds |-> IF r \in rs THEN to ELSE round[r]]
  /\ Emits
  /\ UNCHANGED <<current, star, line>>

\* draw_round buys nothing for a star that has finished.
SealRounds(rs) ==
  /\ \A r \in rs : ~Finished(r[1])
  /\ MoveRounds(rs, {"open"}, "sealed")

\* A push has an outcome to apply, and it is its turn.
Settleable(p) ==
  /\ p \in Pending /\ p[2] = star[p[1]].cursor + 1
  /\ Finished(p[1]) \/ round[RoundOf(p)] \in {"drawn", "void"}

\* resolve_push: refunds, or lands and grows or kills the star; a star at its cap,
\* or drained after it was replaced, is finished.
Settle(p, kills) ==
  LET s == p[1]
      lands == ~Finished(s) /\ round[RoundOf(p)] = "drawn"
      mass == star[s].mass + (IF lands THEN 1 ELSE 0)
      ends == \/ Finished(s) \/ mass >= Capacity \/ (lands /\ kills)
              \/ s # current /\ PendingOn(s) = {p}
  IN /\ Settleable(p)
     /\ star' = [star EXCEPT ![s] =
                  [status |-> IF ends THEN "finished" ELSE "alive", mass |-> mass,
                   cursor |-> p[2], fed |-> @.fed,
                   quiet |-> @.quiet /\ ~lands /\ ~ends]]
     /\ Emits
     /\ UNCHANGED <<current, line, round>>

\* Star::is_stalled, and stallCountdown which mirrors it.
Stalled(s) ==
  s = current /\ star[s].status = "alive" /\ star[s].quiet /\ PendingOn(s) = {}

\* The program also asks for the StarFeed: a star nobody fed is refused.
Collapsible(s) == Stalled(s) /\ star[s].fed

CollapseStalled(s) ==
  /\ Collapsible(s)
  /\ star' = [star EXCEPT ![s].status = "finished", ![s].quiet = FALSE]
  /\ Emits
  /\ UNCHANGED <<current, line, round>>

Succeedable(s) == s = current /\ s < MaxStars /\ Closed(s)

\* create_next_star.
CreateNext(s) ==
  /\ Succeedable(s)
  /\ current' = s + 1
  /\ star' = [star EXCEPT ![s + 1] = Born]
  /\ Emits
  /\ UNCHANGED <<line, round>>

\* Nothing has landed on the current star for its stall window; it is noticed only
\* when nothing is in line.  Bound: the last star, which none can follow, never goes
\* quiet.
GoQuiet(s) ==
  /\ s = current /\ star[s].status = "alive" /\ ~star[s].quiet
  /\ PendingOn(s) = {}
  /\ s < MaxStars
  /\ star' = [star EXCEPT ![s].quiet = TRUE]
  /\ UNCHANGED <<current, line, round, loop>>

Others ==
  /\ \/ \E s \in Stars : \/ Feed(s) \/ RequestPush(s) \/ GoQuiet(s)
                         \/ CollapseStalled(s) \/ CreateNext(s)
     \/ \E r \in Rounds : \/ SealRounds({r})
                          \/ MoveRounds({r}, {"sealed"}, "drawn")
                          \/ MoveRounds({r}, {"open", "sealed"}, "void")
     \/ \E p \in Pending, kills \in BOOLEAN : Settle(p, kills)
  /\ UNCHANGED <<tick, errors>>

-----------------------------------------------------------------------------
(* Waking                                                                  *)

Poll ==
  /\ Wake("poll")
  /\ UNCHANGED <<chain, tick, errors>>

\* Mutant: the caches outlive the pass.
AtRest_Remembers == [Idle EXCEPT !.cache = tick.cache]

\* What one pass leaves to the next: nothing.
AtRest == Idle

Begun(reason) == [AtRest EXCEPT !.pc = "rounds", !.reason = reason]

\* Mutant: a call that finds a tick running is forgotten.
Call_Forgets(reason) ==
  IF tick.pc # "idle" THEN UNCHANGED <<tick, queued, news>>
  ELSE /\ tick' = Begun(reason)
       /\ news' = FALSE
       /\ UNCHANGED queued

\* tick(reason): runs, or is left for the end of the one that runs.
Call(reason) ==
  IF tick.pc # "idle" THEN /\ queued' = reason
                           /\ UNCHANGED <<tick, news>>
  ELSE /\ tick' = Begun(reason)
       /\ news' = FALSE
       /\ UNCHANGED queued

\* The debounce timer goes off.
Fire ==
  /\ debounce # None
  /\ debounce' = None
  /\ Call(debounce)
  /\ UNCHANGED <<chain, errors>>

-----------------------------------------------------------------------------
(* A tick: resolveAll, the collapse, the successor                         *)

Unhurried == tick.reason = "poll"

Goto(pc) == tick' = [tick EXCEPT !.pc = pc]

\* The try block is left, returning or throwing: its variables go with it.
Leave == tick' = [AtRest EXCEPT !.pc = "end"]

\* advanceRounds: seals what is due and worth a draw.
AdvanceRounds ==
  /\ tick.pc = "rounds"
  /\ \/ \E due \in SUBSET Rounds : SealRounds(due)
     \/ UNCHANGED <<chain, loop>>
  /\ Goto("fetch")
  /\ UNCHANGED errors

FetchPushes ==
  /\ tick.pc = "fetch"
  /\ tick' = [tick EXCEPT !.pc = "star", !.pending = Pending]
  /\ UNCHANGED <<chain, loop, errors>>

\* The next star with pushes in the fetched list; loadStar reads its status and
\* its settle_cursor.
LoadStar ==
  /\ tick.pc = "star"
  /\ LET left == {p[1] : p \in tick.pending} \ 1..tick.star
     IN IF left = {}
        THEN tick' = [AtRest EXCEPT !.pc = "stalled", !.reason = tick.reason,
                                    !.resolved = tick.resolved]
        ELSE LET s == CHOOSE s \in left : \A t \in left : s <= t
                 ahead == tick.pending \cap PendingOn(s)
             IN tick' = [tick EXCEPT !.pc = IF ahead = {} THEN "star" ELSE "pass",
                                     !.star = s,
                                     !.finished = Finished(s),
                                     !.expected = star[s].cursor + 1]
  /\ UNCHANGED <<chain, loop, errors>>

\* The pass over one star's group: from the cursor it loaded, or, on a finished
\* star, all of it.
Group == {p \in tick.pending : p[1] = tick.star /\ p[2] >= tick.expected}
NextPush == CHOOSE p \in Group : \A q \in Group : p[2] <= q[2]

\* loadRound, read once a pass, and readiness: a round read before its outcome
\* counts as undecided for the whole pass.
Decided(r) == r \notin tick.cache /\ round[r] \in {"drawn", "void"}
Reads(r) == IF Decided(r) THEN tick.cache ELSE tick.cache \cup {r}

Ready(p) == tick.finished \/ (p[2] = tick.expected /\ Decided(RoundOf(p)))

\* Mutant: what fails on a live star does not end the pass over it either.
AfterFailure_GoesOn(read, past) == past

\* Failure ends the pass over a live star, and only this push on a finished one.
AfterFailure(read, past) ==
  IF tick.finished THEN past ELSE [read EXCEPT !.pc = "star"]

\* settleOne on the head of the group: sent if it looks ready, refused if the
\* program has moved on; it may fail in itself, and its confirmation may be lost
\* though it went through.
SettleHead ==
  /\ tick.pc = "pass" /\ Group # {}
  /\ LET p == NextPush
         read == [tick EXCEPT !.cache = Reads(RoundOf(p))]
         past == [read EXCEPT !.expected = p[2] + 1,
                              !.pc = IF Group = {p} THEN "star" ELSE "pass"]
         failed == AfterFailure(read, past)
     IN \/ /\ Ready(p)
           /\ \E kills \in BOOLEAN : Settle(p, kills)
           /\ \/ /\ tick' = [past EXCEPT !.resolved = TRUE,
                                         !.pending = @ \ {p}]
                 /\ UNCHANGED errors
              \/ /\ errors < MaxErrors
                 /\ errors' = errors + 1
                 /\ tick' = failed
        \/ /\ ~(Ready(p) /\ Settleable(p))
           /\ tick' = failed
           /\ UNCHANGED <<chain, loop, errors>>
        \/ /\ errors < MaxErrors
           /\ errors' = errors + 1
           /\ tick' = failed
           /\ UNCHANGED <<chain, loop>>

\* maybeCollapseStalledStar, what it reads: the star, not its StarFeed.
ReadStalled ==
  /\ tick.pc = "stalled"
  /\ IF Unhurried /\ Stalled(current)
     THEN tick' = [tick EXCEPT !.pc = "collapse", !.star = current]
     ELSE Goto("full")
  /\ UNCHANGED <<chain, loop, errors>>

\* ...and what it sends; refused or failing, it goes on.
SendCollapse ==
  /\ tick.pc = "collapse"
  /\ Goto("full")
  /\ \/ CollapseStalled(tick.star) /\ UNCHANGED errors
     \/ ~Collapsible(tick.star) /\ UNCHANGED <<chain, loop, errors>>
     \/ /\ errors < MaxErrors
        /\ errors' = errors + 1
        /\ UNCHANGED <<chain, loop>>

\* Mutant: the successor is left to whoever resolves the last push.
AsksForNext_Resolver == tick.resolved

AsksForNext == tick.resolved \/ Unhurried

\* maybeCreateNextStar, what it reads.
ReadFull ==
  /\ tick.pc = "full"
  /\ IF AsksForNext /\ Succeedable(current)
     THEN tick' = [tick EXCEPT !.pc = "create", !.star = current]
     ELSE Leave
  /\ UNCHANGED <<chain, loop, errors>>

\* ...and what it sends; refused, it throws, and that is the end of the tick.
SendCreate ==
  /\ tick.pc = "create"
  /\ Leave
  /\ \/ CreateNext(tick.star)
     \/ ~Succeedable(tick.star) /\ UNCHANGED <<chain, loop>>
  /\ UNCHANGED errors

\* A read, or what advanceRounds lists, may throw: the catch swallows it and the
\* finally still runs.  What settles and collapses throw is caught where it is sent.
Throw ==
  /\ tick.pc \in {"rounds", "fetch", "star", "stalled", "full", "create"}
  /\ errors < MaxErrors
  /\ errors' = errors + 1
  /\ Leave
  /\ UNCHANGED <<chain, loop>>

\* The finally: the next tick at once if one was asked for meanwhile.
End ==
  /\ tick.pc = "end"
  /\ queued' = None
  /\ IF queued # None THEN tick' = Begun(queued) /\ news' = FALSE
     ELSE tick' = AtRest /\ UNCHANGED news
  /\ UNCHANGED <<chain, debounce, errors>>

Tick ==
  \/ AdvanceRounds \/ FetchPushes \/ LoadStar \/ SettleHead
  \/ ReadStalled \/ SendCollapse
  \/ ReadFull \/ SendCreate \/ End

-----------------------------------------------------------------------------

Next ==
  \/ Others
  \/ Poll \/ Fire
  \/ Tick \/ Throw

\* Timers go off and the calls of a tick return.  Nothing is assumed of other
\* players, of rival cranks, of the oracle or of the websocket.
Fairness == WF_vars(Poll) /\ WF_vars(Fire) /\ WF_vars(Tick)

Spec == Init /\ [][Next]_vars /\ Fairness

-----------------------------------------------------------------------------

\* Nothing that woke the crank is forgotten: until a tick begins after it, there
\* is a timer or a queued tick for it, whatever tick is running and however that
\* one ends.
NoWakeLost == news => debounce # None \/ queued # None

\* Although it looks at the chain once and works through what it saw while others
\* settle too, a pass never sends a push before its turn or before its outcome:
\* refused is only what somebody settled meanwhile.  On a finished star, where a
\* failure does not end the pass, that takes a pass without failures.
SendsInTurn ==
  LET p == NextPush
  IN tick.pc = "pass" /\ Group # {} /\ Ready(p) /\ (tick.finished => errors = 0)
       => Settleable(p) \/ p[2] <= star[p[1]].cursor

\* A push whose turn it is and whose draw has landed, or whose round was voided,
\* settles although every websocket event about it is dropped, other cranks
\* interfere and its round was read before the draw: time and again nobody's push
\* is left waiting for a crank.
DrawnSettles == []<>(\A p \in Pending : ~Settleable(p))

\* The game moves on: a star that is closed is followed by another, and one that
\* was ever fed and has gone quiet is called off, unless a push, a feed or a refund
\* undoes the reason.  One nobody fed is asked for at every poll and refused.
CurrentStarMovesOn == /\ []<>~Succeedable(current)
                      /\ []<>~Collapsible(current)
=============================================================================

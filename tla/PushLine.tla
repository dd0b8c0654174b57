------------------------------ MODULE PushLine ------------------------------
(***************************************************************************)
(* What a star promises to the players in its queue.  Stakes wait in one   *)
(* line.  Only the head leaves, and it leaves whole: it either lands, and  *)
(* the star grows by exactly the stake, or it is handed back, and the star *)
(* does not grow.  Nothing joins a star that is over and nothing lands on  *)
(* one; a star only grows otherwise while nobody is waiting.               *)
(* Batching, draws, expiry and sweeping are not visible here.              *)
(***************************************************************************)
EXTENDS Integers, Sequences

CONSTANT Stars

VARIABLES
  line,    \* per star, the waiting stakes: sequences of [owner, amount]
  mass,    \* per star, what has landed
  phase    \* per star: "unborn", "live" or "over"

state == <<line, mass, phase>>

Init ==
  /\ line = [s \in Stars |-> <<>>]
  /\ mass = [s \in Stars |-> 0]
  /\ phase = [s \in Stars |-> "unborn"]

\* A star is born with whatever mass it is endowed with.
Birth(s) ==
  /\ phase[s] = "unborn"
  /\ phase'[s] = "live"
  /\ line'[s] = <<>>

\* Mass added with nobody waiting: a feed.
Grow(s) ==
  /\ phase[s] = "live" /\ phase'[s] = "live"
  /\ line[s] = <<>> /\ line'[s] = <<>>
  /\ mass'[s] > mass[s]

Join(s) ==
  /\ phase[s] = "live" /\ phase'[s] = "live"
  /\ Len(line'[s]) = Len(line[s]) + 1
  /\ SubSeq(line'[s], 1, Len(line[s])) = line[s]
  /\ mass'[s] = mass[s]

\* The head lands; it may be the landing that ends the star.
Land(s) ==
  /\ phase[s] = "live" /\ phase'[s] \in {"live", "over"}
  /\ line[s] # <<>>
  /\ line'[s] = Tail(line[s])
  /\ mass'[s] = mass[s] + Head(line[s]).amount

\* The head is handed back.  On a live star it may be the last in line of a star
\* that can take no more, which ends it.
HandBack(s) ==
  /\ phase[s] # "unborn"
  /\ line[s] # <<>>
  /\ line'[s] = Tail(line[s])
  /\ mass'[s] = mass[s]
  /\ \/ phase'[s] = phase[s]
     \/ phase'[s] = "over" /\ line'[s] = <<>>

\* A quiet star with nobody waiting is called off.
CallOff(s) ==
  /\ phase[s] = "live" /\ phase'[s] = "over"
  /\ line[s] = <<>> /\ line'[s] = <<>>
  /\ mass'[s] = mass[s]

Same(s) ==
  line'[s] = line[s] /\ mass'[s] = mass[s] /\ phase'[s] = phase[s]

Next ==
  \E s \in Stars :
    /\ \A t \in Stars \ {s} : Same(t)
    /\ \/ Birth(s) \/ Grow(s) \/ Join(s)
       \/ Land(s) \/ HandBack(s) \/ CallOff(s)

Spec == Init /\ [][Next]_state
=============================================================================

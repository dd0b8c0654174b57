------------------------------ MODULE RoundLife ------------------------------
(***************************************************************************)
(* What a round promises to the stakes in it.  A star opens its rounds one *)
(* at a time and in order, and stakes join only the open one.  It leaves   *)
(* that stage sealed or void, with the members it has by then; a sealed    *)
(* round is drawn once or voided once, and stays what it became.  Its      *)
(* account is swept only after that, or when the star is over, and never   *)
(* opened again.                                                           *)
(* What is drawn and by whom, what a round has to wait for, and how its    *)
(* members leave the line are not visible here.                            *)
(***************************************************************************)
EXTENDS Integers

CONSTANTS
  Stars,
  Rounds     \* the numbers a star may give its rounds

VARIABLES
  stage,     \* per star and round: its status, or whether it is yet to come or gone
  members,   \* per star and round: the stakes that share its draw
  over       \* per star: whether it takes no more stakes

state == <<stage, members, over>>

Init ==
  /\ stage = [s \in Stars |-> [r \in Rounds |-> "Ahead"]]
  /\ members = [s \in Stars |-> [r \in Rounds |-> 0]]
  /\ over = [s \in Stars |-> FALSE]

\* A stake joins the first round that has not been sealed or voided.
Join(s, r) ==
  /\ ~over[s]
  /\ stage[s][r] \in {"Ahead", "Open"} /\ stage'[s][r] = "Open"
  /\ \A q \in Rounds : q < r => stage[s][q] \notin {"Ahead", "Open"}
  /\ members'[s][r] = members[s][r] + 1

Seal(s, r) ==
  /\ ~over[s]
  /\ stage[s][r] = "Open" /\ stage'[s][r] = "Requested"
  /\ members[s][r] > 0 /\ members'[s][r] = members[s][r]

Draw(s, r) ==
  /\ stage[s][r] = "Requested" /\ stage'[s][r] = "Drawn"
  /\ members'[s][r] = members[s][r]

Void(s, r) ==
  /\ stage[s][r] \in {"Open", "Requested"} /\ stage'[s][r] = "Expired"
  /\ members'[s][r] = members[s][r]

\* While the star lives, its stakes wait for the outcome of their round.
Sweep(s, r) ==
  /\ stage[s][r] \notin {"Ahead", "Swept"} /\ stage'[s][r] = "Swept"
  /\ ~over[s] => stage[s][r] \in {"Drawn", "Expired"}
  /\ members'[s][r] = 0

Same(s, r) == stage'[s][r] = stage[s][r] /\ members'[s][r] = members[s][r]

\* One round moves, no other does, and no star ends.
Move(s, r) ==
  /\ Join(s, r) \/ Seal(s, r) \/ Draw(s, r) \/ Void(s, r) \/ Sweep(s, r)
  /\ \A t \in Stars, q \in Rounds : t # s \/ q # r => Same(t, q)
  /\ UNCHANGED over

\* A star that is over opens no more rounds: those to come are gone with it.
End(s) ==
  /\ ~over[s] /\ over' = [over EXCEPT ![s] = TRUE]
  /\ \A t \in Stars, q \in Rounds :
       IF t = s /\ stage[s][q] = "Ahead"
       THEN stage'[s][q] = "Swept" /\ members'[s][q] = members[s][q]
       ELSE Same(t, q)

Next == \E s \in Stars : End(s) \/ \E r \in Rounds : Move(s, r)

Spec == Init /\ [][Next]_state
=============================================================================

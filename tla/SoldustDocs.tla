----------------------------- MODULE SoldustDocs -----------------------------
(***************************************************************************)
(* What the repository's documents and comments say of the program and the *)
(* program does not do, checked and violated.  (PushClient and History     *)
(* state the same kind of thing of the scripts.)                           *)
(***************************************************************************)
EXTENDS SoldustSafety

MembersEver(s, r) ==
  {k \in PushKeys : /\ pending_push[k].status # "Absent"
                    /\ pending_push[k].star_id = s
                    /\ pending_push[k].round_id = r}

CutOf(k) ==
  IF pending_push[k].status \in {"Survived", "Killed"}
  THEN ProtocolCut(pending_push[k].amount)
  ELSE 0

\* state.rs:450-452: every draw the house ever buys is already paid for by the
\* stake behind it.  A member that kills refunds the members behind it, and a
\* refund pays no cut, so a round that covered its draw when sealed may not once
\* all of it has resolved.
DrawsPayForThemselves ==
  \A s \in StarIds, r \in RoundIds :
    LET rd == round[s][r]
        members == MembersEver(s, r)
    IN /\ rd.status = "Drawn"
       /\ CoversDraw(rd)
       /\ Cardinality(members) = rd.member_count
       /\ \A k \in members : pending_push[k].status # "Pending"
       => Total([k \in PushKeys |-> CutOf(k)], members) >= VRF_REQUEST_FEE
=============================================================================

-------------------------- MODULE ApprovalContract --------------------------
(***************************************************************************)
(* What the approval path promises, without store, Telegram, processes or  *)
(* time: an operation is performed at most once, and only after a quorum   *)
(* of distinct authorised people voted for it and before anyone or         *)
(* anything refused it.  HitlApprovals implements this.                    *)
(***************************************************************************)
CONSTANTS Requests,  \* the operations that need approval
          Allowed,   \* the people who may approve
          Quorum     \* per request, the sets of people whose votes are enough

VARIABLES verdict,   \* "open", "granted" or "refused"
          votes,     \* who has voted for a request that is open or granted
          performed  \* whether the operation has been carried out

contractVars == <<verdict, votes, performed>>

Init ==
    /\ verdict = [r \in Requests |-> "open"]
    /\ votes = [r \in Requests |-> {}]
    /\ performed = [r \in Requests |-> FALSE]

\* One more person votes; the vote that completes the quorum grants.
Vote(r, u) ==
    /\ verdict[r] = "open"
    /\ votes' = [votes EXCEPT ![r] = @ \cup {u}]
    /\ verdict' = [verdict EXCEPT ![r] =
            IF votes[r] \cup {u} \in Quorum[r] THEN "granted" ELSE @]
    /\ UNCHANGED performed

\* Denied, expired, withdrawn or abandoned: there is no way back.
Refuse(r) ==
    /\ verdict[r] = "open"
    /\ verdict' = [verdict EXCEPT ![r] = "refused"]
    /\ votes' = [votes EXCEPT ![r] = {}]
    /\ UNCHANGED performed

Perform(r) ==
    /\ verdict[r] = "granted" /\ ~performed[r]
    /\ performed' = [performed EXCEPT ![r] = TRUE]
    /\ UNCHANGED <<verdict, votes>>

Next ==
    \E r \in Requests :
        Refuse(r) \/ Perform(r) \/ \E u \in Allowed : Vote(r, u)

Spec == Init /\ [][Next]_contractVars

=============================================================================

---------------------------- MODULE MCAuditChain ----------------------------
(***************************************************************************)
(* Small instances of AuditChain for TLC.                                  *)
(***************************************************************************)
EXTENDS AuditChain, FiniteSets

CONSTANTS p1, p2, m1, m2, t1, t2

\* m2 has a process of its own, and its own cached logger.
MCHome == [m \in Muts |-> IF m = m2 THEN p2 ELSE p1]

\* The bound on the mixtures: rotations that keep to themselves come twice and
\* may fail to commit, one that overlaps appends, is killed or loses a key comes
\* once.
Mixture ==
    /\ trouble' \cap {"append", "rotation", "killed", "lost"} # {} =>
        /\ Cardinality({t \in Rotators : rot'[t].pc # "idle"}) <= 1
        /\ now' = 1
    /\ trouble' \cap {"append", "rotation", "killed"} # {} => "commit" \notin trouble'

MCSpec == Init /\ [][Next /\ Mixture]_vars /\ Fairness

=============================================================================

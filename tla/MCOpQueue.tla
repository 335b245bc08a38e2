----------------------------- MODULE MCOpQueue -----------------------------
(***************************************************************************)
(* An instance of OpQueue for TLC.                                         *)
(***************************************************************************)
EXTENDS OpQueue

\* Op 1 is a persistable, gated operation; ops 2 and 3 need no approval.
McRequire == [o \in Ops |-> IF o = 1 THEN 2 ELSE 0]

\* The bound on the mixtures: op 1 alone goes through several sessions, presses
\* of C and faults.  With op 2 it has one session that neither crashes nor forces,
\* one press, and nobody answers in Telegram.  Ops 2 and 3 are one batch: op 1 was
\* taken out of the queue before.
Mixture ==
    /\ sessions' + faults' <= MaxSessions
    /\ 2 \notin fresh' =>
        /\ sessions' <= 1 /\ presses' <= 1 /\ faults' = 0 /\ forced' = {}
        /\ phase' = "down" => phase \in {"closing", "down"}
        /\ \A o \in Ops : pressed'[o] = {}
    /\ 3 \notin fresh' => op_queue'[1] = "absent" /\ stage'[1] = "idle" /\ msg'[1] = "none"

MCSpec == Init /\ [][Next /\ Mixture]_vars /\ Fairness
============================================================================

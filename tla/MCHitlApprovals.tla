-------------------------- MODULE MCHitlApprovals --------------------------
(***************************************************************************)
(* Small instances of HitlApprovals for TLC.                               *)
(***************************************************************************)
EXTENDS HitlApprovals, TLC

CONSTANTS r1, r2, u1, u2, u3, d1, d2, p1, p2

\* Two approvers are needed for r1 (an MCP verb with a preflight); r2 creates a
\* guest through MCP, under a policy whose require is 0 (read as 1).
MCRequire == [r \in Requests |-> IF r = r1 THEN 2 ELSE 0]

MCOp == [r \in Requests |->
            [via |-> "mcp", existing |-> r = r1, target |-> r = r2, preflight |-> r = r1,
             decodes |-> TRUE]]

MCRequireOne == [r \in Requests |-> 1]

\* r1 is a row no ApprovedOp decodes from, r2 clones one.
MCOpMixed == [r \in Requests |->
            [via |-> "mcp", existing |-> TRUE, target |-> r = r2, preflight |-> FALSE,
             decodes |-> r = r2]]

DaemonSymmetry == Permutations(Daemons)

============================================================================

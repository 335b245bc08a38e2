------------------------------- MODULE MCCli -------------------------------
(***************************************************************************)
(* Small instance of CliRun: a cluster of two nodes, three targets.        *)
(***************************************************************************)
EXTENDS CliRun

CONSTANTS n1, n2, g1, g2, g3

MCTargets == <<g1, g2, g3>>

Fleet(w1, w2, w3, t, g) ==
  [where |-> g1 :> w1 @@ g2 :> w2 @@ g3 :> w3, tmpl |-> t, gated |-> g]

MCFleets ==
  {Fleet(n1, n2, n1, {}, {}), Fleet(n1, n2, n2, {}, {g1}),
   Fleet(n1, n1, n2, {}, {g2, g3}), Fleet(n2, n1, n1, {g1}, {g3}),
   Fleet(n1, n1, Absent, {g2}, {g1})}
=============================================================================

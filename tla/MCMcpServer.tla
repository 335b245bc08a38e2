---------------------------- MODULE MCMcpServer ----------------------------
(***************************************************************************)
(* Small instances of McpServer.  Guest 1 exists and has the policy's tag, *)
(* guest 2 does not exist; 5 narrows to 1.                                *)
(***************************************************************************)
EXTENDS McpServer

MCCallable == {"start_guest", "delete_guest", "create_guest"}

Profile(t, p, n, tg) == [token |-> t, policy |-> p, need |-> n, telegram |-> tg]

MCConfigs ==
  {Profile("", "none", 0, FALSE), Profile("a", "tag", 1, TRUE),
   Profile("b", "all", 2, TRUE)}
=============================================================================

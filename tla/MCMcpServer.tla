------------------------------ MODULE MCMcpServer ------------------------------
(* An instance of McpServer for TLC. *)
EXTENDS McpServer, TLC

CONSTANTS s0, s1, k1, o1, o2, e1, e2

MCToolSets == {AllTools, ModelFacing}
MCBatches  == {<<>>, <<<<k1, o1>>>>, <<<<k1, o1>>, <<k1, o2>>>>}
\* At most one fault, and then of a call that would otherwise be run.
MCRequests ==
  {r \in [id : BOOLEAN, method : Method, tool : ToolName \cup {"other"},
          session : Scope \cup {NoScope}, faults : {{}} \cup {{f} : f \in Fault}] :
     /\ Possible(r)
     /\ r.faults # {} => \/ r.tool = "sanitize" /\ r.session = NoScope
                         \/ r.tool = "restore" /\ r.session = s1
                         \/ r.method = "initialize"}
MCSymmetry == Permutations({e1, e2})
================================================================================

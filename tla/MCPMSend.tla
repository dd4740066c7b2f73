------------------------------ MODULE MCPMSend ------------------------------
(* PMSend for TLC: the visitor opens and goes on, the owner replies.  Two   *)
(* requests may open the conversation, and one of them finds it or fails.   *)
EXTENDS PMSend, TLC

CONSTANTS v1, v2, f1, o1, c1

MCSender == [r \in Requests |-> IF r = o1 THEN Owner ELSE Visitor]
MCTarget ==
  [r \in Requests |-> CASE r \in {v1, v2} -> "item" [] r = f1 -> "friend" [] OTHER -> c1]
Sym == Permutations(Calls) \cup Permutations({v1, v2})
=============================================================================

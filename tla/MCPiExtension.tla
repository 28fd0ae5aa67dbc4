---- MODULE MCPiExtension ----
(* Three places for TLC: the host may move to another session of a workspace,
   and to the session of the same id in another workspace. *)
EXTENDS PiExtension

In(session, root) == [session |-> session, root |-> root]
Home == In("s1", "w1")
Places == {Home, In("s2", "w1"), In("s1", "w2")}
====

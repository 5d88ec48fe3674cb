----------------------------- MODULE MCTickLoop ------------------------------
(* A root, three tasks side by side for two slots, and one below the first.  *)
EXTENDS TickLoop

Tasks == {"a", "b", "c", "d", "e"}
NeedsDef == [t \in Tasks |-> CASE t = "a" -> {} [] t \in {"b", "c", "d"} -> {"a"}
                               [] OTHER -> {"b"}]
=============================================================================

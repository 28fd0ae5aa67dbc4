---- MODULE MCStoreLocks ----
(* Processes on one store for TLC: two that want the same session and one
   that wants to clean it, and smaller casts. *)
EXTENDS StoreLocks, TLC

SameSession == [p \in Proc |-> "s1"]
WithClean(cleaner) == [p \in Proc |-> IF p = cleaner THEN "clean" ELSE "s1"]
Same == Permutations(Proc)
OneCleans == WithClean("p3")
====

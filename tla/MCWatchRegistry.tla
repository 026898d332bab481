--------------------------- MODULE MCWatchRegistry ---------------------------
(* Small instances of WatchRegistry. *)
EXTENDS WatchRegistry, TLC

CONSTANTS scope, table, meter, add, add2

(* The scopes show time signals; a table and a meter have domains of their own. *)
MCDomain ==
  [p \in Instances |-> CASE p = table -> "ftable" [] p = meter -> "meter" [] OTHER -> "time"]

(* Every handle is in a variable of its own instance. *)
PrivateCells == [c \in Creators |-> c]

(* The two instances of watchadd are interchangeable. *)
AdderSymmetry == Permutations({add, add2})
==============================================================================

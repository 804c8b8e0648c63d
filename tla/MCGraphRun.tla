----------------------------- MODULE MCGraphRun -----------------------------
(* Small graphs and value sets for the model checker. *)
EXTENDS GraphRunRefinement

Plain(ns) == {[node |-> n, arg |-> "none"] : n \in ns}

Send(n) == {[node |-> n, arg |-> "x"]}

(* START -> a, b;  a -> c;  b -> c;  c -> END *)
DiamondStart == {Plain({"a", "b"})}
DiamondRoutes == [n \in {"a", "b", "c"} |-> IF n = "c" THEN {{}} ELSE {Plain({"c"})}]

(* The same, or START -> a only *)
LooseStart == DiamondStart \cup {Plain({"a"})}

(* START -> a, or a and b and a Send to b;  a and b -> END, or a Send to c *)
FanStart == {Plain({"a"}), Plain({"a", "b"}) \cup Send("b")}
FanRoutes == [n \in {"a", "b", "c"} |-> IF n = "c" THEN {{}} ELSE {{}, Send("c")}]

(* START -> a;  a -> b or END;  b -> END *)
ChainStart == {Plain({"a"})}
ChainRoutes == [n \in {"a", "b"} |-> IF n = "a" THEN {{}, Plain({"b"})} ELSE {{}}]

NoCommands == [n \in Nodes |-> {NoCommand}]

(* A handler of a may choose where to go, or leave the choice to the edges. *)
GotoCommands == [n \in Nodes |-> IF n = "a" THEN {NoCommand, Goto(Plain({"c"}))} ELSE {NoCommand}]

(* The handlers of the nodes ns of a subgraph may hand control to the parent. *)
ParentCommands(ns) == [n \in Nodes |-> IF n \in ns THEN {NoCommand, ToParent} ELSE {NoCommand}]

BranchCommands == ParentCommands({"a", "b"})

LastCommands == ParentCommands({"b"})
=============================================================================

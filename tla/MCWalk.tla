------------------------------- MODULE MCWalk -------------------------------
(***************************************************************************)
(* Instances of Walk for TLC: a tree of directories with a socket and a    *)
(* hidden one, one with links up, down and to nowhere, and one whose paths *)
(* do not fit.                                                             *)
(***************************************************************************)
EXTENDS Walk

MCNode == 0 .. 5
Empty == [n \in MCNode |-> <<>>]
Plain == [n \in MCNode |-> "plain"]
Self == [n \in MCNode |-> n]

Nested == [kids |-> [Empty EXCEPT ![0] = ("a" :> 1) @@ ("h" :> 2) @@ ("s" :> 3),
                                  ![1] = ("a" :> 4) @@ ("b" :> 5), ![2] = ("a" :> 5)],
           kind |-> [Plain EXCEPT ![0] = "dir", ![1] = "dir", ![2] = "dir", ![3] = "socket",
                                  ![4] = "dir"],
           target |-> Self]
Links == [kids |-> [Empty EXCEPT ![0] = ("a" :> 1) @@ ("b" :> 2), ![1] = ("b" :> 3) @@ ("s" :> 4)],
          kind |-> [Plain EXCEPT ![0] = "dir", ![1] = "dir", ![2] = "link", ![3] = "link",
                                 ![4] = "link"],
          target |-> [Self EXCEPT ![2] = 1, ![3] = 0, ![4] = 5]]
Deep == [kids |-> [Empty EXCEPT ![0] = ("a" :> 1), ![1] = ("a" :> 2), ![2] = ("b" :> 3),
                                ![3] = ("a" :> 4) @@ ("b" :> 5)],
         kind |-> [Plain EXCEPT ![0] = "dir", ![1] = "dir", ![2] = "dir", ![3] = "dir",
                                ![4] = "dir"],
         target |-> Self]
MCTrees == {Nested, Links, Deep}
=============================================================================

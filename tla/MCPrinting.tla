----------------------------- MODULE MCPrinting -----------------------------
(***************************************************************************)
(* Instances of Printing for TLC: every line of one side or two, after rc  *)
(* files that leave stdout undecided, or decided with something in it.     *)
(***************************************************************************)
EXTENDS Printing

Prints1(to) == [doc |-> FALSE, to |-> to, cmd |-> "prints", units |-> 1]
Prints2(to) == [Prints1(to) EXCEPT !.units = 2]

MCRcFiles ==
  { <<>>, << <<Prints1("stdout")>> >>, << <<Prints1("file")>> >>,
    << <<Prints1("stdout"), Prints1("stdout")>> >>,
    << <<Prints1("stdout")>>, <<Prints1("stdout"), Prints1("noopen")>> >>,
    << <<Prints1("stdout")>>, <<[Prints1("file") EXCEPT !.doc = TRUE]>> >> }

MCTyped == {l \in Line : \A i \in DOMAIN l : l[i].cmd = "writes" => l[i].units = 1}
=============================================================================

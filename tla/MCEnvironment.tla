--------------------------- MODULE MCEnvironment ---------------------------
(***************************************************************************)
(* Instances of Environment for TLC.                                       *)
(***************************************************************************)
EXTENDS Environment, TLC

MCName == {"HOME", "OLDPWD", "PATH", "PWD", "X"}
MCDir == {"h", "w", "bin"}
MCBin == [d \in MCDir |-> "bin"]

Var(n, d) == [key |-> n, val |-> <<d>>]
MCEnvp ==
  { <<>>, <<Var("HOME", "h"), Var("PWD", "w")>>,
    <<Var("PATH", "bin"), Var("PWD", "w"), Var("HOME", "h")>> }

Arg(n, eq, d, flaw) == [key |-> n, eq |-> eq, val |-> <<d>>, flaw |-> flaw]
PathArg == [key |-> "PATH", eq |-> TRUE, val |-> <<"w", "h", "bin">>, flaw |-> "none"]
MCExportArgs ==
  { <<>>, <<Arg("X", TRUE, "w", "none"), Arg("X", TRUE, "h", "none")>>,
    <<Arg("X", FALSE, "w", "none"), Arg("X", TRUE, "w", "later")>>,
    <<PathArg, Arg("X", FALSE, "w", "later")>>, <<Arg("HOME", FALSE, "w", "none")>>,
    <<Arg("OLDPWD", TRUE, "w", "none"), Arg("HOME", TRUE, "w", "none")>>,
    <<Arg("X", TRUE, "w", "first")>> }
MCUnsetArgs == { <<>>, <<"HOME">>, <<"X", "PATH">>, <<"OLDPWD">>, <<"PWD">> }

To(d, dash, slash, tilde) ==
  [dir |-> d, dash |-> dash, slash |-> slash, tilde |-> tilde,
   rest |-> [e \in MCDir |-> IF e = "h" THEN "w" ELSE e]]

(* A name; dir/a-b; ~ or a~b, which are the same to cd; ~/w; - or a-b; a~/w. *)
AnyArg ==
  { To("w", FALSE, FALSE, FALSE), To("h", TRUE, TRUE, FALSE),
    To("w", FALSE, FALSE, TRUE), To("w", FALSE, TRUE, TRUE),
    To("w", TRUE, FALSE, FALSE), To("h", FALSE, TRUE, TRUE) }
MCRcValue == {<<"h">>}
MCInstalled == ("h" :> "plain") @@ ("w" :> "program") @@ ("bin" :> "program")
=============================================================================

------------------------------- MODULE MCText -------------------------------
(***************************************************************************)
(* Instances of Text for TLC: every line of up to MaxLen characters of a   *)
(* small alphabet, and lines that show more at once.                       *)
(***************************************************************************)
EXTENDS Text

CONSTANT MaxLen

MCTyped == {"a", " ", "'", "\"", "$", "|", ">"}
MCChar == MCTyped \cup {"b", "<", "?"}
MCAlnum == {"a", "b"}

(* The value of a has a space, an operator and a quote in it. *)
MCVars == <<"a">> :> <<"b", " ", "|">> @@ <<"a", "b">> :> <<"'">>
MCStatus == <<"a">>

LongLines ==
  { <<"a", "<", "<", " ", "'", "a", " ", "|", "'", "a", " ", "b">>,
    <<"$", "?", "$", "a", "b", " ", "\"", "$", "a", "$", "b", "\"", "$">>,
    <<"'", "\"", "$", "a", "'", "$", "a", "\"", "$", "?", " ", "$", "a", "\"">>,
    <<"a", ">", ">", "a", "|", "|", " ", "<", ">", " ", ">", "b", " ">> }
MCLines == UNION {[1 .. n -> MCTyped] : n \in 0 .. MaxLen} \cup LongLines

(* "$a's $a" *)
HangLines == { <<"\"", "$", "a", "'", "b", " ", "$", "a", "\"">> }
=============================================================================

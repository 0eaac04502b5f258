------------------------------- MODULE Syntax -------------------------------
(***************************************************************************)
(* Tokens and the binary syntax tree of 05_parser.c.                       *)
(*                                                                         *)
(* A line is the sequence of tokens the lexer returns.  A token is         *)
(*     c  the operator character its text starts with, "w" for a command   *)
(*     n  how many times that character is repeated at the start           *)
(*     w  the word that matters: the program of a command, the file of a   *)
(*        redirection, the delimiter of a here-document, or NoWord         *)
(* The tree of the code is represented by intervals: the subtree that      *)
(* parser() builds from tokens lo..hi is the pair (lo, hi), its root is    *)
(* the token at Root, its children are the intervals on both sides.        *)
(***************************************************************************)
EXTENDS Integers, Sequences, FiniteSetsExt

CONSTANTS Word,      \* programs, files and delimiters named in the lines
          NoWord     \* a redirection operator that no word follows

ASSUME WordAssumption == NoWord \notin Word

OpChar == {"w", "|", "<", ">"}
Token == {t \in [c : OpChar, n : Nat, w : Word \cup {NoWord}] : t.c = "w" => t.w \in Word}

(* The tokens of lo..hi that token_check(lexer, c, ...) would stop at. *)
TokensOf(line, lo, hi, c) == {i \in lo .. hi : line[i].c = c}

(* parser(): the first pipe, else the first '<', else the first '>', else  *)
(* the first token as a command.                                           *)
Root(line, lo, hi) ==
  LET at(c) == TokensOf(line, lo, hi, c)
  IN  IF at("|") # {} THEN Min(at("|"))
      ELSE IF at("<") # {} THEN Min(at("<"))
      ELSE IF at(">") # {} THEN Min(at(">"))
      ELSE lo

TypeAssign(t) ==
  IF t.c = "w" THEN "COMMAND"
  ELSE IF t.c = "|" THEN "PIPE"
  ELSE IF t.c = "<" THEN (IF t.n >= 2 THEN "HEREDOC" ELSE "RDIN")
  ELSE (IF t.n >= 2 THEN "RDAPP" ELSE "RDOUT")

(* The token field of the subtree of lo..hi; parser() returns NULL when    *)
(* it is given no token.                                                   *)
Kind(line, lo, hi) ==
  IF lo > hi THEN "NULL" ELSE TypeAssign(line[Root(line, lo, hi)])

(* The stage of the pipeline that the token at i is written in. *)
Stage(line, i) == Cardinality(TokensOf(line, 1, i - 1, "|"))
=============================================================================

-------------------------------- MODULE Text --------------------------------
(***************************************************************************)
(* From a typed line to tokens and words: 03_expand.c replaces variables,  *)
(* 04_lexer.c counts the tokens and then cuts them, 10_quote.c splits a    *)
(* token into words and removes its quotes.                                *)
(*                                                                         *)
(* A text is a sequence of characters, a pointer into it an index; the     *)
(* byte at index 0 is the one that stands before the text in memory, which *)
(* a pointer of expand() can reach.  Rooms are the sizes that are          *)
(* allocated before a pass writes.                                         *)
(*                                                                         *)
(* QuoteByAny, KeepsMarks, WidthNoMark and SpaceNotCounted are no part of  *)
(* the specification: each is the definition that follows it with a        *)
(* plausible mistake in it.                                                *)
(***************************************************************************)
EXTENDS Integers, Sequences, SequencesExt, FiniteSetsExt

CONSTANTS
  Char,     \* the characters of a line
  Lines,    \* the lines the user may type
  Alnum,    \* the characters of a variable's name
  Other,    \* a byte that is no character of a line
  Vars,     \* the texts of the variables that have a value
  Status,   \* the text of g_exit_status
  MaxOut    \* bound: characters after which an expansion is followed no further

Nul == "nul"
Null == -1
Space == " "
Quotes == {"'", "\""}
Redirections == {"<", ">"}
Operators == Redirections \cup {"|"}

(* The texts: no zero byte is in one. *)
CStrings == Seq(Char \cup {Other})

ASSUME TextAssumption ==
  /\ Alnum \cup {Space, "$", "?"} \cup Quotes \cup Operators \subseteq Char
  /\ Alnum \cap ({Space, "$", "?"} \cup Quotes \cup Operators) = {}
  /\ Nul \notin Char /\ Other \notin Char \cup {Nul}
  /\ Lines \subseteq Seq(Char) /\ Status \in Seq(Char)
  /\ \A key \in DOMAIN Vars : Vars[key] \in Seq(Char)
  /\ MaxOut \in Nat

VARIABLES
  line,     \* what was typed
  before,   \* the byte before it in memory
  phase,    \* expand, lex, cut, split, done, or refused by the lexer
  text,     \* what the pass reads
  pos,      \* where it is: data->start, or cmd
  dollar,   \* data->dollar_ptr
  out,      \* data->n_cmd
  room,     \* entries of the array of tokens
  tokens,   \* the tokens cut so far, each with the bytes allocated for it
  words     \* the words of each token
vars == <<line, before, phase, text, pos, dollar, out, room, tokens, words>>

At(s, i) == IF i \in DOMAIN s THEN s[i] ELSE Nul

(***************************************************************************)
(* 10a_quote_utils.c.                                                      *)
(***************************************************************************)
(* quote_count(): the length of the quoted part that starts at i.          *)
QuoteByAny(s, i) ==
  LET ends == {j \in i + 1 .. Len(s) : s[j] \in Quotes}
  IN  IF At(s, i) \notin Quotes THEN 0 ELSE IF ends = {} THEN -1 ELSE Min(ends) - i + 1
QuoteCount(s, i) ==
  LET ends == {j \in i + 1 .. Len(s) : s[j] = s[i]}
  IN  IF At(s, i) \notin Quotes THEN 0 ELSE IF ends = {} THEN -1 ELSE Min(ends) - i + 1

KeepsMarks(s) == s
RemoveQuote(s) ==
  LET rest[i \in 1 .. Len(s) + 1] ==
        LET n == QuoteCount(s, i)
        IN  IF i > Len(s) THEN <<>>
            ELSE IF n = 0 THEN <<s[i]>> \o rest[i + 1]
            ELSE SubSeq(s, i + 1, i + n - 2) \o rest[i + n]
  IN  rest[1]

(* Where a loop ends that skips characters and quoted parts up to one of   *)
(* stop (quotes_helper, count_quote_char, quote_cmd_mod, nextstr); Null at *)
(* a quote that is not closed.                                             *)
Skip(s, i, stop) ==
  LET end[j \in i .. Len(s) + 1] ==
        IF At(s, j) \in stop \cup {Nul} THEN j
        ELSE IF QuoteCount(s, j) = -1 THEN Null
        ELSE IF QuoteCount(s, j) = 0 THEN end[j + 1]
        ELSE end[j + QuoteCount(s, j)]
  IN  end[i]

(* The first index from i on that is no c. *)
After(s, i, c) == Min({j \in i .. Len(s) : s[j] # c} \cup {Len(s) + 1})

(***************************************************************************)
(* 03_expand.c.                                                            *)
(***************************************************************************)
(* ft_strchr() from index i: a zero byte before the text ends the search.  *)
StrChr(i, c) ==
  LET hits == {j \in DOMAIN text : j >= i /\ text[j] = c}
  IN  IF hits = {} \/ (i = 0 /\ before = Nul) THEN Null ELSE Min(hits)

(* What the string at index i is, and its first len characters; a length   *)
(* of -1 is the greatest there is.                                         *)
From(i) ==
  IF i > 0 THEN SubSeq(text, i, Len(text))
  ELSE IF before = Nul THEN <<>> ELSE <<before>> \o text
FirstOf(i, len) ==
  IF len \in 0 .. Len(From(i)) THEN SubSeq(From(i), 1, len) ELSE From(i)

(* key_check() *)
Key(i) == SubSeq(text, i, Min({j \in i .. Len(text) : text[j] \notin Alnum} \cup {Len(text) + 1}) - 1)

(* The loop of expand(); the output of some lines grows for ever. *)
Expanding == phase = "expand" /\ dollar # Null /\ Len(out) < MaxOut

(* A single quote before the next dollar and before any double quote. *)
InSingleQuote ==
  LET single == StrChr(pos, "'")
      double == StrChr(pos, "\"")
  IN  single # Null /\ single < dollar /\ (double = Null \/ single < double)

Turn(i) == pos' = i /\ dollar' = StrChr(i, "$")

SingleQuote ==
  /\ Expanding /\ InSingleQuote
  /\ LET single == StrChr(pos, "'")
         len == single - pos + QuoteCount(text, single)
     IN  out' = out \o FirstOf(pos, len) /\ Turn(pos + len)
  /\ UNCHANGED <<line, before, phase, text, room, tokens, words>>

(* What replaces the dollar at i, and how much of the text it stands for.  *)
Value(i) ==
  IF At(text, i + 1) = "?" THEN Status
  ELSE IF Key(i + 1) = <<>> THEN <<"$">>
  ELSE IF Key(i + 1) \in DOMAIN Vars THEN Vars[Key(i + 1)]
  ELSE <<>>
WidthNoMark(i) == IF At(text, i + 1) = "?" THEN 2 ELSE Len(Key(i + 1))
Width(i) == IF At(text, i + 1) = "?" THEN 2 ELSE Len(Key(i + 1)) + 1

JoinDollarPtr ==
  /\ Expanding /\ ~InSingleQuote
  /\ out' = out \o FirstOf(pos, dollar - pos) \o Value(dollar)
  /\ Turn(dollar + Width(dollar))
  /\ UNCHANGED <<line, before, phase, text, room, tokens, words>>

JoinRemaining ==
  /\ phase = "expand" /\ dollar = Null
  /\ text' = out \o From(pos)
  /\ phase' = "lex" /\ pos' = 1 /\ out' = <<>>
  /\ UNCHANGED <<line, before, dollar, room, tokens, words>>

(***************************************************************************)
(* 04a_lexer_token_count.c and 04b_lexer_char_count.c.                     *)
(***************************************************************************)
(* Where the operator at i ends, with the spaces that follow it: each      *)
(* character is compared with the one before.                              *)
BlanksEnd(s, i) ==
  Min({j \in i + 1 .. Len(s) : s[j] # s[j - 1] /\ s[j] # Space} \cup {Len(s) + 1})

(* count_token(), from each i on; -1 at a quote that is not closed. *)
CountFrom(s) ==
  LET from[i \in 1 .. Len(s) + 1] ==
        LET k == After(s, i, Space)
            end == IF At(s, k) = "|" THEN After(s, k, "|")
                   ELSE IF At(s, k) \in Redirections
                     THEN Skip(s, BlanksEnd(s, k), Operators \cup {Space})
                   ELSE Skip(s, k, Operators)
            rest == IF end = Null THEN -1 ELSE from[end]
        IN  IF i > Len(s) THEN 0 ELSE IF rest = -1 THEN -1 ELSE rest + 1
  IN  from
CountToken(s) == CountFrom(s)[1]

(* A space is put between the operator and a word that follows it at once. *)
SpaceInserted(s, k) == At(s, k - 1) \in Redirections /\ At(s, k) \notin {Space, Nul}

SpaceNotCounted(s, i) ==
  IF s[i] = "|" THEN After(s, i, "|") - i
  ELSE Skip(s, BlanksEnd(s, i), Operators \cup {Space}) - i
CountSpChar(s, i) ==
  IF s[i] = "|" THEN After(s, i, "|") - i
  ELSE Skip(s, BlanksEnd(s, i), Operators \cup {Space}) - i
         + (IF SpaceInserted(s, BlanksEnd(s, i)) THEN 1 ELSE 0)

CountChar(s, i) == Skip(s, i, Operators) - i

(***************************************************************************)
(* 04_lexer.c and 04c_lexer_cmd_mod.c.                                     *)
(***************************************************************************)
(* tokenizer(): an empty line and an open quote are refused. *)
TokenizerRefuses ==
  /\ phase = "lex" /\ (text = <<>> \/ CountToken(text) = -1)
  /\ phase' = "refused"
  /\ UNCHANGED <<line, before, text, pos, dollar, out, room, tokens, words>>

Tokenizer ==
  /\ phase = "lex" /\ text # <<>> /\ CountToken(text) # -1
  /\ phase' = "cut" /\ room' = CountToken(text)
  /\ UNCHANGED <<line, before, text, pos, dollar, out, tokens, words>>

(* A turn of cmd_modifier(): the token between k and end. *)
Cut(k, end, token, size) ==
  /\ end # Null
  /\ tokens' = Append(tokens, [text |-> token, room |-> size])
  /\ pos' = end
  /\ UNCHANGED <<line, before, phase, text, dollar, out, room, words>>

PipeTokenize ==
  LET k == After(text, pos, Space)
      end == After(text, k, "|")
  IN  /\ phase = "cut" /\ At(text, k) = "|"
      /\ Cut(k, end, SubSeq(text, k, end - 1), CountSpChar(text, k))

RedirTokenize ==
  LET k == After(text, pos, Space)
      word == BlanksEnd(text, k)
      end == Skip(text, word, Operators \cup {Space})
      gap == IF SpaceInserted(text, word) THEN <<Space>> ELSE <<>>
  IN  /\ phase = "cut" /\ At(text, k) \in Redirections
      /\ Cut(k, end, SubSeq(text, k, word - 1) \o gap \o SubSeq(text, word, end - 1),
             CountSpChar(text, k))

WordTokenize ==
  LET k == After(text, pos, Space)
      end == Skip(text, k, Operators)
  IN  /\ phase = "cut" /\ At(text, k) \notin Operators \cup {Nul}
      /\ Cut(k, end, SubSeq(text, k, end - 1), CountChar(text, k))

(* ft_strtrim(token, " ") *)
Trim(s) ==
  LET kept == {i \in DOMAIN s : s[i] # Space}
  IN  IF kept = {} THEN <<>> ELSE SubSeq(s, Min(kept), Max(kept))

(* The end of cmd_modifier(), and lexer(). *)
Lexer ==
  /\ phase = "cut" /\ At(text, After(text, pos, Space)) = Nul
  /\ phase' = IF tokens = <<>> THEN "refused" ELSE "split"
  /\ tokens' = [i \in DOMAIN tokens |-> [tokens[i] EXCEPT !.text = Trim(@)]]
  /\ UNCHANGED <<line, before, text, pos, dollar, out, room, words>>

(***************************************************************************)
(* 10_quote.c.                                                             *)
(***************************************************************************)
CmdQuoteHandler(s) ==
  LET from[i \in 1 .. Len(s) + 1] ==
        LET start == After(s, i, Space)
            end == Skip(s, start, {Space})
        IN  IF start > Len(s) THEN <<>>
            ELSE <<RemoveQuote(SubSeq(s, start, end - 1))>> \o from[end]
  IN  from[1]

(* A command is split; of a redirection, find_file() splits what follows   *)
(* the operator.                                                           *)
Operand(s) ==
  LET k == Min({j \in DOMAIN s : s[j] \notin Operators \cup {Space}} \cup {Len(s) + 1})
  IN  SubSeq(s, k, Len(s))

Split ==
  /\ phase = "split"
  /\ words' = [i \in DOMAIN tokens |-> CmdQuoteHandler(Operand(tokens[i].text))]
  /\ phase' = "done"
  /\ UNCHANGED <<line, before, text, pos, dollar, out, room, tokens>>

(***************************************************************************)
(* The specification.                                                      *)
(***************************************************************************)
Init ==
  /\ line \in Lines /\ text = line
  /\ before \in {Nul, Other}
  /\ phase = "expand" /\ pos = 1 /\ dollar = StrChr(1, "$")
  /\ out = <<>> /\ room = 0 /\ tokens = <<>> /\ words = <<>>

Next ==
  \/ SingleQuote \/ JoinDollarPtr \/ JoinRemaining
  \/ TokenizerRefuses \/ Tokenizer
  \/ PipeTokenize \/ RedirTokenize \/ WordTokenize \/ Lexer
  \/ Split

Spec == Init /\ [][Next]_vars
FairSpec == Spec /\ WF_vars(Next)

(***************************************************************************)
(* Properties.  The reference reads a text once, left to right, and knows  *)
(* at each character which quote is open.                                  *)
(***************************************************************************)
(* The quote that is open before the i-th character, or None. *)
None == "none"
Open(s) ==
  LET q[i \in 1 .. Len(s) + 1] ==
        IF i = 1 THEN None
        ELSE IF q[i - 1] = None THEN IF s[i - 1] \in Quotes THEN s[i - 1] ELSE None
        ELSE IF s[i - 1] = q[i - 1] THEN None ELSE q[i - 1]
  IN  [i \in 1 .. Len(s) + 1 |-> q[i]]

Closed(s) == Open(s)[Len(s) + 1] = None
Blank(s) == \A i \in DOMAIN s : s[i] = Space

(* The reading of s: runs of one operator, and words without their marks.  *)
Reading(s) ==
  LET q == Open(s)
      Bare(i) == q[i] = None /\ q[i + 1] = None
      Mark(i) == q[i] # q[i + 1]
      Kind(i) == IF Bare(i) /\ s[i] \in Operators \cup {Space} THEN s[i] ELSE "word"
      Starts(i) == Kind(i) # Space /\ (i = 1 \/ Kind(i - 1) # Kind(i))
      End(i) == Min({j \in i + 1 .. Len(s) : Kind(j) # Kind(i)} \cup {Len(s) + 1})
      Kept(i) == SelectSeq([n \in 1 .. End(i) - i |-> i + n - 1], LAMBDA j : ~Mark(j))
      order == SelectSeq([i \in DOMAIN s |-> i], Starts)
  IN  [n \in DOMAIN order |-> [k \in DOMAIN Kept(order[n]) |-> s[Kept(order[n])[k]]]]

(* What the tokens and their words amount to. *)
Operator(s) ==
  LET k == Min({j \in DOMAIN s : s[j] \notin Operators} \cup {Len(s) + 1})
  IN  IF k = 1 THEN <<>> ELSE <<SubSeq(s, 1, k - 1)>>
ReadSoFar == FlattenSeq([i \in DOMAIN tokens |-> Operator(tokens[i].text) \o words[i]])

(* The line with its variables replaced outside single quotes. *)
Expansion(s) ==
  LET q == Open(s)
      ValueIn(i) ==
        LET ends == {j \in i + 1 .. Len(s) : s[j] \notin Alnum} \cup {Len(s) + 1}
            key == SubSeq(s, i + 1, Min(ends) - 1)
        IN  CASE At(s, i + 1) = "?" -> <<Status, i + 2>>
              [] At(s, i + 1) # "?" /\ key = <<>> -> << <<"$">>, i + 1>>
              [] OTHER -> <<IF key \in DOMAIN Vars THEN Vars[key] ELSE <<>>, Min(ends)>>
      from[i \in 1 .. Len(s) + 1] ==
        IF i > Len(s) THEN <<>>
        ELSE IF s[i] = "$" /\ q[i] # "'" THEN ValueIn(i)[1] \o from[ValueIn(i)[2]]
        ELSE <<s[i]>> \o from[i + 1]
  IN  from[1]

(* After a double quote that opens, no single quote. *)
SinglesFirst(s) ==
  /\ Closed(s)
  /\ \A i, j \in DOMAIN s :
       (s[i] = "\"" /\ Open(s)[i] = None /\ i < j) => s[j] # "'"

(* The pass that cuts the tokens never writes beyond what the passes that  *)
(* counted them had allocated: count_token() bounds the number of tokens,  *)
(* count_char() and count_sp_char() the bytes of each.                     *)
TokensFit ==
  /\ Len(tokens) <= room
  /\ \A i \in DOMAIN tokens : Len(tokens[i].text) <= tokens[i].room

(* The lexer and the splitting of the tokens, which skip quotes in six     *)
(* loops of their own, read the text as one left-to-right reading does:    *)
(* the same operators and words, in the same order, each word without its  *)
(* marks and with everything that was quoted.  A text is refused exactly   *)
(* if a quote stays open in it or nothing but spaces is in it.             *)
WordsAsQuoted ==
  /\ phase = "done" => ReadSoFar = Reading(text)
  /\ phase = "refused" => ~Closed(text) \/ Blank(text)
  /\ phase \in {"cut", "split", "done"} => Closed(text)
  /\ phase \in {"split", "done"} => ~Blank(text)

(* expand() replaces every variable outside single quotes and none inside  *)
(* them, in a line whose single quotes all precede its double quotes; in   *)
(* other lines its search for the next quote can take a quote that is      *)
(* itself quoted for one that opens.                                       *)
ExpandsAsQuoted == phase = "lex" /\ SinglesFirst(line) => text = Expansion(line)

(* A line whose single quotes all precede its double quotes is expanded,   *)
(* cut and split in finitely many steps, or refused.                       *)
LineSplit == [](SinglesFirst(line) => <>(phase \in {"done", "refused"}))

(* 03_expand.c:9-11 says that expand() considers both kinds of quote and   *)
(* handles them appropriately: it returns, whatever the line.              *)
ExpandReturns == <>(phase # "expand")
=============================================================================

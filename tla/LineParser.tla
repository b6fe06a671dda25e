------------------------------ MODULE LineParser ------------------------------
(* line_parser.c of src/lab4, lab5 and lab7 (one and the same file): a line   *)
(* becomes a list of commands with their arguments and redirections.  A       *)
(* letter stands for any character that is neither a blank nor an operator.   *)
EXTENDS Integers, Sequences, FiniteSets, SequencesExt

CONSTANTS Characters,                \* of a line, without the end of line
          MaxLine,                   \* bound: characters of a line
          MAX_ARGUMENTS              \* the places of arguments, one of them for the end

ASSUME LineParserAssumption ==
    /\ Characters \subseteq {"a", "b", " ", "tab", "|", "&", "<", ">"}
    /\ MaxLine \in Nat /\ MAX_ARGUMENTS \in Nat \ {0}

VARIABLES lp_pc,
          str_line,                  \* the line that was typed
          rest,                      \* what _parse_cmd_lines has still to look at
          commands                   \* the list built so far

parserVars == <<lp_pc, str_line, rest, commands>>

Space == " "
Bar == "|"
Redirections == {"<", ">"}
Blank == {Space, "tab", "nl"}

(* isspace of every character, up to the end of the string. *)
is_empty(str) == \A i \in DOMAIN str : str[i] \in Blank

(* The end of the string, or the first of the given characters. *)
Until(str, stops) ==
    LET at == SelectInSeq(str, LAMBDA x : x \in stops)
    IN  IF at = 0 THEN str ELSE SubSeq(str, 1, at - 1)

After(str, i) == SubSeq(str, i, Len(str))

(* strtok with a blank as the delimiter: a tab does not separate.  Word n     *)
(* begins at the n-th place that no letter stands before.                      *)
Tokens(str) ==
    LET starts == {i \in DOMAIN str : str[i] # Space /\ (i = 1 \/ str[i - 1] = Space)}
        start(n) == CHOOSE i \in starts : Cardinality({j \in starts : j <= i}) = n
    IN  [n \in 1..Cardinality(starts) |-> Until(After(str, start(n)), {Space})]

(* Mutant: the word of a redirection does not end at the next one. *)
clone_first_word_on(str) ==
    LET words == Tokens(str)
    IN  IF words = <<>> THEN <<>> ELSE Head(words)

(* NULL, here <<>>, when the string or a redirection begins before a word.     *)
clone_first_word(str) ==
    LET words == Tokens(Until(str, Redirections))
    IN  IF words = <<>> THEN <<>> ELSE Head(words)

(* Of several redirections of a kind the last one stays. *)
extract_redirections(str, sign) ==
    LET at == SelectLastInSeq(str, LAMBDA x : x = sign)
    IN  IF at = 0 THEN <<>> ELSE clone_first_word(After(str, at + 1))

(* Mutant: the last place is not kept free. *)
parse_single_cmd_line_full(str) ==
    LET words == Tokens(Until(str, Redirections))
        kept == IF Len(words) < MAX_ARGUMENTS THEN Len(words) ELSE MAX_ARGUMENTS
    IN  [arguments |-> SubSeq(words, 1, kept),
         input_redirect |-> extract_redirections(str, "<"),
         output_redirect |-> extract_redirections(str, ">"),
         blocking |-> FALSE, idx |-> 0]

(* extract_redirections has put an end at every sign: strtok sees what comes  *)
(* before the first.                                                           *)
parse_single_cmd_line(str) ==
    LET words == Tokens(Until(str, Redirections))
        kept == IF Len(words) < MAX_ARGUMENTS THEN Len(words) ELSE MAX_ARGUMENTS - 1
    IN  [arguments |-> SubSeq(words, 1, kept),
         input_redirect |-> extract_redirections(str, "<"),
         output_redirect |-> extract_redirections(str, ">"),
         blocking |-> FALSE, idx |-> 0]

-----------------------------------------------------------------------------
LineParserInit ==
    /\ lp_pc = "typing" /\ str_line = <<>> /\ rest = <<>> /\ commands = <<>>

(* The user types; fgets gives the line with its end, or without it when the  *)
(* line was too long for the buffer.                                           *)
type_character ==
    /\ lp_pc = "typing" /\ Len(str_line) < MaxLine
    /\ \E x \in Characters : str_line' = Append(str_line, x)
    /\ UNCHANGED <<lp_pc, rest, commands>>

(* An empty line is NULL; of another one the end of line and all from the     *)
(* first '&' on are cut off.                                                   *)
parse_cmd_lines ==
    /\ lp_pc = "typing" /\ str_line # <<>>
    /\ \E line \in {str_line, Append(str_line, "nl")} :
           /\ str_line' = line
           /\ lp_pc' = IF is_empty(line) THEN "done" ELSE "parsing"
           /\ rest' = Until(line, {"nl", "&"})
    /\ UNCHANGED commands

(* One call of _parse_cmd_lines: it gives up on what is empty, the part up to *)
(* the next bar included, and with it on all that follows.                     *)
_parse_cmd_lines ==
    LET part == Until(rest, {Bar})
    IN
    /\ lp_pc = "parsing"
    /\ IF is_empty(part)
       THEN lp_pc' = "marking" /\ UNCHANGED <<rest, commands>>
       ELSE /\ commands' = Append(commands, parse_single_cmd_line(part))
            /\ rest' = After(rest, Len(part) + 2)
            /\ lp_pc' = IF Len(part) = Len(rest) THEN "marking" ELSE "parsing"
    /\ UNCHANGED str_line

(* The last command is marked blocking unless there was an '&'; all are       *)
(* numbered from 0.                                                            *)
mark_commands ==
    /\ lp_pc = "marking"
    /\ commands' = [k \in DOMAIN commands |->
                      [commands[k] EXCEPT !.idx = k - 1,
                           !.blocking = k = Len(commands) /\ ~ Contains(str_line, "&")]]
    /\ lp_pc' = "done"
    /\ UNCHANGED <<str_line, rest>>

LineParserNext == type_character \/ parse_cmd_lines \/ _parse_cmd_lines \/ mark_commands

-----------------------------------------------------------------------------
(* The reference, by places in the line.                                      *)

Live == 1..Len(Until(str_line, {"nl", "&"}))
Between(i, j, signs) == {n \in i..j : str_line[n] \in signs}

(* The first place of the word a live place belongs to, blanks and operators  *)
(* being no words.                                                             *)
InWord(i) == i \in Live /\ str_line[i] \notin {Space, Bar} \cup Redirections
Begins(i) == InWord(i) /\ ~ InWord(i - 1)
WordFrom(i) ==
    LET stop == CHOOSE j \in i..Len(str_line) : InWord(j) /\ ~ InWord(j + 1) /\ \A n \in i..j : InWord(n)
    IN  SubSeq(str_line, i, stop)

(* The places of the k-th part of the line, between its bars.                 *)
Part(k) == {i \in Live : str_line[i] # Bar /\ Cardinality(Between(1, i, {Bar})) = k - 1}
Parsed == {k \in 1..(Len(str_line) + 1) :
             \A h \in 1..k : \E i \in Part(h) : str_line[i] \notin Blank}

(* The word a redirection of part k names: the first one behind its last sign *)
(* when no other sign comes before it.                                         *)
Target(k, sign) ==
    LET signs == {i \in Part(k) : str_line[i] = sign}
        from == CHOOSE i \in signs : \A j \in signs : j <= i
        words == {i \in Part(k) : Begins(i) /\ i > from /\ Between(from + 1, i, Redirections) = {}}
    IN  IF signs = {} \/ words = {} THEN <<>>
        ELSE WordFrom(CHOOSE i \in words : \A j \in words : i <= j)

Arguments(k) == {i \in Part(k) : Begins(i) /\ Between(1, i, Redirections) \cap Part(k) = {}}

(* parse_cmd_lines (line_parser.c): every word of the line before the first   *)
(* '&' is the argument of its command in its place, or the file of its        *)
(* redirection, unless one of these is why it is not: there are as many       *)
(* arguments as fit, it stands behind a redirection of its part or behind an  *)
(* empty part, or a later redirection of the same kind replaced it.  Only the *)
(* last command can be blocking.                                               *)
ParsesAsWritten ==
    lp_pc = "done" =>
        /\ Len(commands) = Cardinality(Parsed)
        /\ \A k \in DOMAIN commands :
               LET given == commands[k]
                   kept == {i \in Arguments(k) :
                              Cardinality({j \in Arguments(k) : j <= i}) < MAX_ARGUMENTS}
               IN  /\ Len(given.arguments) = Cardinality(kept)
                   /\ \A i \in kept : WordFrom(i) =
                          given.arguments[Cardinality({j \in kept : j <= i})]
                   /\ given.input_redirect = Target(k, "<")
                   /\ given.output_redirect = Target(k, ">")
                   /\ given.idx = k - 1
                   /\ given.blocking <=> k = Cardinality(Parsed) /\ ~ Contains(str_line, "&")
===============================================================================

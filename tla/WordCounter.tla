----------------------------- MODULE WordCounter ------------------------------
(* src/lab1/wordcounter.c: one pass over the input, byte by byte, then one    *)
(* number for every option.  A char is signed: every byte above 127 is less   *)
(* than '!', and the byte 255 is EOF.                                          *)
EXTENDS Integers, Sequences, FiniteSets, FiniteSetsExt, SequencesExt

CONSTANTS Argvs,                     \* the arguments a run may be given
          MaxText                    \* bound: bytes of the input

ASSUME WordCounterAssumption == MaxText \in Nat

VARIABLES wc_pc, argv,
          text,                      \* the input so far
          foundLetter, wordcounter, charcounter, wordlencounter, largestword, linecounter,
          printed                    \* the numbers written

counterVars == <<wc_pc, argv, text, foundLetter, wordcounter, charcounter, wordlencounter,
                 largestword, linecounter, printed>>

InputBytes == {"letter", "space", "newline", "above127", "byte255"}

WordCounterInit ==
    /\ wc_pc = "start" /\ argv = <<>> /\ text = <<>> /\ printed = <<>>
    /\ foundLetter = 1 /\ wordcounter = 0 /\ charcounter = 0 /\ wordlencounter = 0
    /\ largestword = 0 /\ linecounter = 1

(* The places of -i: the argument behind one is taken for its file. *)
Inputs(args) ==
    LET taken[i \in 1..Len(args)] == args[i] = "-i" /\ (i = 1 \/ ~ taken[i - 1])
    IN  {i \in 1..Len(args) : taken[i]}

(* The first loop of main: the last -i counts; without a file that opens      *)
(* fgetc is given a null pointer.                                              *)
open_input ==
    /\ wc_pc = "start"
    /\ argv' \in Argvs
    /\ LET last == Max({0} \cup Inputs(argv'))
       IN  wc_pc' = IF last > 0 /\ (last = Len(argv') \/ argv'[last + 1] = "missing")
                    THEN "crashed" ELSE "reading"
    /\ UNCHANGED <<text, foundLetter, wordcounter, charcounter, wordlencounter, largestword,
                   linecounter, printed>>

(* Mutant: the length of a word is looked at when a blank or a line end       *)
(* follows it, and not at the end of the input.                                *)
end_word_unless_eof(byte) ==
    /\ foundLetter' = 1
    /\ largestword' = IF byte # "eof" /\ wordlencounter > largestword THEN wordlencounter ELSE largestword
    /\ wordlencounter' = 0
    /\ linecounter' = IF byte = "newline" THEN linecounter + 1 ELSE linecounter
    /\ UNCHANGED <<wordcounter, charcounter>>

end_word(byte) ==
    /\ foundLetter' = 1
    /\ largestword' = IF wordlencounter > largestword THEN wordlencounter ELSE largestword
    /\ wordlencounter' = 0
    /\ linecounter' = IF byte = "newline" THEN linecounter + 1 ELSE linecounter
    /\ UNCHANGED <<wordcounter, charcounter>>

count_letter ==
    /\ wordcounter' = IF foundLetter = 1 THEN wordcounter + 1 ELSE wordcounter
    /\ foundLetter' = 0
    /\ charcounter' = charcounter + 1
    /\ wordlencounter' = wordlencounter + 1
    /\ UNCHANGED <<largestword, linecounter>>

(* One turn of the loop; byte 255 ends it like the end of the input. *)
read_byte ==
    /\ wc_pc = "reading"
    /\ \E byte \in InputBytes \cup {"eof"} :
           /\ IF byte = "eof" THEN UNCHANGED text
              ELSE Len(text) < MaxText /\ text' = Append(text, byte)
           /\ IF byte = "letter" THEN count_letter ELSE end_word(byte)
           /\ wc_pc' = IF byte \in {"eof", "byte255"} THEN "reporting" ELSE "reading"
    /\ UNCHANGED <<argv, printed>>

options_of(args) == SelectSeq(args, LAMBDA a : a \in {"-l", "-c", "-w", "-n"})

(* The second loop looks at every argument, a file name too; without an       *)
(* option the words are written.                                               *)
report ==
    LET value(option) == CASE option = "-l" -> largestword
                           [] option = "-c" -> charcounter
                           [] option = "-n" -> linecounter
                           [] OTHER -> wordcounter
        options == options_of(argv)
    IN
    /\ wc_pc = "reporting"
    /\ printed' = IF options = <<>> THEN <<wordcounter>>
                  ELSE [i \in DOMAIN options |-> value(options[i])]
    /\ wc_pc' = "done"
    /\ UNCHANGED <<argv, text, foundLetter, wordcounter, charcounter, wordlencounter, largestword,
                   linecounter>>

WordCounterNext == open_input \/ read_byte \/ report

-----------------------------------------------------------------------------
(* The reference: a word is a longest run of letters. *)
Words ==
    {w \in (1..Len(text)) \X (1..Len(text)) :
        /\ \A i \in w[1]..w[2] : text[i] = "letter"
        /\ w[1] <= w[2]
        /\ w[1] = 1 \/ text[w[1] - 1] # "letter"
        /\ w[2] = Len(text) \/ text[w[2] + 1] # "letter"}

Counted(option) ==
    CASE option = "-l" -> Max({0} \cup {w[2] - w[1] + 1 : w \in Words})
      [] option = "-c" -> Cardinality({i \in DOMAIN text : text[i] = "letter"})
      [] option = "-n" -> 1 + Cardinality({i \in DOMAIN text : text[i] = "newline"})
      [] OTHER -> Cardinality(Words)

(* main (wordcounter.c): what is printed for each option, in the order given, *)
(* are the words, the longest word, the letters and the lines (one more than  *)
(* the line ends) of the input up to its end or its first byte 255, however   *)
(* the input ends; a file name that reads like an option is answered as one.  *)
CountsAsRead ==
    wc_pc = "done" =>
        LET options == options_of(argv)
        IN  printed = IF options = <<>> THEN <<Counted("-w")>>
                      ELSE [i \in DOMAIN options |-> Counted(options[i])]
===============================================================================

---------------------------------- MODULE Tools -------------------------------
(* The small programs of the repository side by side: one of them is started. *)
EXTENDS LineParser, WordCounter, Find, HexEdit

VARIABLE tool

vars == <<tool, parserVars, counterVars, findVars, hexVars>>

Init ==
    /\ tool \in {"line_parser", "wordcounter", "find", "hexeditplus"}
    /\ LineParserInit /\ WordCounterInit /\ FindInit /\ HexEditInit

Next ==
    \/ /\ tool = "line_parser" /\ LineParserNext
       /\ UNCHANGED <<tool, counterVars, findVars, hexVars>>
    \/ /\ tool = "wordcounter" /\ WordCounterNext
       /\ UNCHANGED <<tool, parserVars, findVars, hexVars>>
    \/ /\ tool = "find" /\ FindNext
       /\ UNCHANGED <<tool, parserVars, counterVars, hexVars>>
    \/ /\ tool = "hexeditplus" /\ HexEditNext
       /\ UNCHANGED <<tool, parserVars, counterVars, findVars>>

(* find waits for nobody: the kernel lets it run. *)
FairSpec ==
    /\ Init /\ [][Next]_vars
    /\ WF_vars(tool = "find" /\ (next_entry \/ return_from_rec)
               /\ UNCHANGED <<tool, parserVars, counterVars, hexVars>>)

-----------------------------------------------------------------------------
ParserTypeOK ==
    /\ lp_pc \in {"typing", "parsing", "marking", "done"}
    /\ Len(rest) <= Len(str_line) /\ Len(str_line) <= MaxLine + 1
    /\ \A k \in DOMAIN commands : Len(commands[k].arguments) < MAX_ARGUMENTS

CounterTypeOK ==
    /\ wc_pc \in {"start", "crashed", "reading", "reporting", "done"}
    /\ foundLetter \in {0, 1}
    /\ wordlencounter <= charcounter /\ largestword <= charcounter /\ wordcounter <= charcounter
    /\ charcounter + linecounter <= Len(text) + 1

FindTypeOK ==
    /\ fd_pc \in {"start", "walking", "ended", "spinning"}
    /\ opened \in 0..MaxOpen /\ Len(frames) <= opened
    /\ \A n \in DOMAIN frames :
           /\ frames[n].dir \in DOMAIN tree.dirs /\ frames[n].output \in {0, 1}
           /\ frames[n].pos \in 1..(Len(tree.dirs[frames[n].dir]) + 1)

HexTypeOK ==
    /\ he_pc \in {"menu", "ended", "undefined"}
    /\ choice \in 0..6 /\ input \in InputKinds
    /\ unitSize \in 0..5 /\ descriptors \in 0..MaxDescriptors
    /\ fileName \in Files \cup {"none", "missing"}

(* The variables of every program, and for each what relates them: no more    *)
(* arguments than fit (line_parser.c), the counts within the input            *)
(* (wordcounter.c), the places of the walk within their directories           *)
(* (lab4_main.c), the descriptors within what the kernel gives and the unit   *)
(* one that was taken (hexeditplus.c).                                         *)
TypeOK == ParserTypeOK /\ CounterTypeOK /\ FindTypeOK /\ HexTypeOK
===============================================================================

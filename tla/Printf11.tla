------------------------------- MODULE Printf11 -------------------------------
(* toy_printf of src/lab11: signed %d, the other conversions unsigned, arrays *)
(* printed by functions of their own.  %A prints the kind of the elements     *)
(* too and leaves the state as it is: what follows it is taken for a          *)
(* directive, and directives then take each other's arguments.                 *)
EXTENDS PrintfText

lab11_literal ==
    /\ Turn("lab11", "init") /\ char # "%"
    /\ Put(<<char>>, printed + 1) /\ UNCHANGED args /\ Keeps

lab11_percent ==
    /\ Turn("lab11", "init") /\ char = "%"
    /\ state' = "percent" /\ fs' = Tail(fs)
    /\ UNCHANGED <<version, call, args, out, printed, width, f, strings, status>>

lab11_conversion ==
    /\ Turn("lab11", "percent")
    /\ \/ percent_percent
       \/ char = "d" /\ Convert(TRUE, 10, digit)
       \/ char = "b" /\ Convert(FALSE, 2, digit)
       \/ char = "u" /\ Convert(FALSE, 10, digit)
       \/ char = "o" /\ Convert(FALSE, 8, digit)
       \/ char = "x" /\ Convert(FALSE, 16, digit)
       \/ char = "X" /\ Convert(FALSE, 16, DIGIT)
       \/ percent_s
       \/ percent_c

(* The array and its size are taken from the argument list within one argument *)
(* list, in an order that C leaves open: the compiler may swap them.  The array *)
(* is no argument of its own here: an int that another directive left behind    *)
(* is met as a size, where the code would follow it as the array.  That can be   *)
(* only behind an array, in a call whose text nothing is claimed of (OutOfStep).*)
lab11_array ==
    /\ Turn("lab11", "percent") /\ char = "A"
    /\ \/ kind \notin {"d", "s", "x"} /\ Stops("unhandled")
       \/ kind \in {"d", "s", "x"} /\ Stops("swapped")
       \/ /\ kind \in {"d", "s", "x"}
          /\ IF Lacks("int") THEN Stops("kind")
             ELSE IF argument.int \notin 0..Len(ArrayOf(kind)) THEN Stops("kind")
             ELSE IF argument.int = 0 THEN Stops("no_element")
             ELSE /\ out' = out \o <<kind>> \o Array(kind, argument.int)
                  /\ strings' = IF kind = "s" THEN Spent(argument.int) ELSE strings
                  /\ fs' = SubSeq(fs, 3, Len(fs)) /\ args' = Tail(args)
                  /\ UNCHANGED <<version, call, printed, state, width, f, status>>

lab11_unhandled ==
    /\ Turn("lab11", "percent")
    /\ char \notin {"%", "d", "b", "o", "x", "X", "u", "s", "c", "A"}
    /\ Stops("unhandled")

lab11_toy_printf ==
    \/ lab11_literal \/ lab11_percent \/ lab11_conversion
    \/ lab11_array \/ lab11_unhandled
===============================================================================

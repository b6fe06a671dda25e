------------------------------- MODULE Printf9 --------------------------------
(* toy_printf of src/lab9: the conversions of lab11 as a table of handlers,   *)
(* with widths.  The state of a call lives in a state_result to which the     *)
(* call has a pointer that nobody initializes.                                *)
EXTENDS PrintfText

(* The uninitialized pointer is written through first of all. *)
lab9_wild_result ==
    /\ status = "running" /\ version = "lab9" /\ out = <<>> /\ state = "init"
    /\ Stops("wild_result")

(* A character outside a directive starts the count again. *)
init_state_handler ==
    /\ Turn("lab9", "init")
    /\ IF char = "%"
       THEN /\ state' = "percent" /\ fs' = Tail(fs) /\ printed' = 0
            /\ UNCHANGED <<version, call, args, out, width, f, strings, status>>
       ELSE Put(<<char>>, 1) /\ UNCHANGED args /\ Keeps

lab9_conversion ==
    /\ Turn("lab9", "percent")
    /\ \/ percent_percent
       \/ char = "d" /\ Convert(TRUE, 10, digit)
       \/ char = "b" /\ Convert(FALSE, 2, digit)
       \/ char = "u" /\ Convert(FALSE, 10, digit)
       \/ char = "o" /\ Convert(FALSE, 8, digit)
       \/ char = "x" /\ Convert(FALSE, 16, digit)
       \/ char = "X" /\ Convert(FALSE, 16, DIGIT)
       \/ percent_s

percent_handler_A ==
    /\ Turn("lab9", "percent") /\ char = "A"
    /\ \/ kind \notin {"d", "s", "x"} /\ Stops("unhandled")
       \/ /\ kind \in {"d", "s", "x"}
          /\ IF argument.int = 0 /\ kind = "s" THEN Stops("no_element")
             ELSE /\ out' = out \o Array(kind, argument.int)
                  /\ strings' = IF kind = "s" THEN Spent(argument.int) ELSE strings
                  /\ fs' = SubSeq(fs, 3, Len(fs)) /\ args' = Tail(args) /\ state' = "init"
                  /\ UNCHANGED <<version, call, printed, width, f, status>>

-----------------------------------------------------------------------------
(* Where the digits and signs of a width end. *)
Behind9(format) == SelectInSeq(format, LAMBDA x : x \notin Layout)

Value(figures) == ReadWidth(0, figures)

(* n behind as many zeros as the width says, however long n is; none when     *)
(* the width is negative.                                                      *)
Zeros(n, w, negative) ==
    (IF n < 0 THEN <<"-">> ELSE <<>>) \o (IF negative THEN <<>> ELSE Copies("0", w))
      \o print_int_d(IF n < 0 THEN -n ELSE n, 10, digit)

(* A string with as many blanks as the width says, before it for a negative   *)
(* width and behind it for another; a width that starts with a digit is       *)
(* closed with a mark.                                                         *)
Blanks(text, w, negative, mark) ==
    IF negative /\ w > 0 THEN Copies(Blank, w) \o text
    ELSE text \o (IF negative THEN <<>> ELSE Copies(Blank, w)) \o mark

(* percent_handler_num and percent_handler_sub: a width and its conversion,   *)
(* d or anything else for a string.  Only the string is counted.               *)
lab9_width ==
    LET next == Behind9(fs)
        figures == SubSeq(fs, 1, next - 1)
        w == Value(figures)
        negative == Contains(figures, "-")
        mark == IF char = "-" THEN <<>> ELSE <<"#">>
    IN
    /\ Turn("lab9", "percent") /\ char \in Layout
    /\ \/ next = 0 /\ Stops("overrun")
       \/ w > MaxInt /\ Stops("overflow")
       \/ next > 0 /\ fs[next] = "d" /\ argument.int = MinInt /\ Stops("smallest")
       \/ next > 0 /\ fs[next] # "d" /\ argument.kind # "string" /\ Stops("kind")
       \/ /\ next > 0 /\ w <= MaxInt
          /\ \/ /\ fs[next] = "d" /\ argument.int # MinInt
                /\ out' = out \o Zeros(argument.int, w, negative)
                /\ UNCHANGED printed
             \/ /\ fs[next] # "d" /\ argument.kind = "string"
                /\ out' = out \o Blanks(argument.str, w, negative, mark)
                /\ printed' = printed + Len(argument.str)
          /\ fs' = SubSeq(fs, next + 1, Len(fs)) /\ args' = Tail(args) /\ state' = "init"
          /\ UNCHANGED <<version, call, width, f, strings, status>>

(* A character no handler was entered for: %c too. *)
default_handler ==
    /\ Turn("lab9", "percent")
    /\ char \notin Layout \cup {"%", "d", "b", "o", "x", "X", "u", "s", "A"}
    /\ Stops("unhandled")

lab9_toy_printf ==
    \/ lab9_wild_result \/ init_state_handler \/ lab9_conversion
    \/ percent_handler_A \/ lab9_width \/ default_handler
===============================================================================

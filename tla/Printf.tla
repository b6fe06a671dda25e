-------------------------------- MODULE Printf --------------------------------
(* The three versions of toy_printf side by side, and what each of them       *)
(* promises of a call.                                                         *)
EXTENDS Printf8, Printf9, Printf11

Next ==
    \/ \E items \in Calls : Call(items)
    \/ lab8_toy_printf \/ lab9_toy_printf \/ lab11_toy_printf
    \/ Return \/ Resume

Spec == Init /\ [][Next]_vars

-----------------------------------------------------------------------------
TypeOK ==
    /\ state \in {"init", "percent"}
    /\ printed \in 0..Len(out)
    /\ \A i \in DOMAIN args : IsArgument(args[i])
    /\ f \in {0, 1} /\ width \in 0..MaxInt
    /\ \A i \in DOMAIN strings : strings[i] \in {Strings_array[i], <<>>}

-----------------------------------------------------------------------------
(* The reference: the positional numeral of n >= 0. *)
Positional(n, radix, table) ==
    LET fits(l) == n < Power(radix, l) /\ (l = 1 \/ n >= Power(radix, l - 1))
        length == CHOOSE l \in 1..Width : fits(l)
    IN  [i \in 1..length |-> table[((n \div Power(radix, length - i)) % radix) + 1]]

Signed(n) == IF n < 0 THEN <<"-">> \o Positional(-n, 10, digit) ELSE Positional(n, 10, digit)

Padded(text, w, left) ==
    LET blanks == Copies(Blank, w - Len(text))
        cut == SubSeq(text, 1, IF w < Len(text) THEN w ELSE Len(text))
    IN  IF left THEN blanks \o cut ELSE cut \o blanks \o <<"#">>

(* What an item asks to be printed. *)
Expected(item) ==
    LET n == item.args[1].int IN
    CASE item.conv = "literal" -> item.fs
      [] item.conv = "%" -> <<"%">>
      [] item.conv = "d" -> Signed(n)
      [] item.conv = "b" -> Positional(Unsigned(n), 2, digit)
      [] item.conv = "o" -> Positional(Unsigned(n), 8, digit)
      [] item.conv = "u" -> Positional(Unsigned(n), 10, digit)
      [] item.conv = "x" -> Positional(Unsigned(n), 16, digit)
      [] item.conv = "X" -> Positional(Unsigned(n), 16, DIGIT)
      [] item.conv \in {"s", "c"} -> item.args[1].str
      [] item.conv = "Ad" -> Braces([i \in 1..n |-> Signed(Integers_array[i])])
      [] item.conv = "Ax" -> Braces([i \in 1..n |-> Positional(Unsigned(Integers_array[i]), 16, digit)])
      [] item.conv = "As" -> Braces(SubSeq(Strings_array, 1, n))
      [] item.conv = "Ac" -> Braces([i \in 1..n |-> <<Characters_array[i]>>])
      [] item.conv = "ws" -> Padded(item.args[1].str, item.w, item.left)

(* The items of the call, before item i, that ask for one of convs. *)
Before(i, convs) == \E j \in 1..i - 1 : call.items[j].conv \in convs

(* What each version gets right of an item: lab8 prints %b and %X with a sign *)
(* and pads by the widths of the whole call; lab9 prints %Ax in octal, pads   *)
(* by the width itself and prints an array of strings once; lab11 prints no   *)
(* arrays and no widths.                                                       *)
Trusted(i) ==
    LET item == call.items[i] IN
    CASE item.conv \in {"b", "X"} -> version # "lab8" \/ item.args[1].int >= 0
      [] item.conv \in {"literal", "%", "d", "o", "u", "x", "s", "c"} -> TRUE
      [] item.conv = "Ad" -> version # "lab11"
      [] item.conv \in {"Ax", "Ac"} -> version = "lab8"
      [] item.conv = "As" -> \/ version = "lab8"
                             \/ version = "lab9" /\ call.strings = Strings_array /\ ~ Before(i, {"As"})
      [] item.conv = "ws" -> /\ version = "lab8" /\ ~ Before(i, {"ws", "wd", "wx"})
                             /\ item.left \/ call.f = 1
      [] OTHER -> FALSE

(* A call that returns has printed what its items ask for, one after the      *)
(* other: no directive disturbs a later one, of this call or of the next, but *)
(* in the ways Trusted names (toy_printf.c of lab8, lab9 and lab11).           *)
TextAsAsked ==
    status = "returned" /\ (\A i \in DOMAIN call.items : Trusted(i))
        => out = FlattenSeq([i \in DOMAIN call.items |-> Expected(call.items[i])])

Counted == {"literal", "%", "d", "b", "o", "u", "x", "X", "s", "c"}

(* What lab8 and lab11 return is the number of characters they printed, for   *)
(* literals and for every conversion but arrays and widths.                    *)
CountIsText ==
    /\ status = "returned" /\ version # "lab9"
    /\ \A i \in DOMAIN call.items : call.items[i].conv \in Counted
    => printed = Len(out)

(* main[1].c:5-8 of lab9 adds up what toy_printf returns and prints it as the *)
(* number of characters printed.  The state machine of lab9 starts its count  *)
(* again at every literal character and at every directive.                   *)
ReturnsCharsPrinted ==
    /\ status = "returned"
    /\ \A i \in DOMAIN call.items : call.items[i].conv \in Counted
    => printed = Len(out)

Asked(convs) == \E i \in DOMAIN call.items : call.items[i].conv \in convs

Arrays == {"Ad", "As", "Ax", "Ac"}
Widths == {"wd", "ws", "wx"}

(* lab11 behind an array: a directive may take what another was to take. *)
OutOfStep == version = "lab11" /\ Asked(Arrays)

(* A call that does not return stopped for one of these reasons: nothing else *)
(* in a format or an argument makes toy_printf exit, read past the end of the *)
(* format or follow a pointer that is none.                                    *)
NamedStops ==
    CASE status = "smallest" ->
             \/ OutOfStep
             \/ \E i \in DOMAIN call.items : /\ call.items[i].conv \in {"d", "b", "X"} \cup Widths
                                             /\ call.items[i].args[1].int = MinInt
      [] status = "unhandled" ->
             \/ Asked({"unknown", "broken"})
             \/ version = "lab9" /\ Asked({"c", "Ac"})
             \/ version = "lab11" /\ Asked(Arrays \cup Widths)
      [] status = "no_element" ->
             \/ OutOfStep
             \/ \E i \in DOMAIN call.items : /\ call.items[i].conv \in Arrays
                                             /\ call.items[i].args[1].int = 0
      [] status = "overrun" -> Last(call.items).conv = "broken"
      [] status = "overflow" -> Asked(Widths \cup {"broken"})
      [] status = "swapped" -> version = "lab11" /\ Asked(Arrays)
      [] status = "kind" -> OutOfStep \/ (version = "lab9" /\ Asked({"wx"}))
      [] OTHER -> status \in {"idle", "running", "returned"} \/ version = "lab9"
===============================================================================

------------------------------- MODULE Printf8 --------------------------------
(* toy_printf of src/lab8: signed %b and %X, %c, arrays printed element by    *)
(* element through toy_printf itself, and widths.  The width is a local of    *)
(* the call that no directive resets, f a global that stays 0 after a '-'.    *)
EXTENDS PrintfText

lab8_literal ==
    /\ Turn("lab8", "init") /\ char # "%"
    /\ Put(<<char>>, printed + 1) /\ UNCHANGED args /\ Keeps

lab8_percent ==
    /\ Turn("lab8", "init") /\ char = "%"
    /\ state' = "percent" /\ fs' = Tail(fs)
    /\ UNCHANGED <<version, call, args, out, printed, width, f, strings, status>>

lab8_conversion ==
    /\ Turn("lab8", "percent")
    /\ \/ percent_percent
       \/ char = "d" /\ Convert(TRUE, 10, digit)
       \/ char = "b" /\ Convert(TRUE, 2, digit)
       \/ char = "o" /\ Convert(FALSE, 8, digit)
       \/ char = "x" /\ Convert(FALSE, 16, digit)
       \/ char = "X" /\ Convert(TRUE, 16, DIGIT)
       \/ char = "u" /\ Convert(FALSE, 10, digit)
       \/ percent_s
       \/ percent_c

(* The kinds of elements; arrays of other kinds are not printed by any call. *)
Kinds == {"s", "c", "d", "b", "X", "o", "x", "u"}

(* What toy_printf("%k", element) prints of an element of an array. *)
Element(k, i) ==
    CASE k = "s" -> strings[i]
      [] k = "c" -> <<Characters_array[i]>>
      [] k = "d" -> print_int_d(Integers_array[i], 10, digit)
      [] k = "b" -> print_int_d(Integers_array[i], 2, digit)
      [] k = "X" -> print_int_d(Integers_array[i], 16, DIGIT)
      [] k = "o" -> print_int(Integers_array[i], 8, digit)
      [] k = "x" -> print_int(Integers_array[i], 16, digit)
      [] k = "u" -> print_int(Integers_array[i], 10, digit)

(* Mutant: an array leaves the state as it is. *)
lab8_array_stays ==
    /\ Turn("lab8", "percent") /\ char = "A"
    /\ \/ kind = "none" /\ Stops("overrun")
       \/ kind \notin Kinds \cup {"none"} /\ Stops("unhandled")
       \/ /\ kind \in Kinds
          /\ IF argument.int = 0 THEN Stops("no_element")
             ELSE /\ out' = out \o Braces([i \in 1..argument.int |-> Element(kind, i)])
                  /\ fs' = SubSeq(fs, 3, Len(fs)) /\ args' = Tail(args)
                  /\ UNCHANGED <<version, call, printed, state, width, f, strings, status>>

(* %A and the kind of the elements.  The last element is printed also when    *)
(* there is none, and a format that ends after the A is read past its end.    *)
lab8_array ==
    /\ Turn("lab8", "percent") /\ char = "A"
    /\ \/ kind = "none" /\ Stops("overrun")
       \/ kind \notin Kinds \cup {"none"} /\ Stops("unhandled")
       \/ /\ kind \in Kinds
          /\ IF argument.int = 0 THEN Stops("no_element")
             ELSE /\ out' = out \o Braces([i \in 1..argument.int |-> Element(kind, i)])
                  /\ fs' = SubSeq(fs, 3, Len(fs)) /\ args' = Tail(args) /\ state' = "init"
                  /\ UNCHANGED <<version, call, printed, width, f, strings, status>>

-----------------------------------------------------------------------------
(* get_int_size: the decimal digits of n and its sign; none for zero. *)
get_int_size(n) == IF n = 0 THEN 0 ELSE Len(print_int_d(n, 10, digit))

padd(fill, n) == Copies(fill, n)

(* n cut to its first w characters if it is not shorter than w.  The quotient *)
(* is taken towards zero.                                                      *)
int_print(n, w, size) ==
    IF w > size THEN print_int_d(n, 10, digit)
    ELSE LET magnitude == (IF n < 0 THEN -n ELSE n) \div Power(10, size - w)
         IN  print_int_d(IF n < 0 THEN -magnitude ELSE magnitude, 10, digit)

(* The power of ten by which int_print divides passes the largest int: a      *)
(* number of as many digits as MaxInt (10) cut to no digit, or to its sign.   *)
PowerOverflows(n, w) ==
    LET size == get_int_size(n) IN w <= size /\ Power(10, size - w) > MaxInt

(* A number that is not negative is printed negated. *)
my_int_print(n, w) ==
    LET size == get_int_size(n)
    IN  (IF n < 0 THEN <<"-">> ELSE <<>>) \o padd("0", w - size) \o int_print(-n, w, size)

my_string_print(text, w) ==
    LET cut == SubSeq(text, 1, IF w < Len(text) THEN w ELSE Len(text))
        pad == padd(Blank, w - Len(text))
    IN  IF f = 0 THEN pad \o cut ELSE cut \o pad \o <<"#">>

(* The digits at the head of a format, and what is behind them. *)
Behind(format) == SelectInSeq(format, LAMBDA x : x \notin Decimal)

(* A width and its conversion: s, or anything else for an integer.  Nothing   *)
(* printed here is counted.                                                    *)
lab8_width ==
    LET next == Behind(fs)
        w == ReadWidth(width, SubSeq(fs, 1, next - 1))
    IN
    /\ Turn("lab8", "percent") /\ char \in Decimal
    /\ \/ next = 0 /\ Stops("overrun")
       \/ w > MaxInt /\ Stops("overflow")
       \/ next > 0 /\ fs[next] # "s" /\ argument.int = MinInt /\ Stops("smallest")
       \/ /\ next > 0 /\ fs[next] # "s" /\ argument.int # MinInt
          /\ PowerOverflows(argument.int, w) /\ Stops("overflow")
       \/ /\ next > 0 /\ w <= MaxInt
          /\ \/ fs[next] = "s" /\ out' = out \o my_string_print(argument.str, w)
             \/ /\ fs[next] # "s" /\ argument.int # MinInt /\ ~ PowerOverflows(argument.int, w)
                /\ out' = out \o my_int_print(argument.int, w)
          /\ width' = w
          /\ fs' = SubSeq(fs, next + 1, Len(fs)) /\ args' = Tail(args) /\ state' = "init"
          /\ UNCHANGED <<version, call, printed, f, strings, status>>

lab8_minus ==
    /\ Turn("lab8", "percent") /\ char = "-"
    /\ f' = 0 /\ fs' = Tail(fs)
    /\ UNCHANGED <<version, call, args, out, printed, state, width, strings, status>>

lab8_unhandled ==
    /\ Turn("lab8", "percent")
    /\ char \notin Decimal \cup {"%", "d", "b", "o", "x", "X", "u", "s", "c", "A", "-"}
    /\ Stops("unhandled")

lab8_toy_printf ==
    \/ lab8_literal \/ lab8_percent \/ lab8_conversion \/ lab8_array
    \/ lab8_width \/ lab8_minus \/ lab8_unhandled
===============================================================================

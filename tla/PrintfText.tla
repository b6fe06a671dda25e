------------------------------ MODULE PrintfText ------------------------------
(* What the three versions of toy_printf (src/lab8, src/lab11, src/lab9) have *)
(* in common: the call they work on, the text of a number, and the directives *)
(* that every version treats alike.  One step of the model is one turn of the *)
(* loop over the format.  A format is a sequence of characters, an argument   *)
(* carries its kind, because va_arg trusts the format about it.               *)
EXTENDS Integers, Sequences, SequencesExt

CONSTANTS Versions,                  \* the versions of toy_printf called
          Calls,                     \* the calls a program makes: sequences of items
          Width,                     \* bits of an int (32)
          Integers_array,            \* the array of integers printed by %Ad
          Characters_array,          \* the array of characters printed by %Ac
          Strings_array              \* the array of strings printed by %As

(* power10, for other bases too. *)
Power(base, exponent) ==
    LET power[n \in Nat] == IF n = 0 THEN 1 ELSE base * power[n - 1]
    IN  power[exponent]

MaxInt == Power(2, Width - 1) - 1
MinInt == -MaxInt - 1

digit == <<"0", "1", "2", "3", "4", "5", "6", "7", "8", "9", "a", "b", "c", "d", "e", "f">>
DIGIT == <<"0", "1", "2", "3", "4", "5", "6", "7", "8", "9", "A", "B", "C", "D", "E", "F">>

Decimal == {digit[i] : i \in 1..10}
Layout == Decimal \cup {"-"}
Blank == " "
Comma == ","

-----------------------------------------------------------------------------
(* The calls a program can make: an argument is an int, with the character of *)
(* that code, or a string; an item is cut from the format so that it takes    *)
(* the arguments it has, and conv says what it asks for:                       *)
(*   "literal", "%", "d", "b", "o", "u", "x", "X", "s", "c"   as in C;         *)
(*   "Ad", "As", "Ax", "Ac"   an array and its size;                           *)
(*   "wd", "ws", "wx"   a width w, to the left after a '-', and d, s or x;     *)
(*   "unknown"   no directive, and "broken"   a directive cut off at the end.  *)
IsText(text) == text \in Seq(Range(text))

IsArgument(a) ==
    /\ a.kind \in {"int", "string"} /\ IsText(a.str)
    /\ a.int \in MinInt..MaxInt
    /\ a.kind = "int" => Len(a.str) = 1

IntDirectives == {"d", "b", "o", "u", "x", "X", "c"}
ArrayKind == [Ad |-> "d", As |-> "s", Ax |-> "x", Ac |-> "c"]
WideKind == [wd |-> "d", ws |-> "s", wx |-> "x"]
Directives == Layout \cup IntDirectives \cup {"%", "s", "A"}

ArrayOf(k) == IF k = "s" THEN Strings_array ELSE IF k = "c" THEN Characters_array ELSE Integers_array

(* The sign and the digits of a width. *)
Figures(item) ==
    SubSeq(item.fs, 2, IF item.conv = "broken" THEN Len(item.fs) ELSE Len(item.fs) - 1)

(* The digits of a width, behind those of the directive before. *)
ReadWidth(start, figures) ==
    LET value[i \in 0..Len(figures)] ==
            IF i = 0 THEN start
            ELSE IF figures[i] = "-" THEN value[i - 1]
            ELSE 10 * value[i - 1] + (CHOOSE d \in 0..9 : digit[d + 1] = figures[i])
    IN  value[Len(figures)]

IsLayout(figures, left) ==
    \A i \in DOMAIN figures : figures[i] \in Decimal \/ (left /\ i = 1 /\ figures[i] = "-")

Takes(item, kinds) ==
    /\ IsText(item.args) /\ \A i \in DOMAIN item.args : IsArgument(item.args[i])
    /\ Len(item.args) = Len(kinds)
    /\ \A i \in DOMAIN kinds : item.args[i].kind = kinds[i]

IsItem(item) ==
    /\ IsText(item.fs)
    /\ \/ item.conv = "literal" /\ Len(item.fs) = 1 /\ item.fs[1] # "%" /\ Takes(item, <<>>)
       \/ item.conv = "%" /\ item.fs = <<"%", "%">> /\ Takes(item, <<>>)
       \/ item.conv \in IntDirectives /\ item.fs = <<"%", item.conv>> /\ Takes(item, <<"int">>)
       \/ item.conv = "s" /\ item.fs = <<"%", "s">> /\ Takes(item, <<"string">>)
       \/ /\ item.conv \in DOMAIN ArrayKind /\ item.fs = <<"%", "A", ArrayKind[item.conv]>>
          /\ Takes(item, <<"int">>) /\ item.args[1].int \in 0..Len(ArrayOf(ArrayKind[item.conv]))
       \/ /\ item.conv \in DOMAIN WideKind /\ Len(item.fs) > 2
          /\ item.fs[1] = "%" /\ item.fs[Len(item.fs)] = WideKind[item.conv]
          /\ IsLayout(Figures(item), item.left) /\ item.w = ReadWidth(0, Figures(item))
          /\ item.left <=> item.fs[2] = "-"
          /\ item.left => Len(item.fs) > 3
          /\ Takes(item, <<IF item.conv = "ws" THEN "string" ELSE "int">>)
       \/ /\ item.conv = "unknown" /\ Len(item.fs) = 2
          /\ item.fs[1] = "%" /\ item.fs[2] \notin Directives /\ Takes(item, <<>>)
       \/ /\ item.conv = "broken" /\ Len(item.fs) > 0 /\ item.fs[1] = "%"
          /\ item.fs = <<"%", "A">> \/ IsLayout(Figures(item), TRUE)
          /\ Takes(item, <<>>)

ASSUME PrintfAssumption ==
    /\ Versions \subseteq {"lab8", "lab9", "lab11"}
    /\ Width \in Nat \ {0}
    /\ IsText(Integers_array) /\ \A i \in DOMAIN Integers_array : Integers_array[i] \in -MaxInt..MaxInt
    /\ IsText(Characters_array)
    /\ IsText(Strings_array) /\ \A i \in DOMAIN Strings_array : IsText(Strings_array[i])
    /\ \A items \in Calls :
          /\ IsText(items) /\ \A i \in DOMAIN items : IsItem(items[i])
          /\ \A i \in DOMAIN items : items[i].conv = "broken" => i = Len(items)

VARIABLES version,
          call,                      \* the items of the current call, strings and f at its start
          fs, args,                  \* what is left of the format and of the arguments
          out, printed,              \* the text printed, and the count to return
          state,                     \* init or percent
          width, f,                  \* lab8: the width is kept all through a call, f for ever
          strings,                   \* the array of strings, whose pointers may be moved
          status

vars == <<version, call, fs, args, out, printed, state, width, f, strings, status>>

Copies(c, n) == [i \in 1..n |-> c]

(* Mutant: the last digit is printed before the others. *)
print_int_helper_backwards(n, radix, table) ==
    LET text[k \in Nat] == IF k < radix THEN <<table[k + 1]>>
                           ELSE <<table[(k % radix) + 1]>> \o text[k \div radix]
    IN  text[n]

(* The digits of n >= 0: those of n / radix, then the last one. *)
print_int_helper(n, radix, table) ==
    LET text[k \in Nat] == IF k < radix THEN <<table[k + 1]>>
                           ELSE Append(text[k \div radix], table[(k % radix) + 1])
    IN  text[n]

(* An int read as unsigned. *)
Unsigned(n) == n % Power(2, Width)

print_int(n, radix, table) == print_int_helper(Unsigned(n), radix, table)

(* The smallest integer has no opposite: its sign is printed, and the digit  *)
(* table is read far outside.                                                 *)
print_int_d(n, radix, table) ==
    IF n >= 0 THEN print_int_helper(n, radix, table)
    ELSE <<"-">> \o print_int_helper(-n, radix, table)

Concatenate(parts, between) ==
    LET joined[i \in 1..Len(parts)] ==
            IF i = 1 THEN parts[1] ELSE joined[i - 1] \o between \o parts[i]
    IN  IF parts = <<>> THEN <<>> ELSE joined[Len(parts)]

Braces(parts) == <<"{">> \o Concatenate(parts, <<Comma>>) \o <<"}">>

-----------------------------------------------------------------------------
Turn(v, s) == status = "running" /\ version = v /\ state = s /\ fs # <<>>

char == Head(fs)                     \* the character of this turn
argument == Head(args)               \* the argument va_arg takes

(* va_arg takes what is no argument, or an argument of another kind. *)
Lacks(k) == args = <<>> \/ argument.kind # k

kind == IF Len(fs) > 1 THEN fs[2] ELSE "none"      \* the character behind %A

Stops(why) ==
    /\ status' = why
    /\ UNCHANGED <<version, call, fs, args, out, printed, state, width, f, strings>>

(* Print text, set the count, and go on behind the character of this turn in  *)
(* the initial state.                                                          *)
Put(text, count) ==
    /\ out' = out \o text
    /\ printed' = count
    /\ fs' = Tail(fs)
    /\ state' = "init"
    /\ UNCHANGED <<version, call, status>>

Keeps == UNCHANGED <<width, f, strings>>

(* %d, %b, %o, %u, %x, %X, with the radix and the digits of the version; a    *)
(* signed one fails on the smallest integer.                                  *)
Convert(signed, radix, table) ==
    IF Lacks("int") THEN Stops("kind")
    ELSE IF signed /\ argument.int = MinInt THEN Stops("smallest")
    ELSE LET text == IF signed THEN print_int_d(argument.int, radix, table)
                     ELSE print_int(argument.int, radix, table)
         IN  Put(text, printed + Len(text)) /\ args' = Tail(args) /\ Keeps

percent_percent == char = "%" /\ Put(<<"%">>, printed + 1) /\ UNCHANGED args /\ Keeps

(* What va_arg takes is printed as it is. *)
PutArgument(k, count) ==
    IF Lacks(k) THEN Stops("kind")
    ELSE Put(argument.str, count) /\ args' = Tail(args) /\ Keeps

(* Mutant: a string is printed without being counted. *)
percent_s_uncounted == char = "s" /\ PutArgument("string", printed)

percent_s == char = "s" /\ PutArgument("string", printed + Len(argument.str))

(* Mutant: a character is counted again with its directive. *)
percent_c_twice == char = "c" /\ PutArgument("int", printed + 2)

percent_c == char = "c" /\ PutArgument("int", printed + 1)

(* Arrays as my_print and my_print_s print them: %Ax in octal. *)
Array(k, n) ==
    Braces([i \in 1..n |->
        IF k = "s" THEN strings[i]
        ELSE print_int_d(Integers_array[i], IF k = "x" THEN 8 ELSE 10, digit)])

(* my_print_s moves the pointers of the caller's array to the ends of the     *)
(* strings: the array is empty strings afterwards.                            *)
Spent(n) == [i \in DOMAIN strings |-> IF i <= n THEN <<>> ELSE strings[i]]

-----------------------------------------------------------------------------
Call(items) ==
    /\ status = "idle"
    /\ call' = [items |-> items, strings |-> strings, f |-> f]
    /\ fs' = FlattenSeq([i \in DOMAIN items |-> items[i].fs])
    /\ args' = FlattenSeq([i \in DOMAIN items |-> items[i].args])
    /\ out' = <<>> /\ printed' = 0 /\ state' = "init" /\ width' = 0
    /\ status' = "running"
    /\ UNCHANGED <<version, f, strings>>

Return ==
    /\ status = "running" /\ fs = <<>>
    /\ status' = "returned"
    /\ UNCHANGED <<version, call, fs, args, out, printed, state, width, f, strings>>

(* The caller takes the count and goes on. *)
Resume ==
    /\ status = "returned" /\ status' = "idle"
    /\ call' = [items |-> <<>>, strings |-> strings, f |-> f]
    /\ out' = <<>> /\ printed' = 0 /\ args' = <<>> /\ state' = "init" /\ width' = 0
    /\ UNCHANGED <<version, fs, f, strings>>

Init ==
    /\ version \in Versions
    /\ call = [items |-> <<>>, strings |-> Strings_array, f |-> 1] /\ fs = <<>> /\ args = <<>> /\ out = <<>> /\ printed = 0
    /\ state = "init" /\ width = 0 /\ f = 1 /\ strings = Strings_array
    /\ status = "idle"
===============================================================================

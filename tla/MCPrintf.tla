------------------------------- MODULE MCPrintf -------------------------------
(* Calls of at most two items over integers of eight bits: the smallest, the  *)
(* largest, and numbers of one to three digits.  A negative one of three cut  *)
(* to its sign takes a power of ten that is no int of eight bits.             *)
EXTENDS Printf

Int8 == {0, 7, 127, -12, -105, -128}
Strings == {<<>>, <<"a", "b">>}

Integer(n) == [kind |-> "int", int |-> n, str |-> <<"?">>]
Character(c) == [kind |-> "int", int |-> 65, str |-> <<c>>]
Pointer(s) == [kind |-> "string", int |-> 0, str |-> s]

Item(conv, format, arguments) ==
    [conv |-> conv, fs |-> format, args |-> arguments, w |-> 0, left |-> FALSE]
Wide(conv, last, w, left, argument_) ==
    [conv |-> conv, args |-> <<argument_>>, w |-> w, left |-> left,
     fs |-> <<"%">> \o (IF left THEN <<"-">> ELSE <<>>)
             \o (IF w < 10 THEN <<>> ELSE <<ToString(w \div 100), ToString((w \div 10) % 10)>>)
             \o <<ToString(w % 10), last>>]

Whole ==
    {Item("literal", <<"z">>, <<>>), Item("%", <<"%", "%">>, <<>>),
     Item("c", <<"%", "c">>, <<Character("a")>>), Item("unknown", <<"%", "q">>, <<>>)}
    \cup {Item(k, <<"%", k>>, <<Integer(n)>>) : k \in {"d", "b", "o", "u", "x", "X"}, n \in Int8}
    \cup {Item("s", <<"%", "s">>, <<Pointer(s)>>) : s \in Strings}
    \cup {Item("A" \o k, <<"%", "A", k>>, <<Integer(n)>>) : k \in {"d", "s", "x", "c"}, n \in {0, 2}}
    \cup {Wide("ws", "s", w, left, Pointer(s)) : w \in {1, 4}, left \in BOOLEAN, s \in Strings}
    \cup {Wide("wd", "d", 4, left, Integer(n)) : left \in BOOLEAN, n \in Int8}
    \cup {Wide("wx", "x", 1, FALSE, Integer(n)) : n \in {7, -105}}
    \cup {Wide("ws", "s", 128, FALSE, Pointer(<<"a", "b">>))}

Broken == {Item("broken", format, <<>>) :
             format \in {<<"%">>, <<"%", "4">>, <<"%", "-">>, <<"%", "A">>}}

MCCalls == {<<i>> : i \in Whole \cup Broken} \cup {<<i, j>> : i \in Whole, j \in Whole \cup Broken}

MCIntegers == <<10, -3>>
MCCharacters == <<"a", "b">>
MCStrings == <<<<"a", "b">>, <<"a">>>>
===============================================================================

------------------------------ MODULE Calculator ------------------------------
(* The bignum calculator of src/ass1: a reverse Polish calculator on decimal  *)
(* digits.  The digits of a number on the stack are kept lowest first, those  *)
(* of the number being typed highest first; push reverses what it is given,  *)
(* and the arithmetic leaves its result in one of the two orders.  A string   *)
(* is reversed up to its terminating zero, which is there only while it is    *)
(* shorter than Zeroed (sizeof of a pointer, 8, where createBignum meant the *)
(* whole buffer): longer numbers depend on what the heap held before.         *)
EXTENDS Integers, Sequences, SequencesExt

CONSTANTS Digits,                    \* the digits typed
          Capacity,                  \* numbers the stack holds (1024)
          Zeroed,                    \* leading bytes of a buffer set to zero (8)
          MaxTyped,                  \* bound: digits of one typed number
          MaxKeys                    \* bound: keys typed

ASSUME CalculatorAssumption ==
    /\ Digits \subseteq 0..9
    /\ {Capacity, Zeroed, MaxTyped, MaxKeys} \subseteq Nat \ {0}

VARIABLES stack, num, printed, status, keys,
          applied                    \* ghost: the operator of the last step

vars == <<stack, num, printed, status, keys, applied>>

Bignum(sign, digits) == [sign |-> sign, digits |-> digits]

createBignum == Bignum(1, <<>>)

Operators == {"+", "-", "*", "/"}

-----------------------------------------------------------------------------
(* The digits in the other order, as a tuple. *)
backwards(ds) == SubSeq(Reverse(ds), 1, Len(ds))

(* Digit i of a number, its lowest digit first. *)
Digit(ds, i) == IF i <= Len(ds) THEN ds[i] ELSE 0

MaxLength(a, b) == IF Len(a) > Len(b) THEN Len(a) ELSE Len(b)

(* The sum of two numbers, both given and returned lowest digit first. *)
AddDigits(a, b) ==
    LET n == MaxLength(a, b)
        carry[i \in 0..n] ==
            IF i = 0 THEN 0 ELSE (Digit(a, i) + Digit(b, i) + carry[i - 1]) \div 10
    IN  [i \in 1..n |-> (Digit(a, i) + Digit(b, i) + carry[i - 1]) % 10]
          \o (IF carry[n] = 1 THEN <<1>> ELSE <<>>)

(* The nine's complement and one more, lowest digit first: what turns the     *)
(* difference that borrowed past its last digit into its size.                *)
Complement(ds) == AddDigits([i \in DOMAIN ds |-> 9 - ds[i]], <<1>>)

(* The difference of two sizes.  The result stands highest digit first, but   *)
(* a negative one was reversed once more by fixSign and stands lowest first.  *)
(* fixSign has no return statement: its caller gets what the last assignment  *)
(* left in the register of results, in the unoptimised build of the Makefile  *)
(* the number that was meant.                                                 *)
Difference(a, b) ==
    LET n == MaxLength(a, b)
        borrow[i \in 0..n] ==
            IF i > 0 /\ Digit(a, i) - borrow[i - 1] < Digit(b, i) THEN 1 ELSE 0
        ds == [i \in 1..n |-> Digit(a, i) - borrow[i - 1] - Digit(b, i) + 10 * borrow[i]]
    IN  IF borrow[n] = 1 THEN Bignum(-1, Complement(ds)) ELSE Bignum(1, backwards(ds))

ultimateAdd(a, b) ==
    IF a.sign = 1 /\ b.sign = -1 THEN Difference(a.digits, b.digits)
    ELSE Bignum(b.sign, backwards(AddDigits(a.digits, b.digits)))


ultimateSub(a, b) ==
    IF a.sign # b.sign THEN Bignum(a.sign, backwards(AddDigits(a.digits, b.digits)))
    ELSE IF a.sign = -1 THEN Difference(b.digits, a.digits)
    ELSE Difference(a.digits, b.digits)

Times10(ds, k) == [i \in 1..k |-> 0] \o ds

(* The row of digit i of a in the long multiplication by b. *)
Row(a, b, i) ==
    LET n == Len(b)
        carry[x \in 0..n] == IF x = 0 THEN 0 ELSE (b[x] * a[i] + carry[x - 1]) \div 10
    IN  Times10([x \in 1..n |-> (b[x] * a[i] + carry[x - 1]) % 10], i - 1)
          \o (IF carry[n] # 0 THEN <<carry[n]>> ELSE <<>>)

(* The product as main hands it to push: highest digit first. *)
ultimateMult(a, b) ==
    LET rows == [i \in DOMAIN a.digits |-> Row(a.digits, b.digits, i)]
    IN  Bignum(a.sign * b.sign, backwards(FoldLeft(AddDigits, <<>>, rows)))

(* a is smaller than b: the highest digit in which they differ decides. *)
Less(a, b) ==
    \E i \in 1..MaxLength(a, b) :
        /\ Digit(a, i) < Digit(b, i)
        /\ \A j \in i + 1..MaxLength(a, b) : Digit(a, j) = Digit(b, j)

Least(S) == CHOOSE n \in S : \A m \in S : n <= m

(* The divisor moved up by powers of ten while it is still below a. *)
Shifted(a, b) ==
    LET k == Least({j \in 0..Len(a) + 1 : ~ Less(Times10(b, j), a)})
    IN  Times10(b, IF k = 0 THEN 0 ELSE k - 1)

(* The digits divHelper appends, highest first: how often the shifted divisor *)
(* can be subtracted, then the same for what is left.  A position where it     *)
(* does not go into what is left is passed over, not written as 0.            *)
divHelper(a, b) ==
    LET subtracted[x \in Seq(0..10), h \in Seq(0..10)] ==
            IF Less(x, h) THEN [count |-> 0, left |-> x]
            ELSE LET rest == subtracted[backwards(Difference(x, h).digits), h]
                 IN  [rest EXCEPT !.count = @ + 1]
        quotient[x \in Seq(0..10)] ==
            IF Less(x, b) THEN <<>>
            ELSE LET step == subtracted[x, Shifted(x, b)]
                 IN  <<step.count>> \o quotient[step.left]
    IN  quotient[a]

ultimateDiv(a, b) == Bignum(a.sign * b.sign, divHelper(a.digits, b.digits))

(* Division by zero subtracts for ever.  cloneBignum hands divHelper the      *)
(* divisor reversed: unless it reads the same both ways, the test that ends  *)
(* the recursion (the divisor left unshifted) never holds.                    *)
NeverEnds(op, b) ==
    op = "/" /\ ((\A i \in DOMAIN b.digits : b.digits[i] = 0) \/ Reverse(b.digits) # b.digits)

(* divHelper clones the divisor at every place it is moved up to, and a clone *)
(* of Zeroed digits or more is reversed past its buffer.                      *)
ClonesOver(op, a, b) == op = "/" /\ Len(Shifted(a.digits, b.digits)) >= Zeroed

Result(op, a, b) == CASE op = "+" -> ultimateAdd(a, b)
                      [] op = "-" -> ultimateSub(a, b)
                      [] op = "*" -> ultimateMult(a, b)
                      [] op = "/" -> ultimateDiv(a, b)

-----------------------------------------------------------------------------
(* Mutant: the size compared with the index of the last element. *)
isFull_late(s) == Len(s) - 1 = Capacity

isFull(s) == Len(s) = Capacity

cloneBignum(n) == [n EXCEPT !.digits = backwards(@)]

push(s, n) == IF isFull(s) THEN s ELSE Append(s, cloneBignum(n))

(* The stack and the typed number once an operator has pushed what was typed. *)
(* "*" and "/" drop the new number of clearBignum and keep the pointer to the *)
(* one it freed: Fresh assumes that malloc hands those two chunks out again.  *)
Pushed == IF num.digits # <<>> THEN push(stack, num) ELSE stack
Fresh == IF num.digits # <<>> THEN createBignum ELSE num

(* The typed number is pushed, and its reversal runs past its buffer. *)
RunsOver(s, n) == ~ isFull(s) /\ Len(n.digits) >= Zeroed

Key == status = "running" /\ keys < MaxKeys /\ keys' = keys + 1

Stops(how) == status' = how /\ UNCHANGED <<stack, num, printed, applied>>

NoOperator == applied' = "none"

digit(d) ==
    /\ Key
    /\ Len(num.digits) < MaxTyped
    /\ num' = [num EXCEPT !.digits = Append(@, d)]
    /\ NoOperator /\ UNCHANGED <<stack, printed, status>>

underscore ==
    /\ Key
    /\ num.digits = <<>>
    /\ num' = [num EXCEPT !.sign = -1]
    /\ NoOperator /\ UNCHANGED <<stack, printed, status>>

(* A blank, a newline, or the end of the input, which is read for ever after. *)
whitespace ==
    /\ Key
    /\ num.digits # <<>>
    /\ IF RunsOver(stack, num) THEN Stops("undefined")
       ELSE /\ stack' = push(stack, num) /\ num' = createBignum
            /\ NoOperator /\ UNCHANGED <<printed, status>>

(* An operator takes the two numbers on top; an empty stack gives it a null   *)
(* pointer, which it follows.                                                 *)
operator(op) ==
    LET s == Pushed
        n == Len(s)
        result == Result(op, s[n - 1], s[n])
    IN
    /\ Key
    /\ \/ /\ num.digits # <<>> /\ RunsOver(stack, num)
          /\ Stops("undefined")
       \/ /\ num.digits = <<>> \/ ~ RunsOver(stack, num)
          /\ n < 2
          /\ Stops("crashed")
       \/ /\ num.digits = <<>> \/ ~ RunsOver(stack, num)
          /\ n >= 2
          /\ IF NeverEnds(op, s[n]) THEN Stops("hangs")
             ELSE IF ClonesOver(op, s[n - 1], s[n]) \/ Len(result.digits) >= Zeroed
             THEN Stops("undefined")
             ELSE /\ stack' = push(SubSeq(s, 1, n - 2), result)
                  /\ num' = Fresh
                  /\ applied' = op
                  /\ UNCHANGED <<printed, status>>

(* p prints the number on top without its leading zeros. *)
print ==
    /\ Key
    /\ IF stack = <<>> THEN Stops("crashed")
       ELSE LET top == Last(stack)
                tops == {i \in DOMAIN top.digits : top.digits[i] # 0}
                high == IF tops = {} THEN 0 ELSE CHOOSE i \in tops : \A j \in tops : j <= i
            IN  /\ printed' = <<Bignum(top.sign, Reverse(SubSeq(top.digits, 1, high)))>>
                /\ NoOperator /\ UNCHANGED <<stack, num, status>>

clear ==
    /\ Key
    /\ stack' = <<>>
    /\ NoOperator /\ UNCHANGED <<num, printed, status>>

quit == Key /\ Stops("ended")

Init ==
    /\ stack = <<>> /\ num = createBignum
    /\ printed = <<>> /\ status = "running" /\ keys = 0 /\ applied = "none"

Next ==
    \/ \E d \in Digits : digit(d)
    \/ underscore
    \/ whitespace
    \/ \E op \in Operators : operator(op)
    \/ print
    \/ clear
    \/ quit

Spec == Init /\ [][Next]_vars

-----------------------------------------------------------------------------
(* Every number on the stack is terminated, and its digits are digits: a     *)
(* quotient may end in the ten that repeated subtraction counts up to.        *)
TypeOK ==
    /\ Len(stack) <= Capacity
    /\ \A i \in DOMAIN stack :
           /\ stack[i].sign \in {1, -1} /\ Len(stack[i].digits) < Zeroed
           /\ \A j \in DOMAIN stack[i].digits :
                  stack[i].digits[j] \in IF j = 1 THEN 0..10 ELSE 0..9
    /\ num.sign \in {1, -1} /\ Len(num.digits) <= MaxTyped
    /\ status \in {"running", "ended", "crashed", "hangs", "undefined"}

(* The size of digits that stand lowest first. *)
Size(ds) ==
    LET from[i \in 1..Len(ds) + 1] == IF i > Len(ds) THEN 0 ELSE ds[i] + 10 * from[i + 1]
    IN  from[1]

Numeral(sign, low) == [sign |-> sign, size |-> Size(low), width |-> Len(low)]

Abstract == INSTANCE RPN WITH
    stack <- [i \in DOMAIN stack |-> Numeral(stack[i].sign, stack[i].digits)],
    entry <- Numeral(num.sign, Reverse(num.digits)),
    shown <- [i \in DOMAIN printed |-> printed[i].sign * Size(Reverse(printed[i].digits))]

===============================================================================

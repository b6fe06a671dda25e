--------------------------------- MODULE RPN ---------------------------------
(* What the calculator of ass1 promises: a stack of integers, an entry that *)
(* is being typed, and operators that replace the two numbers on top by     *)
(* their exact result.  A number is its sign, its size and the width it is   *)
(* written with.  The calculator keeps the promise of an exact result only  *)
(* for the operands Trusted names; for the others it owes one number, any.  *)
(* applied is the operator of the last step, so that a result is measured   *)
(* by the operator that was typed.                                          *)
EXTENDS Integers, Sequences

CONSTANT Capacity                    \* numbers the stack holds

VARIABLES stack, entry, shown, applied

Nothing == [sign |-> 1, size |-> 0, width |-> 0]

Number(n) == n.sign * n.size

Init == stack = <<>> /\ entry = Nothing /\ shown = <<>> /\ applied = "none"

Type(d) ==
    /\ entry' = [entry EXCEPT !.size = 10 * @ + d, !.width = @ + 1]
    /\ applied' = "none"
    /\ UNCHANGED <<stack, shown>>

Negate ==
    /\ entry.width = 0
    /\ entry' = [entry EXCEPT !.sign = -1]
    /\ applied' = "none"
    /\ UNCHANGED <<stack, shown>>

(* The stack with the entry on it; a full stack drops the entry. *)
Entered == IF entry.width > 0 /\ Len(stack) < Capacity
           THEN Append(stack, entry) ELSE stack

Enter ==
    /\ stack' = Entered
    /\ entry' = IF entry.width > 0 THEN Nothing ELSE entry
    /\ applied' = "none"
    /\ UNCHANGED shown

(* The digits of n have no zero among them. *)
NoZeroDigit(n) == \A k \in 0..6 : n >= 10^k => (n \div 10^k) % 10 # 0

(* No digit of n is the ten a division may leave. *)
Proper(n) == n.size < 10^n.width

Trusted(op, a, b) ==
    CASE op = "+" -> \/ a.sign = b.sign /\ (Proper(a) \/ Proper(b))
                     \/ b.sign = -1 /\ a.size >= b.size
      [] op = "-" -> \/ a.sign # b.sign /\ (Proper(a) \/ Proper(b))
                     \/ a.sign = 1 /\ a.size >= b.size
                     \/ a.sign = -1 /\ b.size >= a.size
      [] op = "*" -> TRUE
      [] op = "/" -> b.width = 1 /\ b.size \in 1..9 /\ NoZeroDigit(a.size \div b.size)

Exact(op, a, b) ==
    CASE op = "+" -> Number(a) + Number(b)
      [] op = "-" -> Number(a) - Number(b)
      [] op = "*" -> Number(a) * Number(b)
      [] op = "/" -> a.sign * b.sign * (a.size \div b.size)

Apply(op) ==
    LET n == Len(Entered) IN
    /\ n >= 2 /\ applied' = op
    /\ Len(stack') = n - 1
    /\ SubSeq(stack', 1, n - 2) = SubSeq(Entered, 1, n - 2)
    /\ Trusted(op, Entered[n - 1], Entered[n])
         => Number(stack'[n - 1]) = Exact(op, Entered[n - 1], Entered[n])
    /\ entry' = IF entry.width > 0 THEN Nothing ELSE entry
    /\ UNCHANGED shown

Show ==
    /\ stack # <<>>
    /\ shown' = <<Number(stack[Len(stack)])>>
    /\ applied' = "none"
    /\ UNCHANGED <<stack, entry>>

Clear == stack' = <<>> /\ applied' = "none" /\ UNCHANGED <<entry, shown>>

Next == \/ \E d \in 0..9 : Type(d)
        \/ Negate \/ Enter \/ Show \/ Clear
        \/ \E op \in {"+", "-", "*", "/"} : Apply(op)

Spec == Init /\ [][Next]_<<stack, entry, shown, applied>>
===============================================================================

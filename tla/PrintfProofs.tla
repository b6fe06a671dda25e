----------------------------- MODULE PrintfProofs -----------------------------
(* What holds of toy_printf in every call, whatever the width of an int, the  *)
(* arrays, the formats and the arguments are: the types of its variables, the *)
(* reasons it may stop for, the text it prints and the count it returns.       *)
(*                                                                             *)
(* The lemmas come first.  Recursive functions are defined (Recursion), so a  *)
(* number's text is its positional numeral (PositionalIs), FlattenSeq joins   *)
(* its parts from either end (FlattenIsFirst, FlattenIsRest), and the digits  *)
(* of a width give it (WidthUnfolds).  Then what an item is (ItemForms) and   *)
(* what it asks for (ExpectedIs).  The invariant PrintfInv says of every turn *)
(* which item it is at, what is left of the format and of the arguments there *)
(* and what was printed so far; the rest is one lemma for each handler.        *)
EXTENDS Printf, NaturalLemmas, SequenceTheorems, TLAPS

-----------------------------------------------------------------------------
(* Recursive functions: toy_printf's helpers call themselves with a smaller   *)
(* number, loops are recursions on the turn before.                            *)

(* The numbers of N below n. *)
Under(N, n) == {k \in N : k < n}

(* g obeys the recursion on a part K of N: at the numbers of D its value is F *)
(* of its value at p[k], elsewhere it is b.                                    *)
Obeys(g, K, D, p, F, b) ==
  \A k \in K : g[k] = IF k \in D THEN F[<<k, g[p[k]]>>] ELSE b[k]

LEMMA RecursionStep ==
  ASSUME NEW N \in SUBSET Nat, NEW V, NEW D \in SUBSET N, NEW p \in [D -> N],
         \A k \in D : p[k] < k, NEW F \in [D \X V -> V], NEW b \in [N -> V],
         NEW n \in Nat, NEW g \in [Under(N, n) -> V], Obeys(g, Under(N, n), D, p, F, b)
  PROVE  \E h \in [Under(N, n + 1) -> V] : Obeys(h, Under(N, n + 1), D, p, F, b)
<1> DEFINE h == [k \in Under(N, n + 1) |->
                   IF k < n THEN g[k] ELSE IF k \in D THEN F[<<k, g[p[k]]>>] ELSE b[k]]
<1>1. \A k \in Under(N, n + 1) : k \in N /\ k \in Nat /\ k <= n /\ (~ (k < n) => k = n)
  BY DEF Under
<1>2. \A k \in Under(N, n + 1) : k \in D => p[k] \in Under(N, n) /\ g[p[k]] \in V
  <2>1. \A k \in D : p[k] \in N /\ p[k] < k /\ p[k] \in Nat /\ k \in Nat
    OBVIOUS
  <2> QED
    BY <1>1, <2>1 DEF Under
<1>3. \A k \in Under(N, n + 1) : h[k] \in V
  <2> TAKE k \in Under(N, n + 1)
  <2>1. CASE k < n
    BY <2>1, <1>1 DEF Under
  <2>2. CASE ~ (k < n) /\ k \in D
    BY <2>2, <1>2
  <2>3. CASE ~ (k < n) /\ k \notin D
    BY <2>3, <1>1
  <2> QED
    BY <2>1, <2>2, <2>3
<1>4. \A k \in Under(N, n) : h[k] = g[k] /\ k \in Under(N, n + 1)
  BY DEF Under
<1>5. ASSUME NEW k \in Under(N, n + 1)
      PROVE  h[k] = IF k \in D THEN F[<<k, h[p[k]]>>] ELSE b[k]
  <2>1. k \in D => h[p[k]] = g[p[k]]
    BY <1>2, <1>4
  <2>2. CASE k < n
    <3>1. k \in Under(N, n)
      BY <2>2, <1>1 DEF Under
    <3> QED
      BY <3>1, <2>1, <1>4 DEF Obeys
  <2>3. CASE ~ (k < n)
    BY <2>3, <2>1
  <2> QED
    BY <2>2, <2>3
<1>6. h \in [Under(N, n + 1) -> V]
  BY <1>3
<1> QED
  <2> HIDE DEF h
  <2> QED
    BY <1>5, <1>6 DEF Obeys

LEMMA NoneUnderZero ==
  ASSUME NEW N \in SUBSET Nat
  PROVE  Under(N, 0) = {}
<1>1. \A k \in N : k \in Nat /\ ~ (k < 0)
  OBVIOUS
<1> QED
  BY <1>1 DEF Under

LEMMA RecursionUpTo ==
  ASSUME NEW N \in SUBSET Nat, NEW V, NEW D \in SUBSET N, NEW p \in [D -> N],
         \A k \in D : p[k] < k, NEW F \in [D \X V -> V], NEW b \in [N -> V]
  PROVE  \A n \in Nat : \E g \in [Under(N, n) -> V] : Obeys(g, Under(N, n), D, p, F, b)
<1> DEFINE Has(n) == \E g \in [Under(N, n) -> V] : Obeys(g, Under(N, n), D, p, F, b)
           Bad == {n \in Nat : ~ Has(n)}
<1> SUFFICES ASSUME Bad # {} PROVE FALSE
  OBVIOUS
<1>1. PICK n \in Bad : \A m \in Bad : n <= m
  BY SmallestNat
<1>2. Has(0)
  <2>1. Under(N, 0) = {}
    BY NoneUnderZero
  <2>2. [k \in {} |-> k] \in [Under(N, 0) -> V] /\ Obeys([k \in {} |-> k], Under(N, 0), D, p, F, b)
    BY <2>1 DEF Obeys
  <2> QED
    BY <2>2
<1>3. n \in Nat /\ n # 0 /\ n - 1 \in Nat /\ (n - 1) + 1 = n
  BY <1>1, <1>2
<1>4. Has(n - 1)
  BY <1>1, <1>3
<1>5. PICK g \in [Under(N, n - 1) -> V] : Obeys(g, Under(N, n - 1), D, p, F, b)
  BY <1>4
<1>6. \E h \in [Under(N, (n - 1) + 1) -> V] : Obeys(h, Under(N, (n - 1) + 1), D, p, F, b)
  BY <1>3, <1>5, RecursionStep
<1> QED
  BY <1>1, <1>3, <1>6

LEMMA RecursionAgrees ==
  ASSUME NEW N \in SUBSET Nat, NEW D \in SUBSET N, NEW p \in [D -> N],
         \A k \in D : p[k] < k, NEW F, NEW b, NEW m \in Nat, NEW n \in Nat, NEW g, NEW h,
         Obeys(g, Under(N, m), D, p, F, b), Obeys(h, Under(N, n), D, p, F, b)
  PROVE  \A k \in N : k < m /\ k < n => g[k] = h[k]
<1> DEFINE Bad == {k \in N : k < m /\ k < n /\ g[k] # h[k]}
<1> SUFFICES ASSUME Bad # {} PROVE FALSE
  OBVIOUS
<1>1. PICK k \in Bad : \A j \in Bad : k <= j
  BY SmallestNat
<1>2. k \in Nat /\ k \in Under(N, m) /\ k \in Under(N, n)
  BY <1>1 DEF Under
<1>3. k \in D => g[p[k]] = h[p[k]]
  <2> SUFFICES ASSUME k \in D PROVE g[p[k]] = h[p[k]]
    OBVIOUS
  <2>1. p[k] \in N /\ p[k] < k /\ p[k] \in Nat
    OBVIOUS
  <2>2. p[k] < m /\ p[k] < n /\ ~ (k <= p[k])
    BY <1>1, <1>2, <2>1
  <2> QED
    BY <1>1, <2>1, <2>2
<1>4. /\ g[k] = IF k \in D THEN F[<<k, g[p[k]]>>] ELSE b[k]
      /\ h[k] = IF k \in D THEN F[<<k, h[p[k]]>>] ELSE b[k]
  BY <1>2 DEF Obeys
<1> QED
  BY <1>1, <1>3, <1>4

(* A recursion on a smaller number has a function that obeys it. *)
LEMMA Recursion ==
  ASSUME NEW N \in SUBSET Nat, NEW V, NEW D \in SUBSET N, NEW p \in [D -> N],
         \A k \in D : p[k] < k, NEW F \in [D \X V -> V], NEW b \in [N -> V]
  PROVE  \E fun \in [N -> V] : Obeys(fun, N, D, p, F, b)
<1> DEFINE Part(n) == CHOOSE g : g \in [Under(N, n) -> V] /\ Obeys(g, Under(N, n), D, p, F, b)
           fun == [k \in N |-> Part(k + 1)[k]]
<1>1. \A n \in Nat : Part(n) \in [Under(N, n) -> V] /\ Obeys(Part(n), Under(N, n), D, p, F, b)
  <2> TAKE n \in Nat
  <2>1. \E g \in [Under(N, n) -> V] : Obeys(g, Under(N, n), D, p, F, b)
    BY RecursionUpTo
  <2>2. \E g : g \in [Under(N, n) -> V] /\ Obeys(g, Under(N, n), D, p, F, b)
    BY <2>1
  <2> QED
    BY <2>2
<1> HIDE DEF Part
<1>2. \A k \in N : k \in Nat /\ k + 1 \in Nat /\ k \in Under(N, k + 1) /\ fun[k] = Part(k + 1)[k]
  BY DEF Under
<1>3. fun \in [N -> V]
  <2>1. \A k \in N : Part(k + 1)[k] \in V
    BY <1>1, <1>2
  <2> QED
    BY <2>1
<1>4. ASSUME NEW k \in N PROVE fun[k] = IF k \in D THEN F[<<k, fun[p[k]]>>] ELSE b[k]
  <2>1. Part(k + 1)[k] = IF k \in D THEN F[<<k, Part(k + 1)[p[k]]>>] ELSE b[k]
    <3>1. Obeys(Part(k + 1), Under(N, k + 1), D, p, F, b)
      BY <1>1, <1>2
    <3> QED
      BY <3>1, <1>2 DEF Obeys
  <2>2. k \in D => Part(k + 1)[p[k]] = fun[p[k]]
    <3> SUFFICES ASSUME k \in D PROVE Part(k + 1)[p[k]] = fun[p[k]]
      OBVIOUS
    <3>1. p[k] \in N /\ p[k] < k /\ p[k] \in Nat /\ k \in Nat
      BY <1>2
    <3>2. p[k] < k + 1 /\ p[k] < p[k] + 1 /\ p[k] + 1 \in Nat /\ k + 1 \in Nat
      BY <3>1
    <3>3. Obeys(Part(k + 1), Under(N, k + 1), D, p, F, b)
      BY <1>1, <3>2
    <3>4. Obeys(Part(p[k] + 1), Under(N, p[k] + 1), D, p, F, b)
      BY <1>1, <3>2
    <3>5. PICK g : g = Part(k + 1)
      OBVIOUS
    <3>6. PICK h : h = Part(p[k] + 1)
      OBVIOUS
    <3>7. PICK m \in Nat, n \in Nat : m = k + 1 /\ n = p[k] + 1
      BY <3>2
    <3>8. Obeys(g, Under(N, m), D, p, F, b) /\ Obeys(h, Under(N, n), D, p, F, b)
      BY <3>3, <3>4, <3>5, <3>6, <3>7
    <3>9. \A j \in N : j < m /\ j < n => g[j] = h[j]
      BY ONLY N \in SUBSET Nat, D \in SUBSET N, p \in [D -> N], \A j \in D : p[j] < j,
              m \in Nat, n \in Nat, <3>8, RecursionAgrees
    <3>10. g[p[k]] = h[p[k]]
      BY <3>1, <3>2, <3>7, <3>9
    <3>11. Part(k + 1)[p[k]] = Part(p[k] + 1)[p[k]]
      BY <3>5, <3>6, <3>10
    <3> QED
      BY <3>1, <3>11
  <2> QED
    BY <1>2, <2>1, <2>2
<1> HIDE DEF fun
<1> QED
  BY <1>3, <1>4 DEF Obeys

-----------------------------------------------------------------------------
(* power10 (lab8), and numerals.                                             *)
LEMMA PowerIs ==
  ASSUME NEW base \in Nat
  PROVE  /\ Power(base, 0) = 1
         /\ \A n \in Nat : Power(base, n) \in Nat /\ Power(base, n + 1) = base * Power(base, n)
<1> DEFINE R == CHOOSE power : power = [n \in Nat |-> IF n = 0 THEN 1 ELSE base * power[n - 1]]
           D == Nat \ {0}
           p == [k \in D |-> k - 1]
           F == [x \in D \X Nat |-> base * x[2]]
           b == [k \in Nat |-> 1]
<1>1. \E fun \in [Nat -> Nat] : fun = [n \in Nat |-> IF n = 0 THEN 1 ELSE base * fun[n - 1]]
  <2>1. /\ Nat \in SUBSET Nat /\ D \in SUBSET Nat /\ p \in [D -> Nat] /\ \A k \in D : p[k] < k
        /\ F \in [D \X Nat -> Nat] /\ b \in [Nat -> Nat]
    OBVIOUS
  <2>2. PICK fun \in [Nat -> Nat] : Obeys(fun, Nat, D, p, F, b)
    <3> HIDE DEF D, p, F, b
    <3> QED
      BY <2>1, Recursion
  <2>3. ASSUME NEW n \in Nat PROVE fun[n] = IF n = 0 THEN 1 ELSE base * fun[n - 1]
    <3>1. fun[n] = IF n \in D THEN F[<<n, fun[p[n]]>>] ELSE b[n]
      BY <2>2 DEF Obeys
    <3>2. CASE n = 0
      BY <3>1, <3>2
    <3>3. CASE n # 0
      <4>1. n \in D /\ p[n] = n - 1 /\ n - 1 \in Nat /\ fun[n - 1] \in Nat
        BY <3>3
      <4>2. F[<<n, fun[n - 1]>>] = base * fun[n - 1]
        BY <4>1
      <4> QED
        BY <3>1, <3>3, <4>1, <4>2
    <3> QED
      BY <3>2, <3>3
  <2> QED
    BY <2>3
<1>2. PICK fun \in [Nat -> Nat] : fun = [n \in Nat |-> IF n = 0 THEN 1 ELSE base * fun[n - 1]]
  BY <1>1
<1>3. R = [n \in Nat |-> IF n = 0 THEN 1 ELSE base * R[n - 1]]
  BY <1>2
<1>4. \A e : Power(base, e) = R[e]
  BY DEF Power
<1> HIDE DEF R
<1>5. R[0] = 1 /\ \A n \in Nat : R[n + 1] = base * R[n]
  <2>1. \A n \in Nat : n + 1 \in Nat /\ n + 1 # 0 /\ (n + 1) - 1 = n
    OBVIOUS
  <2>2. \A n \in Nat : R[n] = IF n = 0 THEN 1 ELSE base * R[n - 1]
    BY <1>3
  <2> QED
    BY <2>1, <2>2
<1>6. \A n \in Nat : R[n] \in Nat
  <2> DEFINE Bad == {n \in Nat : R[n] \notin Nat}
  <2> SUFFICES ASSUME Bad # {} PROVE FALSE
    OBVIOUS
  <2>1. PICK n \in Bad : \A m \in Bad : n <= m
    BY SmallestNat
  <2>2. n \in Nat /\ n # 0 /\ n - 1 \in Nat /\ (n - 1) + 1 = n
    BY <2>1, <1>5
  <2>3. R[n - 1] \in Nat
    BY <2>1, <2>2
  <2>4. R[n] = base * R[n - 1]
    BY <1>5, <2>2
  <2> QED
    BY <2>1, <2>3, <2>4
<1> QED
  BY <1>4, <1>5, <1>6

LEMMA TimesOrder ==
  ASSUME NEW a \in Nat, NEW x \in Nat, NEW y \in Nat, x <= y
  PROVE  a * x <= a * y /\ a * x \in Nat /\ a * y \in Nat
<1>1. PICK d \in Nat : y = x + d
  <2>1. y - x \in Nat /\ y = x + (y - x)
    OBVIOUS
  <2> QED
    BY <2>1
<1>2. a * y = a * x + a * d /\ a * d \in Nat /\ a * x \in Nat
  BY <1>1
<1> QED
  BY <1>2

LEMMA PowerGrows ==
  ASSUME NEW base \in Nat, base >= 2
  PROVE  /\ \A n \in Nat : Power(base, n) >= 1
         /\ \A n \in Nat, d \in Nat : Power(base, n) <= Power(base, n + d)
<1>1. \A n \in Nat : Power(base, n) \in Nat
  BY PowerIs
<1>2. \A n \in Nat : Power(base, n) <= Power(base, n + 1)
  <2> TAKE n \in Nat
  <2>1. PICK x \in Nat : x = Power(base, n)
    BY <1>1
  <2>2. x * 1 <= x * base
    BY TimesOrder
  <2>3. Power(base, n + 1) = base * x /\ base * x = x * base /\ x * 1 = x
    BY <2>1, PowerIs
  <2> QED
    BY <2>1, <2>2, <2>3
<1>3. \A d \in Nat : \A n \in Nat : Power(base, n) <= Power(base, n + d)
  <2> DEFINE Bad == {d \in Nat : ~ (\A n \in Nat : Power(base, n) <= Power(base, n + d))}
  <2> SUFFICES ASSUME Bad # {} PROVE FALSE
    OBVIOUS
  <2>1. PICK d \in Bad : \A m \in Bad : d <= m
    BY SmallestNat
  <2>2. d \in Nat /\ d # 0 /\ d - 1 \in Nat
    <3>1. \A n \in Nat : n + 0 = n
      OBVIOUS
    <3> QED
      BY <2>1, <1>1, <3>1
  <2>3. \A n \in Nat : Power(base, n) <= Power(base, n + (d - 1))
    BY <2>1, <2>2
  <2>4. ASSUME NEW n \in Nat PROVE Power(base, n) <= Power(base, n + d)
    <3>1. n + (d - 1) \in Nat /\ (n + (d - 1)) + 1 = n + d /\ n + d \in Nat
      BY <2>2
    <3>2. Power(base, n + (d - 1)) <= Power(base, n + d)
      BY <1>2, <3>1
    <3>3. /\ Power(base, n) \in Nat /\ Power(base, n + (d - 1)) \in Nat /\ Power(base, n + d) \in Nat
      BY <1>1, <3>1
    <3> QED
      BY <2>3, <3>2, <3>3
  <2> QED
    BY <2>1, <2>4
<1>4. \A n \in Nat : Power(base, n) >= 1
  <2> TAKE n \in Nat
  <2>1. 0 + n = n /\ Power(base, 0) = 1 /\ 0 \in Nat
    BY PowerIs
  <2>2. Power(base, 0) <= Power(base, 0 + n)
    BY <1>3
  <2> QED
    BY <2>1, <2>2, <1>1
<1> QED
  BY <1>3, <1>4

(* A power of two is at most the same power of a larger base. *)
LEMMA PowerOfTwo ==
  ASSUME NEW base \in Nat, base >= 2
  PROVE  \A n \in Nat : Power(2, n) <= Power(base, n)
<1> DEFINE Bad == {n \in Nat : ~ (Power(2, n) <= Power(base, n))}
<1> SUFFICES ASSUME Bad # {} PROVE FALSE
  OBVIOUS
<1>1. PICK n \in Bad : \A m \in Bad : n <= m
  BY SmallestNat
<1>2. n \in Nat /\ n # 0 /\ n - 1 \in Nat /\ (n - 1) + 1 = n
  <2>1. Power(2, 0) = 1 /\ Power(base, 0) = 1
    BY PowerIs
  <2>2. 0 \notin Bad
    BY <2>1
  <2> QED
    BY <1>1, <2>2
<1>3. Power(2, n - 1) <= Power(base, n - 1)
  BY <1>1, <1>2
<1>4. PICK x \in Nat, y \in Nat : x = Power(2, n - 1) /\ y = Power(base, n - 1) /\ x <= y
  BY <1>2, <1>3, PowerIs
<1>5. Power(2, n) = 2 * x /\ Power(base, n) = base * y
  BY <1>2, <1>4, PowerIs
<1>6. 2 * x <= 2 * y /\ y * 2 <= y * base /\ y * 2 = 2 * y /\ y * base = base * y
  BY <1>4, TimesOrder
<1>7. base * y \in Nat
  BY <1>4
<1> QED
  BY <1>1, <1>5, <1>6, <1>7

-----------------------------------------------------------------------------
(* Numerals.                                                                  *)
LEMMA Division ==
  ASSUME NEW n \in Nat, NEW r \in Nat, r >= 1
  PROVE  n \div r \in Nat /\ n % r \in 0 .. r - 1 /\ n = r * (n \div r) + (n % r)
OBVIOUS

LEMMA DivisionIs ==
  ASSUME NEW n \in Nat, NEW r \in Nat, r >= 1, NEW q \in Nat, NEW m \in 0 .. r - 1, n = r * q + m
  PROVE  n \div r = q /\ n % r = m
OBVIOUS

LEMMA DivisionOrder ==
  ASSUME NEW n \in Nat, NEW r \in Nat, r >= 2, n >= r
  PROVE  n \div r \in Nat /\ n \div r < n
OBVIOUS

(* Division by a product is division by its factors. *)
LEMMA DivisionTwice ==
  ASSUME NEW n \in Nat, NEW a \in Nat, a >= 1, NEW b \in Nat, b >= 1
  PROVE  (n \div a) \div b = n \div (a * b)
<1>1. PICK q \in Nat, m \in 0 .. a - 1 : n = a * q + m /\ n \div a = q
  BY Division
<1>2. PICK u \in Nat, v \in 0 .. b - 1 : q = b * u + v /\ q \div b = u
  BY Division
<1>3. a * q = (a * b) * u + a * v
  BY <1>2
<1>4. n = (a * b) * u + (a * v + m)
  BY <1>1, <1>3
<1>5. a * v <= a * (b - 1) /\ a * v \in Nat /\ a * (b - 1) = a * b - a /\ a * b \in Nat
  <2>1. v \in Nat /\ b - 1 \in Nat /\ v <= b - 1
    OBVIOUS
  <2> QED
    BY <2>1, TimesOrder
<1>6. a * v + m \in 0 .. (a * b) - 1 /\ a * b >= 1
  <2>1. PICK x \in Nat, y \in Nat : x = a * v /\ y = a * b
    BY <1>5
  <2>2. m \in Nat /\ m <= a - 1 /\ x <= y - a
    BY <1>5, <2>1
  <2>3. x + m \in 0 .. y - 1 /\ y >= 1
    BY <2>2
  <2> QED
    BY <2>1, <2>3
<1>7. n \div (a * b) = u
  <2>1. PICK r \in Nat, w \in Nat : r = a * b /\ w = a * v + m /\ r >= 1 /\ w \in 0 .. r - 1
    BY <1>5, <1>6
  <2>2. n = r * u + w
    BY <1>4, <2>1
  <2> QED
    BY <2>1, <2>2, DivisionIs
<1> QED
  BY <1>1, <1>2, <1>7

(* Digits of a table for a radix. *)
IsTable(radix, table) ==
  radix \in Nat /\ radix >= 2 /\ table \in Seq(Range(table)) /\ Len(table) >= radix

LEMMA DigitOfTable ==
  ASSUME NEW radix, NEW table, IsTable(radix, table), NEW d \in 0 .. radix - 1
  PROVE  table[d + 1] \in Range(table)
<1>1. d + 1 \in DOMAIN table
  BY DEF IsTable
<1> QED
  BY <1>1 DEF Range

LEMMA HelperUnfolds ==
  ASSUME NEW radix, NEW table, IsTable(radix, table)
  PROVE  \A n \in Nat :
           /\ print_int_helper(n, radix, table) \in Seq(Range(table))
           /\ n < radix => print_int_helper(n, radix, table) = <<table[n + 1]>>
           /\ n >= radix => print_int_helper(n, radix, table) =
                  Append(print_int_helper(n \div radix, radix, table), table[(n % radix) + 1])
<1> DEFINE R == CHOOSE text : text = [k \in Nat |->
                    IF k < radix THEN <<table[k + 1]>>
                    ELSE Append(text[k \div radix], table[(k % radix) + 1])]
           V == Seq(Range(table))
           D == {k \in Nat : k >= radix}
           p == [k \in D |-> k \div radix]
           F == [x \in D \X V |-> Append(x[2], table[(x[1] % radix) + 1])]
           b == [k \in Nat |-> IF k < radix THEN <<table[k + 1]>> ELSE <<>>]
<1>a. radix \in Nat /\ radix >= 2
  BY DEF IsTable
<1>e. \A k \in Nat : k \div radix \in Nat
  <2>1. radix >= 1
    BY <1>a
  <2> QED
    BY <1>a, <2>1, Division
<1>b. \A k \in Nat : /\ k < radix => table[k + 1] \in Range(table)
                     /\ table[(k % radix) + 1] \in Range(table)
  <2> TAKE k \in Nat
  <2>1. k % radix \in 0 .. radix - 1
    BY <1>a, Division
  <2>2. k < radix => k \in 0 .. radix - 1
    BY <1>a
  <2> QED
    BY <2>1, <2>2, DigitOfTable
<1>1. \E fun \in [Nat -> V] : fun = [k \in Nat |->
                    IF k < radix THEN <<table[k + 1]>>
                    ELSE Append(fun[k \div radix], table[(k % radix) + 1])]
  <2>1. p \in [D -> Nat] /\ \A k \in D : p[k] < k
    <3>1. \A k \in D : k \div radix \in Nat /\ k \div radix < k
      BY <1>a, DivisionOrder
    <3> QED
      BY <3>1
  <2>2. F \in [D \X V -> V]
    <3>1. \A x \in D \X V : Append(x[2], table[(x[1] % radix) + 1]) \in V
      BY <1>b
    <3> QED
      BY <3>1
  <2>3. b \in [Nat -> V]
    BY <1>b
  <2>4. Nat \in SUBSET Nat /\ D \in SUBSET Nat
    OBVIOUS
  <2>5. PICK fun \in [Nat -> V] : Obeys(fun, Nat, D, p, F, b)
    <3> HIDE DEF D, p, F, b, V
    <3> QED
      BY <2>1, <2>2, <2>3, <2>4, Recursion
  <2>6. ASSUME NEW k \in Nat
        PROVE  fun[k] = IF k < radix THEN <<table[k + 1]>>
                      ELSE Append(fun[k \div radix], table[(k % radix) + 1])
    <3>1. fun[k] = IF k \in D THEN F[<<k, fun[p[k]]>>] ELSE b[k]
      BY <2>5 DEF Obeys
    <3>2. CASE k < radix
      <4>1. k \notin D
        BY <1>a, <3>2
      <4> QED
        BY <3>1, <3>2, <4>1
    <3>3. CASE ~ (k < radix)
      <4>1. k \in D /\ p[k] = k \div radix /\ k \div radix \in Nat
        <5>1. k \in D
          BY <1>a, <3>3
        <5>2. k \div radix \in Nat
          BY <1>e
        <5> QED
          BY <5>1, <5>2
      <4>2. <<k, fun[k \div radix]>> \in D \X V
        BY <4>1
      <4>3. F[<<k, fun[k \div radix]>>] = Append(fun[k \div radix], table[(k % radix) + 1])
        BY <4>2
      <4> QED
        BY <3>1, <3>3, <4>1, <4>3
    <3> QED
      BY <3>2, <3>3
  <2> QED
    BY <2>6
<1>2. R = [k \in Nat |-> IF k < radix THEN <<table[k + 1]>>
                         ELSE Append(R[k \div radix], table[(k % radix) + 1])]
  BY <1>1
<1>3. \A n : print_int_helper(n, radix, table) = R[n]
  BY DEF print_int_helper
<1> HIDE DEF R
<1>c. \A k \in Nat : k >= radix <=> ~ (k < radix)
  BY <1>a
<1>d. /\ \A x \in Range(table) : <<x>> \in V
      /\ \A s \in V, x \in Range(table) : Append(s, x) \in V
  OBVIOUS
<1> HIDE DEF D, p, F, b, V
<1>4. ASSUME NEW k \in Nat
      PROVE  /\ k < radix => R[k] = <<table[k + 1]>>
             /\ k >= radix => R[k] = Append(R[k \div radix], table[(k % radix) + 1])
  <2>1. R[k] = IF k < radix THEN <<table[k + 1]>>
               ELSE Append(R[k \div radix], table[(k % radix) + 1])
    BY <1>2, Zenon
  <2> QED
    BY <2>1, <1>c, Zenon
<1>5. \A k \in Nat : R[k] \in V
  <2> DEFINE Bad == {k \in Nat : R[k] \notin V}
  <2> SUFFICES ASSUME Bad # {} PROVE FALSE
    OBVIOUS
  <2>1. PICK k \in Bad : \A m \in Bad : k <= m
    BY SmallestNat
  <2>2. CASE k < radix
    <3>1. R[k] = <<table[k + 1]>> /\ table[k + 1] \in Range(table)
      BY <2>2, <1>4, <1>b
    <3> QED
      BY <3>1, <1>d
  <2>3. CASE k >= radix
    <3>1. k \in Nat /\ k \div radix \in Nat /\ k \div radix < k
      BY <2>3, <1>a, DivisionOrder
    <3>2. R[k \div radix] \in V
      BY <2>1, <3>1
    <3>3. R[k] = Append(R[k \div radix], table[(k % radix) + 1])
      BY <1>4, <2>3
    <3>4. table[(k % radix) + 1] \in Range(table)
      BY <1>b, <3>1, Zenon
    <3>5. R[k] \in V
      BY <1>d, <3>2, <3>3, <3>4, Zenon
    <3> QED
      BY <3>5
  <2> QED
    BY <1>c, <2>2, <2>3
<1> QED
  BY <1>3, <1>4, <1>5 DEF V

-----------------------------------------------------------------------------
(* The digits print_int_helper prints are those of the positional numeral.   *)
Fits(n, radix, l) == n < Power(radix, l) /\ (l = 1 \/ n >= Power(radix, l - 1))
Numeral(n, radix, table, l) ==
  [i \in 1 .. l |-> table[((n \div Power(radix, l - i)) % radix) + 1]]

LEMMA PowerBelow ==
  ASSUME NEW base \in Nat, NEW l \in Nat, NEW k \in Nat, l = k + 1
  PROVE  /\ Power(base, k) \in Nat /\ Power(base, l) \in Nat
         /\ Power(base, l) = base * Power(base, k)
BY PowerIs

LEMMA ShortNumeral ==
  ASSUME NEW radix, NEW table, IsTable(radix, table), NEW n \in Nat, n < radix,
         NEW l \in Nat \ {0}, Fits(n, radix, l)
  PROVE  Numeral(n, radix, table, l) = <<table[n + 1]>>
<1>1. radix \in Nat /\ radix >= 2
  BY DEF IsTable
<1>2. l = 1
  <2> SUFFICES ASSUME l # 1 PROVE FALSE
    OBVIOUS
  <2>1. PICK d \in Nat : l - 1 = 1 + d
    <3>1. (l - 1) - 1 \in Nat /\ l - 1 = 1 + ((l - 1) - 1)
      OBVIOUS
    <3> QED
      BY <3>1
  <2>2. Power(radix, 1) <= Power(radix, 1 + d)
    BY <1>1, PowerGrows
  <2>3. Power(radix, 1) = radix
    <3>1. Power(radix, 0) = 1 /\ Power(radix, 0 + 1) = radix * Power(radix, 0) /\ 0 + 1 = 1
      BY <1>1, PowerIs
    <3> QED
      BY <1>1, <3>1
  <2>4. n >= Power(radix, 1 + d) /\ Power(radix, 1 + d) \in Nat
    <3>1. 1 + d \in Nat
      OBVIOUS
    <3> QED
      BY <1>1, <2>1, <3>1, PowerIs DEF Fits
  <2> QED
    BY <1>1, <2>2, <2>3, <2>4
<1>3. Power(radix, l - 1) = 1
  BY <1>1, <1>2, PowerIs
<1>4. (n \div 1) % radix = n
  <2>1. n = 1 * n + 0 /\ 0 \in 0 .. 1 - 1
    OBVIOUS
  <2>2. n \div 1 = n
    BY <2>1, DivisionIs
  <2>3. n = radix * 0 + n /\ n \in 0 .. radix - 1 /\ radix >= 1
    BY <1>1
  <2>4. n % radix = n
    BY <1>1, <2>3, DivisionIs
  <2> QED
    BY <2>2, <2>4
<1>5. \A i \in 1 .. l : i = 1
  BY <1>2
<1>6. Numeral(n, radix, table, l) = [i \in 1 .. 1 |-> table[n + 1]]
  BY <1>2, <1>3, <1>4, <1>5 DEF Numeral
<1> QED
  BY <1>6

LEMMA QuotientFits ==
  ASSUME NEW radix \in Nat, radix >= 2, NEW n \in Nat, n >= radix,
         NEW l \in Nat \ {0}, Fits(n, radix, l)
  PROVE  l - 1 \in Nat \ {0} /\ Fits(n \div radix, radix, l - 1)
<1>1. PICK q \in Nat, m \in 0 .. radix - 1 : n = radix * q + m /\ n \div radix = q
  <2>1. radix >= 1
    OBVIOUS
  <2> QED
    BY <2>1, Division
<1>2. l # 1
  <2>1. Power(radix, 0) = 1 /\ Power(radix, 0 + 1) = radix * Power(radix, 0) /\ 0 + 1 = 1
    BY PowerIs
  <2> QED
    BY <2>1 DEF Fits
<1>3. l - 1 \in Nat \ {0} /\ (l - 1) + 1 = l
  BY <1>2
<1>4. PICK x \in Nat : x = Power(radix, l - 1) /\ Power(radix, l) = radix * x
  <2>1. PICK k \in Nat : k = l - 1 /\ l = k + 1
    BY <1>3
  <2>2. Power(radix, k) \in Nat /\ Power(radix, l) = radix * Power(radix, k)
    BY <2>1, PowerBelow
  <2> QED
    BY <2>1, <2>2
<1>5. q < x
  <2> SUFFICES ASSUME x <= q PROVE FALSE
    OBVIOUS
  <2>1. radix * x <= radix * q /\ radix * x \in Nat /\ radix * q \in Nat
    BY TimesOrder
  <2>2. n < radix * x
    BY <1>4 DEF Fits
  <2> QED
    BY <1>1, <2>1, <2>2
<1>6. l - 1 = 1 \/ q >= Power(radix, (l - 1) - 1)
  <2> SUFFICES ASSUME l - 1 # 1 PROVE q >= Power(radix, (l - 1) - 1)
    OBVIOUS
  <2>1. (l - 1) - 1 \in Nat /\ ((l - 1) - 1) + 1 = l - 1
    BY <1>3
  <2>2. PICK y \in Nat : y = Power(radix, (l - 1) - 1) /\ x = radix * y
    <3>1. PICK k \in Nat, j \in Nat : j = (l - 1) - 1 /\ k = l - 1 /\ k = j + 1
      BY <1>3, <2>1
    <3>2. Power(radix, j) \in Nat /\ Power(radix, k) = radix * Power(radix, j)
      BY <3>1, PowerBelow
    <3> QED
      BY <1>4, <3>1, <3>2
  <2>3. n >= x
    BY <1>2, <1>4 DEF Fits
  <2>4. CASE q >= y
    BY <2>2, <2>4
  <2>5. CASE q + 1 <= y
    <3>1. radix * (q + 1) <= radix * y
      BY <2>5, TimesOrder
    <3>2. radix * (q + 1) = radix * q + radix
      OBVIOUS
    <3>3. radix * q \in Nat /\ radix * y \in Nat
      BY TimesOrder
    <3> QED
      BY <1>1, <2>2, <2>3, <3>1, <3>2, <3>3
  <2> QED
    BY <2>4, <2>5
<1> QED
  BY <1>1, <1>3, <1>4, <1>5, <1>6 DEF Fits

LEMMA LongNumeral ==
  ASSUME NEW radix, NEW table, IsTable(radix, table), NEW n \in Nat, n >= radix,
         NEW l \in Nat \ {0}, l - 1 \in Nat \ {0}
  PROVE  Numeral(n, radix, table, l) =
           Append(Numeral(n \div radix, radix, table, l - 1), table[(n % radix) + 1])
<1> DEFINE M == Numeral(n \div radix, radix, table, l - 1)
           x == table[(n % radix) + 1]
<1>1. radix \in Nat /\ radix >= 2 /\ radix >= 1
  BY DEF IsTable
<1>2. n \div radix \in Nat
  BY <1>1, Division
<1>3. ASSUME NEW i \in 1 .. l - 1
      PROVE  Numeral(n, radix, table, l)[i] = M[i]
  <2>1. (l - 1) - i \in Nat /\ ((l - 1) - i) + 1 = l - i /\ i \in 1 .. l
    OBVIOUS
  <2>2. PICK y \in Nat : y = Power(radix, (l - 1) - i) /\ Power(radix, l - i) = radix * y /\ y >= 1
    <3>1. PICK k \in Nat, j \in Nat : j = (l - 1) - i /\ k = l - i /\ k = j + 1
      BY <2>1
    <3>2. Power(radix, j) \in Nat /\ Power(radix, k) = radix * Power(radix, j)
      BY ONLY <1>1, k \in Nat, j \in Nat, <3>1, PowerBelow
    <3>3. Power(radix, j) >= 1
      BY <1>1, PowerGrows
    <3> QED
      BY <3>1, <3>2, <3>3
  <2>3. (n \div radix) \div y = n \div (radix * y)
    BY ONLY n \in Nat, y \in Nat, <1>1, <2>2, DivisionTwice
  <2> QED
    BY <2>1, <2>2, <2>3 DEF Numeral
<1>4. Numeral(n, radix, table, l)[l] = x
  <2>1. l - l = 0 /\ Power(radix, 0) = 1 /\ l \in 1 .. l
    BY <1>1, PowerIs
  <2>2. n = 1 * n + 0 /\ 0 \in 0 .. 1 - 1
    OBVIOUS
  <2>3. n \div 1 = n
    BY <2>2, DivisionIs
  <2> QED
    BY <2>1, <2>3 DEF Numeral
<1>5. M = [i \in 1 .. l - 1 |-> M[i]] /\ Numeral(n, radix, table, l) = [i \in 1 .. l |-> Numeral(n, radix, table, l)[i]]
  BY DEF Numeral
<1>6. M \in Seq({M[i] : i \in 1 .. l - 1} \cup {x}) /\ Len(M) = l - 1
  BY <1>5
<1> HIDE DEF M, x
<1>7. Append(M, x) = [i \in 1 .. l |-> IF i = l THEN x ELSE M[i]]
  <2>1. PICK S : S = {M[i] : i \in 1 .. l - 1} \cup {x}
    OBVIOUS
  <2>2. M \in Seq(S) /\ x \in S /\ Len(M) = l - 1
    BY <1>6, <2>1
  <2>3. /\ Append(M, x) \in Seq(S) /\ Len(Append(M, x)) = l
        /\ \A i \in 1 .. l - 1 : Append(M, x)[i] = M[i]
        /\ Append(M, x)[l] = x
    BY ONLY l \in Nat \ {0}, <2>2, AppendProperties
  <2>4. Append(M, x) = [i \in 1 .. l |-> Append(M, x)[i]]
    <3>1. PICK A, T : A = Append(M, x) /\ T = Seq(S)
      OBVIOUS
    <3>2. A \in Seq(S) /\ Len(A) = l
      BY ONLY <2>3, <3>1
    <3>3. A = [i \in 1 .. l |-> A[i]]
      BY ONLY l \in Nat \ {0}, <3>2
    <3> QED
      BY ONLY <3>1, <3>3
  <2>5. \A i \in 1 .. l : Append(M, x)[i] = IF i = l THEN x ELSE M[i]
    BY ONLY l \in Nat \ {0}, <2>3
  <2> QED
    BY ONLY <2>4, <2>5, Zenon
<1>8. \A i \in 1 .. l : i # l => i \in 1 .. l - 1
  OBVIOUS
<1>9. \A i \in 1 .. l : Numeral(n, radix, table, l)[i] = IF i = l THEN x ELSE M[i]
  BY <1>3, <1>4, <1>8
<1>10. Append(M, x) = Numeral(n, radix, table, l)
  BY <1>5, <1>7, <1>9, Zenon
<1> QED
  BY <1>10 DEF M, x

LEMMA HelperIsNumeral ==
  ASSUME NEW radix, NEW table, IsTable(radix, table)
  PROVE  \A n \in Nat : \A l \in Nat \ {0} :
           Fits(n, radix, l) => print_int_helper(n, radix, table) = Numeral(n, radix, table, l)
<1> DEFINE Good(n) == \A l \in Nat \ {0} :
                        Fits(n, radix, l) => print_int_helper(n, radix, table) = Numeral(n, radix, table, l)
           Bad == {n \in Nat : ~ Good(n)}
<1> SUFFICES ASSUME Bad # {} PROVE FALSE
  OBVIOUS
<1>1. PICK n \in Bad : \A m \in Bad : n <= m
  BY SmallestNat
<1>2. n \in Nat /\ ~ Good(n)
  OBVIOUS
<1>3. radix \in Nat /\ radix >= 2 /\ radix >= 1
  BY DEF IsTable
<1>4. PICK l \in Nat \ {0} : /\ Fits(n, radix, l)
                             /\ print_int_helper(n, radix, table) # Numeral(n, radix, table, l)
  BY <1>2
<1>5. CASE n < radix
  BY <1>2, <1>4, <1>5, ShortNumeral, HelperUnfolds
<1>6. CASE n >= radix
  <2>1. n \div radix \in Nat /\ n \div radix < n
    BY <1>2, <1>3, <1>6, DivisionOrder
  <2>2. Good(n \div radix)
    <3>1. ~ (n <= n \div radix)
      BY <1>2, <2>1
    <3> QED
      BY <1>1, <2>1, <3>1
  <2>3. l - 1 \in Nat \ {0} /\ Fits(n \div radix, radix, l - 1)
    BY <1>2, <1>3, <1>4, <1>6, QuotientFits
  <2>4. print_int_helper(n \div radix, radix, table) = Numeral(n \div radix, radix, table, l - 1)
    BY <2>2, <2>3
  <2>5. print_int_helper(n, radix, table) =
          Append(print_int_helper(n \div radix, radix, table), table[(n % radix) + 1])
    BY <1>2, <1>6, HelperUnfolds
  <2>6. Numeral(n, radix, table, l) =
           Append(Numeral(n \div radix, radix, table, l - 1), table[(n % radix) + 1])
    BY <1>2, <1>4, <1>6, <2>3, LongNumeral
  <2> QED
    BY <1>4, <2>4, <2>5, <2>6
<1> QED
  BY <1>2, <1>3, <1>5, <1>6

LEMMA SomeFits ==
  ASSUME NEW radix \in Nat, radix >= 2, NEW w \in Nat \ {0}, NEW n \in Nat, n < Power(2, w)
  PROVE  \E l \in 1 .. w : Fits(n, radix, l)
<1> DEFINE S == {l \in 1 .. w : n < Power(radix, l)}
<1>1. w \in S
  <2>1. Power(2, w) <= Power(radix, w) /\ Power(2, w) \in Nat /\ Power(radix, w) \in Nat
    BY PowerOfTwo, PowerIs
  <2> QED
    BY <2>1
<1>2. PICK l \in S : \A m \in S : l <= m
  <2>1. S \subseteq Nat /\ S # {}
    BY <1>1
  <2> QED
    BY <2>1, SmallestNat
<1>3. l = 1 \/ n >= Power(radix, l - 1)
  <2> SUFFICES ASSUME l # 1 PROVE n >= Power(radix, l - 1)
    OBVIOUS
  <2>1. l - 1 \in 1 .. w /\ ~ (l <= l - 1)
    OBVIOUS
  <2>2. l - 1 \notin S
    BY <1>2, <2>1
  <2>3. Power(radix, l - 1) \in Nat
    <3>1. PICK k \in Nat : k = l - 1
      BY <2>1
    <3> QED
      BY <3>1, PowerIs
  <2> QED
    BY <2>1, <2>2, <2>3
<1> QED
  BY <1>2, <1>3 DEF Fits

(* The numeral of the reference is what print_int_helper prints. *)
LEMMA PositionalIs ==
  ASSUME NEW radix, NEW table, IsTable(radix, table), Width \in Nat \ {0},
         NEW n \in Nat, n < Power(2, Width)
  PROVE  Positional(n, radix, table) = print_int_helper(n, radix, table)
<1> DEFINE length == CHOOSE l \in 1 .. Width : Fits(n, radix, l)
<1>1. \E l \in 1 .. Width : Fits(n, radix, l)
  BY SomeFits DEF IsTable
<1>2. length \in 1 .. Width /\ Fits(n, radix, length)
  BY <1>1
<1>3. Positional(n, radix, table) = Numeral(n, radix, table, length)
  BY DEF Positional, Numeral, Fits
<1>4. length \in Nat \ {0}
  BY <1>2
<1> HIDE DEF length
<1> QED
  BY <1>2, <1>3, <1>4, HelperIsNumeral

-----------------------------------------------------------------------------
(* Texts: sequences whose elements are of no particular set.                  *)
LEMMA TextOf ==
  ASSUME NEW S, NEW s \in Seq(S)
  PROVE  IsText(s)
BY SeqOfRange DEF IsText

LEMMA TextLen ==
  ASSUME NEW s, IsText(s)
  PROVE  /\ Len(s) \in Nat /\ DOMAIN s = 1 .. Len(s)
         /\ \A i \in 1 .. Len(s) : s[i] \in Range(s)
         /\ s = <<>> <=> Len(s) = 0
<1>1. PICK S : S = Range(s) /\ s \in Seq(S)
  BY DEF IsText
<1>2. Len(s) \in Nat /\ DOMAIN s = 1 .. Len(s) /\ \A i \in 1 .. Len(s) : s[i] \in S
  BY <1>1, LenProperties, ElementOfSeq
<1>3. s = <<>> <=> Len(s) = 0
  BY <1>1, EmptySeq
<1> QED
  BY <1>1, <1>2, <1>3

LEMMA TextOne ==
  ASSUME NEW x
  PROVE  IsText(<<>>) /\ IsText(<<x>>) /\ Len(<<x>>) = 1 /\ <<x>>[1] = x /\ Len(<<>>) = 0
<1>1. <<>> \in Seq({x}) /\ <<x>> \in Seq({x})
  OBVIOUS
<1> QED
  BY <1>1, TextOf

(* Texts over one set. *)
LEMMA TextsTogether ==
  ASSUME NEW s, IsText(s), NEW t, IsText(t), NEW u, IsText(u)
  PROVE  \E S : s \in Seq(S) /\ t \in Seq(S) /\ u \in Seq(S)
<1> DEFINE S == Range(s) \cup Range(t) \cup Range(u)
<1>1. s \in Seq(Range(s)) /\ t \in Seq(Range(t)) /\ u \in Seq(Range(u))
  BY DEF IsText
<1>2. Range(s) \subseteq S /\ Range(t) \subseteq S /\ Range(u) \subseteq S
  OBVIOUS
<1> HIDE DEF S
<1>3. s \in Seq(S) /\ t \in Seq(S) /\ u \in Seq(S)
  BY ONLY <1>1, <1>2, SeqMonotonic
<1> QED
  BY <1>3

LEMMA TextConcat ==
  ASSUME NEW s, IsText(s), NEW t, IsText(t)
  PROVE  /\ IsText(s \o t) /\ Len(s \o t) = Len(s) + Len(t)
         /\ \A i \in 1 .. Len(s) : (s \o t)[i] = s[i]
         /\ \A i \in 1 .. Len(t) : (s \o t)[Len(s) + i] = t[i]
         /\ s \o <<>> = s /\ <<>> \o s = s
<1>1. PICK S : s \in Seq(S) /\ t \in Seq(S) /\ t \in Seq(S)
  BY TextsTogether
<1>2. PICK u : u = s \o t
  OBVIOUS
<1>3. /\ u \in Seq(S) /\ Len(u) = Len(s) + Len(t)
      /\ \A i \in 1 .. Len(s) + Len(t) : u[i] = IF i <= Len(s) THEN s[i] ELSE t[i - Len(s)]
  BY ONLY <1>1, <1>2, ConcatProperties
<1>4. Len(s) \in Nat /\ Len(t) \in Nat
  BY <1>1
<1>5. IsText(u)
  BY ONLY <1>3, TextOf
<1>6. \A i \in 1 .. Len(s) : u[i] = s[i]
  BY ONLY <1>3, <1>4
<1>7. ASSUME NEW i \in 1 .. Len(t) PROVE u[Len(s) + i] = t[i]
  <2>1. Len(s) + i \in 1 .. Len(s) + Len(t) /\ ~ (Len(s) + i <= Len(s)) /\ (Len(s) + i) - Len(s) = i
    BY ONLY <1>4, i \in 1 .. Len(t)
  <2> QED
    BY ONLY <1>3, <2>1
<1>8. s \o <<>> = s /\ <<>> \o s = s
  BY ONLY <1>1, ConcatEmptySeq
<1> QED
  BY ONLY <1>2, <1>3, <1>5, <1>6, <1>7, <1>8

LEMMA TextAssociates ==
  ASSUME NEW s, IsText(s), NEW t, IsText(t), NEW u, IsText(u)
  PROVE  (s \o t) \o u = s \o (t \o u)
<1>1. PICK S : s \in Seq(S) /\ t \in Seq(S) /\ u \in Seq(S)
  BY TextsTogether
<1> QED
  BY ONLY <1>1, ConcatAssociative

LEMMA TextTail ==
  ASSUME NEW s, IsText(s), s # <<>>
  PROVE  /\ IsText(Tail(s)) /\ Len(Tail(s)) = Len(s) - 1
         /\ \A i \in 1 .. Len(s) - 1 : Tail(s)[i] = s[i + 1]
         /\ Head(s) = s[1] /\ Tail(s) = SubSeq(s, 2, Len(s)) /\ Len(s) \in Nat \ {0}
<1>1. PICK S : s \in Seq(S)
  BY DEF IsText
<1>2. /\ Tail(s) \in Seq(S) /\ Len(Tail(s)) = Len(s) - 1
      /\ \A i \in 1 .. Len(Tail(s)) : Tail(s)[i] = s[i + 1]
  BY <1>1, HeadTailProperties
<1>3. Tail(s) = SubSeq(s, 2, Len(s))
  BY <1>1, TailIsSubSeq
<1>4. IsText(Tail(s))
  BY <1>2, TextOf
<1>5. Head(s) = s[1]
  BY <1>1
<1>6. Len(s) \in Nat \ {0}
  BY <1>1, EmptySeq
<1> QED
  BY <1>2, <1>3, <1>4, <1>5, <1>6

LEMMA TextPart ==
  ASSUME NEW s, IsText(s), NEW m \in Nat \ {0}, NEW n \in Int, n <= Len(s)
  PROVE  /\ IsText(SubSeq(s, m, n))
         /\ Len(SubSeq(s, m, n)) = IF m <= n THEN n - m + 1 ELSE 0
         /\ \A i \in 1 .. n - m + 1 : SubSeq(s, m, n)[i] = s[m + i - 1]
<1>1. PICK S : s \in Seq(S)
  BY DEF IsText
<1>2. Len(s) \in Nat
  BY <1>1
<1>3. \A i \in m .. n : i \in 1 .. Len(s)
  BY <1>2
<1>4. \A i \in m .. n : s[i] \in S
  BY <1>1, <1>3, ElementOfSeq
<1>5. PICK u : u = SubSeq(s, m, n)
  OBVIOUS
<1>6. /\ u \in Seq(S) /\ Len(u) = IF m <= n THEN n - m + 1 ELSE 0
      /\ \A i \in 1 .. n - m + 1 : u[i] = s[m + i - 1]
  BY ONLY m \in Nat \ {0}, n \in Int, <1>4, <1>5, SubSeqProperties
<1>7. IsText(u)
  BY ONLY <1>6, TextOf
<1> QED
  BY ONLY <1>5, <1>6, <1>7

(* Two texts with the same elements in the same places are one. *)
LEMMA TextEqual ==
  ASSUME NEW s, IsText(s), NEW t, IsText(t), Len(s) = Len(t),
         \A i \in 1 .. Len(s) : s[i] = t[i]
  PROVE  s = t
<1>1. PICK S : s \in Seq(S) /\ t \in Seq(S) /\ t \in Seq(S)
  BY TextsTogether
<1> QED
  BY <1>1, SeqEqual

(* What is behind the head of a text: the rest of its part and what follows. *)
LEMMA HeadOfConcat ==
  ASSUME NEW s, IsText(s), s # <<>>, NEW t, IsText(t)
  PROVE  s \o t # <<>> /\ Head(s \o t) = s[1] /\ Tail(s \o t) = Tail(s) \o t
<1> DEFINE u == s \o t
<1>1. Len(s) \in Nat \ {0} /\ Len(t) \in Nat
  BY TextLen, TextTail
<1>2. /\ IsText(u) /\ Len(u) = Len(s) + Len(t)
      /\ \A i \in 1 .. Len(s) : u[i] = s[i]
      /\ \A i \in 1 .. Len(t) : u[Len(s) + i] = t[i]
  BY TextConcat
<1> HIDE DEF u
<1>3. u # <<>>
  BY <1>1, <1>2, TextLen
<1>4. /\ IsText(Tail(u)) /\ Len(Tail(u)) = Len(u) - 1
      /\ \A i \in 1 .. Len(u) - 1 : Tail(u)[i] = u[i + 1]
      /\ Head(u) = u[1]
  BY <1>2, <1>3, TextTail
<1>5. /\ IsText(Tail(s)) /\ Len(Tail(s)) = Len(s) - 1
      /\ \A i \in 1 .. Len(s) - 1 : Tail(s)[i] = s[i + 1]
  BY TextTail
<1>6. /\ IsText(Tail(s) \o t) /\ Len(Tail(s) \o t) = Len(Tail(s)) + Len(t)
      /\ \A i \in 1 .. Len(Tail(s)) : (Tail(s) \o t)[i] = Tail(s)[i]
      /\ \A i \in 1 .. Len(t) : (Tail(s) \o t)[Len(Tail(s)) + i] = t[i]
  BY <1>5, TextConcat
<1>7. ASSUME NEW i \in 1 .. Len(Tail(u)) PROVE Tail(u)[i] = (Tail(s) \o t)[i]
  <2>1. i + 1 \in 1 .. Len(s) + Len(t) /\ Tail(u)[i] = u[i + 1]
    BY <1>1, <1>2, <1>4
  <2>2. CASE i + 1 <= Len(s)
    <3>1. i \in 1 .. Len(s) - 1 /\ i + 1 \in 1 .. Len(s)
      BY <1>1, <2>1, <2>2
    <3> QED
      BY <1>2, <1>5, <1>6, <2>1, <3>1
  <2>3. CASE ~ (i + 1 <= Len(s))
    <3>1. PICK k \in 1 .. Len(t) : i + 1 = Len(s) + k /\ i = Len(Tail(s)) + k
      <4>1. (i + 1) - Len(s) \in 1 .. Len(t)
        BY <1>1, <2>1, <2>3
      <4> QED
        BY <1>1, <1>5, <4>1
    <3> QED
      BY <1>2, <1>6, <2>1, <3>1
  <2> QED
    BY <2>2, <2>3
<1>8. Tail(u) = Tail(s) \o t
  BY <1>1, <1>2, <1>4, <1>5, <1>6, <1>7, TextEqual
<1>9. Head(u) = s[1]
  BY <1>1, <1>2, <1>4
<1> QED
  BY <1>3, <1>8, <1>9 DEF u

(* What is behind a first part is the second one. *)
LEMMA BehindPart ==
  ASSUME NEW s, IsText(s), NEW t, IsText(t)
  PROVE  /\ SubSeq(s \o t, Len(s) + 1, Len(s \o t)) = t
         /\ \A n \in 0 .. Len(s) : SubSeq(s \o t, 1, n) = SubSeq(s, 1, n)
<1> DEFINE u == s \o t
<1>1. Len(s) \in Nat /\ Len(t) \in Nat
  BY TextLen
<1>2. /\ IsText(u) /\ Len(u) = Len(s) + Len(t)
      /\ \A i \in 1 .. Len(s) : u[i] = s[i]
      /\ \A i \in 1 .. Len(t) : u[Len(s) + i] = t[i]
  BY TextConcat
<1> HIDE DEF u
<1>3. SubSeq(u, Len(s) + 1, Len(u)) = t
  <2> DEFINE v == SubSeq(u, Len(s) + 1, Len(u))
  <2>0. PICK m \in Nat \ {0}, n \in Int : m = Len(s) + 1 /\ n = Len(u) /\ n <= Len(u)
    BY <1>1, <1>2
  <2>1. /\ IsText(SubSeq(u, m, n)) /\ Len(SubSeq(u, m, n)) = IF m <= n THEN n - m + 1 ELSE 0
        /\ \A i \in 1 .. n - m + 1 : SubSeq(u, m, n)[i] = u[m + i - 1]
    BY <1>2, <2>0, TextPart
  <2>2. IsText(v) /\ Len(v) = Len(t) /\ \A i \in 1 .. Len(t) : v[i] = u[Len(s) + 1 + i - 1]
    <3>1. n - m + 1 = Len(t) /\ (~ (m <= n) => Len(t) = 0)
      BY <1>1, <1>2, <2>0
    <3> QED
      BY <2>0, <2>1, <3>1
  <2>3. \A i \in 1 .. Len(t) : Len(s) + 1 + i - 1 = Len(s) + i
    BY <1>1
  <2> HIDE DEF v
  <2>4. v = t
    BY <1>1, <1>2, <2>2, <2>3, TextEqual
  <2> QED
    BY <2>4 DEF v
<1>4. ASSUME NEW n \in 0 .. Len(s) PROVE SubSeq(u, 1, n) = SubSeq(s, 1, n)
  <2>0. n \in Int /\ n <= Len(s) /\ n <= Len(u) /\ 1 \in Nat \ {0}
    BY <1>1, <1>2
  <2>1. /\ IsText(SubSeq(u, 1, n)) /\ Len(SubSeq(u, 1, n)) = IF 1 <= n THEN n - 1 + 1 ELSE 0
        /\ \A i \in 1 .. n - 1 + 1 : SubSeq(u, 1, n)[i] = u[1 + i - 1]
    BY <1>2, <2>0, TextPart
  <2>2. /\ IsText(SubSeq(s, 1, n)) /\ Len(SubSeq(s, 1, n)) = IF 1 <= n THEN n - 1 + 1 ELSE 0
        /\ \A i \in 1 .. n - 1 + 1 : SubSeq(s, 1, n)[i] = s[1 + i - 1]
    BY <2>0, TextPart
  <2>3. (IF 1 <= n THEN n - 1 + 1 ELSE 0) = n /\ n - 1 + 1 = n
    BY <2>0
  <2>4. \A i \in 1 .. n : 1 + i - 1 = i /\ i \in 1 .. Len(s)
    BY <1>1, <2>0
  <2>5. PICK a, b : a = SubSeq(u, 1, n) /\ b = SubSeq(s, 1, n)
    OBVIOUS
  <2>6. IsText(a) /\ IsText(b) /\ Len(a) = n /\ Len(b) = n /\ \A i \in 1 .. n : a[i] = b[i]
    BY <1>2, <2>1, <2>2, <2>3, <2>4, <2>5
  <2>7. a = b
    BY ONLY <2>6, TextEqual
  <2> QED
    BY <2>5, <2>7
<1> QED
  BY <1>3, <1>4 DEF u

-----------------------------------------------------------------------------
(* A sequence of texts, the text of its first k parts, and that of its last. *)
IsParts(parts) == IsText(parts) /\ \A i \in DOMAIN parts : IsText(parts[i])

First(parts) ==
  LET first[k \in 0 .. Len(parts)] == IF k = 0 THEN <<>> ELSE first[k - 1] \o parts[k]
  IN  first

Rest(parts) ==
  LET rest[k \in 0 .. Len(parts)] == IF k = 0 THEN <<>> ELSE parts[(Len(parts) - k) + 1] \o rest[k - 1]
  IN  rest

(* All the elements of the parts. *)
Elements(parts) == UNION {Range(parts[i]) : i \in DOMAIN parts}

LEMMA PartsOver ==
  ASSUME NEW parts, IsParts(parts)
  PROVE  /\ Len(parts) \in Nat /\ DOMAIN parts = 1 .. Len(parts)
         /\ \A i \in 1 .. Len(parts) : parts[i] \in Seq(Elements(parts)) /\ IsText(parts[i])
<1>1. Len(parts) \in Nat /\ DOMAIN parts = 1 .. Len(parts)
  BY TextLen DEF IsParts
<1>2. ASSUME NEW i \in 1 .. Len(parts)
      PROVE  parts[i] \in Seq(Elements(parts)) /\ IsText(parts[i])
  <2>1. IsText(parts[i]) /\ parts[i] \in Seq(Range(parts[i]))
    BY <1>1 DEF IsParts, IsText
  <2>2. Range(parts[i]) \subseteq Elements(parts)
    BY <1>1 DEF Elements
  <2> QED
    BY <2>1, <2>2, SeqMonotonic
<1> QED
  BY <1>1, <1>2

(* Recursions that go up a bounded range of numbers. *)
RecursionUp(n, V, a, G) ==
  \E fun \in [0 .. n -> V] : \A k \in 0 .. n : fun[k] = IF k = 0 THEN a ELSE G[<<k, fun[k - 1]>>]

LEMMA RangeRecursion ==
  ASSUME NEW n \in Nat, NEW V, NEW a \in V, NEW G \in [(1 .. n) \X V -> V]
  PROVE  RecursionUp(n, V, a, G)
<1> DEFINE N == 0 .. n
           D == 1 .. n
           p == [k \in D |-> k - 1]
           b == [k \in N |-> a]
<1>1. /\ N \in SUBSET Nat /\ D \in SUBSET N /\ p \in [D -> N] /\ \A k \in D : p[k] < k
      /\ G \in [D \X V -> V] /\ b \in [N -> V]
  OBVIOUS
<1>2. PICK fun \in [N -> V] : Obeys(fun, N, D, p, G, b)
  <2> HIDE DEF D, p, b, N
  <2> QED
    BY <1>1, Recursion
<1>3. ASSUME NEW k \in N PROVE fun[k] = IF k = 0 THEN a ELSE G[<<k, fun[k - 1]>>]
  <2>1. fun[k] = IF k \in D THEN G[<<k, fun[p[k]]>>] ELSE b[k]
    BY <1>2 DEF Obeys
  <2>2. CASE k = 0
    BY <2>1, <2>2
  <2>3. CASE k # 0
    <3>1. k \in D /\ p[k] = k - 1
      BY <2>3
    <3> QED
      BY <2>1, <2>3, <3>1
  <2> QED
    BY <2>2, <2>3
<1> QED
  BY <1>2, <1>3 DEF RecursionUp

LEMMA FirstIs ==
  ASSUME NEW parts, IsParts(parts)
  PROVE  /\ First(parts)[0] = <<>>
         /\ \A k \in 1 .. Len(parts) : First(parts)[k] = First(parts)[k - 1] \o parts[k]
         /\ \A k \in 0 .. Len(parts) : IsText(First(parts)[k])
<1> DEFINE R == CHOOSE first : first = [k \in 0 .. Len(parts) |->
                                          IF k = 0 THEN <<>> ELSE first[k - 1] \o parts[k]]
<1>1. PICK n \in Nat : n = Len(parts)
  BY PartsOver
<1>2. PICK V, S : V = Seq(S) /\ S = Elements(parts)
  OBVIOUS
<1>3. \A i \in 1 .. n : parts[i] \in V
  BY <1>1, <1>2, PartsOver
<1>4. PICK G : G = [x \in (1 .. n) \X V |-> x[2] \o parts[x[1]]]
  OBVIOUS
<1>5. G \in [(1 .. n) \X V -> V]
  <2>1. \A x \in (1 .. n) \X V : x[2] \o parts[x[1]] \in V
    <3>1. \A x \in (1 .. n) \X V : x[2] \in V /\ parts[x[1]] \in V
      BY <1>3
    <3>2. \A s, t \in V : s \o t \in V
      BY ONLY <1>2, ConcatProperties
    <3> QED
      BY <3>1, <3>2
  <2> QED
    BY <1>4, <2>1
<1>6. <<>> \in V
  BY <1>2
<1>7. PICK fun \in [0 .. n -> V] : \A k \in 0 .. n : fun[k] = IF k = 0 THEN <<>> ELSE G[<<k, fun[k - 1]>>]
  <2>1. PICK a \in V : a = <<>>
    BY <1>6
  <2>2. \E fun \in [0 .. n -> V] : \A k \in 0 .. n : fun[k] = IF k = 0 THEN a ELSE G[<<k, fun[k - 1]>>]
    <3>1. RecursionUp(n, V, a, G)
      BY ONLY n \in Nat, a \in V, <1>5, RangeRecursion, Zenon
    <3> QED
      BY ONLY <3>1, Zenon DEF RecursionUp
  <2> QED
    BY <2>1, <2>2
<1>8. ASSUME NEW k \in 0 .. n PROVE fun[k] = IF k = 0 THEN <<>> ELSE fun[k - 1] \o parts[k]
  <2>1. k # 0 => k \in 1 .. n /\ k - 1 \in 0 .. n
    OBVIOUS
  <2>2. k # 0 => <<k, fun[k - 1]>> \in (1 .. n) \X V
    BY <1>7, <2>1
  <2>3. k # 0 => G[<<k, fun[k - 1]>>] = fun[k - 1] \o parts[k]
    BY <1>4, <2>2
  <2> QED
    BY <1>7, <2>3
<1>9. fun = [k \in 0 .. Len(parts) |-> IF k = 0 THEN <<>> ELSE fun[k - 1] \o parts[k]]
  BY <1>1, <1>7, <1>8
<1>10. R = [k \in 0 .. Len(parts) |-> IF k = 0 THEN <<>> ELSE R[k - 1] \o parts[k]]
  BY <1>9
<1>11. First(parts) = R
  BY DEF First
<1> HIDE DEF R
<1>12. \A k \in 0 .. n : R[k] = IF k = 0 THEN <<>> ELSE R[k - 1] \o parts[k]
  BY <1>1, <1>10
<1>13. \A k \in 0 .. n : IsText(R[k])
  <2> DEFINE Bad == {k \in 0 .. n : ~ IsText(R[k])}
  <2> SUFFICES ASSUME Bad # {} PROVE FALSE
    OBVIOUS
  <2>1. PICK k \in Bad : \A m \in Bad : k <= m
    <3>1. Bad \subseteq Nat
      OBVIOUS
    <3> QED
      BY <3>1, SmallestNat
  <2>2. k # 0
    BY <1>12, TextOne
  <2>3. k - 1 \in 0 .. n /\ k \in 1 .. n
    BY <2>2
  <2>4. IsText(R[k - 1]) /\ IsText(parts[k])
    <3>1. k - 1 \notin Bad
      BY <2>1, <2>3
    <3> QED
      BY <1>1, <2>3, <3>1, PartsOver
  <2>5. R[k] = R[k - 1] \o parts[k]
    BY <1>12, <2>2
  <2>6. IsText(R[k - 1] \o parts[k])
    BY ONLY <2>4, TextConcat
  <2> QED
    BY <2>5, <2>6
<1>14. 0 \in 0 .. n /\ \A k \in 1 .. n : k \in 0 .. n /\ k # 0
  OBVIOUS
<1> QED
  BY <1>1, <1>11, <1>12, <1>13, <1>14

LEMMA RestIs ==
  ASSUME NEW parts, IsParts(parts)
  PROVE  /\ Rest(parts)[0] = <<>>
         /\ \A k \in 1 .. Len(parts) :
              Rest(parts)[k] = parts[(Len(parts) - k) + 1] \o Rest(parts)[k - 1]
         /\ \A k \in 0 .. Len(parts) : IsText(Rest(parts)[k])
<1> DEFINE R == CHOOSE rest : rest = [k \in 0 .. Len(parts) |->
                        IF k = 0 THEN <<>> ELSE parts[(Len(parts) - k) + 1] \o rest[k - 1]]
<1>1. PICK n \in Nat : n = Len(parts)
  BY PartsOver
<1>2. PICK V, S : V = Seq(S) /\ S = Elements(parts)
  OBVIOUS
<1>3. \A i \in 1 .. n : parts[i] \in V
  BY <1>1, <1>2, PartsOver
<1>4. PICK G : G = [x \in (1 .. n) \X V |-> parts[(n - x[1]) + 1] \o x[2]]
  OBVIOUS
<1>0. \A k \in 1 .. n : (n - k) + 1 \in 1 .. n
  OBVIOUS
<1>5. G \in [(1 .. n) \X V -> V]
  <2>1. \A x \in (1 .. n) \X V : parts[(n - x[1]) + 1] \o x[2] \in V
    <3>1. \A x \in (1 .. n) \X V : x[2] \in V /\ parts[(n - x[1]) + 1] \in V
      BY <1>3, <1>0
    <3>2. \A s, t \in V : s \o t \in V
      BY ONLY <1>2, ConcatProperties
    <3> QED
      BY <3>1, <3>2
  <2> QED
    BY <1>4, <2>1
<1>6. <<>> \in V
  BY <1>2
<1>7. PICK fun \in [0 .. n -> V] : \A k \in 0 .. n : fun[k] = IF k = 0 THEN <<>> ELSE G[<<k, fun[k - 1]>>]
  <2>1. PICK a \in V : a = <<>>
    BY <1>6
  <2>2. \E fun \in [0 .. n -> V] : \A k \in 0 .. n : fun[k] = IF k = 0 THEN a ELSE G[<<k, fun[k - 1]>>]
    <3>1. RecursionUp(n, V, a, G)
      BY ONLY n \in Nat, a \in V, <1>5, RangeRecursion, Zenon
    <3> QED
      BY ONLY <3>1, Zenon DEF RecursionUp
  <2> QED
    BY <2>1, <2>2
<1>8. ASSUME NEW k \in 0 .. n PROVE fun[k] = IF k = 0 THEN <<>> ELSE parts[(n - k) + 1] \o fun[k - 1]
  <2>1. k # 0 => k \in 1 .. n /\ k - 1 \in 0 .. n
    OBVIOUS
  <2>2. k # 0 => <<k, fun[k - 1]>> \in (1 .. n) \X V
    BY <1>7, <2>1
  <2>3. k # 0 => G[<<k, fun[k - 1]>>] = parts[(n - k) + 1] \o fun[k - 1]
    BY <1>4, <2>2
  <2> QED
    BY <1>7, <2>3
<1>9. fun = [k \in 0 .. Len(parts) |-> IF k = 0 THEN <<>> ELSE parts[(Len(parts) - k) + 1] \o fun[k - 1]]
  BY <1>1, <1>7, <1>8
<1>10. R = [k \in 0 .. Len(parts) |-> IF k = 0 THEN <<>> ELSE parts[(Len(parts) - k) + 1] \o R[k - 1]]
  BY <1>9
<1>11. Rest(parts) = R
  BY DEF Rest
<1> HIDE DEF R
<1>12. \A k \in 0 .. n : R[k] = IF k = 0 THEN <<>> ELSE parts[(n - k) + 1] \o R[k - 1]
  BY <1>1, <1>10
<1>13. \A k \in 0 .. n : IsText(R[k])
  <2> DEFINE Bad == {k \in 0 .. n : ~ IsText(R[k])}
  <2> SUFFICES ASSUME Bad # {} PROVE FALSE
    OBVIOUS
  <2>1. PICK k \in Bad : \A m \in Bad : k <= m
    <3>1. Bad \subseteq Nat
      OBVIOUS
    <3> QED
      BY <3>1, SmallestNat
  <2>2. k # 0
    BY <1>12, TextOne
  <2>3. k - 1 \in 0 .. n /\ (n - k) + 1 \in 1 .. n
    BY <2>2
  <2>4. IsText(R[k - 1]) /\ IsText(parts[(n - k) + 1])
    <3>1. k - 1 \notin Bad
      BY <2>1, <2>3
    <3>2. \A i \in 1 .. n : IsText(parts[i])
      BY <1>1, PartsOver
    <3> QED
      BY <2>3, <3>1, <3>2
  <2>5. R[k] = parts[(n - k) + 1] \o R[k - 1]
    BY <1>12, <2>2
  <2>6. IsText(parts[(n - k) + 1] \o R[k - 1])
    BY ONLY <2>4, TextConcat
  <2> QED
    BY <2>5, <2>6
<1>14. 0 \in 0 .. n /\ \A k \in 1 .. n : k \in 0 .. n /\ k # 0
  OBVIOUS
<1> QED
  BY <1>1, <1>11, <1>12, <1>13, <1>14

(* FlattenSeq is the text of all the parts. *)
LEMMA FlattenIsFirst ==
  ASSUME NEW parts, IsParts(parts)
  PROVE  FlattenSeq(parts) = First(parts)[Len(parts)]
<1>1. PICK n \in Nat : n = Len(parts)
  BY PartsOver
<1>2. CASE n = 0
  <2>1. parts = <<>>
    BY <1>1, <1>2, TextLen DEF IsParts
  <2>2. First(parts)[0] = <<>>
    BY FirstIs
  <2> QED
    BY <1>1, <1>2, <2>1, <2>2 DEF FlattenSeq
<1>3. CASE n # 0
  <2> DEFINE g == [i \in 1 .. Len(parts) |-> First(parts)[i]]
             R == CHOOSE flatten : flatten = [i \in 1 .. Len(parts) |->
                             IF i = 1 THEN parts[i] ELSE flatten[i - 1] \o parts[i]]
  <2>1. First(parts)[1] = parts[1]
    <3>1. 1 \in 1 .. n /\ 1 - 1 = 0
      BY <1>3
    <3>2. First(parts)[1] = <<>> \o parts[1]
      BY <1>1, <3>1, FirstIs, ZenonT(40)
    <3>3. IsText(parts[1])
      BY <1>1, <3>1, PartsOver
    <3> QED
      BY <3>2, <3>3, TextConcat
  <2>2. ASSUME NEW i \in 1 .. n
        PROVE  g[i] = IF i = 1 THEN parts[i] ELSE g[i - 1] \o parts[i]
    <3>1. i # 1 => i - 1 \in 1 .. n
      OBVIOUS
    <3>2. First(parts)[i] = First(parts)[i - 1] \o parts[i]
      BY <1>1, FirstIs
    <3> QED
      BY <1>1, <2>1, <3>1, <3>2
  <2>3. g = [i \in 1 .. Len(parts) |-> IF i = 1 THEN parts[i] ELSE g[i - 1] \o parts[i]]
    BY <1>1, <2>2
  <2> HIDE DEF g
  <2>4. R = [i \in 1 .. Len(parts) |-> IF i = 1 THEN parts[i] ELSE R[i - 1] \o parts[i]]
    BY <2>3
  <2>5. FlattenSeq(parts) = R[Len(parts)]
    BY <1>1, <1>3 DEF FlattenSeq
  <2> HIDE DEF R
  <2>6. \A i \in 1 .. n : R[i] = IF i = 1 THEN parts[i] ELSE R[i - 1] \o parts[i]
    BY <1>1, <2>4
  <2>7. \A i \in 1 .. n : R[i] = First(parts)[i]
    <3> DEFINE Bad == {i \in 1 .. n : R[i] # First(parts)[i]}
    <3> SUFFICES ASSUME Bad # {} PROVE FALSE
      OBVIOUS
    <3>1. PICK i \in Bad : \A m \in Bad : i <= m
      <4>1. Bad \subseteq Nat
        OBVIOUS
      <4> QED
        BY <4>1, SmallestNat
    <3>2. i # 1
      BY <2>1, <2>6
    <3>3. i - 1 \in 1 .. n /\ ~ (i <= i - 1)
      BY <3>2
    <3>4. R[i - 1] = First(parts)[i - 1]
      BY <3>1, <3>3
    <3>5. First(parts)[i] = First(parts)[i - 1] \o parts[i]
      BY <1>1, FirstIs
    <3> QED
      BY <2>6, <3>2, <3>4, <3>5
  <2> QED
    BY <1>1, <1>3, <2>5, <2>7
<1> QED
  BY <1>2, <1>3

LEMMA FlattenIsRest ==
  ASSUME NEW parts, IsParts(parts)
  PROVE  FlattenSeq(parts) = Rest(parts)[Len(parts)]
<1>1. PICK n \in Nat : n = Len(parts)
  BY PartsOver
<1>2. PICK F, R : F = First(parts) /\ R = Rest(parts)
  OBVIOUS
<1>3. /\ F[0] = <<>> /\ \A k \in 1 .. n : F[k] = F[k - 1] \o parts[k]
      /\ \A k \in 0 .. n : IsText(F[k])
  BY <1>1, <1>2, FirstIs
<1>4. /\ R[0] = <<>> /\ \A k \in 1 .. n : R[k] = parts[(n - k) + 1] \o R[k - 1]
      /\ \A k \in 0 .. n : IsText(R[k])
  BY <1>1, <1>2, RestIs
<1>5. \A k \in 0 .. n : F[n] = F[k] \o R[n - k]
  <2> DEFINE Bad == {d \in 0 .. n : F[n] # F[n - d] \o R[d]}
  <2>0. Bad = {}
    <3> SUFFICES ASSUME Bad # {} PROVE FALSE
      OBVIOUS
    <3>1. PICK d \in Bad : \A m \in Bad : d <= m
      <4>1. Bad \subseteq Nat
        <5>1. 0 .. n \subseteq Nat
          OBVIOUS
        <5>2. Bad \subseteq 0 .. n
          BY ONLY TRUE
        <5> QED
          BY ONLY <5>1, <5>2
      <4> QED
        BY <4>1, SmallestNat
    <3>2. d # 0
      <4>1. IsText(F[n])
        BY <1>3
      <4>2. n - 0 = n
        OBVIOUS
      <4>3. F[n] \o <<>> = F[n]
        BY ONLY <4>1, TextConcat, TextOne
      <4>4. F[n] = F[n - 0] \o R[0]
        BY ONLY <1>4, <4>2, <4>3
      <4>5. 0 \notin Bad
        BY ONLY <4>4
      <4> QED
        BY <4>5
    <3>3. d - 1 \in 0 .. n /\ ~ (d <= d - 1) /\ d \in 1 .. n
      BY <3>2
    <3>4. PICK k \in 1 .. n : k = n - (d - 1) /\ k - 1 = n - d /\ (n - d) + 1 = k
      <4>1. n - (d - 1) \in 1 .. n /\ (n - (d - 1)) - 1 = n - d /\ (n - d) + 1 = n - (d - 1)
        BY <3>3
      <4> QED
        BY <4>1
    <3>5. F[n] = F[k] \o R[d - 1]
      <4>1. d - 1 \notin Bad
        BY <3>1, <3>3
      <4> QED
        BY <3>3, <3>4, <4>1
    <3>6. F[k] = F[n - d] \o parts[k] /\ R[d] = parts[k] \o R[d - 1]
      BY <1>3, <1>4, <3>3, <3>4
    <3>7. IsText(F[n - d]) /\ IsText(parts[k]) /\ IsText(R[d - 1])
      <4>1. n - d \in 0 .. n
        BY <3>3
      <4> QED
        BY <1>1, <1>3, <1>4, <3>3, <3>4, <4>1, PartsOver
    <3>8. PICK x, y, z : x = F[n - d] /\ y = parts[k] /\ z = R[d - 1]
      OBVIOUS
    <3>9. (x \o y) \o z = x \o (y \o z)
      <4>1. IsText(x) /\ IsText(y) /\ IsText(z)
        BY ONLY <3>7, <3>8
      <4> QED
        BY ONLY <4>1, TextAssociates
    <3> QED
      BY <3>1, <3>5, <3>6, <3>8, <3>9
  <2>1. ASSUME NEW k \in 0 .. n PROVE F[n] = F[k] \o R[n - k]
    <3>1. PICK d \in 0 .. n : d = n - k /\ n - d = k
      <4>1. n - k \in 0 .. n /\ n - (n - k) = k
        OBVIOUS
      <4> QED
        BY <4>1
    <3>2. F[n] = F[n - d] \o R[d]
      BY <2>0
    <3> QED
      BY <3>1, <3>2
  <2> QED
    BY <2>1
<1>6. F[n] = <<>> \o R[n] /\ IsText(R[n])
  <2>1. n - 0 = n /\ 0 \in 0 .. n /\ n \in 0 .. n
    OBVIOUS
  <2> QED
    BY <1>3, <1>4, <1>5, <2>1
<1>7. F[n] = R[n]
  BY <1>6, TextConcat
<1> QED
  BY <1>1, <1>2, <1>7, FlattenIsFirst

-----------------------------------------------------------------------------
(* Numbers.                                                                    *)
LEMMA TableText ==
  ASSUME NEW a, NEW b, NEW c, NEW d, NEW e, NEW g, NEW h, NEW i,
         NEW j, NEW k, NEW l, NEW m, NEW n, NEW o, NEW p, NEW q, NEW table,
         table = <<a, b, c, d, e, g, h, i, j, k, l, m, n, o, p, q>>
  PROVE  IsText(table) /\ Len(table) = 16
<1> DEFINE S == {a, b, c, d, e, g, h, i, j, k, l, m, n, o, p, q}
<1>1. table \in Seq(S) /\ Len(table) = 16
  OBVIOUS
<1> QED
  BY <1>1, TextOf

LEMMA Tables ==
  /\ \A radix \in {2, 8, 10, 16} : IsTable(radix, digit) /\ IsTable(radix, DIGIT)
<1>1. IsText(digit) /\ Len(digit) = 16
  BY TableText DEF digit
<1>2. IsText(DIGIT) /\ Len(DIGIT) = 16
  BY TableText DEF DIGIT
<1> QED
  BY <1>1, <1>2 DEF IsTable, IsText

LEMMA IntRange ==
  /\ MaxInt \in Nat /\ MinInt = -MaxInt - 1
  /\ Power(2, Width) \in Nat /\ Power(2, Width) = (2 * MaxInt) + 2
  /\ Width \in Nat \ {0}
<1>1. Width \in Nat \ {0}
  BY PrintfAssumption
<1>2. PICK w \in Nat : w = Width - 1 /\ Width = w + 1
  BY <1>1
<1>3. /\ Power(2, w) \in Nat /\ Power(2, Width) \in Nat /\ Power(2, Width) = 2 * Power(2, w)
  BY ONLY w \in Nat, Width \in Nat \ {0}, <1>1, <1>2, PowerBelow
<1>4. Power(2, w) >= 1
  BY PowerGrows
<1>5. MaxInt = Power(2, w) - 1
  BY <1>2 DEF MaxInt
<1> QED
  BY <1>1, <1>3, <1>4, <1>5 DEF MinInt

(* What the two printing functions print is the numeral asked for. *)
LEMMA NumberText ==
  ASSUME NEW radix \in {2, 8, 10, 16}, NEW table \in {digit, DIGIT}, NEW n \in MinInt .. MaxInt
  PROVE  /\ IsText(print_int(n, radix, table))
         /\ print_int(n, radix, table) = Positional(Unsigned(n), radix, table)
         /\ IsText(print_int_d(n, radix, table))
         /\ n >= 0 => /\ print_int_d(n, radix, table) = Positional(n, radix, table)
                      /\ Unsigned(n) = n
         /\ n < 0 /\ n # MinInt => print_int_d(n, radix, table) = <<"-">> \o Positional(-n, radix, table)
<1>1. IsTable(radix, table)
  BY Tables
<1>2. /\ MaxInt \in Nat /\ MinInt = -MaxInt - 1 /\ Power(2, Width) \in Nat
      /\ Power(2, Width) = (2 * MaxInt) + 2 /\ Width \in Nat \ {0}
  BY IntRange
<1>3. Unsigned(n) \in Nat /\ Unsigned(n) < Power(2, Width) /\ (n >= 0 => Unsigned(n) = n)
  BY <1>2 DEF Unsigned
<1>4. \A k \in Nat : IsText(print_int_helper(k, radix, table))
  <2> TAKE k \in Nat
  <2>1. print_int_helper(k, radix, table) \in Seq(Range(table))
    BY <1>1, HelperUnfolds
  <2> QED
    BY <2>1, TextOf
<1>5. \A k \in Nat : k < Power(2, Width) => Positional(k, radix, table) = print_int_helper(k, radix, table)
  BY <1>1, <1>2, PositionalIs
<1>6. n < 0 => -n \in Nat /\ (n # MinInt => -n < Power(2, Width))
  BY <1>2
<1>7. n >= 0 => n \in Nat /\ n < Power(2, Width)
  BY <1>2
<1>8. n \in Int
  BY <1>2
<1>9. IsText(print_int_d(n, radix, table))
  <2>1. CASE n >= 0
    BY <2>1, <1>4, <1>7 DEF print_int_d
  <2>2. CASE n < 0
    <3>1. IsText(<<"-">>) /\ IsText(print_int_helper(-n, radix, table))
      BY <2>2, <1>4, <1>6, TextOne
    <3>2. IsText(<<"-">> \o print_int_helper(-n, radix, table))
      BY ONLY <3>1, TextConcat
    <3> QED
      BY <2>2, <3>2, <1>8 DEF print_int_d
  <2> QED
    BY <1>8, <2>1, <2>2
<1> QED
  BY <1>3, <1>4, <1>5, <1>6, <1>7, <1>8, <1>9 DEF print_int, print_int_d

LEMMA SignedText ==
  ASSUME NEW n \in MinInt .. MaxInt, n # MinInt
  PROVE  IsText(Signed(n)) /\ Signed(n) = print_int_d(n, 10, digit)
<1>1. n \in Int
  BY IntRange
<1>2. 10 \in {2, 8, 10, 16} /\ digit \in {digit, DIGIT}
  OBVIOUS
<1>3. /\ IsText(print_int_d(n, 10, digit))
      /\ n >= 0 => print_int_d(n, 10, digit) = Positional(n, 10, digit)
      /\ n < 0 => print_int_d(n, 10, digit) = <<"-">> \o Positional(-n, 10, digit)
  BY ONLY <1>2, n \in MinInt .. MaxInt, n # MinInt, NumberText
<1>4. Signed(n) = print_int_d(n, 10, digit)
  <2>1. CASE n < 0
    BY ONLY <1>3, <2>1, Zenon DEF Signed
  <2>2. CASE ~ (n < 0)
    <3>1. n >= 0
      BY ONLY <1>1, <2>2
    <3> QED
      BY ONLY <1>3, <2>2, <3>1, Zenon DEF Signed
  <2> QED
    BY ONLY <2>1, <2>2
<1> QED
  BY ONLY <1>3, <1>4

-----------------------------------------------------------------------------
(* The array between its braces. *)
LEMMA ConcatenateText ==
  ASSUME NEW parts, IsParts(parts), NEW between, IsText(between)
  PROVE  IsText(Concatenate(parts, between))
<1> DEFINE R == CHOOSE joined : joined = [i \in 1 .. Len(parts) |->
                    IF i = 1 THEN parts[1] ELSE joined[i - 1] \o between \o parts[i]]
<1>1. PICK n \in Nat : n = Len(parts)
  BY PartsOver
<1>2. CASE n = 0
  <2>1. parts = <<>>
    BY <1>1, <1>2, TextLen DEF IsParts
  <2> QED
    BY <2>1, TextOne DEF Concatenate
<1>3. CASE n # 0
  <2>1. PICK V, S : V = Seq(S) /\ S = Elements(parts) \cup Range(between)
    OBVIOUS
  <2>2. between \in V /\ \A i \in 1 .. n : parts[i] \in V
    <3>1. between \in Seq(Range(between)) /\ \A i \in 1 .. n : parts[i] \in Seq(Elements(parts))
      BY <1>1, PartsOver DEF IsText
    <3>2. Range(between) \subseteq S /\ Elements(parts) \subseteq S
      BY <2>1
    <3>3. between \in Seq(S)
      BY ONLY <3>1, <3>2, SeqMonotonic
    <3>4. \A i \in 1 .. n : parts[i] \in Seq(S)
      BY ONLY <3>1, <3>2, SeqMonotonic
    <3> QED
      BY <2>1, <3>3, <3>4
  <2>3. \A s, t \in V : s \o t \in V
    BY ONLY <2>1, ConcatProperties
  <2>4. PICK a \in V : a = <<>>
    <3>1. <<>> \in Seq(S)
      BY ONLY EmptySeq
    <3> QED
      BY ONLY <2>1, <3>1
  <2>5. PICK G : G = [x \in (1 .. n) \X V |->
                        IF x[1] = 1 THEN parts[1] ELSE x[2] \o between \o parts[x[1]]]
    OBVIOUS
  <2>6. G \in [(1 .. n) \X V -> V]
    <3>1. \A x \in (1 .. n) \X V : (IF x[1] = 1 THEN parts[1] ELSE x[2] \o between \o parts[x[1]]) \in V
      <4>1. \A x \in (1 .. n) \X V : x[2] \in V /\ parts[x[1]] \in V
        BY <2>2
      <4>2. parts[1] \in V
        BY <1>3, <2>2
      <4> QED
        BY <2>2, <2>3, <4>1, <4>2
    <3> QED
      BY <2>5, <3>1
  <2>7. PICK fun \in [0 .. n -> V] : \A k \in 0 .. n : fun[k] = IF k = 0 THEN a ELSE G[<<k, fun[k - 1]>>]
    <3>1. RecursionUp(n, V, a, G)
      BY ONLY n \in Nat, a \in V, <2>6, RangeRecursion, Zenon
    <3> QED
      BY ONLY <3>1, Zenon DEF RecursionUp
  <2>8. PICK g : g = [k \in 1 .. n |-> fun[k]]
    OBVIOUS
  <2>9. ASSUME NEW i \in 1 .. n
        PROVE  g[i] = IF i = 1 THEN parts[1] ELSE g[i - 1] \o between \o parts[i]
    <3>1. i \in 0 .. n /\ i # 0 /\ i - 1 \in 0 .. n /\ (i # 1 => i - 1 \in 1 .. n)
      OBVIOUS
    <3>2. <<i, fun[i - 1]>> \in (1 .. n) \X V
      BY <2>7, <3>1
    <3>3. fun[i] = IF i = 1 THEN parts[1] ELSE fun[i - 1] \o between \o parts[i]
      BY <2>5, <2>7, <3>1, <3>2
    <3> QED
      BY <2>8, <3>1, <3>3
  <2>10. g = [i \in 1 .. Len(parts) |-> IF i = 1 THEN parts[1] ELSE g[i - 1] \o between \o parts[i]]
    BY <1>1, <2>8, <2>9
  <2>11. R = [i \in 1 .. Len(parts) |-> IF i = 1 THEN parts[1] ELSE R[i - 1] \o between \o parts[i]]
    BY <2>10
  <2>12. parts # <<>>
    BY <1>1, <1>3
  <2>13. Concatenate(parts, between) = R[Len(parts)]
    BY <2>12 DEF Concatenate
  <2> HIDE DEF R
  <2>14. \A i \in 1 .. n : R[i] = IF i = 1 THEN parts[1] ELSE R[i - 1] \o between \o parts[i]
    BY <1>1, <2>11
  <2>15. \A i \in 1 .. n : R[i] \in V
    <3> DEFINE Bad == {i \in 1 .. n : R[i] \notin V}
    <3> SUFFICES ASSUME Bad # {} PROVE FALSE
      OBVIOUS
    <3>1. PICK i \in Bad : \A m \in Bad : i <= m
      <4>1. Bad \subseteq Nat
        OBVIOUS
      <4> QED
        BY <4>1, SmallestNat
    <3>2. i # 1
      BY <1>3, <2>2, <2>14
    <3>3. i - 1 \in 1 .. n /\ ~ (i <= i - 1)
      BY <3>2
    <3>4. R[i - 1] \in V
      BY <3>1, <3>3
    <3> QED
      BY <2>2, <2>3, <2>14, <3>2, <3>4
  <2>16. R[n] \in Seq(S)
    BY <1>3, <2>1, <2>15
  <2> QED
    BY <1>1, <2>13, <2>16, TextOf
<1> QED
  BY <1>2, <1>3

LEMMA BracesText ==
  ASSUME NEW parts, IsParts(parts)
  PROVE  IsText(Braces(parts))
<1>1. IsText(Concatenate(parts, <<Comma>>))
  <2>1. IsText(<<Comma>>)
    BY TextOne
  <2> QED
    BY ONLY <2>1, IsParts(parts), ConcatenateText
<1>2. \A x, y : IsText(<<x>> \o Concatenate(parts, <<Comma>>) \o <<y>>)
  <2> TAKE x, y
  <2>1. IsText(<<x>>) /\ IsText(<<y>>)
    BY TextOne
  <2>2. IsText(<<x>> \o Concatenate(parts, <<Comma>>))
    BY ONLY <1>1, <2>1, TextConcat
  <2> QED
    BY ONLY <2>1, <2>2, TextConcat
<1> QED
  BY ONLY <1>2, Zenon DEF Braces

LEMMA ListIsParts ==
  ASSUME NEW n \in Nat, NEW g, DOMAIN g = 1 .. n, g = [i \in 1 .. n |-> g[i]],
         \A i \in 1 .. n : IsText(g[i])
  PROVE  IsParts(g)
<1>1. g \in Seq({g[i] : i \in 1 .. n})
  OBVIOUS
<1>2. IsText(g)
  BY <1>1, TextOf
<1> QED
  BY <1>2 DEF IsParts

LEMMA CopiesText ==
  ASSUME NEW c, NEW n \in Int
  PROVE  IsText(Copies(c, n))
<1>1. PICK m \in Nat : 1 .. n = 1 .. m
  <2>1. CASE n \in Nat
    BY <2>1
  <2>2. CASE n \notin Nat
    <3>1. 1 .. n = 1 .. 0
      BY <2>2
    <3> QED
      BY <3>1
  <2> QED
    BY <2>1, <2>2
<1>2. Copies(c, n) \in Seq({c})
  BY <1>1 DEF Copies
<1> QED
  BY <1>2, TextOf

-----------------------------------------------------------------------------
(* The digits of a width, and where they end.                                 *)
Figure(c) == CHOOSE d \in 0 .. 9 : digit[d + 1] = c

LEMMA FigureIs ==
  ASSUME NEW c \in Decimal
  PROVE  Figure(c) \in 0 .. 9
<1>1. \E d \in 0 .. 9 : digit[d + 1] = c
  <2>1. PICK i \in 1 .. 10 : c = digit[i]
    BY DEF Decimal
  <2>2. i - 1 \in 0 .. 9 /\ (i - 1) + 1 = i
    OBVIOUS
  <2> QED
    BY <2>1, <2>2
<1> QED
  BY <1>1 DEF Figure

LEMMA DecimalIs ==
  Decimal = {"0", "1", "2", "3", "4", "5", "6", "7", "8", "9"}
<1>1. \A i \in 1 .. 10 : i = 1 \/ i = 2 \/ i = 3 \/ i = 4 \/ i = 5 \/ i = 6 \/ i = 7 \/ i = 8 \/ i = 9 \/ i = 10
  OBVIOUS
<1>2. /\ digit[1] = "0" /\ digit[2] = "1" /\ digit[3] = "2" /\ digit[4] = "3" /\ digit[5] = "4"
      /\ digit[6] = "5" /\ digit[7] = "6" /\ digit[8] = "7" /\ digit[9] = "8" /\ digit[10] = "9"
  BY DEF digit
<1>3. 1 \in 1 .. 10 /\ 2 \in 1 .. 10 /\ 3 \in 1 .. 10 /\ 4 \in 1 .. 10 /\ 5 \in 1 .. 10 /\ 6 \in 1 .. 10
      /\ 7 \in 1 .. 10 /\ 8 \in 1 .. 10 /\ 9 \in 1 .. 10 /\ 10 \in 1 .. 10
  OBVIOUS
<1>4. \A c : c \in Decimal <=> \E i \in 1 .. 10 : c = digit[i]
  BY DEF Decimal
<1>5. ASSUME NEW c \in Decimal PROVE c \in {"0", "1", "2", "3", "4", "5", "6", "7", "8", "9"}
  BY <1>1, <1>2, <1>4
<1>6. ASSUME NEW c \in {"0", "1", "2", "3", "4", "5", "6", "7", "8", "9"} PROVE c \in Decimal
  BY <1>2, <1>3, <1>4
<1> QED
  BY <1>5, <1>6

LEMMA WidthUnfolds ==
  ASSUME NEW start \in Nat, NEW figures, IsText(figures),
         \A i \in 1 .. Len(figures) : figures[i] \in Layout
  PROVE  \E R : /\ ReadWidth(start, figures) = R[Len(figures)] /\ R[0] = start
                /\ \A i \in 1 .. Len(figures) :
                     R[i] = IF figures[i] = "-" THEN R[i - 1] ELSE 10 * R[i - 1] + Figure(figures[i])
                /\ \A i \in 0 .. Len(figures) : R[i] \in Nat
<1> DEFINE R == CHOOSE value : value = [i \in 0 .. Len(figures) |->
                  IF i = 0 THEN start
                  ELSE IF figures[i] = "-" THEN value[i - 1]
                  ELSE 10 * value[i - 1] + (CHOOSE d \in 0 .. 9 : digit[d + 1] = figures[i])]
<1>1. PICK n \in Nat : n = Len(figures)
  BY TextLen
<1>2. \A i \in 1 .. n : figures[i] # "-" => Figure(figures[i]) \in Nat
  <2> TAKE i \in 1 .. n
  <2>1. figures[i] # "-" => figures[i] \in Decimal
    BY <1>1 DEF Layout
  <2>2. figures[i] \in Decimal => Figure(figures[i]) \in 0 .. 9
    BY FigureIs
  <2> QED
    BY <2>1, <2>2
<1>3. PICK G : G = [x \in (1 .. n) \X Nat |->
                      IF figures[x[1]] = "-" THEN x[2] ELSE 10 * x[2] + Figure(figures[x[1]])]
  OBVIOUS
<1>4. G \in [(1 .. n) \X Nat -> Nat]
  <2>1. \A x \in (1 .. n) \X Nat :
          (IF figures[x[1]] = "-" THEN x[2] ELSE 10 * x[2] + Figure(figures[x[1]])) \in Nat
    BY <1>2
  <2> QED
    BY <1>3, <2>1
<1>5. PICK fun \in [0 .. n -> Nat] : \A k \in 0 .. n : fun[k] = IF k = 0 THEN start ELSE G[<<k, fun[k - 1]>>]
  <2>1. RecursionUp(n, Nat, start, G)
    BY <1>4, RangeRecursion
  <2> QED
    BY <2>1 DEF RecursionUp
<1>6. ASSUME NEW k \in 0 .. n
      PROVE  fun[k] = IF k = 0 THEN start ELSE IF figures[k] = "-" THEN fun[k - 1]
                    ELSE 10 * fun[k - 1] + Figure(figures[k])
  <2>1. k # 0 => k \in 1 .. n /\ k - 1 \in 0 .. n
    OBVIOUS
  <2>2. k # 0 => <<k, fun[k - 1]>> \in (1 .. n) \X Nat
    BY <1>5, <2>1
  <2>3. k # 0 => G[<<k, fun[k - 1]>>] = IF figures[k] = "-" THEN fun[k - 1]
                                       ELSE 10 * fun[k - 1] + Figure(figures[k])
    BY <1>3, <2>2
  <2> QED
    BY <1>5, <2>3
<1>7. fun = [i \in 0 .. Len(figures) |->
             IF i = 0 THEN start
             ELSE IF figures[i] = "-" THEN fun[i - 1]
             ELSE 10 * fun[i - 1] + (CHOOSE d \in 0 .. 9 : digit[d + 1] = figures[i])]
  <2>1. fun = [i \in 0 .. n |-> IF i = 0 THEN start ELSE IF figures[i] = "-" THEN fun[i - 1]
                              ELSE 10 * fun[i - 1] + Figure(figures[i])]
    BY <1>5, <1>6
  <2> QED
    BY ONLY <1>1, <2>1 DEF Figure
<1>8. R = [i \in 0 .. Len(figures) |->
             IF i = 0 THEN start
             ELSE IF figures[i] = "-" THEN R[i - 1]
             ELSE 10 * R[i - 1] + (CHOOSE d \in 0 .. 9 : digit[d + 1] = figures[i])]
  BY ONLY <1>7
<1>9. ReadWidth(start, figures) = R[Len(figures)]
  BY DEF ReadWidth
<1> HIDE DEF R
<1>10. R = [i \in 0 .. n |-> IF i = 0 THEN start ELSE IF figures[i] = "-" THEN R[i - 1]
                             ELSE 10 * R[i - 1] + Figure(figures[i])]
  BY ONLY <1>1, <1>8 DEF Figure
<1>11. \A i \in 0 .. n : R[i] = IF i = 0 THEN start ELSE IF figures[i] = "-" THEN R[i - 1]
                             ELSE 10 * R[i - 1] + Figure(figures[i])
  BY ONLY <1>10
<1>12. \A i \in 0 .. n : R[i] \in Nat
  <2> DEFINE Bad == {i \in 0 .. n : R[i] \notin Nat}
  <2> SUFFICES ASSUME Bad # {} PROVE FALSE
    OBVIOUS
  <2>1. PICK i \in Bad : \A m \in Bad : i <= m
    <3>1. Bad \subseteq Nat
      OBVIOUS
    <3> QED
      BY <3>1, SmallestNat
  <2>2. i # 0
    BY <1>11
  <2>3. i - 1 \in 0 .. n /\ i \in 1 .. n /\ ~ (i <= i - 1)
    BY <2>2
  <2>4. R[i - 1] \in Nat
    BY <2>1, <2>3
  <2>5. R[i] = IF figures[i] = "-" THEN R[i - 1] ELSE 10 * R[i - 1] + Figure(figures[i])
    BY <1>11, <2>2
  <2>6. figures[i] # "-" => Figure(figures[i]) \in Nat
    BY <1>2, <2>3
  <2>7. PICK r \in Nat : r = R[i - 1]
    BY <2>4
  <2>8. R[i] \in Nat
    <3>1. CASE figures[i] = "-"
      BY ONLY <2>4, <2>5, <3>1
    <3>2. CASE figures[i] # "-"
      <4>1. PICK x \in Nat : x = Figure(figures[i])
        BY ONLY <2>6, <3>2
      <4>2. R[i] = 10 * r + x
        BY ONLY <2>5, <2>7, <3>2, <4>1
      <4>3. 10 * r + x \in Nat
        OBVIOUS
      <4> QED
        BY ONLY <4>2, <4>3
    <3> QED
      BY ONLY <3>1, <3>2
  <2> QED
    BY <2>8
<1>13. 0 \in 0 .. n /\ \A i \in 1 .. n : i \in 0 .. n /\ i # 0
  OBVIOUS
<1> QED
  BY <1>1, <1>9, <1>11, <1>12, <1>13

LEMMA WidthIsNat ==
  ASSUME NEW start \in Nat, NEW figures, IsText(figures),
         \A i \in 1 .. Len(figures) : figures[i] \in Layout
  PROVE  ReadWidth(start, figures) \in Nat
<1>1. PICK R : /\ ReadWidth(start, figures) = R[Len(figures)]
               /\ \A i \in 0 .. Len(figures) : R[i] \in Nat
  BY WidthUnfolds
<1>2. Len(figures) \in 0 .. Len(figures)
  BY TextLen
<1> QED
  BY <1>1, <1>2

(* A sign does not count. *)
LEMMA WidthBehindMinus ==
  ASSUME NEW start \in Nat, NEW figures, IsText(figures), figures # <<>>, figures[1] = "-",
         \A i \in 1 .. Len(figures) : figures[i] \in Layout
  PROVE  ReadWidth(start, figures) = ReadWidth(start, Tail(figures))
<1>10. PICK n \in Nat : n + 1 = Len(figures)
  <2>1. Len(figures) - 1 \in Nat /\ (Len(figures) - 1) + 1 = Len(figures)
    BY TextTail
  <2> QED
    BY <2>1
<1>1. PICK t : n + 1 = Len(figures) /\ t = Tail(figures)
  BY <1>10
<1>2. IsText(t) /\ Len(t) = n /\ \A i \in 1 .. n : t[i] = figures[i + 1]
  BY <1>1, TextTail
<1>3. \A i \in 1 .. Len(t) : t[i] \in Layout
  <2>1. \A i \in 1 .. n : i + 1 \in 1 .. Len(figures)
    BY <1>1
  <2> QED
    BY <1>2, <2>1
<1>4. PICK R : /\ ReadWidth(start, figures) = R[Len(figures)] /\ R[0] = start
               /\ \A i \in 1 .. Len(figures) :
                     R[i] = IF figures[i] = "-" THEN R[i - 1] ELSE 10 * R[i - 1] + Figure(figures[i])
               /\ \A i \in 0 .. Len(figures) : R[i] \in Nat
  BY WidthUnfolds
<1>5. PICK Q : /\ ReadWidth(start, t) = Q[Len(t)] /\ Q[0] = start
               /\ \A i \in 1 .. Len(t) :
                     Q[i] = IF t[i] = "-" THEN Q[i - 1] ELSE 10 * Q[i - 1] + Figure(t[i])
               /\ \A i \in 0 .. Len(t) : Q[i] \in Nat
  BY ONLY start \in Nat, <1>2, <1>3, WidthUnfolds
<1>6. \A i \in 0 .. n : Q[i] = R[i + 1]
  <2> DEFINE Bad == {i \in 0 .. n : Q[i] # R[i + 1]}
  <2> SUFFICES ASSUME Bad # {} PROVE FALSE
    OBVIOUS
  <2>1. PICK i \in Bad : \A m \in Bad : i <= m
    <3>1. Bad \subseteq Nat
      OBVIOUS
    <3> QED
      BY <3>1, SmallestNat
  <2>2. i # 0
    <3>1. 1 \in 1 .. Len(figures) /\ 1 - 1 = 0 /\ 0 + 1 = 1
      BY <1>1
    <3>2. Q[0] = R[0 + 1]
      BY <1>4, <1>5, <3>1
    <3> QED
      BY <3>2
  <2>3. i - 1 \in 0 .. n /\ i \in 1 .. n /\ ~ (i <= i - 1) /\ (i - 1) + 1 = i
    BY <2>2
  <2>4. Q[i - 1] = R[i]
    BY <2>1, <2>3
  <2>5. i + 1 \in 1 .. Len(figures) /\ (i + 1) - 1 = i
    BY <1>1, <2>3
  <2>6. R[i + 1] = IF figures[i + 1] = "-" THEN R[i] ELSE 10 * R[i] + Figure(figures[i + 1])
    BY <1>4, <2>5
  <2>7. Q[i] = IF t[i] = "-" THEN Q[i - 1] ELSE 10 * Q[i - 1] + Figure(t[i])
    BY <1>2, <1>5, <2>3
  <2>8. t[i] = figures[i + 1]
    BY <1>2, <2>3
  <2>9. Q[i] = R[i + 1]
    BY <2>4, <2>6, <2>7, <2>8
  <2> QED
    BY <2>9
<1> QED
  BY <1>1, <1>2, <1>4, <1>5, <1>6

LEMMA BehindIs ==
  ASSUME NEW u, IsText(u), NEW k \in 1 .. Len(u)
  PROVE  /\ (\A i \in 1 .. k - 1 : u[i] \in Decimal) /\ u[k] \notin Decimal => Behind(u) = k
         /\ (\A i \in 1 .. k - 1 : u[i] \in Layout) /\ u[k] \notin Layout => Behind9(u) = k
<1> DEFINE B(S) == {i \in 1 .. Len(u) : u[i] \notin S}
<1>1. Len(u) \in Nat
  BY TextLen
<1>2. ASSUME NEW S, \A i \in 1 .. k - 1 : u[i] \in S, u[k] \notin S
      PROVE  B(S) # {} /\ Min(B(S)) = k
  <2>1. k \in B(S)
    BY <1>2
  <2>2. \A i \in B(S) : k <= i
    <3> TAKE i \in B(S)
    <3>1. i \in 1 .. Len(u) /\ i \notin 1 .. k - 1
      BY <1>2
    <3> QED
      BY <1>1, <3>1
  <2>3. B(S) \subseteq Nat
    BY <1>1
  <2> HIDE DEF B
  <2>4. Min(B(S)) \in B(S) /\ Min(B(S)) <= k
    BY <2>1, <2>3, MinIsSmallest
  <2>5. k <= Min(B(S)) /\ Min(B(S)) \in Nat /\ k \in Nat
    BY <2>1, <2>2, <2>3, <2>4
  <2> QED
    BY <2>1, <2>4, <2>5
<1> QED
  BY <1>2 DEF Behind, Behind9, SelectInSeq

LEMMA NothingBehind ==
  ASSUME NEW u, IsText(u)
  PROVE  /\ (\A i \in 1 .. Len(u) : u[i] \in Decimal) => Behind(u) = 0
         /\ (\A i \in 1 .. Len(u) : u[i] \in Layout) => Behind9(u) = 0
BY DEF Behind, Behind9, SelectInSeq

-----------------------------------------------------------------------------
(* The items of a call.                                                        *)
AllArguments(s) == \A i \in DOMAIN s : IsArgument(s[i])

Plain == {"%", "s"} \cup IntDirectives
Kept == {"literal", "unknown", "broken"} \cup Plain \cup Arrays \cup Widths

LEMMA ConvSets ==
  /\ IntDirectives = {"d", "b", "o", "u", "x", "X", "c"}
  /\ DOMAIN ArrayKind = Arrays /\ DOMAIN WideKind = Widths
  /\ Arrays = {"Ad", "As", "Ax", "Ac"} /\ Widths = {"wd", "ws", "wx"}
  /\ ArrayKind["Ad"] = "d" /\ ArrayKind["As"] = "s" /\ ArrayKind["Ax"] = "x" /\ ArrayKind["Ac"] = "c"
  /\ WideKind["wd"] = "d" /\ WideKind["ws"] = "s" /\ WideKind["wx"] = "x"
BY DEF IntDirectives, ArrayKind, WideKind, Arrays, Widths

(* The nine forms of an item. *)
LEMMA ItemForms ==
  ASSUME NEW item, IsItem(item)
  PROVE  /\ item.conv \in Kept
         /\ item.conv = "literal" => Len(item.fs) = 1 /\ item.fs[1] # "%" /\ Takes(item, <<>>)
         /\ item.conv = "%" => item.fs = <<"%", item.conv>> /\ Takes(item, <<>>)
         /\ item.conv \in IntDirectives => item.fs = <<"%", item.conv>> /\ Takes(item, <<"int">>)
         /\ item.conv = "s" => item.fs = <<"%", item.conv>> /\ Takes(item, <<"string">>)
         /\ item.conv \in Arrays =>
              /\ item.fs = <<"%", "A", ArrayKind[item.conv]>>
              /\ Takes(item, <<"int">>) /\ item.args[1].int \in 0..Len(ArrayOf(ArrayKind[item.conv]))
         /\ item.conv \in Widths =>
              /\ Len(item.fs) > 2 /\ item.fs[1] = "%" /\ item.fs[Len(item.fs)] = WideKind[item.conv]
              /\ IsLayout(Figures(item), item.left) /\ item.w = ReadWidth(0, Figures(item))
              /\ item.left <=> item.fs[2] = "-"
              /\ item.left => Len(item.fs) > 3
              /\ Takes(item, <<IF item.conv = "ws" THEN "string" ELSE "int">>)
         /\ item.conv = "unknown" =>
              /\ Len(item.fs) = 2 /\ item.fs[1] = "%" /\ item.fs[2] \notin Directives /\ Takes(item, <<>>)
         /\ item.conv = "broken" =>
              /\ Len(item.fs) > 0 /\ item.fs[1] = "%"
              /\ item.fs = <<"%", "A">> \/ IsLayout(Figures(item), TRUE)
              /\ Takes(item, <<>>)
<1> DEFINE L == item.conv = "literal" /\ Len(item.fs) = 1 /\ item.fs[1] # "%" /\ Takes(item, <<>>)
           P == item.conv = "%" /\ item.fs = <<"%", "%">> /\ Takes(item, <<>>)
           I == item.conv \in IntDirectives /\ item.fs = <<"%", item.conv>> /\ Takes(item, <<"int">>)
           S == item.conv = "s" /\ item.fs = <<"%", "s">> /\ Takes(item, <<"string">>)
           A == /\ item.conv \in Arrays /\ item.fs = <<"%", "A", ArrayKind[item.conv]>>
                /\ Takes(item, <<"int">>) /\ item.args[1].int \in 0..Len(ArrayOf(ArrayKind[item.conv]))
           W == /\ item.conv \in Widths /\ Len(item.fs) > 2
                /\ item.fs[1] = "%" /\ item.fs[Len(item.fs)] = WideKind[item.conv]
                /\ IsLayout(Figures(item), item.left) /\ item.w = ReadWidth(0, Figures(item))
                /\ item.left <=> item.fs[2] = "-"
                /\ item.left => Len(item.fs) > 3
                /\ Takes(item, <<IF item.conv = "ws" THEN "string" ELSE "int">>)
           U == /\ item.conv = "unknown" /\ Len(item.fs) = 2
                /\ item.fs[1] = "%" /\ item.fs[2] \notin Directives /\ Takes(item, <<>>)
           B == /\ item.conv = "broken" /\ Len(item.fs) > 0 /\ item.fs[1] = "%"
                /\ item.fs = <<"%", "A">> \/ IsLayout(Figures(item), TRUE)
                /\ Takes(item, <<>>)
<1>1. L \/ P \/ I \/ S \/ A \/ W \/ U \/ B
  BY ConvSets, Zenon DEF IsItem
<1>2. /\ IntDirectives = {"d", "b", "o", "u", "x", "X", "c"}
      /\ Arrays = {"Ad", "As", "Ax", "Ac"} /\ Widths = {"wd", "ws", "wx"}
  BY ConvSets
<1>3. CASE L
  <2>1. /\ item.conv = "literal" /\ item.conv \notin IntDirectives /\ item.conv \notin Arrays
        /\ item.conv \notin Widths /\ item.conv \in Kept
    BY <1>2, <1>3 DEF Kept
  <2> QED
    BY <1>3, <2>1
<1>4. CASE P
  <2>1. /\ item.conv = "%" /\ item.conv \notin IntDirectives /\ item.conv \notin Arrays
        /\ item.conv \notin Widths /\ item.conv \in Kept
    BY <1>2, <1>4 DEF Kept, Plain
  <2> QED
    BY <1>4, <2>1
<1>5. CASE I
  <2>1. /\ item.conv \notin {"literal", "%", "s", "unknown", "broken"} /\ item.conv \notin Arrays
        /\ item.conv \notin Widths /\ item.conv \in Kept
    BY <1>2, <1>5 DEF Kept, Plain
  <2> QED
    BY <1>5, <2>1
<1>6. CASE S
  <2>1. /\ item.conv = "s" /\ item.conv \notin IntDirectives /\ item.conv \notin Arrays
        /\ item.conv \notin Widths /\ item.conv \in Kept
    BY <1>2, <1>6 DEF Kept, Plain
  <2> QED
    BY <1>6, <2>1
<1>7. CASE A
  <2>1. /\ item.conv \notin {"literal", "%", "s", "unknown", "broken"} /\ item.conv \notin IntDirectives
        /\ item.conv \notin Widths /\ item.conv \in Kept
    BY <1>2, <1>7 DEF Kept, Plain
  <2> QED
    BY <1>7, <2>1
<1>8. CASE W
  <2>1. /\ item.conv \notin {"literal", "%", "s", "unknown", "broken"} /\ item.conv \notin IntDirectives
        /\ item.conv \notin Arrays /\ item.conv \in Kept
    BY <1>2, <1>8 DEF Kept, Plain
  <2> QED
    BY <1>8, <2>1
<1>9. CASE U
  <2>1. /\ item.conv = "unknown" /\ item.conv \notin IntDirectives /\ item.conv \notin Arrays
        /\ item.conv \notin Widths /\ item.conv \in Kept
    BY <1>2, <1>9 DEF Kept, Plain
  <2> QED
    BY <1>9, <2>1
<1>10. CASE B
  <2>1. /\ item.conv = "broken" /\ item.conv \notin IntDirectives /\ item.conv \notin Arrays
        /\ item.conv \notin Widths /\ item.conv \in Kept
    BY <1>2, <1>10 DEF Kept, Plain
  <2> QED
    BY <1>10, <2>1
<1> QED
  BY <1>1, <1>3, <1>4, <1>5, <1>6, <1>7, <1>8, <1>9, <1>10

LEMMA ItemTexts ==
  ASSUME NEW item, IsItem(item)
  PROVE  /\ IsText(item.fs) /\ Len(item.fs) \in Nat \ {0}
         /\ item.conv = "literal" \/ item.fs[1] = "%"
         /\ IsText(item.args) /\ AllArguments(item.args)
<1>1. IsText(item.fs)
  BY DEF IsItem
<1>2. \E kinds : Takes(item, kinds)
  BY Zenon DEF IsItem
<1>3. IsText(item.args) /\ AllArguments(item.args)
  BY <1>2 DEF Takes, AllArguments
<1>4. Len(item.fs) \in Nat
  BY <1>1, TextLen
<1>5. \A a, b, c : Len(<<a, b>>) = 2 /\ Len(<<a, b, c>>) = 3 /\ <<a, b>>[1] = a /\ <<a, b, c>>[1] = a
  OBVIOUS
<1>6. Len(item.fs) > 0 /\ (item.conv = "literal" \/ item.fs[1] = "%")
  <2>1. item.conv \in {"literal", "%", "s", "unknown", "broken"} \cup IntDirectives \cup Arrays \cup Widths
    BY ItemForms DEF Kept, Plain
  <2>2. CASE item.conv = "literal"
    <3>1. Len(item.fs) = 1
      BY ONLY IsItem(item), <2>2, ItemForms
    <3> QED
      BY <2>2, <3>1
  <2>3. CASE item.conv \in {"%", "s"} \cup IntDirectives
    <3>1. item.fs = <<"%", item.conv>>
      BY <2>3, ItemForms
    <3> QED
      BY <1>5, <3>1
  <2>4. CASE item.conv \in Arrays
    <3>1. item.fs = <<"%", "A", ArrayKind[item.conv]>>
      BY <2>4, ItemForms
    <3> QED
      BY <1>5, <3>1
  <2>5. CASE item.conv \in Widths
    <3>1. Len(item.fs) > 2 /\ item.fs[1] = "%"
      BY <2>5, ItemForms
    <3> QED
      BY <1>4, <3>1
  <2>6. CASE item.conv = "unknown"
    <3>1. Len(item.fs) = 2 /\ item.fs[1] = "%"
      BY ONLY IsItem(item), <2>6, ItemForms
    <3> QED
      BY <3>1
  <2>7. CASE item.conv = "broken"
    BY <2>7, ItemForms
  <2> QED
    BY <2>1, <2>2, <2>3, <2>4, <2>5, <2>6, <2>7
<1> QED
  BY <1>1, <1>3, <1>4, <1>6

LEMMA TakesNone ==
  ASSUME NEW item, Takes(item, <<>>)
  PROVE  item.args = <<>>
BY TextLen DEF Takes

LEMMA TakesOne ==
  ASSUME NEW item, NEW k, Takes(item, <<k>>), NEW t, IsText(t)
  PROVE  /\ item.args \o t # <<>> /\ Head(item.args \o t) = item.args[1] /\ Tail(item.args \o t) = t
         /\ IsArgument(item.args[1]) /\ item.args[1].kind = k
<1>1. IsText(item.args) /\ Len(item.args) = 1
  BY DEF Takes
<1>2. item.args # <<>> /\ 1 \in DOMAIN item.args
  BY <1>1, TextLen
<1>3. /\ item.args \o t # <<>> /\ Head(item.args \o t) = item.args[1]
      /\ Tail(item.args \o t) = Tail(item.args) \o t
  BY ONLY <1>1, <1>2, IsText(t), HeadOfConcat
<1>4. IsText(Tail(item.args)) /\ Len(Tail(item.args)) = 0
  <2>1. IsText(Tail(item.args)) /\ Len(Tail(item.args)) = Len(item.args) - 1
    BY ONLY <1>1, <1>2, TextTail
  <2> QED
    BY <1>1, <2>1
<1>5. Tail(item.args) = <<>>
  BY ONLY <1>4, TextLen
<1>6. <<>> \o t = t
  BY ONLY IsText(t), TextConcat
<1>7. IsArgument(item.args[1]) /\ item.args[1].kind = k
  <2>1. 1 \in DOMAIN <<k>> /\ <<k>>[1] = k
    OBVIOUS
  <2> QED
    BY <1>2, <2>1 DEF Takes
<1> QED
  BY <1>3, <1>5, <1>6, <1>7

-----------------------------------------------------------------------------
Formats(items) == [i \in DOMAIN items |-> items[i].fs]
Arguments(items) == [i \in DOMAIN items |-> items[i].args]

(* What is behind item i in the format and in the arguments. *)
FsFrom(items, i) == Rest(Formats(items))[Len(items) - i]
ArgsFrom(items, i) == Rest(Arguments(items))[Len(items) - i]

IsCall(items) == items \in Calls \cup {<<>>}

LEMMA CallItems ==
  ASSUME NEW items, IsCall(items)
  PROVE  /\ IsText(items) /\ Len(items) \in Nat /\ DOMAIN items = 1 .. Len(items)
         /\ \A i \in 1 .. Len(items) : IsItem(items[i]) /\ (items[i].conv = "broken" => i = Len(items))
<1>1. CASE items = <<>>
  <2>1. IsText(items) /\ Len(items) = 0
    BY ONLY <1>1, TextOne
  <2>2. DOMAIN items = 1 .. Len(items)
    BY ONLY <2>1, TextLen
  <2>3. \A i \in 1 .. 0 : FALSE
    OBVIOUS
  <2> QED
    BY ONLY <2>1, <2>2, <2>3
<1>2. CASE items \in Calls
  <2>1. /\ IsText(items) /\ \A i \in DOMAIN items : IsItem(items[i])
        /\ \A i \in DOMAIN items : items[i].conv = "broken" => i = Len(items)
    BY <1>2, PrintfAssumption
  <2>2. Len(items) \in Nat /\ DOMAIN items = 1 .. Len(items)
    BY <2>1, TextLen
  <2> QED
    BY <2>1, <2>2
<1> QED
  BY <1>1, <1>2 DEF IsCall

LEMMA RestOfParts ==
  ASSUME NEW parts, IsParts(parts)
  PROVE  /\ Rest(parts)[Len(parts) - 0] = FlattenSeq(parts)
         /\ Rest(parts)[Len(parts) - Len(parts)] = <<>>
         /\ \A i \in 1 .. Len(parts) : Rest(parts)[Len(parts) - (i - 1)] = parts[i] \o Rest(parts)[Len(parts) - i]
         /\ \A i \in 0 .. Len(parts) : IsText(Rest(parts)[Len(parts) - i])
<1>10. PICK n \in Nat : n = Len(parts)
  BY PartsOver
<1>1. PICK R : n = Len(parts) /\ R = Rest(parts)
  BY <1>10
<1>2. /\ R[0] = <<>> /\ \A k \in 1 .. n : R[k] = parts[(n - k) + 1] \o R[k - 1]
      /\ \A k \in 0 .. n : IsText(R[k])
  BY <1>1, RestIs
<1>3. R[n] = FlattenSeq(parts)
  BY <1>1, FlattenIsRest
<1>4. n - 0 = n /\ n - n = 0 /\ \A i \in 0 .. n : n - i \in 0 .. n
  OBVIOUS
<1>5. \A i \in 1 .. n : R[n - (i - 1)] = parts[i] \o R[n - i]
  <2> TAKE i \in 1 .. n
  <2>1. PICK k \in 1 .. n : k = n - (i - 1) /\ (n - k) + 1 = i /\ k - 1 = n - i
    <3>1. n - (i - 1) \in 1 .. n /\ (n - (n - (i - 1))) + 1 = i /\ (n - (i - 1)) - 1 = n - i
      OBVIOUS
    <3> QED
      BY <3>1
  <2> QED
    BY <1>2, <2>1
<1> QED
  BY <1>1, <1>2, <1>3, <1>4, <1>5

LEMMA CallRest ==
  ASSUME NEW items, IsCall(items)
  PROVE  /\ FsFrom(items, 0) = FlattenSeq(Formats(items)) /\ FsFrom(items, Len(items)) = <<>>
         /\ ArgsFrom(items, 0) = FlattenSeq(Arguments(items))
         /\ \A i \in 1 .. Len(items) :
              /\ FsFrom(items, i - 1) = items[i].fs \o FsFrom(items, i)
              /\ ArgsFrom(items, i - 1) = items[i].args \o ArgsFrom(items, i)
         /\ \A i \in 0 .. Len(items) : IsText(FsFrom(items, i)) /\ IsText(ArgsFrom(items, i))
<1>1. /\ Len(items) \in Nat /\ DOMAIN items = 1 .. Len(items)
      /\ \A i \in 1 .. Len(items) : IsItem(items[i])
  BY CallItems
<1>2. \A i \in 1 .. Len(items) : IsText(items[i].fs) /\ IsText(items[i].args)
  BY <1>1, ItemTexts
<1>3. IsParts(Formats(items)) /\ Len(Formats(items)) = Len(items)
  <2>10. PICK n \in Nat : n = Len(items)
    BY <1>1
  <2>1. PICK g : n = Len(items) /\ g = Formats(items)
    BY <2>10
  <2>2. DOMAIN g = 1 .. n /\ g = [i \in 1 .. n |-> g[i]] /\ \A i \in 1 .. n : IsText(g[i])
    BY <1>1, <1>2, <2>1 DEF Formats
  <2>3. IsParts(g)
    BY ONLY n \in Nat, <2>2, ListIsParts
  <2>4. Len(g) = n
    BY <2>2
  <2> QED
    BY <2>1, <2>3, <2>4
<1>4. IsParts(Arguments(items)) /\ Len(Arguments(items)) = Len(items)
  <2>10. PICK n \in Nat : n = Len(items)
    BY <1>1
  <2>1. PICK g : n = Len(items) /\ g = Arguments(items)
    BY <2>10
  <2>2. DOMAIN g = 1 .. n /\ g = [i \in 1 .. n |-> g[i]] /\ \A i \in 1 .. n : IsText(g[i])
    BY <1>1, <1>2, <2>1 DEF Arguments
  <2>3. IsParts(g)
    BY ONLY n \in Nat, <2>2, ListIsParts
  <2>4. Len(g) = n
    BY <2>2
  <2> QED
    BY <2>1, <2>3, <2>4
<1>5. \A i \in 1 .. Len(items) : Formats(items)[i] = items[i].fs /\ Arguments(items)[i] = items[i].args
  BY <1>1 DEF Formats, Arguments
<1>6. /\ FsFrom(items, 0) = FlattenSeq(Formats(items)) /\ FsFrom(items, Len(items)) = <<>>
      /\ \A i \in 1 .. Len(items) : FsFrom(items, i - 1) = Formats(items)[i] \o FsFrom(items, i)
      /\ \A i \in 0 .. Len(items) : IsText(FsFrom(items, i))
  <2>1. PICK p, n : p = Formats(items) /\ n = Len(items) /\ n = Len(p) /\ IsParts(p)
    BY <1>3
  <2>2. /\ Rest(p)[n - 0] = FlattenSeq(p) /\ Rest(p)[n - n] = <<>>
        /\ \A i \in 1 .. n : Rest(p)[n - (i - 1)] = p[i] \o Rest(p)[n - i]
        /\ \A i \in 0 .. n : IsText(Rest(p)[n - i])
    BY ONLY <2>1, RestOfParts
  <2> QED
    BY ONLY <2>1, <2>2 DEF FsFrom
<1>7. /\ ArgsFrom(items, 0) = FlattenSeq(Arguments(items))
      /\ \A i \in 1 .. Len(items) : ArgsFrom(items, i - 1) = Arguments(items)[i] \o ArgsFrom(items, i)
      /\ \A i \in 0 .. Len(items) : IsText(ArgsFrom(items, i))
  <2>1. PICK p, n : p = Arguments(items) /\ n = Len(items) /\ n = Len(p) /\ IsParts(p)
    BY <1>4
  <2>2. /\ Rest(p)[n - 0] = FlattenSeq(p)
        /\ \A i \in 1 .. n : Rest(p)[n - (i - 1)] = p[i] \o Rest(p)[n - i]
        /\ \A i \in 0 .. n : IsText(Rest(p)[n - i])
    BY ONLY <2>1, RestOfParts
  <2> QED
    BY ONLY <2>1, <2>2 DEF ArgsFrom
<1> QED
  BY <1>5, <1>6, <1>7

(* All that is behind an item are arguments. *)
LEMMA AllArgumentsFrom ==
  ASSUME NEW items, IsCall(items)
  PROVE  \A i \in 0 .. Len(items) : AllArguments(ArgsFrom(items, i))
<1>1. PICK n \in Nat : n = Len(items)
  BY CallItems
<1>2. \A s, t : IsText(s) /\ IsText(t) /\ AllArguments(s) /\ AllArguments(t) => AllArguments(s \o t)
  <2> SUFFICES ASSUME NEW s, NEW t, IsText(s), IsText(t), AllArguments(s), AllArguments(t)
               PROVE  AllArguments(s \o t)
    BY Zenon
  <2>0. PICK m \in Nat, k \in Nat : m = Len(s) /\ k = Len(t)
    BY TextLen
  <2>1. PICK u : u = s \o t /\ m = Len(s) /\ k = Len(t)
    BY <2>0
  <2>2. /\ IsText(u) /\ Len(u) = m + k
        /\ \A i \in 1 .. m : u[i] = s[i]
        /\ \A i \in 1 .. k : u[m + i] = t[i]
    BY <2>1, TextConcat
  <2>3. DOMAIN s = 1 .. m /\ DOMAIN t = 1 .. k /\ DOMAIN u = 1 .. m + k
    BY <2>1, <2>2, TextLen
  <2>4. ASSUME NEW i \in 1 .. m + k PROVE IsArgument(u[i])
    <3>1. CASE i <= m
      BY <2>2, <2>3, <3>1 DEF AllArguments
    <3>2. CASE ~ (i <= m)
      <4>1. i - m \in 1 .. k /\ m + (i - m) = i
        BY <3>2
      <4> QED
        BY <2>2, <2>3, <4>1 DEF AllArguments
    <3> QED
      BY <3>1, <3>2
  <2> QED
    BY <2>1, <2>3, <2>4 DEF AllArguments
<1>3. \A d \in 0 .. n : AllArguments(ArgsFrom(items, n - d))
  <2> DEFINE Bad == {d \in 0 .. n : ~ AllArguments(ArgsFrom(items, n - d))}
  <2> SUFFICES ASSUME Bad # {} PROVE FALSE
    OBVIOUS
  <2>1. PICK d \in Bad : \A m \in Bad : d <= m
    <3>1. Bad \subseteq Nat
      OBVIOUS
    <3> QED
      BY <3>1, SmallestNat
  <2>2. d # 0
    <3>1. ArgsFrom(items, n - 0) = <<>>
      <4>1. n - 0 = n /\ n - n = 0
        OBVIOUS
      <4>2. ArgsFrom(items, n) = Rest(Arguments(items))[0]
        BY ONLY <1>1, <4>1 DEF ArgsFrom
      <4>3. IsParts(Arguments(items))
        <5>1. /\ DOMAIN items = 1 .. n /\ \A i \in 1 .. n : IsText(items[i].args)
          BY <1>1, CallItems, ItemTexts
        <5>2. PICK g : g = Arguments(items)
          OBVIOUS
        <5>3. DOMAIN g = 1 .. n /\ g = [i \in 1 .. n |-> g[i]] /\ \A i \in 1 .. n : IsText(g[i])
          BY <5>1, <5>2 DEF Arguments
        <5>4. IsParts(g)
          BY ONLY n \in Nat, <5>3, ListIsParts
        <5> QED
          BY <5>2, <5>4
      <4> QED
        BY <4>1, <4>2, <4>3, RestIs
    <3>2. AllArguments(<<>>)
      BY DEF AllArguments
    <3> QED
      BY <3>1, <3>2
  <2>3. PICK i \in 1 .. n : i = (n - d) + 1 /\ i - 1 = n - d /\ n - (d - 1) = i /\ d - 1 \in 0 .. n /\ ~ (d <= d - 1)
    <3>1. (n - d) + 1 \in 1 .. n /\ ((n - d) + 1) - 1 = n - d /\ n - (d - 1) = (n - d) + 1 /\ d - 1 \in 0 .. n /\ ~ (d <= d - 1)
      BY <2>2
    <3> QED
      BY <3>1
  <2>4. AllArguments(ArgsFrom(items, i))
    <3>1. d - 1 \notin Bad
      BY <2>1, <2>3
    <3> QED
      BY <2>3, <3>1
  <2>5. /\ ArgsFrom(items, i - 1) = items[i].args \o ArgsFrom(items, i)
        /\ IsText(ArgsFrom(items, i))
    <3>1. IsCall(items) /\ i \in 1 .. Len(items) /\ i \in 0 .. Len(items)
      BY <1>1
    <3> QED
      BY ONLY <3>1, CallRest, Zenon
  <2>6. IsText(items[i].args) /\ AllArguments(items[i].args)
    BY <1>1, CallItems, ItemTexts
  <2>7. AllArguments(items[i].args \o ArgsFrom(items, i))
    BY ONLY <1>2, <2>4, <2>5, <2>6, Zenon
  <2>8. AllArguments(ArgsFrom(items, n - d))
    BY <2>3, <2>5, <2>7
  <2> QED
    BY <2>8
<1>4. ASSUME NEW i \in 0 .. n PROVE AllArguments(ArgsFrom(items, i))
  <2>1. n - i \in 0 .. n /\ n - (n - i) = i
    OBVIOUS
  <2> QED
    BY <1>3, <2>1
<1> QED
  BY <1>1, <1>4

-----------------------------------------------------------------------------
(* What the items ask for.                                                     *)
LEMMA ExpectedIs ==
  ASSUME NEW item
  PROVE  /\ item.conv = "literal" => Expected(item) = item.fs
         /\ item.conv = "%" => Expected(item) = <<"%">>
         /\ item.conv = "d" => Expected(item) = Signed(item.args[1].int)
         /\ item.conv = "b" => Expected(item) = Positional(Unsigned(item.args[1].int), 2, digit)
         /\ item.conv = "o" => Expected(item) = Positional(Unsigned(item.args[1].int), 8, digit)
         /\ item.conv = "u" => Expected(item) = Positional(Unsigned(item.args[1].int), 10, digit)
         /\ item.conv = "x" => Expected(item) = Positional(Unsigned(item.args[1].int), 16, digit)
         /\ item.conv = "X" => Expected(item) = Positional(Unsigned(item.args[1].int), 16, DIGIT)
         /\ item.conv \in {"s", "c"} => Expected(item) = item.args[1].str
         /\ item.conv = "Ad" => Expected(item) =
              Braces([i \in 1..item.args[1].int |-> Signed(Integers_array[i])])
         /\ item.conv = "Ax" => Expected(item) =
              Braces([i \in 1..item.args[1].int |-> Positional(Unsigned(Integers_array[i]), 16, digit)])
         /\ item.conv = "As" => Expected(item) = Braces(SubSeq(Strings_array, 1, item.args[1].int))
         /\ item.conv = "Ac" => Expected(item) =
              Braces([i \in 1..item.args[1].int |-> <<Characters_array[i]>>])
         /\ item.conv = "ws" => Expected(item) = Padded(item.args[1].str, item.w, item.left)
<1>1. item.conv = "literal" => Expected(item) = item.fs
  BY DEF Expected
<1>2. item.conv = "%" => Expected(item) = <<"%">>
  BY DEF Expected
<1>3. item.conv = "d" => Expected(item) = Signed(item.args[1].int)
  BY DEF Expected
<1>4. item.conv = "b" => Expected(item) = Positional(Unsigned(item.args[1].int), 2, digit)
  BY DEF Expected
<1>5. item.conv = "o" => Expected(item) = Positional(Unsigned(item.args[1].int), 8, digit)
  BY DEF Expected
<1>6. item.conv = "u" => Expected(item) = Positional(Unsigned(item.args[1].int), 10, digit)
  BY DEF Expected
<1>7. item.conv = "x" => Expected(item) = Positional(Unsigned(item.args[1].int), 16, digit)
  BY DEF Expected
<1>8. item.conv = "X" => Expected(item) = Positional(Unsigned(item.args[1].int), 16, DIGIT)
  BY DEF Expected
<1>9. item.conv \in {"s", "c"} => Expected(item) = item.args[1].str
  BY DEF Expected
<1>10. item.conv = "Ad" => Expected(item) =
              Braces([i \in 1..item.args[1].int |-> Signed(Integers_array[i])])
  BY DEF Expected
<1>11. item.conv = "Ax" => Expected(item) =
              Braces([i \in 1..item.args[1].int |-> Positional(Unsigned(Integers_array[i]), 16, digit)])
  BY DEF Expected
<1>12. item.conv = "As" => Expected(item) = Braces(SubSeq(Strings_array, 1, item.args[1].int))
  BY DEF Expected
<1>13. item.conv = "Ac" => Expected(item) =
              Braces([i \in 1..item.args[1].int |-> <<Characters_array[i]>>])
  BY DEF Expected
<1>14. item.conv = "ws" => Expected(item) = Padded(item.args[1].str, item.w, item.left)
  BY DEF Expected
<1> QED
  BY ONLY <1>1, <1>2, <1>3, <1>4, <1>5, <1>6, <1>7, <1>8, <1>9, <1>10, <1>11, <1>12, <1>13, <1>14

Promised == {"literal", "%", "d", "b", "o", "u", "x", "X", "s", "c", "Ad", "Ax", "As", "Ac", "ws"}

LEMMA TrustedIs ==
  ASSUME NEW i, Trusted(i)
  PROVE  /\ call.items[i].conv \in Promised
         /\ call.items[i].conv \in {"b", "X"} => version # "lab8" \/ call.items[i].args[1].int >= 0
         /\ call.items[i].conv = "Ad" => version # "lab11"
         /\ call.items[i].conv \in {"Ax", "Ac"} => version = "lab8"
         /\ call.items[i].conv = "As" =>
              version = "lab8" \/ (version = "lab9" /\ call.strings = Strings_array /\ ~ Before(i, {"As"}))
         /\ call.items[i].conv = "ws" =>
              version = "lab8" /\ ~ Before(i, {"ws", "wd", "wx"}) /\ (call.items[i].left \/ call.f = 1)
BY DEF Trusted, Promised

LEMMA TrustedStays ==
  ASSUME version' = version, call' = call
  PROVE  \A i : Trusted(i)' <=> Trusted(i)
<1> SUFFICES ASSUME NEW i PROVE Trusted(i)' <=> Trusted(i)
  OBVIOUS
<1>1. \A c : Before(i, c)' <=> Before(i, c)
  BY DEF Before
<1> QED
  BY <1>1 DEF Trusted

LEMMA PositionalText ==
  ASSUME NEW radix \in {2, 8, 10, 16}, NEW table \in {digit, DIGIT}, NEW n \in Nat, n < Power(2, Width)
  PROVE  IsText(Positional(n, radix, table))
<1>1. IsTable(radix, table) /\ Width \in Nat \ {0}
  BY Tables, IntRange
<1>2. Positional(n, radix, table) = print_int_helper(n, radix, table)
  BY ONLY <1>1, n \in Nat, n < Power(2, Width), PositionalIs
<1>3. print_int_helper(n, radix, table) \in Seq(Range(table))
  BY <1>1, HelperUnfolds
<1> QED
  BY <1>2, <1>3, TextOf

LEMMA SignedIsText ==
  ASSUME NEW n \in MinInt .. MaxInt
  PROVE  IsText(Signed(n))
<1>1. /\ MaxInt \in Nat /\ MinInt = -MaxInt - 1 /\ Power(2, Width) \in Nat
      /\ Power(2, Width) = (2 * MaxInt) + 2
  BY IntRange
<1>2. n \in Int
  BY <1>1
<1>3. CASE n < 0
  <2>1. PICK m \in Nat : m = -n /\ m < Power(2, Width)
    <3>1. -n \in Nat /\ -n < Power(2, Width)
      BY <1>1, <1>2, <1>3
    <3> QED
      BY <3>1
  <2>2. IsText(Positional(m, 10, digit))
    <3>1. 10 \in {2, 8, 10, 16} /\ digit \in {digit, DIGIT}
      OBVIOUS
    <3> QED
      BY ONLY <2>1, <3>1, m \in Nat, PositionalText
  <2>3. IsText(<<"-">>)
    BY TextOne
  <2>4. IsText(<<"-">> \o Positional(m, 10, digit))
    BY ONLY <2>2, <2>3, TextConcat
  <2> QED
    BY ONLY <1>3, <2>1, <2>4, Zenon DEF Signed
<1>4. CASE ~ (n < 0)
  <2>1. n \in Nat /\ n < Power(2, Width)
    BY <1>1, <1>2, <1>4
  <2>2. IsText(Positional(n, 10, digit))
    <3>1. 10 \in {2, 8, 10, 16} /\ digit \in {digit, DIGIT}
      OBVIOUS
    <3> QED
      BY ONLY <2>1, <3>1, PositionalText
  <2> QED
    BY ONLY <1>4, <2>2, Zenon DEF Signed
<1> QED
  BY <1>3, <1>4

LEMMA UnsignedText ==
  ASSUME NEW radix \in {2, 8, 10, 16}, NEW table \in {digit, DIGIT}, NEW n \in MinInt .. MaxInt
  PROVE  IsText(Positional(Unsigned(n), radix, table))
BY NumberText

(* The arrays are those of the assumption. *)
LEMMA ArraysAre ==
  /\ IsText(Integers_array) /\ IsText(Characters_array) /\ IsText(Strings_array)
  /\ \A i \in 1 .. Len(Integers_array) : Integers_array[i] \in MinInt .. MaxInt /\ Integers_array[i] # MinInt
  /\ \A i \in 1 .. Len(Strings_array) : IsText(Strings_array[i])
  /\ Len(Integers_array) \in Nat /\ Len(Characters_array) \in Nat /\ Len(Strings_array) \in Nat
  /\ DOMAIN Strings_array = 1 .. Len(Strings_array)
<1>1. /\ IsText(Integers_array) /\ \A i \in DOMAIN Integers_array : Integers_array[i] \in -MaxInt..MaxInt
      /\ IsText(Characters_array)
      /\ IsText(Strings_array) /\ \A i \in DOMAIN Strings_array : IsText(Strings_array[i])
  BY PrintfAssumption
<1>2. /\ DOMAIN Integers_array = 1 .. Len(Integers_array) /\ Len(Integers_array) \in Nat
      /\ Len(Characters_array) \in Nat
      /\ DOMAIN Strings_array = 1 .. Len(Strings_array) /\ Len(Strings_array) \in Nat
  BY <1>1, TextLen
<1>3. \A n \in -MaxInt..MaxInt : n \in MinInt .. MaxInt /\ n # MinInt
  BY IntRange
<1> QED
  BY <1>1, <1>2, <1>3

(* A list of n elements in braces. *)
LEMMA BracesOfList ==
  ASSUME NEW n \in Nat, NEW g, g = [i \in 1 .. n |-> g[i]], \A i \in 1 .. n : IsText(g[i])
  PROVE  IsText(Braces(g))
<1>1. DOMAIN g = 1 .. n
  OBVIOUS
<1>2. IsParts(g)
  BY <1>1, ListIsParts
<1> QED
  BY <1>2, BracesText

LEMMA PaddedText ==
  ASSUME NEW text, IsText(text), NEW w \in Nat, NEW left
  PROVE  IsText(Padded(text, w, left))
<1>1. PICK n \in Nat : n = Len(text)
  BY TextLen
<1>2. PICK blanks, cut : /\ blanks = Copies(Blank, w - n)
                         /\ cut = SubSeq(text, 1, IF w < n THEN w ELSE n)
  OBVIOUS
<1>3. IsText(blanks)
  <2>1. w - n \in Int
    OBVIOUS
  <2> QED
    BY <1>2, <2>1, CopiesText
<1>4. IsText(cut)
  <2>1. PICK m \in Int : m = (IF w < n THEN w ELSE n) /\ m <= n
    OBVIOUS
  <2>2. 1 \in Nat \ {0} /\ m <= Len(text)
    BY <1>1, <2>1
  <2>3. IsText(SubSeq(text, 1, m))
    BY <2>2, TextPart
  <2> QED
    BY <1>2, <2>1, <2>3
<1>5. IsText(<<"#">>)
  BY TextOne
<1>6. IsText(blanks \o cut) /\ IsText(cut \o blanks)
  BY ONLY <1>3, <1>4, TextConcat
<1>7. IsText(cut \o blanks \o <<"#">>)
  BY ONLY <1>5, <1>6, TextConcat
<1>8. Padded(text, w, left) = IF left THEN blanks \o cut ELSE cut \o blanks \o <<"#">>
  BY ONLY <1>1, <1>2 DEF Padded
<1> QED
  BY ONLY <1>6, <1>7, <1>8

(* What is asked for is a text. *)
LEMMA ExpectedText ==
  ASSUME NEW item, IsItem(item), item.conv \in Promised
  PROVE  IsText(Expected(item))
<1> DEFINE n == item.args[1].int
<1>1. CASE item.conv = "literal"
  BY <1>1, ExpectedIs, ItemTexts
<1>2. CASE item.conv = "%"
  BY <1>2, ExpectedIs, TextOne
<1>3. item.conv \in {"d", "b", "o", "u", "x", "X", "c", "s"} \cup Arrays \cup {"ws"} =>
        IsArgument(item.args[1])
  <2>1. \A k : Takes(item, <<k>>) => IsArgument(item.args[1])
    BY TakesOne, TextOne
  <2>2. item.conv \in {"d", "b", "o", "u", "x", "X", "c", "s"} \cup Arrays \cup {"ws"} =>
          \E k : Takes(item, <<k>>)
    BY ItemForms, ConvSets
  <2> QED
    BY <2>1, <2>2
<1>4. IsArgument(item.args[1]) => n \in MinInt .. MaxInt /\ IsText(item.args[1].str)
  BY DEF IsArgument
<1>5. CASE item.conv = "d"
  BY <1>3, <1>4, <1>5, ExpectedIs, SignedIsText
<1>6. CASE item.conv \in {"b", "o", "u", "x", "X"}
  <2>1. n \in MinInt .. MaxInt
    BY <1>3, <1>4, <1>6
  <2>2. \A radix \in {2, 8, 10, 16}, table \in {digit, DIGIT} : IsText(Positional(Unsigned(n), radix, table))
    BY <2>1, UnsignedText
  <2>3. 2 \in {2, 8, 10, 16} /\ 8 \in {2, 8, 10, 16} /\ 10 \in {2, 8, 10, 16} /\ 16 \in {2, 8, 10, 16}
        /\ digit \in {digit, DIGIT} /\ DIGIT \in {digit, DIGIT}
    OBVIOUS
  <2>4. \E radix \in {2, 8, 10, 16}, table \in {digit, DIGIT} :
           Expected(item) = Positional(Unsigned(n), radix, table)
    BY <1>6, <2>3, ExpectedIs
  <2> QED
    BY ONLY <2>2, <2>4
<1>7. CASE item.conv \in {"s", "c"}
  BY <1>3, <1>4, <1>7, ExpectedIs
<1>8. item.conv \in Arrays => n \in 0 .. Len(ArrayOf(ArrayKind[item.conv]))
  BY ItemForms
<1>9. CASE item.conv = "Ad"
  <2>1. n \in Nat /\ \A i \in 1 .. n : i \in 1 .. Len(Integers_array)
    BY <1>8, <1>9, ConvSets, ArraysAre DEF ArrayOf
  <2>20. PICK m \in Nat : m = n
    BY <2>1
  <2>2. PICK g : m = n /\ g = [i \in 1 .. m |-> Signed(Integers_array[i])]
    BY <2>20
  <2>3. \A i \in 1 .. m : IsText(g[i])
    BY <2>1, <2>2, ArraysAre, SignedIsText
  <2>4. IsText(Braces(g))
    BY <2>2, <2>3, BracesOfList
  <2> QED
    BY <1>9, <2>2, <2>4, ExpectedIs
<1>10. CASE item.conv = "Ax"
  <2>1. n \in Nat /\ \A i \in 1 .. n : i \in 1 .. Len(Integers_array)
    BY <1>8, <1>10, ConvSets, ArraysAre DEF ArrayOf
  <2>20. PICK m \in Nat : m = n
    BY <2>1
  <2>2. PICK g : m = n /\ g = [i \in 1 .. m |-> Positional(Unsigned(Integers_array[i]), 16, digit)]
    BY <2>20
  <2>3. \A i \in 1 .. m : IsText(g[i])
    BY <2>1, <2>2, ArraysAre, UnsignedText
  <2>4. IsText(Braces(g))
    BY <2>2, <2>3, BracesOfList
  <2> QED
    BY <1>10, <2>2, <2>4, ExpectedIs
<1>11. CASE item.conv = "As"
  <2>1. n \in 0 .. Len(Strings_array)
    BY <1>8, <1>11, ConvSets DEF ArrayOf
  <2>0. PICK m \in Nat : m = n /\ m <= Len(Strings_array)
    BY <2>1, ArraysAre
  <2>2. PICK g : m = n /\ m <= Len(Strings_array) /\ g = SubSeq(Strings_array, 1, m)
    BY <2>0
  <2>3. IsText(g) /\ Len(g) = m /\ \A i \in 1 .. m : g[i] = Strings_array[i]
    <3>1. 1 \in Nat \ {0} /\ m \in Int /\ m - 1 + 1 = m /\ (IF 1 <= m THEN m - 1 + 1 ELSE 0) = m
          /\ \A i \in 1 .. m : 1 + i - 1 = i
      OBVIOUS
    <3>2. IsText(Strings_array)
      BY ArraysAre
    <3>3. /\ IsText(SubSeq(Strings_array, 1, m))
          /\ Len(SubSeq(Strings_array, 1, m)) = IF 1 <= m THEN m - 1 + 1 ELSE 0
          /\ \A i \in 1 .. m - 1 + 1 : SubSeq(Strings_array, 1, m)[i] = Strings_array[1 + i - 1]
      BY ONLY <2>2, <3>1, <3>2, TextPart
    <3> QED
      BY ONLY <2>2, <3>1, <3>3
  <2>4. \A i \in 1 .. m : IsText(Strings_array[i])
    BY <2>2, ArraysAre
  <2>5. g = [i \in 1 .. m |-> g[i]]
    BY <2>3 DEF IsText
  <2>6. IsText(Braces(g))
    BY ONLY m \in Nat, <2>3, <2>4, <2>5, BracesOfList
  <2> QED
    BY <1>11, <2>2, <2>6, ExpectedIs
<1>12. CASE item.conv = "Ac"
  <2>1. n \in Nat /\ \A i \in 1 .. n : i \in 1 .. Len(Characters_array)
    BY <1>8, <1>12, ConvSets, ArraysAre DEF ArrayOf
  <2>20. PICK m \in Nat : m = n
    BY <2>1
  <2>2. PICK g : m = n /\ g = [i \in 1 .. m |-> <<Characters_array[i]>>]
    BY <2>20
  <2>3. \A i \in 1 .. m : IsText(g[i])
    BY <2>2, TextOne
  <2>4. IsText(Braces(g))
    BY <2>2, <2>3, BracesOfList
  <2> QED
    BY <1>12, <2>2, <2>4, ExpectedIs
<1>13. CASE item.conv = "ws"
  <2>1. item.w \in Nat
    <3>1. /\ IsLayout(Figures(item), item.left) /\ item.w = ReadWidth(0, Figures(item)) /\ Len(item.fs) > 2
      BY <1>13, ItemForms, ConvSets
    <3>2. IsText(item.fs) /\ Len(item.fs) \in Nat \ {0}
      BY ItemTexts
    <3>3. IsText(Figures(item))
      <4>1. Figures(item) = SubSeq(item.fs, 2, Len(item.fs) - 1)
        BY <1>13 DEF Figures
      <4>0. PICK k \in Nat : k = Len(item.fs)
        BY <3>2
      <4>2. PICK m \in Int : m = Len(item.fs) - 1 /\ m <= Len(item.fs) /\ 2 \in Nat \ {0}
        <5>1. k - 1 \in Int /\ k - 1 <= k /\ 2 \in Nat \ {0}
          OBVIOUS
        <5> QED
          BY ONLY <4>0, <5>1
      <4>3. IsText(SubSeq(item.fs, 2, m))
        BY ONLY <3>2, <4>2, m \in Int, TextPart
      <4> QED
        BY <4>1, <4>2, <4>3
    <3>4. \A i \in 1 .. Len(Figures(item)) : Figures(item)[i] \in Layout
      <4>1. DOMAIN Figures(item) = 1 .. Len(Figures(item))
        BY <3>3, TextLen
      <4> QED
        BY <3>1, <4>1 DEF IsLayout, Layout
    <3>5. PICK g : g = Figures(item)
      OBVIOUS
    <3>6. ReadWidth(0, g) \in Nat
      BY ONLY <3>3, <3>4, <3>5, 0 \in Nat, WidthIsNat
    <3> QED
      BY <3>1, <3>5, <3>6
  <2>2. IsText(item.args[1].str)
    BY <1>3, <1>4, <1>13
  <2> QED
    BY <1>13, <2>1, <2>2, ExpectedIs, PaddedText
<1> QED
  BY <1>1, <1>2, <1>5, <1>6, <1>7, <1>9, <1>10, <1>11, <1>12, <1>13 DEF Promised

-----------------------------------------------------------------------------
(* The invariant.                                                              *)
(* What is printed and counted, the arguments left and the variables of a     *)
(* call have their types; lab8 leaves the array of strings alone.             *)
Texts ==
  /\ version \in {"lab8", "lab9", "lab11"} /\ IsCall(call.items) /\ call.f \in {0, 1}
  /\ IsText(out) /\ IsText(fs) /\ IsText(args)
  /\ IsText(strings) /\ Len(strings) = Len(Strings_array)
  /\ version = "lab8" => strings = Strings_array

(* The items that are printed as asked, the others left out. *)
Parts == [i \in DOMAIN call.items |-> IF Trusted(i) THEN Expected(call.items[i]) ELSE <<>>]

None(i, convs) == \A j \in 1 .. i : call.items[j].conv \notin convs

(* What is known when i items are done. *)
SoFar(i) ==
  /\ (\A j \in 1 .. i : Trusted(j)) => out = First(Parts)[i]
  /\ version # "lab9" /\ (\A j \in 1 .. i : call.items[j].conv \in Counted) => printed = Len(out)
  /\ version = "lab9" /\ None(i, {"As"}) => strings = call.strings
  /\ None(i, Widths) => width = 0

FlagSoFar(i) == None(i, Widths) => f = call.f

(* The turns between two items, behind the %, and in lab8 behind the - too.   *)
At(i) ==
  /\ state = "init" /\ SoFar(i) /\ FlagSoFar(i)
  /\ fs = FsFrom(call.items, i) /\ args = ArgsFrom(call.items, i)

In(i) ==
  /\ state = "percent" /\ SoFar(i - 1) /\ FlagSoFar(i - 1) /\ call.items[i].conv # "literal"
  /\ fs = Tail(call.items[i].fs) \o FsFrom(call.items, i) /\ args = ArgsFrom(call.items, i - 1)

Signs(i) ==
  /\ state = "percent" /\ SoFar(i - 1) /\ version = "lab8" /\ f = 0
  /\ call.items[i].conv \in Widths \cup {"broken"}
  /\ Len(call.items[i].fs) >= 2 /\ call.items[i].fs[2] = "-"
  /\ fs = Tail(Tail(call.items[i].fs)) \o FsFrom(call.items, i) /\ args = ArgsFrom(call.items, i - 1)

InStep ==
  \/ \E i \in 0 .. Len(call.items) : At(i)
  \/ \E i \in 1 .. Len(call.items) : In(i)
  \/ \E i \in 1 .. Len(call.items) : Signs(i)

PrintfInv ==
  /\ TypeOK /\ Texts /\ NamedStops
  /\ status = "running" => OutOfStep \/ InStep
  /\ TextAsAsked /\ CountIsText

-----------------------------------------------------------------------------
(* What the steps have in common.                                              *)
LEMMA CallLength ==
  ASSUME Texts
  PROVE  /\ Len(call.items) \in Nat /\ DOMAIN call.items = 1 .. Len(call.items)
         /\ \A i \in 1 .. Len(call.items) :
              IsItem(call.items[i]) /\ (call.items[i].conv = "broken" => i = Len(call.items))
         /\ IsCall(call.items)
BY CallItems DEF Texts

LEMMA PartsAre ==
  ASSUME Texts
  PROVE  /\ IsParts(Parts) /\ Len(Parts) = Len(call.items)
         /\ \A i \in 1 .. Len(call.items) : Trusted(i) => Parts[i] = Expected(call.items[i])
<1>1. PICK n \in Nat : n = Len(call.items) /\ DOMAIN call.items = 1 .. n
  BY CallLength
<1>2. PICK g : g = Parts
  OBVIOUS
<1>3. g = [i \in 1 .. n |-> IF Trusted(i) THEN Expected(call.items[i]) ELSE <<>>]
  BY <1>1, <1>2 DEF Parts
<1>4. \A i \in 1 .. n : Trusted(i) => g[i] = Expected(call.items[i]) /\ IsText(g[i])
  <2> SUFFICES ASSUME NEW i \in 1 .. n, Trusted(i)
               PROVE  g[i] = Expected(call.items[i]) /\ IsText(g[i])
    OBVIOUS
  <2>1. g[i] = Expected(call.items[i])
    BY <1>3
  <2>2. call.items[i].conv \in Promised /\ IsItem(call.items[i])
    BY <1>1, CallLength, TrustedIs
  <2>3. IsText(Expected(call.items[i]))
    BY <2>2, ExpectedText
  <2> QED
    BY <2>1, <2>3
<1>5. \A i \in 1 .. n : ~ Trusted(i) => IsText(g[i])
  BY <1>3, TextOne
<1>6. DOMAIN g = 1 .. n /\ Len(g) = n /\ g = [i \in 1 .. n |-> g[i]] /\ \A i \in 1 .. n : IsText(g[i])
  BY <1>3, <1>4, <1>5
<1>7. IsParts(g)
  BY ONLY n \in Nat, <1>6, ListIsParts
<1> QED
  BY <1>1, <1>2, <1>4, <1>6, <1>7

LEMMA SameCall ==
  ASSUME version' = version, call' = call
  PROVE  /\ Parts' = Parts /\ (OutOfStep' <=> OutOfStep)
         /\ \A convs : Asked(convs)' <=> Asked(convs)
         /\ \A i, convs : None(i, convs)' <=> None(i, convs)
<1>1. \A i : Trusted(i)' <=> Trusted(i)
  BY TrustedStays
<1>2. Parts' = Parts
  BY <1>1 DEF Parts
<1>3. \A convs : Asked(convs)' <=> Asked(convs)
  BY DEF Asked
<1>4. \A i, convs : None(i, convs)' <=> None(i, convs)
  BY DEF None
<1>5. OutOfStep' <=> OutOfStep
  BY <1>3 DEF OutOfStep
<1> QED
  BY <1>2, <1>3, <1>4, <1>5

(* The reasons to stop. *)
LEMMA NamedWhy ==
  ASSUME version' = version, call' = call
  PROVE  /\ status' \in {"idle", "running", "returned"} => NamedStops'
         /\ status' = "wild_result" /\ version = "lab9" => NamedStops'
         /\ /\ status' = "smallest"
            /\ \/ OutOfStep
               \/ \E i \in DOMAIN call.items : /\ call.items[i].conv \in {"d", "b", "X"} \cup Widths
                                               /\ call.items[i].args[1].int = MinInt
            => NamedStops'
         /\ /\ status' = "unhandled"
            /\ \/ Asked({"unknown", "broken"})
               \/ version = "lab9" /\ Asked({"c", "Ac"})
               \/ version = "lab11" /\ Asked(Arrays \cup Widths)
            => NamedStops'
         /\ /\ status' = "no_element"
            /\ \/ OutOfStep
               \/ \E i \in DOMAIN call.items : /\ call.items[i].conv \in Arrays
                                               /\ call.items[i].args[1].int = 0
            => NamedStops'
         /\ status' = "overrun" /\ Last(call.items).conv = "broken" => NamedStops'
         /\ status' = "overflow" /\ Asked(Widths \cup {"broken"}) => NamedStops'
         /\ status' = "swapped" /\ version = "lab11" /\ Asked(Arrays) => NamedStops'
         /\ status' = "kind" /\ (OutOfStep \/ (version = "lab9" /\ Asked({"wx"}))) => NamedStops'
<1>1. (OutOfStep' <=> OutOfStep) /\ \A convs : Asked(convs)' <=> Asked(convs)
  BY SameCall
<1>2. status' \in {"idle", "running", "returned"} => NamedStops'
  BY DEF NamedStops
<1>3. status' = "wild_result" /\ version = "lab9" => NamedStops'
  BY DEF NamedStops
<1>4. /\ status' = "smallest"
      /\ \/ OutOfStep
         \/ \E i \in DOMAIN call.items : /\ call.items[i].conv \in {"d", "b", "X"} \cup Widths
                                         /\ call.items[i].args[1].int = MinInt
      => NamedStops'
  BY <1>1 DEF NamedStops
<1>5. /\ status' = "unhandled"
      /\ \/ Asked({"unknown", "broken"})
         \/ version = "lab9" /\ Asked({"c", "Ac"})
         \/ version = "lab11" /\ Asked(Arrays \cup Widths)
      => NamedStops'
  BY DEF NamedStops, Asked
<1>6. /\ status' = "no_element"
      /\ \/ OutOfStep
         \/ \E i \in DOMAIN call.items : /\ call.items[i].conv \in Arrays
                                         /\ call.items[i].args[1].int = 0
      => NamedStops'
  BY <1>1 DEF NamedStops
<1>7. status' = "overrun" /\ Last(call.items).conv = "broken" => NamedStops'
  BY DEF NamedStops
<1>8. status' = "overflow" /\ Asked(Widths \cup {"broken"}) => NamedStops'
  BY DEF NamedStops, Asked
<1>9. status' = "swapped" /\ version = "lab11" /\ Asked(Arrays) => NamedStops'
  BY DEF NamedStops, Asked
<1>10. status' = "kind" /\ (OutOfStep \/ (version = "lab9" /\ Asked({"wx"}))) => NamedStops'
  BY <1>1 DEF NamedStops, Asked
<1> QED
  BY ONLY <1>2, <1>3, <1>4, <1>5, <1>6, <1>7, <1>8, <1>9, <1>10

LEMMA StopKeeps ==
  ASSUME PrintfInv, NEW why, Stops(why), why \notin {"running", "returned"}, NamedStops'
  PROVE  PrintfInv'
<1>1. /\ status' = why /\ version' = version /\ call' = call /\ fs' = fs /\ args' = args
      /\ out' = out /\ printed' = printed /\ state' = state /\ width' = width /\ f' = f
      /\ strings' = strings
  BY DEF Stops
<1>2. TypeOK'
  BY <1>1 DEF PrintfInv, TypeOK
<1>3. Texts'
  BY <1>1 DEF PrintfInv, Texts
<1>4. TextAsAsked' /\ CountIsText'
  BY <1>1 DEF TextAsAsked, CountIsText
<1> QED
  BY <1>1, <1>2, <1>3, <1>4 DEF PrintfInv

(* Item j is done: it was printed as text. *)
Prints(j, text) ==
  /\ state' = "init" /\ fs' = FsFrom(call.items, j) /\ args' = ArgsFrom(call.items, j)
  /\ out' = out \o text
  /\ UNCHANGED <<version, call, status>>

LEMMA ItemDone ==
  ASSUME PrintfInv, status = "running", NEW j \in 1 .. Len(call.items), SoFar(j - 1),
         FlagSoFar(j - 1) \/ call.items[j].conv \in Widths,
         NEW text, IsText(text), Prints(j, text),
         printed' \in 0 .. Len(out) + Len(text), f' \in {0, 1}, width' \in 0 .. MaxInt,
         version # "lab9" /\ call.items[j].conv \in Counted => printed' = printed + Len(text),
         Trusted(j) => text = Expected(call.items[j]),
         call.items[j].conv \notin Widths => width' = width /\ f' = f,
         IsText(strings'), Len(strings') = Len(Strings_array),
         \A i \in DOMAIN strings' : strings'[i] \in {Strings_array[i], <<>>},
         version = "lab8" \/ (version = "lab9" /\ call.items[j].conv # "As") => strings' = strings
  PROVE  PrintfInv'
<1>1. /\ state' = "init" /\ fs' = FsFrom(call.items, j) /\ args' = ArgsFrom(call.items, j)
      /\ out' = out \o text /\ version' = version /\ call' = call /\ status' = status
  BY DEF Prints
<1>2. PICK n \in Nat : n = Len(call.items) /\ IsCall(call.items)
  BY CallLength DEF PrintfInv
<1>3. j \in 0 .. n /\ j - 1 \in 0 .. n /\ \A i \in 1 .. j : i \in 1 .. j - 1 \/ i = j
  BY <1>2
<1>4. IsText(out) /\ IsText(out') /\ Len(out') = Len(out) + Len(text) /\ Len(out') \in Nat
  <2>1. IsText(out)
    BY DEF PrintfInv, Texts
  <2>2. IsText(out \o text) /\ Len(out \o text) = Len(out) + Len(text)
    BY ONLY <2>1, IsText(text), TextConcat
  <2>3. Len(out \o text) \in Nat
    BY <2>2, TextLen
  <2> QED
    BY <1>1, <2>1, <2>2, <2>3
<1>5. IsText(fs') /\ IsText(args') /\ AllArguments(args')
  BY <1>1, <1>2, <1>3, CallRest, AllArgumentsFrom
<1>6. TypeOK'
  BY <1>1, <1>4, <1>5 DEF TypeOK, AllArguments
<1>7. Texts'
  <2>1. Texts
    BY DEF PrintfInv
  <2> QED
    BY <1>1, <1>4, <1>5, <2>1 DEF Texts
<1>8. Parts' = Parts /\ (OutOfStep' <=> OutOfStep) /\ \A i : Trusted(i)' <=> Trusted(i)
  BY <1>1, SameCall, TrustedStays
<1>9. SoFar(j)'
  <2>1. (\A i \in 1 .. j : Trusted(i)) => out' = First(Parts)[j]
    <3> SUFFICES ASSUME \A i \in 1 .. j : Trusted(i) PROVE out' = First(Parts)[j]
      OBVIOUS
    <3>1. \A i \in 1 .. j - 1 : i \in 1 .. j
      BY <1>2
    <3>2. out = First(Parts)[j - 1]
      BY <3>1 DEF SoFar
    <3>3. j \in 1 .. Len(Parts) /\ IsParts(Parts) /\ Trusted(j) /\ Parts[j] = Expected(call.items[j])
      BY <1>2, PartsAre DEF PrintfInv
    <3>4. First(Parts)[j] = First(Parts)[j - 1] \o Parts[j]
      BY <3>3, FirstIs
    <3> QED
      BY <1>1, <3>2, <3>3, <3>4
  <2>2. version # "lab9" /\ (\A i \in 1 .. j : call.items[i].conv \in Counted) => printed' = Len(out')
    <3> SUFFICES ASSUME version # "lab9", \A i \in 1 .. j : call.items[i].conv \in Counted
                 PROVE  printed' = Len(out')
      OBVIOUS
    <3>1. (\A i \in 1 .. j - 1 : i \in 1 .. j) /\ j \in 1 .. j
      BY <1>2
    <3>2. printed = Len(out)
      BY <3>1 DEF SoFar
    <3>3. call.items[j].conv \in Counted
      BY <3>1
    <3> QED
      BY <1>4, <3>2, <3>3
  <2>3. version = "lab9" /\ None(j, {"As"}) => strings' = call.strings
    <3> SUFFICES ASSUME version = "lab9", None(j, {"As"}) PROVE strings' = call.strings
      OBVIOUS
    <3>1. (\A i \in 1 .. j - 1 : i \in 1 .. j) /\ j \in 1 .. j
      BY <1>2
    <3>2. None(j - 1, {"As"}) /\ call.items[j].conv # "As"
      BY <3>1 DEF None
    <3> QED
      BY <3>2 DEF SoFar
  <2>4. None(j, Widths) => width' = 0
    <3> SUFFICES ASSUME None(j, Widths) PROVE width' = 0
      OBVIOUS
    <3>1. (\A i \in 1 .. j - 1 : i \in 1 .. j) /\ j \in 1 .. j
      BY <1>2
    <3>2. None(j - 1, Widths) /\ call.items[j].conv \notin Widths
      BY <3>1 DEF None
    <3> QED
      BY <3>2 DEF SoFar
  <2>5. \A c : None(j, c)' <=> None(j, c)
    BY <1>1 DEF None
  <2> QED
    BY <1>1, <1>8, <2>1, <2>2, <2>3, <2>4, <2>5 DEF SoFar
<1>10. FlagSoFar(j)'
  <2> SUFFICES ASSUME None(j, Widths)' PROVE f' = call'.f
    BY DEF FlagSoFar
  <2>1. None(j, Widths)
    BY <1>1 DEF None
  <2>2. (\A i \in 1 .. j - 1 : i \in 1 .. j) /\ j \in 1 .. j
    BY <1>2
  <2>3. None(j - 1, Widths) /\ call.items[j].conv \notin Widths
    BY <2>1, <2>2 DEF None
  <2> QED
    BY <1>1, <2>3 DEF FlagSoFar
<1>11. At(j)'
  BY <1>1, <1>9, <1>10 DEF At
<1>12. InStep'
  BY <1>1, <1>2, <1>3, <1>11 DEF InStep
<1>13. NamedStops'
  BY <1>1, NamedWhy
<1>14. TextAsAsked' /\ CountIsText'
  BY <1>1 DEF TextAsAsked, CountIsText
<1> QED
  BY <1>6, <1>7, <1>12, <1>13, <1>14 DEF PrintfInv

-----------------------------------------------------------------------------
(* What a turn reads.                                                          *)
LEMMA CharsAre ==
  /\ \A c \in Decimal : c \in Layout /\ c # "-" /\ c \notin {"%", "d", "b", "o", "u", "x", "X", "c", "s", "A"}
  /\ "-" \in Layout
  /\ Layout \subseteq Directives /\ {"%", "d", "b", "o", "u", "x", "X", "c", "s", "A"} \subseteq Directives
  /\ \A c \in Layout : c = "-" \/ c \in Decimal
  /\ \A c \in Directives : c \in Layout \/ c \in {"%", "d", "b", "o", "u", "x", "X", "c", "s", "A"}
<1>1. \A c \in Decimal : c # "-" /\ c \notin {"%", "d", "b", "o", "u", "x", "X", "c", "s", "A"}
  BY DecimalIs
<1> QED
  BY <1>1 DEF Layout, Directives, IntDirectives

WideForm(item, t, m) ==
  /\ IsText(t) /\ m \in Nat /\ m >= 2 /\ (item.left => m >= 3)
  /\ t[m] = WideKind[item.conv] /\ t[m] \notin Layout
  /\ SubSeq(t, 1, m - 1) = Figures(item) /\ IsText(Figures(item)) /\ Len(Figures(item)) = m - 1
  /\ \A i \in 1 .. m - 1 : t[i] \in Layout /\ (t[i] = "-" => i = 1) /\ Figures(item)[i] = t[i]
  /\ item.left <=> t[1] = "-"
  /\ item.w = ReadWidth(0, Figures(item)) /\ item.w \in Nat

LEMMA WideItem ==
  ASSUME NEW item, IsItem(item), item.conv \in Widths,
         NEW t, t = Tail(item.fs), NEW m, m = Len(t)
  PROVE  WideForm(item, t, m)
<1>1. /\ Len(item.fs) > 2 /\ item.fs[Len(item.fs)] = WideKind[item.conv]
      /\ IsLayout(Figures(item), item.left) /\ item.w = ReadWidth(0, Figures(item))
      /\ item.left <=> item.fs[2] = "-"
      /\ item.left => Len(item.fs) > 3
  BY ItemForms
<1>2. IsText(item.fs) /\ Len(item.fs) \in Nat \ {0}
  BY ItemTexts
<1>3. item.fs # <<>>
  BY <1>2, TextOne
<1>4. IsText(t) /\ Len(t) = Len(item.fs) - 1 /\ \A i \in 1 .. Len(item.fs) - 1 : t[i] = item.fs[i + 1]
  BY <1>2, <1>3, TextTail
<1>5. PICK l \in Nat : l = Len(item.fs) /\ l = m + 1
  BY <1>2, <1>4
<1>6. m \in Nat /\ m >= 2 /\ (item.left => m >= 3) /\ m + 1 = l /\ 1 + 1 = 2
  BY <1>1, <1>4, <1>5
<1>7. t[m] = WideKind[item.conv] /\ (item.left <=> t[1] = "-")
  <2>1. m \in 1 .. l - 1 /\ 1 \in 1 .. l - 1
    BY <1>5, <1>6
  <2>2. t[m] = item.fs[m + 1] /\ t[1] = item.fs[1 + 1]
    BY <1>4, <1>5, <2>1
  <2> QED
    BY <1>1, <1>5, <1>6, <2>2
<1>8. t[m] \notin Layout
  <2>1. WideKind[item.conv] \in {"d", "s", "x"}
    BY ConvSets
  <2> QED
    BY <1>7, <2>1, CharsAre
<1>9. PICK g : g = Figures(item) /\ g = SubSeq(item.fs, 2, l - 1)
  <2>1. item.conv # "broken"
    BY ConvSets
  <2> QED
    BY <1>5, <2>1 DEF Figures
<1>10. IsText(g) /\ Len(g) = m - 1 /\ \A i \in 1 .. m - 1 : g[i] = item.fs[i + 1]
  <2>1. PICK k \in Int : k = l - 1 /\ k <= l /\ 2 \in Nat \ {0}
    BY <1>5
  <2>2. /\ IsText(SubSeq(item.fs, 2, k))
        /\ Len(SubSeq(item.fs, 2, k)) = IF 2 <= k THEN k - 2 + 1 ELSE 0
        /\ \A i \in 1 .. k - 2 + 1 : SubSeq(item.fs, 2, k)[i] = item.fs[2 + i - 1]
    <3>1. k <= Len(item.fs) /\ 2 \in Nat \ {0}
      BY <1>5, <2>1
    <3> QED
      BY ONLY <1>2, <3>1, k \in Int, TextPart
  <2>3. g = SubSeq(item.fs, 2, k)
    BY <1>9, <2>1
  <2>4. (IF 2 <= k THEN k - 2 + 1 ELSE 0) = m - 1 /\ k - 2 + 1 = m - 1 /\ \A i \in 1 .. m - 1 : 2 + i - 1 = i + 1
    BY <1>5, <1>6, <2>1
  <2> QED
    BY ONLY <2>2, <2>3, <2>4
<1>11. SubSeq(t, 1, m - 1) = g /\ \A i \in 1 .. m - 1 : g[i] = t[i]
  <2>1. PICK k \in Int : k = m - 1 /\ k <= m /\ 1 \in Nat \ {0}
    <3>1. m - 1 \in Int /\ m - 1 <= m /\ 1 \in Nat \ {0}
      BY ONLY <1>6
    <3> QED
      BY ONLY <3>1
  <2>2. /\ IsText(SubSeq(t, 1, k))
        /\ Len(SubSeq(t, 1, k)) = IF 1 <= k THEN k - 1 + 1 ELSE 0
        /\ \A i \in 1 .. k - 1 + 1 : SubSeq(t, 1, k)[i] = t[1 + i - 1]
    BY ONLY <1>4, m = Len(t), <2>1, k \in Int, TextPart
  <2>3. (IF 1 <= k THEN k - 1 + 1 ELSE 0) = m - 1 /\ k - 1 + 1 = m - 1 /\ \A i \in 1 .. m - 1 : 1 + i - 1 = i
    BY <1>6, <2>1
  <2>4. \A i \in 1 .. m - 1 : t[i] = item.fs[i + 1]
    <3>1. \A i \in 1 .. m - 1 : i \in 1 .. l - 1
      BY <1>5
    <3> QED
      BY <1>4, <1>5, <3>1
  <2>5. PICK h : h = SubSeq(t, 1, k)
    OBVIOUS
  <2>6. IsText(h) /\ Len(h) = m - 1 /\ \A i \in 1 .. m - 1 : h[i] = t[i]
    BY ONLY <2>2, <2>3, <2>5
  <2>7. h = g
    BY ONLY <1>10, <2>4, <2>6, TextEqual
  <2> QED
    BY <1>10, <2>1, <2>4, <2>5, <2>7
<1>12. \A i \in 1 .. m - 1 : t[i] \in Layout /\ (t[i] = "-" => i = 1)
  <2>1. DOMAIN g = 1 .. m - 1
    BY <1>10, TextLen
  <2>2. \A i \in 1 .. m - 1 : g[i] \in Decimal \/ (i = 1 /\ g[i] = "-")
    BY <1>1, <1>9, <2>1 DEF IsLayout
  <2>3. \A c : c \in Decimal => c \in Layout /\ c # "-"
    BY CharsAre
  <2>4. "-" \in Layout
    BY CharsAre
  <2> QED
    BY ONLY <1>11, <2>2, <2>3, <2>4
<1>13. item.w \in Nat
  <2>1. \A i \in 1 .. Len(g) : g[i] \in Layout
    BY <1>10, <1>11, <1>12
  <2>2. ReadWidth(0, g) \in Nat
    BY ONLY <1>10, <2>1, 0 \in Nat, WidthIsNat
  <2> QED
    BY <1>1, <1>9, <2>2
<1> QED
  BY <1>1, <1>4, <1>6, <1>7, <1>8, <1>9, <1>10, <1>11, <1>12, <1>13, ZenonT(40) DEF WideForm

LEMMA BrokenItem ==
  ASSUME NEW item, IsItem(item), item.conv = "broken",
         NEW t, t = Tail(item.fs), NEW m, m = Len(t)
  PROVE  /\ IsText(t) /\ m \in Nat
         /\ t = <<"A">> \/ \A i \in 1 .. m : t[i] \in Layout /\ (t[i] = "-" => i = 1)
<1>2. IsText(item.fs) /\ Len(item.fs) \in Nat \ {0}
  BY ItemTexts
<1>3. item.fs # <<>>
  BY <1>2, TextOne
<1>4. IsText(t) /\ Len(t) = Len(item.fs) - 1 /\ t = SubSeq(item.fs, 2, Len(item.fs))
  BY <1>2, <1>3, TextTail
<1>5. m \in Nat
  BY <1>4, TextLen
<1>6. CASE item.fs = <<"%", "A">>
  BY <1>4, <1>6
<1>7. CASE IsLayout(Figures(item), TRUE)
  <2>1. Figures(item) = t
    BY <1>4 DEF Figures
  <2>2. DOMAIN t = 1 .. m
    BY <1>4, TextLen
  <2>3. \A i \in 1 .. m : t[i] \in Decimal \/ (i = 1 /\ t[i] = "-")
    BY <1>7, <2>1, <2>2 DEF IsLayout
  <2> QED
    BY <1>4, <1>5, <2>3, CharsAre
<1> QED
  BY <1>4, <1>5, <1>6, <1>7, ItemForms

(* A turn between two items reads the next one. *)
LEMMA AtReads ==
  ASSUME Texts, NEW i \in 0 .. Len(call.items), At(i), fs # <<>>
  PROVE  \E j \in 1 .. Len(call.items) :
           /\ j - 1 = i /\ char = call.items[j].fs[1] /\ IsItem(call.items[j])
           /\ Tail(fs) = Tail(call.items[j].fs) \o FsFrom(call.items, j)
           /\ args = call.items[j].args \o ArgsFrom(call.items, j)
           /\ args = ArgsFrom(call.items, j - 1)
           /\ char # "%" => /\ call.items[j].conv = "literal"
                            /\ Tail(fs) = FsFrom(call.items, j) /\ args = ArgsFrom(call.items, j)
                            /\ <<char>> = call.items[j].fs
           /\ char = "%" => call.items[j].conv # "literal"
<1>1. PICK n \in Nat : n = Len(call.items) /\ IsCall(call.items)
  BY CallLength
<1>2. fs = FsFrom(call.items, i) /\ args = ArgsFrom(call.items, i)
  BY DEF At
<1>3. FsFrom(call.items, n) = <<>>
  BY <1>1, CallRest
<1>4. PICK j \in 1 .. n : j - 1 = i
  <2>1. i # n
    BY <1>2, <1>3
  <2>2. i + 1 \in 1 .. n /\ (i + 1) - 1 = i
    BY <1>1, <2>1
  <2> QED
    BY <2>2
<1>5. PICK item : item = call.items[j] /\ IsItem(item)
  BY <1>1, CallLength
<1>6. /\ fs = item.fs \o FsFrom(call.items, j) /\ args = item.args \o ArgsFrom(call.items, j)
      /\ IsText(FsFrom(call.items, j)) /\ IsText(ArgsFrom(call.items, j))
  <2>1. j \in 0 .. n
    BY <1>1
  <2> QED
    BY <1>1, <1>2, <1>4, <1>5, <2>1, CallRest
<1>7. /\ IsText(item.fs) /\ item.fs # <<>> /\ Len(item.fs) \in Nat \ {0}
      /\ item.conv = "literal" \/ item.fs[1] = "%"
  <2>1. IsText(item.fs) /\ Len(item.fs) \in Nat \ {0} /\ (item.conv = "literal" \/ item.fs[1] = "%")
    BY <1>5, ItemTexts
  <2> QED
    BY <2>1, TextOne
<1>8. char = item.fs[1] /\ Tail(fs) = Tail(item.fs) \o FsFrom(call.items, j)
  <2>1. /\ Head(item.fs \o FsFrom(call.items, j)) = item.fs[1]
        /\ Tail(item.fs \o FsFrom(call.items, j)) = Tail(item.fs) \o FsFrom(call.items, j)
    BY ONLY <1>6, <1>7, HeadOfConcat
  <2> QED
    BY <1>6, <2>1 DEF char
<1>9. item.conv = "literal" => /\ char # "%" /\ Tail(fs) = FsFrom(call.items, j)
                               /\ args = ArgsFrom(call.items, j) /\ <<char>> = item.fs
  <2> SUFFICES ASSUME item.conv = "literal"
               PROVE  /\ char # "%" /\ Tail(fs) = FsFrom(call.items, j)
                      /\ args = ArgsFrom(call.items, j) /\ <<char>> = item.fs
    OBVIOUS
  <2>1. Len(item.fs) = 1 /\ item.fs[1] # "%" /\ Takes(item, <<>>)
    BY ONLY <1>5, item.conv = "literal", ItemForms
  <2>2. item.args = <<>>
    BY <2>1, TakesNone
  <2>3. Tail(item.fs) = <<>>
    <3>1. IsText(Tail(item.fs)) /\ Len(Tail(item.fs)) = 0
      <4>1. IsText(Tail(item.fs)) /\ Len(Tail(item.fs)) = Len(item.fs) - 1
        BY ONLY <1>7, TextTail
      <4> QED
        BY <2>1, <4>1
    <3> QED
      BY ONLY <3>1, TextLen
  <2>4. <<>> \o FsFrom(call.items, j) = FsFrom(call.items, j)
        /\ <<>> \o ArgsFrom(call.items, j) = ArgsFrom(call.items, j)
    BY ONLY <1>6, TextConcat
  <2>5. <<item.fs[1]>> = item.fs
    <3>1. IsText(<<item.fs[1]>>) /\ Len(<<item.fs[1]>>) = 1 /\ <<item.fs[1]>>[1] = item.fs[1]
      BY ONLY TextOne
    <3>2. \A k \in 1 .. 1 : k = 1
      OBVIOUS
    <3>3. PICK h : h = <<item.fs[1]>>
      OBVIOUS
    <3>4. h = item.fs
      BY ONLY <1>7, <2>1, <3>1, <3>2, <3>3, TextEqual
    <3> QED
      BY <3>3, <3>4
  <2> QED
    BY <1>6, <1>8, <2>1, <2>2, <2>3, <2>4, <2>5
<1> QED
  BY <1>1, <1>2, <1>4, <1>5, <1>6, <1>7, <1>8, <1>9

(* The argument of a directive is the next one. *)
LEMMA ArgumentReads ==
  ASSUME Texts, NEW j \in 1 .. Len(call.items), args = ArgsFrom(call.items, j - 1),
         call.items[j].conv \in {"s"} \cup IntDirectives \cup Arrays \cup Widths
  PROVE  /\ args # <<>> /\ argument = call.items[j].args[1] /\ Tail(args) = ArgsFrom(call.items, j)
         /\ IsArgument(argument)
         /\ argument.kind = IF call.items[j].conv \in {"s", "ws"} THEN "string" ELSE "int"
         /\ call.items[j].conv \in Arrays => argument.int \in 0..Len(ArrayOf(ArrayKind[call.items[j].conv]))
<1>1. PICK n \in Nat : n = Len(call.items) /\ IsCall(call.items)
  BY CallLength
<1>2. PICK item : item = call.items[j] /\ IsItem(item)
  BY <1>1, CallLength
<1>3. args = item.args \o ArgsFrom(call.items, j) /\ IsText(ArgsFrom(call.items, j))
  <2>1. j \in 0 .. n
    BY <1>1
  <2> QED
    BY <1>1, <1>2, <2>1, CallRest
<1>4. Takes(item, <<IF item.conv \in {"s", "ws"} THEN "string" ELSE "int">>)
  <2>1. CASE item.conv = "s"
    BY <1>2, <2>1, ItemForms
  <2>2. CASE item.conv \in IntDirectives \cup Arrays
    <3>1. Takes(item, <<"int">>)
      BY <1>2, <2>2, ItemForms
    <3>2. item.conv \notin {"s", "ws"}
      BY <2>2, ConvSets
    <3> QED
      BY <3>1, <3>2
  <2>3. CASE item.conv \in Widths
    <3>1. Takes(item, <<IF item.conv = "ws" THEN "string" ELSE "int">>)
      BY ONLY <1>2, <2>3, ItemForms
    <3>2. item.conv # "s"
      BY <2>3, ConvSets
    <3> QED
      BY <3>1, <3>2
  <2> QED
    BY <1>2, <2>1, <2>2, <2>3
<1>5. PICK k : k = (IF item.conv \in {"s", "ws"} THEN "string" ELSE "int") /\ Takes(item, <<k>>)
  BY <1>4
<1>6. /\ item.args \o ArgsFrom(call.items, j) # <<>>
      /\ Head(item.args \o ArgsFrom(call.items, j)) = item.args[1]
      /\ Tail(item.args \o ArgsFrom(call.items, j)) = ArgsFrom(call.items, j)
      /\ IsArgument(item.args[1]) /\ item.args[1].kind = k
  BY ONLY <1>3, <1>5, TakesOne
<1>7. item.conv \in Arrays => item.args[1].int \in 0..Len(ArrayOf(ArrayKind[item.conv]))
  BY <1>2, ItemForms
<1> QED
  BY <1>2, <1>3, <1>5, <1>6, <1>7 DEF argument

(* What is behind the % of the items that are neither width nor cut off. *)
LEMMA PlainReads ==
  ASSUME Texts, NEW j \in 1 .. Len(call.items), In(j), call.items[j].conv \in Plain
  PROVE  /\ fs # <<>> /\ char = call.items[j].conv /\ Tail(fs) = FsFrom(call.items, j)
         /\ call.items[j].conv = "%" => args = ArgsFrom(call.items, j)
<1>1. PICK n \in Nat : n = Len(call.items) /\ IsCall(call.items)
  BY CallLength
<1>2. PICK item : item = call.items[j] /\ IsItem(item)
  BY <1>1, CallLength
<1>3. j \in 0 .. n
  BY <1>1
<1>4. IsText(FsFrom(call.items, j)) /\ IsText(ArgsFrom(call.items, j))
  BY <1>1, <1>3, CallRest
<1>5. item.fs = <<"%", item.conv>>
  BY <1>2, ItemForms DEF Plain
<1>6. Tail(item.fs) = <<item.conv>>
  BY <1>5
<1>7. fs = <<item.conv>> \o FsFrom(call.items, j)
  BY <1>2, <1>6 DEF In
<1>8. IsText(<<item.conv>>) /\ <<item.conv>> # <<>> /\ <<item.conv>>[1] = item.conv /\ Tail(<<item.conv>>) = <<>>
  <2>1. PICK c : c = item.conv
    OBVIOUS
  <2>2. IsText(<<c>>) /\ <<c>>[1] = c
    BY ONLY TextOne
  <2>3. <<c>> # <<>> /\ Tail(<<c>>) = <<>>
    OBVIOUS
  <2> QED
    BY <2>1, <2>2, <2>3
<1>9. fs # <<>> /\ Head(fs) = item.conv /\ Tail(fs) = <<>> \o FsFrom(call.items, j)
  BY ONLY <1>4, <1>7, <1>8, HeadOfConcat
<1>10. <<>> \o FsFrom(call.items, j) = FsFrom(call.items, j) /\ <<>> \o ArgsFrom(call.items, j) = ArgsFrom(call.items, j)
  BY ONLY <1>4, TextConcat
<1>11. item.conv = "%" => args = ArgsFrom(call.items, j)
  <2> SUFFICES ASSUME item.conv = "%" PROVE args = ArgsFrom(call.items, j)
    OBVIOUS
  <2>1. Takes(item, <<>>)
    BY ONLY <1>2, item.conv = "%", ItemForms
  <2>2. item.args = <<>>
    BY <2>1, TakesNone
  <2>3. args = item.args \o ArgsFrom(call.items, j)
    BY <1>1, <1>2, CallRest DEF In
  <2> QED
    BY <1>10, <2>2, <2>3
<1> QED
  BY <1>2, <1>9, <1>10, <1>11 DEF char

LEMMA ArrayReads ==
  ASSUME Texts, NEW j \in 1 .. Len(call.items), In(j), call.items[j].conv \in Arrays
  PROVE  /\ fs # <<>> /\ char = "A" /\ kind = ArrayKind[call.items[j].conv]
         /\ SubSeq(fs, 3, Len(fs)) = FsFrom(call.items, j)
<1>1. PICK n \in Nat : n = Len(call.items) /\ IsCall(call.items)
  BY CallLength
<1>2. PICK item : item = call.items[j] /\ IsItem(item)
  BY <1>1, CallLength
<1>3. j \in 0 .. n
  BY <1>1
<1>4. IsText(FsFrom(call.items, j))
  BY <1>1, <1>3, CallRest
<1>5. PICK k : k = ArrayKind[item.conv]
  OBVIOUS
<1>6. item.fs = <<"%", "A", k>>
  BY <1>2, <1>5, ItemForms
<1>7. PICK p : p = <<"A", k>> /\ Tail(item.fs) = p
  <2>1. Tail(<<"%", "A", k>>) = <<"A", k>>
    OBVIOUS
  <2>2. Tail(item.fs) = <<"A", k>>
    BY ONLY <1>6, <2>1
  <2> QED
    BY <2>2
<1>8. IsText(p) /\ p # <<>> /\ p[1] = "A" /\ p[2] = k /\ Len(p) = 2
  <2>1. p \in Seq({"A", k}) /\ p # <<>> /\ p[1] = "A" /\ p[2] = k /\ Len(p) = 2
    BY <1>7
  <2> QED
    BY <2>1, TextOf
<1>9. fs = p \o FsFrom(call.items, j)
  BY <1>2, <1>7 DEF In
<1>10. fs # <<>> /\ Head(fs) = "A"
  BY ONLY <1>4, <1>8, <1>9, HeadOfConcat
<1>11. Len(fs) = 2 + Len(FsFrom(call.items, j)) /\ fs[2] = k
  <2>1. /\ Len(fs) = Len(p) + Len(FsFrom(call.items, j)) /\ \A i \in 1 .. Len(p) : fs[i] = p[i]
    BY ONLY <1>4, <1>8, <1>9, TextConcat
  <2> QED
    BY <1>8, <2>1
<1>12. Len(FsFrom(call.items, j)) \in Nat
  BY <1>4, TextLen
<1>13. kind = k
  BY <1>11, <1>12 DEF kind
<1>14. SubSeq(fs, 3, Len(fs)) = FsFrom(call.items, j)
  <2>1. SubSeq(fs, Len(p) + 1, Len(fs)) = FsFrom(call.items, j)
    BY ONLY <1>4, <1>8, <1>9, BehindPart
  <2>2. Len(p) + 1 = 3
    BY <1>8
  <2> QED
    BY ONLY <2>1, <2>2
<1> QED
  BY <1>2, <1>5, <1>10, <1>13, <1>14 DEF char

LEMMA UnknownReads ==
  ASSUME Texts, NEW j \in 1 .. Len(call.items), In(j), call.items[j].conv = "unknown"
  PROVE  char \notin Directives
<1>1. PICK n \in Nat : n = Len(call.items) /\ IsCall(call.items)
  BY CallLength
<1>2. PICK item : item = call.items[j] /\ IsItem(item) /\ item.conv = "unknown"
  BY <1>1, CallLength
<1>3. j \in 0 .. n
  BY <1>1
<1>4. IsText(FsFrom(call.items, j))
  BY <1>1, <1>3, CallRest
<1>5. Len(item.fs) = 2 /\ item.fs[2] \notin Directives
  BY ONLY <1>2, ItemForms
<1>6. IsText(item.fs) /\ item.fs # <<>>
  BY <1>2, <1>5, ItemTexts, TextOne
<1>7. IsText(Tail(item.fs)) /\ Len(Tail(item.fs)) = 1 /\ Tail(item.fs)[1] = item.fs[2]
  <2>1. /\ IsText(Tail(item.fs)) /\ Len(Tail(item.fs)) = Len(item.fs) - 1
        /\ \A i \in 1 .. Len(item.fs) - 1 : Tail(item.fs)[i] = item.fs[i + 1]
    BY ONLY <1>6, TextTail
  <2>2. 1 \in 1 .. Len(item.fs) - 1 /\ 1 + 1 = 2
    BY <1>5
  <2> QED
    BY <1>5, <2>1, <2>2
<1>8. Tail(item.fs) # <<>>
  BY <1>7, TextOne
<1>9. Head(Tail(item.fs) \o FsFrom(call.items, j)) = Tail(item.fs)[1]
  BY ONLY <1>4, <1>7, <1>8, HeadOfConcat
<1> QED
  BY <1>2, <1>5, <1>7, <1>9 DEF In, char

LEMMA WideReads ==
  ASSUME Texts, NEW j \in 1 .. Len(call.items), In(j), call.items[j].conv \in Widths
  PROVE  char \in Layout /\ char = Tail(call.items[j].fs)[1] /\ fs # <<>>
         /\ Tail(fs) = Tail(Tail(call.items[j].fs)) \o FsFrom(call.items, j)
<1>1. PICK n \in Nat : n = Len(call.items) /\ IsCall(call.items)
  BY CallLength
<1>2. PICK item : item = call.items[j] /\ IsItem(item)
  BY <1>1, CallLength
<1>3. j \in 0 .. n
  BY <1>1
<1>4. IsText(FsFrom(call.items, j))
  BY <1>1, <1>3, CallRest
<1>5. PICK t, m : t = Tail(item.fs) /\ m = Len(t)
  OBVIOUS
<1>6. IsText(t) /\ m \in Nat /\ m >= 2 /\ \A i \in 1 .. m - 1 : t[i] \in Layout
  <2>1. item.conv \in Widths
    BY <1>2
  <2>2. WideForm(item, t, m)
    BY ONLY <1>2, <1>5, <2>1, WideItem
  <2> QED
    BY ONLY <2>2 DEF WideForm
<1>7. t[1] \in Layout
  BY <1>6
<1>8. t # <<>>
  <2>1. Len(t) >= 2
    BY ONLY <1>5, <1>6
  <2> QED
    BY ONLY <2>1, Len(<<>>) = 0
<1>9. /\ t \o FsFrom(call.items, j) # <<>> /\ Head(t \o FsFrom(call.items, j)) = t[1]
      /\ Tail(t \o FsFrom(call.items, j)) = Tail(t) \o FsFrom(call.items, j)
  BY ONLY <1>4, <1>6, <1>8, HeadOfConcat
<1> QED
  BY <1>2, <1>5, <1>7, <1>9 DEF In, char

LEMMA BrokenReads ==
  ASSUME Texts, NEW j \in 1 .. Len(call.items), call.items[j].conv = "broken",
         NEW t, t = Tail(call.items[j].fs), NEW m, m = Len(t)
  PROVE  /\ j = Len(call.items) /\ Last(call.items).conv = "broken"
         /\ t \o FsFrom(call.items, j) = t /\ FsFrom(call.items, j) = <<>>
         /\ IsText(t) /\ m \in Nat
         /\ t = <<"A">> \/ \A i \in 1 .. m : t[i] \in Layout /\ (t[i] = "-" => i = 1)
         /\ t # <<>> => Head(t) = t[1] /\ (t[1] = "A" \/ t[1] \in Layout) /\ (t[1] = "A" => t = <<"A">>)
<1>1. PICK n \in Nat : n = Len(call.items) /\ IsCall(call.items)
  BY CallLength
<1>2. PICK item : item = call.items[j] /\ IsItem(item) /\ item.conv = "broken" /\ j = n
  BY <1>1, CallLength
<1>3. FsFrom(call.items, n) = <<>>
  BY <1>1, CallRest
<1>4. /\ IsText(t) /\ m \in Nat
      /\ t = <<"A">> \/ \A i \in 1 .. m : t[i] \in Layout /\ (t[i] = "-" => i = 1)
  BY <1>2, BrokenItem
<1>5. t \o <<>> = t
  BY ONLY <1>4, TextConcat, TextOne
<1>6. ASSUME t # <<>>
      PROVE Head(t) = t[1] /\ (t[1] = "A" \/ t[1] \in Layout) /\ (t[1] = "A" => t = <<"A">>)
  <2>1. Head(t) = t[1] /\ m \in Nat \ {0}
    BY ONLY <1>4, <1>6, m = Len(t), TextTail
  <2>2. 1 \in 1 .. m
    BY ONLY <2>1
  <2>3. \A c \in Layout : c # "A"
    BY CharsAre
  <2>4. t = <<"A">> => t[1] = "A"
    <3>1. <<"A">>[1] = "A"
      OBVIOUS
    <3> QED
      BY ONLY <3>1
  <2> QED
    BY ONLY <1>4, <2>1, <2>2, <2>3, <2>4
<1> QED
  BY <1>1, <1>2, <1>3, <1>4, <1>5, <1>6 DEF Last

(* The character behind the % says what the item is. *)
LEMMA InReads ==
  ASSUME Texts, NEW j \in 1 .. Len(call.items), In(j), fs # <<>>
  PROVE  /\ IsItem(call.items[j]) /\ call.items[j].conv \in Kept \ {"literal"}
         /\ char \in Plain => call.items[j].conv = char
         /\ char = "A" => call.items[j].conv \in Arrays
                          \/ (call.items[j].conv = "broken" /\ fs = <<"A">>)
         /\ char \in Layout => call.items[j].conv \in Widths \cup {"broken"}
         /\ char \notin Directives => call.items[j].conv = "unknown"
         /\ call.items[j].conv = "broken" => fs = Tail(call.items[j].fs)
<1>1. IsItem(call.items[j]) /\ call.items[j].conv \in Kept
  BY CallLength, ItemForms
<1>2. PICK c : c = call.items[j].conv /\ c # "literal"
  BY DEF In
<1>3. Plain = {"%", "s", "d", "b", "o", "u", "x", "X", "c"}
  BY ConvSets DEF Plain
<1>4. /\ \A x \in Plain : x \notin Layout /\ x # "A" /\ x \in Directives
      /\ "A" \notin Layout /\ "A" \in Directives /\ Layout \subseteq Directives
  BY <1>3, CharsAre
<1>5. c \in Plain => char = c
  BY <1>2, PlainReads
<1>6. c \in Arrays => char = "A"
  BY <1>2, ArrayReads
<1>7. c \in Widths => char \in Layout
  BY <1>2, WideReads
<1>8. c = "unknown" => char \notin Directives
  BY <1>2, UnknownReads
<1>9. c = "broken" => /\ (char = "A" /\ fs = <<"A">>) \/ char \in Layout
                      /\ fs = Tail(call.items[j].fs)
  <2> SUFFICES ASSUME c = "broken"
               PROVE /\ (char = "A" /\ fs = <<"A">>) \/ char \in Layout
                     /\ fs = Tail(call.items[j].fs)
    OBVIOUS
  <2>1. PICK t : t = Tail(call.items[j].fs)
    OBVIOUS
  <2>2. PICK m : m = Len(t)
    OBVIOUS
  <2>3. /\ t \o FsFrom(call.items, j) = t
        /\ t # <<>> => Head(t) = t[1] /\ (t[1] = "A" \/ t[1] \in Layout) /\ (t[1] = "A" => t = <<"A">>)
    BY <1>2, <2>1, <2>2, BrokenReads
  <2>4. fs = t
    BY <2>1, <2>3 DEF In
  <2> QED
    BY <2>1, <2>3, <2>4 DEF char
<1>10. c \in Plain \cup Arrays \cup Widths \cup {"unknown", "broken"}
  BY <1>1, <1>2 DEF Kept
<1> QED
  BY <1>1, <1>2, <1>4, <1>5, <1>6, <1>7, <1>8, <1>9, <1>10

-----------------------------------------------------------------------------
(* The steps every version makes.                                              *)
LEMMA SoFarKept ==
  ASSUME version' = version, call' = call, out' = out, printed' = printed \/ version = "lab9",
         strings' = strings, width' = width, NEW i, SoFar(i)
  PROVE  SoFar(i)'
<1>1. Parts' = Parts /\ (\A k : Trusted(k)' <=> Trusted(k)) /\ \A k, c : None(k, c)' <=> None(k, c)
  BY SameCall, TrustedStays
<1>2. (\A k \in 1 .. i : Trusted(k)') => out' = First(Parts')[i]
  BY <1>1 DEF SoFar
<1>3. version' # "lab9" /\ (\A k \in 1 .. i : call'.items[k].conv \in Counted) => printed' = Len(out')
  BY DEF SoFar
<1>4. version' = "lab9" /\ None(i, {"As"})' => strings' = call'.strings
  BY <1>1 DEF SoFar
<1>5. None(i, Widths)' => width' = 0
  BY <1>1 DEF SoFar
<1> QED
  BY <1>2, <1>3, <1>4, <1>5 DEF SoFar

(* The turn at a % between two items. *)
LEMMA PercentTurn ==
  ASSUME PrintfInv, status = "running", NEW i \in 0 .. Len(call.items), At(i), fs # <<>>, char = "%",
         state' = "percent", fs' = Tail(fs), printed' = printed \/ (version = "lab9" /\ printed' = 0),
         UNCHANGED <<version, call, args, out, width, f, strings, status>>
  PROVE  PrintfInv'
<1>1. Texts
  BY DEF PrintfInv
<1>2. PICK j \in 1 .. Len(call.items) :
           /\ j - 1 = i /\ Tail(fs) = Tail(call.items[j].fs) \o FsFrom(call.items, j)
           /\ args = ArgsFrom(call.items, j - 1) /\ call.items[j].conv # "literal"
  BY <1>1, AtReads
<1>3. IsText(fs') /\ Len(out) \in Nat
  BY <1>1, TextTail, TextLen DEF Texts
<1>4. SoFar(j - 1)'
  BY <1>2, SoFarKept DEF At
<1>5. FlagSoFar(j - 1)'
  BY <1>2 DEF At, FlagSoFar, None
<1>6. In(j)'
  BY <1>2, <1>4, <1>5 DEF In
<1>7. InStep'
  BY <1>6 DEF InStep
<1>8. TypeOK'
  BY <1>3 DEF PrintfInv, TypeOK
<1>9. Texts'
  BY <1>1, <1>3 DEF Texts
<1>10. NamedStops'
  BY NamedWhy
<1>11. TextAsAsked' /\ CountIsText'
  BY DEF TextAsAsked, CountIsText
<1> QED
  BY <1>7, <1>8, <1>9, <1>10, <1>11 DEF PrintfInv

(* An item is printed by Put. *)
LEMMA PutDone ==
  ASSUME PrintfInv, status = "running", NEW j \in 1 .. Len(call.items), SoFar(j - 1), FlagSoFar(j - 1),
         Tail(fs) = FsFrom(call.items, j), call.items[j].conv \notin Widths,
         NEW text, IsText(text), NEW count, Put(text, count), args' = ArgsFrom(call.items, j), Keeps,
         count \in 0 .. Len(out) + Len(text),
         version # "lab9" /\ call.items[j].conv \in Counted => count = printed + Len(text),
         Trusted(j) => text = Expected(call.items[j])
  PROVE  PrintfInv'
<1>1. Prints(j, text) /\ printed' = count
  BY DEF Put, Prints
<1>2. width' = width /\ f' = f /\ strings' = strings
  BY DEF Keeps
<1>3. /\ f \in {0, 1} /\ width \in 0 .. MaxInt /\ IsText(strings) /\ Len(strings) = Len(Strings_array)
      /\ \A i \in DOMAIN strings : strings[i] \in {Strings_array[i], <<>>}
  BY DEF PrintfInv, Texts, TypeOK
<1>4. f' \in {0, 1} /\ width' \in 0 .. MaxInt /\ printed' \in 0 .. Len(out) + Len(text)
  BY <1>1, <1>2, <1>3
<1>5. version # "lab9" /\ call.items[j].conv \in Counted => printed' = printed + Len(text)
  BY <1>1
<1>6. /\ IsText(strings') /\ Len(strings') = Len(Strings_array)
      /\ \A i \in DOMAIN strings' : strings'[i] \in {Strings_array[i], <<>>}
  BY <1>2, <1>3
<1> QED
  BY <1>1, <1>2, <1>4, <1>5, <1>6, ItemDone

(* A literal character. *)
LEMMA LiteralTurn ==
  ASSUME PrintfInv, status = "running", NEW i \in 0 .. Len(call.items), At(i), fs # <<>>, char # "%",
         NEW count, Put(<<char>>, count), UNCHANGED args, Keeps,
         count = printed + 1 \/ (version = "lab9" /\ count = 1)
  PROVE  PrintfInv'
<1>1. Texts
  BY DEF PrintfInv
<1>2. PICK j \in 1 .. Len(call.items) :
           /\ j - 1 = i /\ call.items[j].conv = "literal" /\ <<char>> = call.items[j].fs
           /\ Tail(fs) = FsFrom(call.items, j) /\ args = ArgsFrom(call.items, j)
  BY <1>1, AtReads
<1>3. SoFar(j - 1) /\ FlagSoFar(j - 1)
  BY <1>2 DEF At
<1>4. IsText(<<char>>) /\ Len(<<char>>) = 1
  BY TextOne
<1>5. call.items[j].conv \notin Widths
  BY <1>2, ConvSets
<1>6. printed \in 0 .. Len(out) /\ Len(out) \in Nat
  BY <1>1, TextLen DEF PrintfInv, TypeOK, Texts
<1>7. PICK text : text = <<char>>
  OBVIOUS
<1>8. count \in 0 .. Len(out) + Len(text)
  BY <1>4, <1>6, <1>7
<1>9. version # "lab9" => count = printed + Len(text)
  BY <1>4, <1>7
<1>10. text = Expected(call.items[j])
  BY <1>2, <1>7, ExpectedIs
<1>11. args' = ArgsFrom(call.items, j)
  BY <1>2
<1> QED
  BY <1>2, <1>3, <1>4, <1>5, <1>7, <1>8, <1>9, <1>10, <1>11, PutDone

-----------------------------------------------------------------------------
(* The conversions, behind the % of an item.                                   *)
LEMMA PercentDone ==
  ASSUME PrintfInv, status = "running", NEW j \in 1 .. Len(call.items), In(j), fs # <<>>,
         percent_percent
  PROVE  PrintfInv'
<1>1. Texts /\ char = "%" /\ Put(<<"%">>, printed + 1) /\ args' = args /\ Keeps
  BY DEF PrintfInv, percent_percent
<1>2. "%" \in Plain
  BY DEF Plain
<1>3. call.items[j].conv = "%"
  BY <1>1, <1>2, InReads
<1>4. Tail(fs) = FsFrom(call.items, j) /\ args = ArgsFrom(call.items, j)
  BY <1>1, <1>2, <1>3, PlainReads
<1>5. SoFar(j - 1) /\ FlagSoFar(j - 1)
  BY DEF In
<1>6. IsText(<<"%">>) /\ Len(<<"%">>) = 1
  BY TextOne
<1>7. call.items[j].conv \notin Widths
  BY <1>3, ConvSets
<1>8. printed \in 0 .. Len(out) /\ Len(out) \in Nat
  BY <1>1, TextLen DEF PrintfInv, TypeOK, Texts
<1>9. PICK text : text = <<"%">>
  OBVIOUS
<1>10. printed + 1 \in 0 .. Len(out) + Len(text) /\ printed + 1 = printed + Len(text)
  BY <1>6, <1>8, <1>9
<1>11. text = Expected(call.items[j])
  BY <1>3, <1>9, ExpectedIs
<1>12. args' = ArgsFrom(call.items, j)
  BY <1>1, <1>4
<1> QED
  BY <1>1, <1>4, <1>5, <1>6, <1>7, <1>9, <1>10, <1>11, <1>12, PutDone

LEMMA ConvertDone ==
  ASSUME PrintfInv, status = "running", NEW j \in 1 .. Len(call.items), In(j), fs # <<>>,
         char \in {"d", "b", "o", "u", "x", "X"},
         NEW signed \in BOOLEAN, NEW radix \in {2, 8, 10, 16}, NEW table \in {digit, DIGIT},
         Convert(signed, radix, table), signed => char \in {"d", "b", "X"},
         \A n \in MinInt .. MaxInt :
           /\ Trusted(j) /\ n = call.items[j].args[1].int /\ (signed => n # MinInt) /\ call.items[j].conv = char
           => Expected(call.items[j]) = IF signed THEN print_int_d(n, radix, table)
                                        ELSE print_int(n, radix, table)
  PROVE  PrintfInv'
<1>1. Texts
  BY DEF PrintfInv
<1>2. char \in Plain /\ char \in IntDirectives /\ char \notin Widths /\ char \notin {"s", "ws"}
  BY ConvSets DEF Plain
<1>3. call.items[j].conv = char
  BY <1>1, <1>2, InReads
<1>4. Tail(fs) = FsFrom(call.items, j)
  BY <1>1, <1>2, <1>3, PlainReads
<1>5. SoFar(j - 1) /\ FlagSoFar(j - 1) /\ args = ArgsFrom(call.items, j - 1)
  BY DEF In
<1>6. /\ args # <<>> /\ argument = call.items[j].args[1] /\ Tail(args) = ArgsFrom(call.items, j)
      /\ IsArgument(argument) /\ argument.kind = "int"
  BY <1>1, <1>2, <1>3, <1>5, ArgumentReads
<1>7. PICK n \in MinInt .. MaxInt : n = argument.int
  BY <1>6 DEF IsArgument
<1>8. ~ Lacks("int")
  BY <1>6 DEF Lacks
<1>9. CASE signed /\ n = MinInt
  <2>1. Stops("smallest")
    BY <1>7, <1>8, <1>9 DEF Convert
  <2>2. version' = version /\ call' = call /\ status' = "smallest"
    BY <2>1 DEF Stops
  <2>3. \E i \in DOMAIN call.items : /\ call.items[i].conv \in {"d", "b", "X"} \cup Widths
                                     /\ call.items[i].args[1].int = MinInt
    BY <1>1, <1>3, <1>6, <1>7, <1>9, CallLength
  <2>4. NamedStops'
    BY <2>2, <2>3, NamedWhy
  <2> QED
    BY <2>1, <2>4, StopKeeps
<1>10. CASE ~ (signed /\ n = MinInt)
  <2>1. PICK text : text = IF signed THEN print_int_d(n, radix, table) ELSE print_int(n, radix, table)
    OBVIOUS
  <2>2. Put(text, printed + Len(text)) /\ args' = Tail(args) /\ Keeps
    BY <1>7, <1>8, <1>10, <2>1 DEF Convert
  <2>3. IsText(text)
    <3>1. IsText(print_int(n, radix, table)) /\ IsText(print_int_d(n, radix, table))
      BY NumberText
    <3> QED
      BY <2>1, <3>1
  <2>4. Len(text) \in Nat /\ Len(out) \in Nat /\ printed \in 0 .. Len(out)
    BY <1>1, <2>3, TextLen DEF PrintfInv, TypeOK, Texts
  <2>5. printed + Len(text) \in 0 .. Len(out) + Len(text)
    BY <2>4
  <2>6. Trusted(j) => text = Expected(call.items[j])
    BY <1>3, <1>6, <1>7, <1>10, <2>1
  <2>7. args' = ArgsFrom(call.items, j)
    BY <1>6, <2>2
  <2> QED
    BY <1>2, <1>3, <1>4, <1>5, <2>2, <2>3, <2>5, <2>6, <2>7, PutDone
<1> QED
  BY <1>9, <1>10

LEMMA StringDone ==
  ASSUME PrintfInv, status = "running", NEW j \in 1 .. Len(call.items), In(j), fs # <<>>,
         percent_s \/ percent_c
  PROVE  PrintfInv'
<1>1. Texts
  BY DEF PrintfInv
<1>2. /\ "s" \in Plain /\ "c" \in Plain /\ "c" \in IntDirectives /\ {"s", "c"} \cap Widths = {}
      /\ "c" \notin {"s", "ws"}
  BY ConvSets DEF Plain
<1>3. PICK c \in {"s", "c"} : char = c
  BY DEF percent_s, percent_c
<1>4. call.items[j].conv = c
  BY <1>1, <1>2, <1>3, InReads
<1>5. Tail(fs) = FsFrom(call.items, j)
  BY <1>1, <1>2, <1>4, PlainReads
<1>6. SoFar(j - 1) /\ FlagSoFar(j - 1) /\ args = ArgsFrom(call.items, j - 1)
  BY DEF In
<1>7. /\ args # <<>> /\ argument = call.items[j].args[1] /\ Tail(args) = ArgsFrom(call.items, j)
      /\ IsArgument(argument) /\ argument.kind = IF c \in {"s", "ws"} THEN "string" ELSE "int"
  BY <1>1, <1>2, <1>4, <1>6, ArgumentReads
<1>8. PICK text : text = argument.str /\ IsText(text) /\ (c = "c" => Len(text) = 1)
  BY <1>2, <1>7 DEF IsArgument
<1>9. Put(text, printed + Len(text)) /\ args' = Tail(args) /\ Keeps
  <2>1. CASE percent_s
    <3>1. char = "s" /\ PutArgument("string", printed + Len(argument.str))
      BY <2>1 DEF percent_s
    <3>2. ~ Lacks("string")
      BY <1>3, <1>7, <3>1 DEF Lacks
    <3> QED
      BY <1>8, <3>1, <3>2 DEF PutArgument
  <2>2. CASE percent_c
    <3>1. char = "c" /\ PutArgument("int", printed + 1)
      BY <2>2 DEF percent_c
    <3>2. ~ Lacks("int")
      BY <1>2, <1>3, <1>7, <3>1 DEF Lacks
    <3>3. Len(text) = 1
      BY <1>3, <1>8, <3>1
    <3> QED
      BY <1>8, <3>1, <3>2, <3>3 DEF PutArgument
  <2> QED
    BY <2>1, <2>2
<1>10. Len(text) \in Nat /\ Len(out) \in Nat /\ printed \in 0 .. Len(out)
  BY <1>1, <1>8, TextLen DEF PrintfInv, TypeOK, Texts
<1>11. printed + Len(text) \in 0 .. Len(out) + Len(text)
  BY <1>10
<1>12. text = Expected(call.items[j])
  BY <1>4, <1>7, <1>8, ExpectedIs
<1>13. args' = ArgsFrom(call.items, j)
  BY <1>7, <1>9
<1>14. call.items[j].conv \notin Widths
  BY <1>2, <1>4
<1> QED
  BY <1>5, <1>6, <1>8, <1>9, <1>11, <1>12, <1>13, <1>14, PutDone

-----------------------------------------------------------------------------
(* A call begins and ends.                                                     *)
LEMMA NothingPrinted ==
  Texts => First(Parts)[0] = <<>>
BY PartsAre, FirstIs

LEMMA NothingPrintedYet ==
  Texts' => First(Parts')[0] = <<>>
<1>1. (Texts => First(Parts)[0] = <<>>)'
  BY NothingPrinted, PTL
<1> QED
  BY <1>1

LEMMA InitInv ==
  Init => PrintfInv
<1> SUFFICES ASSUME Init PROVE PrintfInv
  OBVIOUS
<1>1. /\ version \in Versions /\ call = [items |-> <<>>, strings |-> Strings_array, f |-> 1]
      /\ fs = <<>> /\ args = <<>> /\ out = <<>> /\ printed = 0
      /\ state = "init" /\ width = 0 /\ f = 1 /\ strings = Strings_array /\ status = "idle"
  BY DEF Init
<1>2. version \in {"lab8", "lab9", "lab11"}
  BY <1>1, PrintfAssumption
<1>3. TypeOK
  <2>1. MaxInt \in Nat /\ Len(<<>>) = 0 /\ DOMAIN <<>> = {}
    BY IntRange
  <2> QED
    BY <1>1, <2>1 DEF TypeOK
<1>4. Texts
  <2>1. IsText(<<>>)
    BY TextOne
  <2>2. IsCall(call.items) /\ call.f = 1
    BY <1>1 DEF IsCall
  <2> QED
    BY <1>1, <1>2, <2>1, <2>2, ArraysAre DEF Texts
<1>5. NamedStops
  BY <1>1 DEF NamedStops
<1>6. TextAsAsked /\ CountIsText
  BY <1>1 DEF TextAsAsked, CountIsText
<1> QED
  BY <1>1, <1>3, <1>4, <1>5, <1>6 DEF PrintfInv

LEMMA CallInv ==
  ASSUME PrintfInv, NEW items \in Calls, Call(items)
  PROVE  PrintfInv'
<1>1. /\ call' = [items |-> items, strings |-> strings, f |-> f]
      /\ fs' = FlattenSeq([i \in DOMAIN items |-> items[i].fs])
      /\ args' = FlattenSeq([i \in DOMAIN items |-> items[i].args])
      /\ out' = <<>> /\ printed' = 0 /\ state' = "init" /\ width' = 0 /\ status' = "running"
      /\ version' = version /\ f' = f /\ strings' = strings
  BY DEF Call
<1>2. call'.items = items /\ call'.strings = strings /\ call'.f = f
  BY <1>1
<1>3. IsCall(items)
  BY DEF IsCall
<1>4. 0 \in 0 .. Len(items)
  BY <1>3, CallItems
<1>5. /\ fs' = FsFrom(items, 0) /\ args' = ArgsFrom(items, 0)
      /\ IsText(fs') /\ IsText(args') /\ AllArguments(args')
  <2>1. fs' = FsFrom(items, 0) /\ args' = ArgsFrom(items, 0)
    BY <1>1, <1>3, CallRest DEF Formats, Arguments
  <2> QED
    BY <1>3, <1>4, <2>1, CallRest, AllArgumentsFrom
<1>6. f \in {0, 1} /\ version \in {"lab8", "lab9", "lab11"}
  BY DEF PrintfInv, TypeOK, Texts
<1>7. TypeOK'
  <2>1. MaxInt \in Nat /\ Len(<<>>) = 0
    BY IntRange
  <2> QED
    BY <1>1, <1>5, <2>1 DEF PrintfInv, TypeOK, AllArguments
<1>8. Texts'
  <2>1. IsText(<<>>)
    BY TextOne
  <2>2. IsCall(call'.items)
    BY <1>2, <1>3
  <2> QED
    BY <1>1, <1>2, <1>5, <1>6, <2>1, <2>2 DEF PrintfInv, Texts
<1>9. NamedStops'
  BY <1>1 DEF NamedStops
<1>10. TextAsAsked' /\ CountIsText'
  BY <1>1 DEF TextAsAsked, CountIsText
<1>11. SoFar(0)'
  <2>1. out' = First(Parts')[0]
    BY <1>1, <1>8, NothingPrintedYet
  <2>2. printed' = Len(out')
    BY <1>1
  <2>3. strings' = call'.strings /\ width' = 0
    BY <1>1, <1>2
  <2> QED
    BY <2>1, <2>2, <2>3 DEF SoFar
<1>12. At(0)'
  BY <1>1, <1>2, <1>5, <1>11 DEF At, FlagSoFar
<1>13. InStep'
  <2>1. 0 \in 0 .. Len(call'.items)
    BY <1>2, <1>4
  <2> QED
    BY <1>12, <2>1 DEF InStep
<1> QED
  BY <1>7, <1>8, <1>9, <1>10, <1>13 DEF PrintfInv

(* The format is read to its end: every item is done, or the last was cut off. *)
LEMMA AllDone ==
  ASSUME PrintfInv, status = "running", fs = <<>>, ~ OutOfStep
  PROVE  \/ SoFar(Len(call.items))
         \/ \E i \in DOMAIN call.items : call.items[i].conv = "broken"
<1>1. Texts /\ InStep
  BY DEF PrintfInv
<1>2. PICK n \in Nat : n = Len(call.items) /\ DOMAIN call.items = 1 .. n /\ IsCall(call.items)
  BY <1>1, CallLength
<1>3. ASSUME NEW i \in 0 .. n, At(i) PROVE SoFar(n)
  <2>1. CASE i = n
    BY <1>3, <2>1 DEF At
  <2>2. CASE i # n
    <3>1. PICK j \in 1 .. n : j - 1 = i
      <4>1. i + 1 \in 1 .. n /\ (i + 1) - 1 = i
        BY <2>2
      <4> QED
        BY <4>1
    <3>2. <<>> = call.items[j].fs \o FsFrom(call.items, j)
      BY <1>2, <1>3, <3>1, CallRest DEF At
    <3>3. IsText(call.items[j].fs) /\ Len(call.items[j].fs) \in Nat \ {0}
      BY <1>1, <1>2, CallLength, ItemTexts
    <3>4. IsText(FsFrom(call.items, j)) /\ Len(FsFrom(call.items, j)) \in Nat
      <4>1. j \in 0 .. n
        OBVIOUS
      <4> QED
        BY <1>2, <4>1, CallRest, TextLen
    <3>5. Len(call.items[j].fs \o FsFrom(call.items, j)) = Len(call.items[j].fs) + Len(FsFrom(call.items, j))
      BY ONLY <3>3, <3>4, TextConcat
    <3>6. Len(call.items[j].fs) + Len(FsFrom(call.items, j)) = 0
      BY <3>2, <3>5, TextOne
    <3>7. PICK l \in Nat \ {0} : l = Len(call.items[j].fs)
      BY <3>3
    <3>8. PICK r \in Nat : r = Len(FsFrom(call.items, j))
      BY <3>4
    <3>9. l + r = 0
      BY <3>6, <3>7, <3>8
    <3> QED
      BY ONLY <3>9, l \in Nat \ {0}, r \in Nat
  <2> QED
    BY <2>1, <2>2
<1>4. ASSUME NEW i \in 1 .. n, NEW t, IsText(t), t # <<>>, fs = t \o FsFrom(call.items, i) PROVE FALSE
  <2>1. i \in 0 .. n
    OBVIOUS
  <2>2. IsText(FsFrom(call.items, i))
    BY <1>2, <2>1, CallRest
  <2>3. t \o FsFrom(call.items, i) # <<>>
    BY ONLY <1>4, <2>2, HeadOfConcat
  <2> QED
    BY <1>4, <2>3
<1>5. ASSUME NEW i \in 1 .. n, In(i) PROVE call.items[i].conv = "broken"
  <2>1. PICK item : item = call.items[i] /\ IsItem(item)
    BY <1>1, <1>2, CallLength
  <2>2. PICK t : t = Tail(item.fs)
    OBVIOUS
  <2>3. fs = t \o FsFrom(call.items, i) /\ item.conv # "literal"
    BY <1>5, <2>1, <2>2 DEF In
  <2>4. IsText(item.fs) /\ item.fs # <<>> /\ Len(item.fs) \in Nat
    <3>1. IsText(item.fs) /\ Len(item.fs) \in Nat \ {0}
      BY <2>1, ItemTexts
    <3> QED
      BY <3>1, TextOne
  <2>5. IsText(t) /\ Len(t) = Len(item.fs) - 1
    BY <2>2, <2>4, TextTail
  <2>6. t = <<>>
    BY <1>4, <2>3, <2>5
  <2>7. Len(item.fs) = 1
    BY <2>4, <2>5, <2>6, TextOne
  <2>8. item.conv \in Plain \cup Arrays \cup Widths \cup {"unknown"} => Len(item.fs) # 1
    <3>1. item.conv \in Plain => Len(item.fs) = 2
      <4> SUFFICES ASSUME item.conv \in Plain PROVE Len(item.fs) = 2
        OBVIOUS
      <4>1. item.fs = <<"%", item.conv>>
        BY <2>1, ItemForms DEF Plain
      <4> QED
        BY <4>1
    <3>2. item.conv \in Arrays => Len(item.fs) = 3
      <4> SUFFICES ASSUME item.conv \in Arrays PROVE Len(item.fs) = 3
        OBVIOUS
      <4>1. PICK k : k = ArrayKind[item.conv]
        OBVIOUS
      <4>2. item.fs = <<"%", "A", k>>
        BY <2>1, <4>1, ItemForms
      <4>3. Len(<<"%", "A", k>>) = 3
        OBVIOUS
      <4> QED
        BY ONLY <4>2, <4>3
    <3>3. item.conv \in Widths => Len(item.fs) > 2
      BY <2>1, ItemForms
    <3>4. item.conv = "unknown" => Len(item.fs) = 2
      BY <2>1, ItemForms
    <3>5. PICK l \in Nat : l = Len(item.fs)
      BY <2>4
    <3>6. ASSUME l = 1 PROVE item.conv \notin Plain \cup Arrays \cup Widths \cup {"unknown"}
      <4>1. l # 2 /\ l # 3 /\ ~ (l > 2)
        BY ONLY <3>6
      <4> QED
        BY ONLY <3>1, <3>2, <3>3, <3>4, <3>5, <4>1
    <3> QED
      BY ONLY <3>5, <3>6
  <2>9. item.conv \in Kept
    BY <2>1, ItemForms
  <2> QED
    BY <2>1, <2>3, <2>7, <2>8, <2>9 DEF Kept
<1>6. ASSUME NEW i \in 1 .. n, Signs(i) PROVE call.items[i].conv = "broken"
  <2>1. PICK item : item = call.items[i] /\ IsItem(item)
    BY <1>1, <1>2, CallLength
  <2>2. PICK t : t = Tail(item.fs)
    OBVIOUS
  <2>3. /\ fs = Tail(t) \o FsFrom(call.items, i) /\ item.conv \in Widths \cup {"broken"}
        /\ item.fs[2] = "-"
    BY <1>6, <2>1, <2>2 DEF Signs
  <2>4. ASSUME item.conv \in Widths PROVE FALSE
    <3>1. PICK m : m = Len(t)
      OBVIOUS
    <3>2. IsText(t) /\ m \in Nat /\ m >= 2
      <4>1. WideForm(item, t, m)
        BY ONLY <2>1, <2>2, <2>4, <3>1, WideItem
      <4> QED
        BY <4>1 DEF WideForm
    <3>3. t # <<>>
      BY ONLY <3>1, <3>2, Len(<<>>) = 0
    <3>4. IsText(Tail(t)) /\ Len(Tail(t)) = m - 1
      BY ONLY <3>1, <3>2, <3>3, TextTail
    <3>5. Tail(t) # <<>>
      <4>1. PICK s : s = Tail(t)
        OBVIOUS
      <4>2. Len(s) >= 1
        BY ONLY <3>2, <3>4, <4>1
      <4>3. s # <<>>
        BY ONLY <4>2, Len(<<>>) = 0
      <4> QED
        BY <4>1, <4>3
    <3> QED
      BY <1>4, <2>3, <3>4, <3>5
  <2> QED
    BY <2>1, <2>3, <2>4
<1> QED
  BY <1>1, <1>2, <1>3, <1>5, <1>6 DEF InStep

LEMMA ReturnInv ==
  ASSUME PrintfInv, Return
  PROVE  PrintfInv'
<1>1. /\ status = "running" /\ fs = <<>> /\ status' = "returned"
      /\ UNCHANGED <<version, call, fs, args, out, printed, state, width, f, strings>>
  BY DEF Return
<1>2. Texts
  BY DEF PrintfInv
<1>3. PICK n \in Nat : n = Len(call.items) /\ DOMAIN call.items = 1 .. n /\ IsCall(call.items)
  BY <1>2, CallLength
<1>4. ASSUME \A i \in DOMAIN call.items : call.items[i].conv \in Promised, ~ OutOfStep
      PROVE SoFar(n)
  <2>1. "broken" \notin Promised
    BY DEF Promised
  <2> QED
    BY <1>1, <1>3, <1>4, <2>1, AllDone
<1>5. TextAsAsked'
  <2> SUFFICES ASSUME \A i \in DOMAIN call.items : Trusted(i)
               PROVE  out = FlattenSeq([i \in DOMAIN call.items |-> Expected(call.items[i])])
    BY <1>1, TrustedStays DEF TextAsAsked
  <2>1. \A i \in DOMAIN call.items : call.items[i].conv \in Promised
    BY TrustedIs
  <2>2. ~ OutOfStep
    <3> SUFFICES ASSUME version = "lab11", NEW i \in DOMAIN call.items, call.items[i].conv \in Arrays
                 PROVE  FALSE
      BY DEF OutOfStep, Asked
    <3>1. Trusted(i)
      OBVIOUS
    <3>2. call.items[i].conv \in {"Ad", "As", "Ax", "Ac"}
      BY ConvSets
    <3> QED
      BY <3>1, <3>2, TrustedIs
  <2>3. out = First(Parts)[n]
    BY <1>3, <1>4, <2>1, <2>2 DEF SoFar
  <2>4. Parts = [i \in DOMAIN call.items |-> Expected(call.items[i])]
    BY DEF Parts
  <2>5. IsParts(Parts) /\ Len(Parts) = n
    BY <1>2, <1>3, PartsAre
  <2>6. FlattenSeq(Parts) = First(Parts)[n]
    BY <2>5, FlattenIsFirst
  <2> QED
    BY <2>3, <2>4, <2>6
<1>6. CountIsText'
  <2> SUFFICES ASSUME version # "lab9", \A i \in DOMAIN call.items : call.items[i].conv \in Counted
               PROVE  printed = Len(out)
    BY <1>1 DEF CountIsText
  <2>1. \A c \in Counted : c \in Promised /\ c \notin Arrays
    BY ConvSets DEF Counted, Promised
  <2>2. ~ OutOfStep
    BY <2>1 DEF OutOfStep, Asked
  <2>3. SoFar(n)
    BY <1>4, <2>1, <2>2
  <2> QED
    BY <1>3, <2>3 DEF SoFar
<1>7. TypeOK'
  BY <1>1 DEF PrintfInv, TypeOK
<1>8. Texts'
  BY <1>1, <1>2 DEF Texts
<1>9. NamedStops'
  BY <1>1, NamedWhy
<1> QED
  BY <1>1, <1>5, <1>6, <1>7, <1>8, <1>9 DEF PrintfInv

LEMMA ResumeInv ==
  ASSUME PrintfInv, Resume
  PROVE  PrintfInv'
<1>1. /\ status' = "idle" /\ call' = [items |-> <<>>, strings |-> strings, f |-> f]
      /\ out' = <<>> /\ printed' = 0 /\ args' = <<>> /\ state' = "init" /\ width' = 0
      /\ version' = version /\ fs' = fs /\ f' = f /\ strings' = strings
  BY DEF Resume
<1>2. call'.items = <<>> /\ call'.f = f
  BY <1>1
<1>3. TypeOK'
  <2>1. MaxInt \in Nat /\ Len(<<>>) = 0 /\ DOMAIN <<>> = {}
    BY IntRange
  <2> QED
    BY <1>1, <2>1 DEF PrintfInv, TypeOK
<1>4. Texts'
  <2>1. IsText(<<>>)
    BY TextOne
  <2>2. IsCall(call'.items) /\ call'.f \in {0, 1}
    BY <1>2 DEF IsCall, PrintfInv, TypeOK
  <2> QED
    BY <1>1, <2>1, <2>2 DEF PrintfInv, Texts
<1>5. NamedStops'
  BY <1>1 DEF NamedStops
<1>6. TextAsAsked' /\ CountIsText'
  BY <1>1 DEF TextAsAsked, CountIsText
<1> QED
  BY <1>1, <1>3, <1>4, <1>5, <1>6 DEF PrintfInv

LEMMA StutterInv ==
  ASSUME PrintfInv, UNCHANGED vars
  PROVE  PrintfInv'
<1>1. UNCHANGED <<version, call, fs, args, out, printed, state, width, f, strings, status>>
  BY DEF vars
<1>2. Parts' = Parts /\ (OutOfStep' <=> OutOfStep)
  BY <1>1, SameCall
<1>3. TypeOK' /\ Texts'
  BY <1>1 DEF PrintfInv, TypeOK, Texts
<1>4. NamedStops'
  BY <1>1 DEF PrintfInv, NamedStops, OutOfStep, Asked
<1>5. TextAsAsked' /\ CountIsText'
  <2>1. \A i : Trusted(i)' <=> Trusted(i)
    BY <1>1, TrustedStays
  <2> QED
    BY <1>1, <2>1 DEF PrintfInv, TextAsAsked, CountIsText
<1>6. \A i : SoFar(i) => SoFar(i)'
  BY <1>1, SoFarKept
<1>7. \A i : FlagSoFar(i) => FlagSoFar(i)'
  BY <1>1 DEF FlagSoFar, None
<1>8. \A i : (At(i) => At(i)') /\ (In(i) => In(i)') /\ (Signs(i) => Signs(i)')
  BY <1>1, <1>6, <1>7 DEF At, In, Signs
<1>9. InStep => InStep'
  BY <1>1, <1>8 DEF InStep
<1> QED
  BY <1>1, <1>2, <1>3, <1>4, <1>5, <1>9 DEF PrintfInv

-----------------------------------------------------------------------------
(* The widths: what is in front of a conversion, and behind it.               *)
SplitsAt(s, u, r, k) ==
  /\ s[k] = u[k] /\ SubSeq(s, 1, k - 1) = SubSeq(u, 1, k - 1) /\ SubSeq(s, k + 1, Len(s)) = r
  /\ (\A i \in 1 .. k - 1 : u[i] \in Decimal) /\ u[k] \notin Decimal => Behind(s) = k
  /\ (\A i \in 1 .. k - 1 : u[i] \in Layout) /\ u[k] \notin Layout => Behind9(s) = k

LEMMA WidthPart ==
  ASSUME NEW u, IsText(u), NEW r, IsText(r), NEW k, k = Len(u), k >= 1,
         NEW s, s = u \o r
  PROVE  SplitsAt(s, u, r, k)
<1>1. k \in Nat \ {0}
  BY TextLen
<1>2. k \in 1 .. k /\ k - 1 \in 0 .. k /\ \A i \in 1 .. k - 1 : i \in 1 .. k
  BY ONLY <1>1
<1>3. /\ IsText(s) /\ Len(s) = k + Len(r) /\ \A i \in 1 .. k : s[i] = u[i]
  BY ONLY IsText(u), IsText(r), k = Len(u), s = u \o r, TextConcat
<1>4. SubSeq(s, k + 1, Len(s)) = r /\ \A n \in 0 .. k : SubSeq(s, 1, n) = SubSeq(u, 1, n)
  BY ONLY IsText(u), IsText(r), k = Len(u), s = u \o r, BehindPart
<1>5. k \in 1 .. Len(s)
  <2>1. PICK l \in Nat : l = Len(r)
    BY TextLen
  <2>2. k \in 1 .. k + l
    BY ONLY <1>1, l \in Nat
  <2> QED
    BY <1>3, <2>1, <2>2
<1>6. /\ (\A i \in 1 .. k - 1 : s[i] \in Decimal) /\ s[k] \notin Decimal => Behind(s) = k
      /\ (\A i \in 1 .. k - 1 : s[i] \in Layout) /\ s[k] \notin Layout => Behind9(s) = k
  BY ONLY <1>3, <1>5, BehindIs
<1>7. s[k] = u[k] /\ \A i \in 1 .. k - 1 : s[i] = u[i]
  BY ONLY <1>2, <1>3
<1>8. SubSeq(s, 1, k - 1) = SubSeq(u, 1, k - 1)
  BY ONLY <1>2, <1>4
<1> QED
  BY ONLY <1>4, <1>6, <1>7, <1>8 DEF SplitsAt

(* What the handlers of a width find, with the sign and without it. *)
FoundAt(j, item, t, k) ==
  /\ k \in Nat /\ k > 0 /\ fs[k] = WideKind[item.conv] /\ SubSeq(fs, k + 1, Len(fs)) = FsFrom(call.items, j)
  /\ SubSeq(fs, 1, k - 1) = Figures(item) /\ Behind9(fs) = k
  /\ ~ item.left => Behind(fs) = k
  /\ char = t[1] /\ (item.left <=> char = "-")
  /\ item.left => char \notin Decimal

LEMMA WidthFound ==
  ASSUME Texts, NEW j \in 1 .. Len(call.items), NEW item, item = call.items[j], item.conv \in Widths,
         NEW t, t = Tail(item.fs), NEW k, k = Len(t), fs = t \o FsFrom(call.items, j)
  PROVE  FoundAt(j, item, t, k)
<1>1. PICK n \in Nat : n = Len(call.items) /\ IsCall(call.items)
  BY CallLength
<1>2. IsItem(item)
  BY <1>1, CallLength
<1>3. PICK r : r = FsFrom(call.items, j) /\ IsText(r)
  <2>1. j \in 0 .. n
    BY <1>1
  <2> QED
    BY <1>1, <2>1, CallRest
<1>4. /\ IsText(t) /\ k \in Nat /\ k >= 2
      /\ t[k] = WideKind[item.conv] /\ t[k] \notin Layout
      /\ SubSeq(t, 1, k - 1) = Figures(item)
      /\ \A i \in 1 .. k - 1 : t[i] \in Layout /\ (t[i] = "-" => i = 1)
      /\ item.left <=> t[1] = "-"
  <2>1. WideForm(item, t, k)
    BY ONLY <1>2, item.conv \in Widths, t = Tail(item.fs), k = Len(t), WideItem
  <2> QED
    BY ONLY <2>1 DEF WideForm
<1>5. k >= 1 /\ fs = t \o r
  <2>1. fs = t \o r
    BY <1>3, Zenon
  <2>2. k >= 1
    BY ONLY <1>4
  <2> QED
    BY ONLY <2>1, <2>2
<1>6. /\ fs[k] = t[k] /\ SubSeq(fs, 1, k - 1) = SubSeq(t, 1, k - 1) /\ SubSeq(fs, k + 1, Len(fs)) = r
      /\ (\A i \in 1 .. k - 1 : t[i] \in Decimal) /\ t[k] \notin Decimal => Behind(fs) = k
      /\ (\A i \in 1 .. k - 1 : t[i] \in Layout) /\ t[k] \notin Layout => Behind9(fs) = k
  <2>1. IsText(t) /\ k >= 1 /\ fs = t \o r
    BY <1>4, <1>5
  <2>2. SplitsAt(fs, t, r, k)
    BY ONLY <1>3, <2>1, k = Len(t), WidthPart
  <2> QED
    BY ONLY <2>2 DEF SplitsAt
<1>7. ASSUME ~ item.left PROVE Behind(fs) = k
  <2>1. \A i \in 1 .. k - 1 : t[i] # "-"
    BY ONLY <1>4, <1>7
  <2>2. \A c \in Layout : c = "-" \/ c \in Decimal
    BY CharsAre
  <2>3. \A i \in 1 .. k - 1 : t[i] \in Decimal
    BY ONLY <1>4, <2>1, <2>2
  <2>4. t[k] \notin Decimal
    BY <1>4, CharsAre
  <2> QED
    BY <1>6, <2>3, <2>4
<1>8. char = t[1]
  <2>1. t # <<>>
    BY ONLY <1>4, k = Len(t), Len(<<>>) = 0
  <2>2. Head(t \o r) = t[1]
    BY ONLY <1>3, <1>4, <2>1, HeadOfConcat
  <2> QED
    BY <1>5, <2>2 DEF char
<1>9. "-" \notin Decimal
  BY CharsAre
<1>10. k \in Nat /\ k > 0
  BY ONLY <1>4
<1>11. fs[k] = WideKind[item.conv] /\ SubSeq(fs, 1, k - 1) = Figures(item)
  BY ONLY <1>4, <1>6
<1>12. Behind9(fs) = k
  <2>1. \A i \in 1 .. k - 1 : t[i] \in Layout
    BY ONLY <1>4
  <2> QED
    BY ONLY <1>4, <1>6, <2>1
<1>13. SubSeq(fs, k + 1, Len(fs)) = FsFrom(call.items, j)
  BY <1>3, <1>6
<1>14. (item.left <=> char = "-") /\ (item.left => char \notin Decimal)
  BY ONLY <1>4, <1>8, <1>9
<1> QED
  BY ONLY <1>7, <1>8, <1>10, <1>11, <1>12, <1>13, <1>14 DEF FoundAt

LEMMA SignedFound ==
  ASSUME Texts, NEW j \in 1 .. Len(call.items), Signs(j), NEW item, item = call.items[j], item.conv \in Widths
  PROVE  \E k \in Nat :
           /\ k > 0 /\ fs # <<>> /\ fs[k] = WideKind[item.conv] /\ SubSeq(fs, k + 1, Len(fs)) = FsFrom(call.items, j)
           /\ SubSeq(fs, 1, k - 1) = Tail(Figures(item)) /\ Behind(fs) = k
           /\ char \in Decimal /\ item.left /\ IsText(Figures(item)) /\ Figures(item) # <<>>
           /\ Figures(item)[1] = "-" /\ \A i \in 1 .. Len(Figures(item)) : Figures(item)[i] \in Layout
<1>1. PICK n \in Nat : n = Len(call.items) /\ IsCall(call.items)
  BY CallLength
<1>2. IsItem(item)
  BY <1>1, CallLength
<1>3. PICK r : r = FsFrom(call.items, j) /\ IsText(r)
  <2>1. j \in 0 .. n
    BY <1>1
  <2> QED
    BY <1>1, <2>1, CallRest
<1>4. PICK t : t = Tail(item.fs)
  OBVIOUS
<1>5. PICK m : m = Len(t)
  OBVIOUS
<1>6. PICK g : g = Figures(item)
  OBVIOUS
<1>7. /\ IsText(t) /\ m \in Nat /\ m >= 2 /\ (item.left => m >= 3)
      /\ t[m] = WideKind[item.conv] /\ t[m] \notin Layout
      /\ SubSeq(t, 1, m - 1) = g /\ IsText(g) /\ Len(g) = m - 1
      /\ \A i \in 1 .. m - 1 : t[i] \in Layout /\ (t[i] = "-" => i = 1) /\ g[i] = t[i]
      /\ item.left <=> t[1] = "-"
  <2>1. WideForm(item, t, m)
    BY ONLY <1>2, item.conv \in Widths, <1>4, <1>5, WideItem
  <2> QED
    BY ONLY <1>6, <2>1 DEF WideForm
<1>8. item.left
  <2>1. item.fs[2] = "-"
    BY DEF Signs
  <2> QED
    BY <1>2, <2>1, ItemForms
<1>9. m >= 3 /\ t[1] = "-"
  BY <1>7, <1>8
<1>10. PICK u : u = Tail(t)
  OBVIOUS
<1>11. PICK k \in Nat : k = m - 1 /\ k >= 2
  <2>1. m - 1 \in Nat /\ m - 1 >= 2
    BY ONLY <1>7, <1>9
  <2> QED
    BY <2>1
<1>12. IsText(u) /\ Len(u) = k /\ \A i \in 1 .. k : u[i] = t[i + 1]
  <2>1. t # <<>>
    BY ONLY <1>5, <1>9, Len(<<>>) = 0
  <2>2. IsText(Tail(t)) /\ Len(Tail(t)) = Len(t) - 1 /\ \A i \in 1 .. Len(t) - 1 : Tail(t)[i] = t[i + 1]
    BY ONLY <1>7, <2>1, TextTail
  <2> QED
    BY ONLY <1>5, <1>10, <1>11, <2>2
<1>13. u[k] = WideKind[item.conv] /\ u[k] \notin Decimal /\ \A i \in 1 .. k - 1 : u[i] \in Decimal
  <2>1. k \in 1 .. k /\ k + 1 = m /\ \A i \in 1 .. k - 1 : i \in 1 .. k /\ i + 1 \in 1 .. m - 1 /\ i + 1 # 1
    BY ONLY <1>7, <1>11
  <2>2. \A c \in Layout : c = "-" \/ c \in Decimal
    BY CharsAre
  <2>3. \A c \in Decimal : c \in Layout
    BY CharsAre
  <2> QED
    BY ONLY <1>7, <1>12, <2>1, <2>2, <2>3
<1>14. fs = u \o r
  BY <1>3, <1>4, <1>10 DEF Signs
<1>15. /\ fs[k] = u[k] /\ SubSeq(fs, 1, k - 1) = SubSeq(u, 1, k - 1) /\ SubSeq(fs, k + 1, Len(fs)) = r
       /\ (\A i \in 1 .. k - 1 : u[i] \in Decimal) /\ u[k] \notin Decimal => Behind(fs) = k
  <2>1. k >= 1 /\ k = Len(u)
    BY ONLY <1>11, <1>12
  <2>2. IsText(u)
    BY <1>12
  <2>3. SplitsAt(fs, u, r, k)
    BY ONLY <1>3, <1>14, <2>1, <2>2, WidthPart
  <2> QED
    BY ONLY <2>3 DEF SplitsAt
<1>16. fs # <<>> /\ char \in Decimal
  <2>1. u # <<>>
    BY ONLY <1>11, <1>12, Len(<<>>) = 0
  <2>2. u \o r # <<>> /\ Head(u \o r) = u[1]
    BY ONLY <1>3, <1>12, <2>1, HeadOfConcat
  <2>3. 1 \in 1 .. k - 1
    BY ONLY <1>11
  <2> QED
    BY <1>13, <1>14, <2>2, <2>3 DEF char
<1>17. SubSeq(u, 1, k - 1) = Tail(g)
  <2>1. g # <<>> /\ g[1] = "-"
    <3>1. Len(g) = k /\ 1 \in 1 .. m - 1
      BY ONLY <1>7, <1>11
    <3>2. g # <<>>
      BY ONLY <1>11, <3>1, Len(<<>>) = 0
    <3> QED
      BY <1>7, <1>9, <3>1, <3>2
  <2>2. PICK h : h = Tail(g) /\ IsText(h) /\ Len(h) = k - 1 /\ \A i \in 1 .. k - 1 : h[i] = g[i + 1]
    <3>1. IsText(Tail(g)) /\ Len(Tail(g)) = Len(g) - 1 /\ \A i \in 1 .. Len(g) - 1 : Tail(g)[i] = g[i + 1]
      BY ONLY <1>7, <2>1, TextTail
    <3>2. PICK h : h = Tail(g)
      OBVIOUS
    <3>3. Len(g) = k
      BY ONLY <1>7, <1>11
    <3>4. h = Tail(g) /\ IsText(h) /\ Len(h) = k - 1 /\ \A i \in 1 .. k - 1 : h[i] = g[i + 1]
      BY ONLY <3>1, <3>2, <3>3
    <3> QED
      BY ONLY <3>4
  <2>3. PICK v : /\ v = SubSeq(u, 1, k - 1) /\ IsText(v) /\ Len(v) = k - 1
                 /\ \A i \in 1 .. k - 1 : v[i] = u[i]
    <3>1. PICK l \in Int : l = k - 1 /\ l <= Len(u) /\ 1 \in Nat \ {0}
      BY <1>11, <1>12
    <3>2. /\ IsText(SubSeq(u, 1, l))
          /\ Len(SubSeq(u, 1, l)) = IF 1 <= l THEN l - 1 + 1 ELSE 0
          /\ \A i \in 1 .. l - 1 + 1 : SubSeq(u, 1, l)[i] = u[1 + i - 1]
      BY ONLY <1>12, <3>1, l \in Int, TextPart
    <3>3. (IF 1 <= l THEN l - 1 + 1 ELSE 0) = l /\ l - 1 + 1 = l /\ \A i \in 1 .. l : 1 + i - 1 = i
      BY ONLY <1>11, <3>1
    <3>4. PICK v : v = SubSeq(u, 1, l)
      OBVIOUS
    <3>5. IsText(v) /\ Len(v) = l /\ \A i \in 1 .. l : v[i] = u[i]
      <4>1. \A i \in 1 .. l : v[i] = u[1 + i - 1]
        BY ONLY <3>2, <3>3, <3>4, Zenon
      <4> QED
        BY ONLY <3>2, <3>3, <3>4, <4>1, Zenon
    <3>6. v = SubSeq(u, 1, k - 1) /\ IsText(v) /\ Len(v) = k - 1 /\ \A i \in 1 .. k - 1 : v[i] = u[i]
      BY ONLY <3>1, <3>4, <3>5, Zenon
    <3> QED
      BY ONLY <3>6, Zenon
  <2>4. \A i \in 1 .. k - 1 : v[i] = h[i]
    <3>1. \A i \in 1 .. k - 1 : i \in 1 .. k /\ i + 1 \in 1 .. m - 1
      BY ONLY <1>7, <1>11
    <3> QED
      BY ONLY <1>7, <1>12, <2>2, <2>3, <3>1, SMTT(40)
  <2>5. v = h
    BY ONLY <2>2, <2>3, <2>4, TextEqual
  <2> QED
    BY <2>2, <2>3, <2>5
<1>18. g # <<>> /\ g[1] = "-" /\ \A i \in 1 .. Len(g) : g[i] \in Layout
  <2>1. Len(g) = k /\ 1 \in 1 .. m - 1 /\ \A i \in 1 .. Len(g) : i \in 1 .. m - 1
    BY ONLY <1>7, <1>11
  <2>2. g # <<>>
    BY ONLY <1>11, <2>1, Len(<<>>) = 0
  <2> QED
    BY ONLY <1>7, <1>9, <2>1, <2>2
<1>19. k > 0 /\ fs[k] = WideKind[item.conv] /\ Behind(fs) = k /\ SubSeq(fs, 1, k - 1) = Tail(g)
  <2>1. k > 0
    BY ONLY <1>11
  <2>2. fs[k] = WideKind[item.conv]
    BY ONLY <1>13, <1>15
  <2>3. (\A i \in 1 .. k - 1 : u[i] \in Decimal) /\ u[k] \notin Decimal
    BY ONLY <1>13
  <2>4. Behind(fs) = k
    BY ONLY <1>15, <2>3
  <2>5. SubSeq(fs, 1, k - 1) = Tail(g)
    BY ONLY <1>15, <1>17
  <2> QED
    BY ONLY <2>1, <2>2, <2>4, <2>5
<1>20. SubSeq(fs, k + 1, Len(fs)) = FsFrom(call.items, j)
  BY <1>3, <1>15
<1>21. IsText(g)
  BY ONLY <1>7
<1> QED
  BY ONLY <1>6, <1>8, k \in Nat, <1>16, <1>18, <1>19, <1>20, <1>21

(* A directive that was cut off has no conversion to find. *)
LEMMA NothingFound ==
  ASSUME Texts, NEW j \in 1 .. Len(call.items), call.items[j].conv = "broken", fs # <<>>
  PROVE  /\ In(j) /\ char \in Layout => Behind9(fs) = 0
         /\ In(j) /\ char \in Decimal => Behind(fs) = 0
         /\ Signs(j) => char \in Decimal /\ Behind(fs) = 0
<1>1. PICK t : t = Tail(call.items[j].fs)
  OBVIOUS
<1>2. PICK m : m = Len(t)
  OBVIOUS
<1>3. /\ FsFrom(call.items, j) = <<>> /\ t \o FsFrom(call.items, j) = t
      /\ IsText(t) /\ m \in Nat
      /\ t = <<"A">> \/ \A i \in 1 .. m : t[i] \in Layout /\ (t[i] = "-" => i = 1)
      /\ t # <<>> => Head(t) = t[1] /\ (t[1] = "A" \/ t[1] \in Layout) /\ (t[1] = "A" => t = <<"A">>)
  BY ONLY Texts, j \in 1 .. Len(call.items), call.items[j].conv = "broken", <1>1, <1>2, BrokenReads
<1>4. "A" \notin Layout
  BY CharsAre
<1>5. ASSUME In(j), char \in Layout PROVE Behind9(fs) = 0 /\ (char \in Decimal => Behind(fs) = 0)
  <2>1. fs = t
    BY <1>1, <1>3, <1>5 DEF In
  <2>2. Head(fs) = t[1] /\ t[1] # "A" /\ t # <<"A">>
    <3>1. <<"A">>[1] = "A"
      OBVIOUS
    <3>2. Head(fs) = t[1] /\ t[1] # "A"
      BY <1>3, <1>4, <1>5, <2>1 DEF char
    <3> QED
      BY <3>1, <3>2
  <2>3. \A i \in 1 .. Len(fs) : fs[i] \in Layout /\ (fs[i] = "-" => i = 1)
    BY <1>2, <1>3, <2>1, <2>2
  <2>4. Behind9(fs) = 0
    BY ONLY <1>3, <2>1, <2>3, NothingBehind
  <2>5. ASSUME char \in Decimal PROVE Behind(fs) = 0
    <3>1. fs[1] # "-"
      BY <2>1, <2>2, <2>5, CharsAre DEF char
    <3>2. \A c \in Layout : c = "-" \/ c \in Decimal
      BY CharsAre
    <3>3. \A i \in 1 .. Len(fs) : fs[i] \in Decimal
      BY ONLY <2>3, <3>1, <3>2
    <3> QED
      BY ONLY <1>3, <2>1, <3>3, NothingBehind
  <2> QED
    BY <2>4, <2>5
<1>6. ASSUME Signs(j) PROVE char \in Decimal /\ Behind(fs) = 0
  <2>1. PICK item : item = call.items[j] /\ IsItem(item)
    BY CallLength
  <2>2. IsText(item.fs) /\ Len(item.fs) >= 2 /\ item.fs[2] = "-" /\ Len(item.fs) \in Nat
    BY <1>6, <2>1, ItemTexts DEF Signs
  <2>3. item.fs # <<>>
    BY ONLY <2>2, Len(<<>>) = 0
  <2>4. /\ Len(Tail(item.fs)) = Len(item.fs) - 1
        /\ \A i \in 1 .. Len(item.fs) - 1 : Tail(item.fs)[i] = item.fs[i + 1]
    BY ONLY <2>2, <2>3, TextTail
  <2>5. m = Len(item.fs) - 1 /\ m >= 1 /\ t[1] = "-"
    <3>1. m = Len(item.fs) - 1 /\ \A i \in 1 .. Len(item.fs) - 1 : t[i] = item.fs[i + 1]
      BY <1>1, <1>2, <2>1, <2>4
    <3>2. m >= 1 /\ 1 \in 1 .. Len(item.fs) - 1 /\ 1 + 1 = 2
      BY ONLY <2>2, <3>1
    <3> QED
      BY <2>2, <3>1, <3>2
  <2>6. t # <<"A">> /\ t # <<>>
    <3>1. <<"A">>[1] = "A"
      OBVIOUS
    <3>2. t # <<>>
      <4>1. Len(t) >= 1
        BY ONLY <1>2, <2>5
      <4> QED
        BY ONLY <4>1, Len(<<>>) = 0
    <3> QED
      BY <2>5, <3>1, <3>2
  <2>7. PICK u : u = Tail(t) /\ IsText(u) /\ Len(u) = m - 1 /\ \A i \in 1 .. m - 1 : u[i] = t[i + 1]
    BY ONLY <1>2, <1>3, <2>6, TextTail
  <2>8. fs = u
    <3>1. fs = u \o <<>>
      BY <1>1, <1>3, <1>6, <2>7 DEF Signs
    <3>2. u \o <<>> = u
      BY ONLY <2>7, TextConcat, TextOne
    <3> QED
      BY <3>1, <3>2
  <2>9. \A i \in 1 .. Len(u) : u[i] \in Decimal
    <3>1. \A c \in Layout : c = "-" \/ c \in Decimal
      BY CharsAre
    <3>2. \A i \in 1 .. m - 1 : i + 1 \in 1 .. m /\ i + 1 # 1
      BY ONLY <1>3
    <3>3. \A i \in 1 .. m : t[i] \in Layout /\ (t[i] = "-" => i = 1)
      BY <1>3, <2>6
    <3> QED
      BY ONLY <2>7, <3>1, <3>2, <3>3
  <2>10. Behind(fs) = 0
    BY ONLY <2>7, <2>8, <2>9, NothingBehind
  <2>11. char \in Decimal
    <3>1. Head(u) = u[1] /\ Len(u) \in Nat \ {0}
      BY ONLY <2>7, <2>8, fs # <<>>, TextTail
    <3>2. 1 \in 1 .. Len(u)
      BY ONLY <3>1
    <3> QED
      BY <2>8, <2>9, <3>1, <3>2 DEF char
  <2> QED
    BY <2>10, <2>11
<1> QED
  BY <1>5, <1>6, CharsAre

-----------------------------------------------------------------------------
(* What the conversions are to print.                                          *)
LEMMA ConversionExpected ==
  ASSUME NEW j, Trusted(j), NEW n \in MinInt .. MaxInt, n = call.items[j].args[1].int
  PROVE  /\ call.items[j].conv = "d" /\ n # MinInt => Expected(call.items[j]) = print_int_d(n, 10, digit)
         /\ call.items[j].conv = "b" /\ version = "lab8" => Expected(call.items[j]) = print_int_d(n, 2, digit)
         /\ call.items[j].conv = "X" /\ version = "lab8" => Expected(call.items[j]) = print_int_d(n, 16, DIGIT)
         /\ call.items[j].conv = "b" => Expected(call.items[j]) = print_int(n, 2, digit)
         /\ call.items[j].conv = "o" => Expected(call.items[j]) = print_int(n, 8, digit)
         /\ call.items[j].conv = "u" => Expected(call.items[j]) = print_int(n, 10, digit)
         /\ call.items[j].conv = "x" => Expected(call.items[j]) = print_int(n, 16, digit)
         /\ call.items[j].conv = "X" => Expected(call.items[j]) = print_int(n, 16, DIGIT)
<1>1. \A radix \in {2, 8, 10, 16}, table \in {digit, DIGIT} :
        /\ print_int(n, radix, table) = Positional(Unsigned(n), radix, table)
        /\ n >= 0 => print_int_d(n, radix, table) = Positional(n, radix, table) /\ Unsigned(n) = n
  BY NumberText
<1>2. 2 \in {2, 8, 10, 16} /\ 8 \in {2, 8, 10, 16} /\ 10 \in {2, 8, 10, 16} /\ 16 \in {2, 8, 10, 16}
      /\ digit \in {digit, DIGIT} /\ DIGIT \in {digit, DIGIT}
  OBVIOUS
<1>3. n # MinInt => Signed(n) = print_int_d(n, 10, digit)
  BY SignedText
<1>4. call.items[j].conv \in {"b", "X"} /\ version = "lab8" => n >= 0
  BY TrustedIs
<1>5. PICK item : item = call.items[j]
  OBVIOUS
<1>6. /\ item.conv = "d" => Expected(item) = Signed(n)
      /\ item.conv = "b" => Expected(item) = Positional(Unsigned(n), 2, digit)
      /\ item.conv = "o" => Expected(item) = Positional(Unsigned(n), 8, digit)
      /\ item.conv = "u" => Expected(item) = Positional(Unsigned(n), 10, digit)
      /\ item.conv = "x" => Expected(item) = Positional(Unsigned(n), 16, digit)
      /\ item.conv = "X" => Expected(item) = Positional(Unsigned(n), 16, DIGIT)
  BY <1>5, ExpectedIs
<1>7. /\ print_int(n, 2, digit) = Positional(Unsigned(n), 2, digit)
      /\ print_int(n, 8, digit) = Positional(Unsigned(n), 8, digit)
      /\ print_int(n, 10, digit) = Positional(Unsigned(n), 10, digit)
      /\ print_int(n, 16, digit) = Positional(Unsigned(n), 16, digit)
      /\ print_int(n, 16, DIGIT) = Positional(Unsigned(n), 16, DIGIT)
  BY ONLY <1>1, <1>2
<1>8. n >= 0 => /\ print_int_d(n, 2, digit) = Positional(n, 2, digit)
                /\ print_int_d(n, 16, DIGIT) = Positional(n, 16, DIGIT) /\ Unsigned(n) = n
  BY ONLY <1>1, <1>2
<1> QED
  BY ONLY <1>3, <1>4, <1>5, <1>6, <1>7, <1>8

(* The elements of an array. *)
LEMMA ArrayLength ==
  ASSUME NEW item, IsItem(item), item.conv \in Arrays, NEW n, n = item.args[1].int
  PROVE  /\ n \in Nat /\ n \in MinInt .. MaxInt
         /\ item.conv \in {"Ad", "Ax"} => \A i \in 1 .. n : i \in 1 .. Len(Integers_array)
         /\ item.conv = "As" => n <= Len(Strings_array) /\ \A i \in 1 .. n : i \in 1 .. Len(Strings_array)
         /\ item.conv = "Ac" => \A i \in 1 .. n : i \in 1 .. Len(Characters_array)
<1>1. n \in 0 .. Len(ArrayOf(ArrayKind[item.conv])) /\ Takes(item, <<"int">>)
  BY ItemForms
<1>2. IsArgument(item.args[1])
  BY <1>1, TakesOne, TextOne
<1>3. n \in MinInt .. MaxInt
  BY <1>2 DEF IsArgument
<1>4. /\ item.conv \in {"Ad", "Ax"} => ArrayOf(ArrayKind[item.conv]) = Integers_array
      /\ item.conv = "As" => ArrayOf(ArrayKind[item.conv]) = Strings_array
      /\ item.conv = "Ac" => ArrayOf(ArrayKind[item.conv]) = Characters_array
      /\ item.conv \in {"Ad", "Ax", "As", "Ac"}
  BY ConvSets DEF ArrayOf
<1>5. PICK l : l = Len(ArrayOf(ArrayKind[item.conv])) /\ l \in Nat
  BY <1>4, ArraysAre
<1>6. n \in Nat /\ n <= l /\ \A i \in 1 .. n : i \in 1 .. l
  <2>1. n \in 0 .. l
    BY <1>1, <1>5
  <2> QED
    BY ONLY <2>1, <1>5
<1> QED
  BY ONLY <1>3, <1>4, <1>5, <1>6

LEMMA StringsPart ==
  ASSUME NEW m \in Nat, m <= Len(Strings_array)
  PROVE  SubSeq(Strings_array, 1, m) = [i \in 1 .. m |-> Strings_array[i]]
<1>1. 1 \in Nat \ {0} /\ m \in Int /\ m - 1 + 1 = m /\ (IF 1 <= m THEN m - 1 + 1 ELSE 0) = m
      /\ \A i \in 1 .. m : 1 + i - 1 = i
  OBVIOUS
<1>2. IsText(Strings_array)
  BY ArraysAre
<1>3. PICK g : g = SubSeq(Strings_array, 1, m)
  OBVIOUS
<1>4. /\ IsText(SubSeq(Strings_array, 1, m))
      /\ Len(SubSeq(Strings_array, 1, m)) = IF 1 <= m THEN m - 1 + 1 ELSE 0
      /\ \A i \in 1 .. m - 1 + 1 : SubSeq(Strings_array, 1, m)[i] = Strings_array[1 + i - 1]
  BY ONLY <1>1, <1>2, m <= Len(Strings_array), TextPart
<1>5. IsText(g) /\ Len(g) = m /\ \A i \in 1 .. m : g[i] = Strings_array[i]
  BY ONLY <1>1, <1>3, <1>4
<1>6. g = [i \in 1 .. m |-> g[i]]
  BY <1>5 DEF IsText
<1>7. g = [i \in 1 .. m |-> Strings_array[i]]
  BY ONLY <1>5, <1>6
<1> QED
  BY <1>3, <1>7

LEMMA ElementIs ==
  ASSUME NEW i
  PROVE  /\ Element("s", i) = strings[i] /\ Element("c", i) = <<Characters_array[i]>>
         /\ Element("d", i) = print_int_d(Integers_array[i], 10, digit)
         /\ Element("x", i) = print_int(Integers_array[i], 16, digit)
<1>1. Element("s", i) = strings[i]
  BY DEF Element
<1>2. Element("c", i) = <<Characters_array[i]>>
  BY DEF Element
<1>3. Element("d", i) = print_int_d(Integers_array[i], 10, digit)
  BY DEF Element
<1>4. Element("x", i) = print_int(Integers_array[i], 16, digit)
  BY DEF Element
<1> QED
  BY <1>1, <1>2, <1>3, <1>4

(* lab8 prints arrays as asked. *)
LEMMA ArrayExpected8 ==
  ASSUME Texts, version = "lab8", NEW item, IsItem(item), item.conv \in Arrays,
         NEW n, n = item.args[1].int, NEW k, k = ArrayKind[item.conv]
  PROVE  Braces([i \in 1 .. n |-> Element(k, i)]) = Expected(item) /\ IsText(Expected(item))
<1>1. /\ n \in Nat
      /\ item.conv \in {"Ad", "Ax"} => \A i \in 1 .. n : i \in 1 .. Len(Integers_array)
      /\ item.conv = "As" => n <= Len(Strings_array)
  BY ArrayLength
<1>2. IsText(Expected(item))
  BY ConvSets, ExpectedText DEF Promised
<1>3. PICK g : g = [i \in 1 .. n |-> Element(k, i)]
  OBVIOUS
<1>4. CASE item.conv = "Ad"
  <2>1. k = "d"
    BY <1>4, ConvSets
  <2>2. \A i \in 1 .. n : Element(k, i) = Signed(Integers_array[i])
    BY <1>1, <1>4, <2>1, ElementIs, ArraysAre, SignedText
  <2>3. g = [i \in 1 .. n |-> Signed(Integers_array[i])]
    BY ONLY <1>3, <2>2
  <2> QED
    BY <1>2, <1>3, <1>4, <2>3, ExpectedIs
<1>5. CASE item.conv = "Ax"
  <2>1. k = "x"
    BY <1>5, ConvSets
  <2>2. 16 \in {2, 8, 10, 16} /\ digit \in {digit, DIGIT}
    OBVIOUS
  <2>3. \A i \in 1 .. n : Element(k, i) = Positional(Unsigned(Integers_array[i]), 16, digit)
    BY <1>1, <1>5, <2>1, <2>2, ElementIs, ArraysAre, NumberText
  <2>4. g = [i \in 1 .. n |-> Positional(Unsigned(Integers_array[i]), 16, digit)]
    BY ONLY <1>3, <2>3
  <2> QED
    BY <1>2, <1>3, <1>5, <2>4, ExpectedIs, ZenonT(40)
<1>6. CASE item.conv = "As"
  <2>1. k = "s" /\ strings = Strings_array
    BY <1>6, ConvSets DEF Texts
  <2>2. \A i \in 1 .. n : Element(k, i) = Strings_array[i]
    BY <2>1, ElementIs
  <2>3. g = [i \in 1 .. n |-> Strings_array[i]]
    BY ONLY <1>3, <2>2
  <2>4. SubSeq(Strings_array, 1, n) = g
    BY <1>1, <1>6, <2>3, StringsPart
  <2>5. Expected(item) = Braces(SubSeq(Strings_array, 1, item.args[1].int))
    BY ONLY <1>6, ExpectedIs
  <2>6. Expected(item) = Braces(g)
    BY ONLY <2>4, <2>5, n = item.args[1].int
  <2> QED
    BY ONLY <1>2, <1>3, <2>6
<1>7. CASE item.conv = "Ac"
  <2>1. k = "c"
    BY <1>7, ConvSets
  <2>2. \A i \in 1 .. n : Element(k, i) = <<Characters_array[i]>>
    BY <2>1, ElementIs
  <2>3. g = [i \in 1 .. n |-> <<Characters_array[i]>>]
    BY ONLY <1>3, <2>2
  <2> QED
    BY <1>2, <1>3, <1>7, <2>3, ExpectedIs, ZenonT(40)
<1> QED
  BY <1>4, <1>5, <1>6, <1>7, ConvSets

(* What lab8 prints within a width. *)
LEMMA StringPadded8 ==
  ASSUME NEW text, IsText(text), NEW w \in Nat, NEW left, left <=> f = 0
  PROVE  my_string_print(text, w) = Padded(text, w, left) /\ IsText(my_string_print(text, w))
<1>1. PICK pad, cut : /\ pad = Copies(Blank, w - Len(text))
                      /\ cut = SubSeq(text, 1, IF w < Len(text) THEN w ELSE Len(text))
  OBVIOUS
<1>2. my_string_print(text, w) = IF f = 0 THEN pad \o cut ELSE cut \o pad \o <<"#">>
  BY ONLY <1>1 DEF my_string_print, padd
<1>3. Padded(text, w, left) = IF left THEN pad \o cut ELSE cut \o pad \o <<"#">>
  BY ONLY <1>1 DEF Padded
<1>4. my_string_print(text, w) = Padded(text, w, left)
  BY ONLY <1>2, <1>3, left <=> f = 0
<1> QED
  BY <1>4, PaddedText

LEMMA DecimalText ==
  ASSUME NEW n \in MinInt .. MaxInt
  PROVE  IsText(print_int_d(n, 10, digit)) /\ Len(print_int_d(n, 10, digit)) \in Nat
<1>1. 10 \in {2, 8, 10, 16} /\ digit \in {digit, DIGIT}
  OBVIOUS
<1>2. IsText(print_int_d(n, 10, digit))
  BY <1>1, NumberText
<1> QED
  BY <1>2, TextLen

LEMMA IntPadded8 ==
  ASSUME NEW n \in MinInt .. MaxInt, n # MinInt, NEW w \in Nat
  PROVE  IsText(my_int_print(n, w))
<1>1. PICK top : top = MaxInt /\ top \in Nat /\ MinInt = -top - 1
  BY IntRange
<1>2. PICK size \in Nat : size = get_int_size(n)
  BY DecimalText DEF get_int_size
<1>3. PICK m \in Int : m = -n /\ m \in MinInt .. MaxInt
  <2>1. -n \in Int /\ -n \in MinInt .. MaxInt
    BY ONLY <1>1, n # MinInt, n \in MinInt .. MaxInt
  <2> QED
    BY <2>1
<1>4. IsText(int_print(m, w, size))
  <2>1. CASE w > size
    BY <1>3, <2>1, DecimalText DEF int_print
  <2>2. CASE ~ (w > size)
    <3>1. PICK e \in Nat : e = size - w
      BY <2>2
    <3>2. PICK p \in Nat \ {0} : p = Power(10, size - w)
      <4>1. 10 \in Nat /\ 10 >= 2
        OBVIOUS
      <4>2. Power(10, e) \in Nat /\ Power(10, e) >= 1
        BY <4>1, PowerIs, PowerGrows
      <4> QED
        BY <3>1, <4>2
    <3>3. PICK a \in Nat : a = (IF m < 0 THEN -m ELSE m) /\ a <= top
      <4>1. (IF m < 0 THEN -m ELSE m) \in Nat /\ (IF m < 0 THEN -m ELSE m) <= top
        <5>1. n \in MinInt .. MaxInt /\ n # MinInt /\ m = -n
          BY <1>3
        <5> QED
          BY ONLY <1>1, <5>1, m \in Int
      <4> QED
        BY <4>1
    <3>4. PICK q \in Nat : q = a \div p /\ q <= a
      <4>1. a \div p \in Nat /\ a \div p <= a
        BY ONLY a \in Nat, p \in Nat \ {0}
      <4> QED
        BY <4>1
    <3>5. int_print(m, w, size) = print_int_d(IF m < 0 THEN -q ELSE q, 10, digit)
      BY ONLY <2>2, <3>2, <3>3, <3>4 DEF int_print
    <3>6. (IF m < 0 THEN -q ELSE q) \in MinInt .. MaxInt
      BY ONLY <1>1, <3>3, <3>4, q \in Nat, a \in Nat
    <3>7. PICK x \in MinInt .. MaxInt : x = IF m < 0 THEN -q ELSE q
      BY <3>6
    <3> QED
      BY <3>5, <3>7, DecimalText
  <2> QED
    BY <2>1, <2>2
<1>5. PICK sign : sign = (IF n < 0 THEN <<"-">> ELSE <<>>) /\ IsText(sign)
  BY TextOne
<1>6. PICK zeros : zeros = padd("0", w - size) /\ IsText(zeros)
  <2>1. w - size \in Int
    OBVIOUS
  <2> QED
    BY <2>1, CopiesText DEF padd
<1>7. IsText(sign \o zeros)
  BY ONLY <1>5, <1>6, TextConcat
<1>8. IsText((sign \o zeros) \o int_print(m, w, size))
  BY ONLY <1>4, <1>7, TextConcat
<1>9. my_int_print(n, w) = sign \o zeros \o int_print(m, w, size)
  BY ONLY <1>2, <1>3, <1>5, <1>6 DEF my_int_print
<1> QED
  BY <1>8, <1>9

-----------------------------------------------------------------------------
(* Where a turn is.                                                            *)
LEMMA WhereTurn ==
  ASSUME PrintfInv, status = "running", ~ OutOfStep
  PROVE  /\ state = "init" => \E i \in 0 .. Len(call.items) : At(i)
         /\ state = "percent" => \/ \E j \in 1 .. Len(call.items) : In(j)
                                 \/ \E j \in 1 .. Len(call.items) : Signs(j)
BY DEF PrintfInv, InStep, At, In, Signs

LEMMA SignsReads ==
  ASSUME Texts, NEW j \in 1 .. Len(call.items), Signs(j), fs # <<>>
  PROVE  char \in Decimal
<1>1. call.items[j].conv \in Widths \cup {"broken"}
  BY DEF Signs
<1> QED
  BY <1>1, SignedFound, NothingFound

LEMMA DirectiveTurn ==
  ASSUME PrintfInv, status = "running", ~ OutOfStep, state = "percent", fs # <<>>, char \notin Decimal
  PROVE  \E j \in 1 .. Len(call.items) : In(j)
BY WhereTurn, SignsReads DEF PrintfInv

LEMMA UnsignedDone ==
  ASSUME PrintfInv, status = "running", NEW j \in 1 .. Len(call.items), In(j), fs # <<>>,
         \/ char = "d" /\ Convert(TRUE, 10, digit)
         \/ char = "b" /\ Convert(FALSE, 2, digit)
         \/ char = "u" /\ Convert(FALSE, 10, digit)
         \/ char = "o" /\ Convert(FALSE, 8, digit)
         \/ char = "x" /\ Convert(FALSE, 16, digit)
         \/ char = "X" /\ Convert(FALSE, 16, DIGIT)
  PROVE  PrintfInv'
<1>0. /\ 2 \in {2, 8, 10, 16} /\ 8 \in {2, 8, 10, 16} /\ 10 \in {2, 8, 10, 16} /\ 16 \in {2, 8, 10, 16}
      /\ digit \in {digit, DIGIT} /\ DIGIT \in {digit, DIGIT} /\ TRUE \in BOOLEAN /\ FALSE \in BOOLEAN
  OBVIOUS
<1>1. CASE char = "d" /\ Convert(TRUE, 10, digit)
  <2>1. \A n \in MinInt .. MaxInt :
          /\ Trusted(j) /\ n = call.items[j].args[1].int /\ (TRUE => n # MinInt) /\ call.items[j].conv = char
          => Expected(call.items[j]) = IF TRUE THEN print_int_d(n, 10, digit) ELSE print_int(n, 10, digit)
    BY <1>1, ConversionExpected
  <2>2. char \in {"d", "b", "o", "u", "x", "X"} /\ (TRUE => char \in {"d", "b", "X"})
    BY <1>1
  <2> QED
    BY <1>0, <1>1, <2>1, <2>2, ConvertDone
<1>2. CASE char = "b" /\ Convert(FALSE, 2, digit)
  <2>1. \A n \in MinInt .. MaxInt :
          /\ Trusted(j) /\ n = call.items[j].args[1].int /\ (FALSE => n # MinInt) /\ call.items[j].conv = char
          => Expected(call.items[j]) = IF FALSE THEN print_int_d(n, 2, digit) ELSE print_int(n, 2, digit)
    BY <1>2, ConversionExpected
  <2>2. char \in {"d", "b", "o", "u", "x", "X"} /\ (FALSE => char \in {"d", "b", "X"})
    BY <1>2
  <2> QED
    BY <1>0, <1>2, <2>1, <2>2, ConvertDone
<1>3. CASE char = "u" /\ Convert(FALSE, 10, digit)
  <2>1. \A n \in MinInt .. MaxInt :
          /\ Trusted(j) /\ n = call.items[j].args[1].int /\ (FALSE => n # MinInt) /\ call.items[j].conv = char
          => Expected(call.items[j]) = IF FALSE THEN print_int_d(n, 10, digit) ELSE print_int(n, 10, digit)
    BY <1>3, ConversionExpected
  <2>2. char \in {"d", "b", "o", "u", "x", "X"} /\ (FALSE => char \in {"d", "b", "X"})
    BY <1>3
  <2> QED
    BY <1>0, <1>3, <2>1, <2>2, ConvertDone
<1>4. CASE char = "o" /\ Convert(FALSE, 8, digit)
  <2>1. \A n \in MinInt .. MaxInt :
          /\ Trusted(j) /\ n = call.items[j].args[1].int /\ (FALSE => n # MinInt) /\ call.items[j].conv = char
          => Expected(call.items[j]) = IF FALSE THEN print_int_d(n, 8, digit) ELSE print_int(n, 8, digit)
    BY <1>4, ConversionExpected
  <2>2. char \in {"d", "b", "o", "u", "x", "X"} /\ (FALSE => char \in {"d", "b", "X"})
    BY <1>4
  <2> QED
    BY <1>0, <1>4, <2>1, <2>2, ConvertDone
<1>5. CASE char = "x" /\ Convert(FALSE, 16, digit)
  <2>1. \A n \in MinInt .. MaxInt :
          /\ Trusted(j) /\ n = call.items[j].args[1].int /\ (FALSE => n # MinInt) /\ call.items[j].conv = char
          => Expected(call.items[j]) = IF FALSE THEN print_int_d(n, 16, digit) ELSE print_int(n, 16, digit)
    BY <1>5, ConversionExpected
  <2>2. char \in {"d", "b", "o", "u", "x", "X"} /\ (FALSE => char \in {"d", "b", "X"})
    BY <1>5
  <2> QED
    BY <1>0, <1>5, <2>1, <2>2, ConvertDone
<1>6. CASE char = "X" /\ Convert(FALSE, 16, DIGIT)
  <2>1. \A n \in MinInt .. MaxInt :
          /\ Trusted(j) /\ n = call.items[j].args[1].int /\ (FALSE => n # MinInt) /\ call.items[j].conv = char
          => Expected(call.items[j]) = IF FALSE THEN print_int_d(n, 16, DIGIT) ELSE print_int(n, 16, DIGIT)
    BY <1>6, ConversionExpected
  <2>2. char \in {"d", "b", "o", "u", "x", "X"} /\ (FALSE => char \in {"d", "b", "X"})
    BY <1>6
  <2> QED
    BY <1>0, <1>6, <2>1, <2>2, ConvertDone
<1> QED
  BY <1>1, <1>2, <1>3, <1>4, <1>5, <1>6

LEMMA SignedDone8 ==
  ASSUME PrintfInv, status = "running", NEW j \in 1 .. Len(call.items), In(j), fs # <<>>, version = "lab8",
         \/ char = "b" /\ Convert(TRUE, 2, digit)
         \/ char = "X" /\ Convert(TRUE, 16, DIGIT)
  PROVE  PrintfInv'
<1>0. /\ 2 \in {2, 8, 10, 16} /\ 16 \in {2, 8, 10, 16}
      /\ digit \in {digit, DIGIT} /\ DIGIT \in {digit, DIGIT} /\ TRUE \in BOOLEAN
  OBVIOUS
<1>1. CASE char = "b" /\ Convert(TRUE, 2, digit)
  <2>1. \A n \in MinInt .. MaxInt :
          /\ Trusted(j) /\ n = call.items[j].args[1].int /\ (TRUE => n # MinInt) /\ call.items[j].conv = char
          => Expected(call.items[j]) = IF TRUE THEN print_int_d(n, 2, digit) ELSE print_int(n, 2, digit)
    BY <1>1, ConversionExpected
  <2>2. char \in {"d", "b", "o", "u", "x", "X"} /\ (TRUE => char \in {"d", "b", "X"})
    BY <1>1
  <2> QED
    BY <1>0, <1>1, <2>1, <2>2, ConvertDone
<1>2. CASE char = "X" /\ Convert(TRUE, 16, DIGIT)
  <2>1. \A n \in MinInt .. MaxInt :
          /\ Trusted(j) /\ n = call.items[j].args[1].int /\ (TRUE => n # MinInt) /\ call.items[j].conv = char
          => Expected(call.items[j]) = IF TRUE THEN print_int_d(n, 16, DIGIT) ELSE print_int(n, 16, DIGIT)
    BY <1>2, ConversionExpected
  <2>2. char \in {"d", "b", "o", "u", "x", "X"} /\ (TRUE => char \in {"d", "b", "X"})
    BY <1>2
  <2> QED
    BY <1>0, <1>2, <2>1, <2>2, ConvertDone
<1> QED
  BY <1>1, <1>2

-----------------------------------------------------------------------------
(* lab8.                                                                       *)
LEMMA Array8 ==
  ASSUME PrintfInv, lab8_array
  PROVE  PrintfInv'
<1>1. /\ status = "running" /\ version = "lab8" /\ state = "percent" /\ fs # <<>> /\ char = "A"
  BY DEF lab8_array, Turn
<1>2. Texts /\ ~ OutOfStep /\ "A" \notin Decimal
  BY <1>1, CharsAre DEF PrintfInv, OutOfStep
<1>3. PICK j \in 1 .. Len(call.items) : In(j)
  BY <1>1, <1>2, DirectiveTurn
<1>4. PICK item : item = call.items[j] /\ IsItem(item)
  BY <1>2, CallLength
<1>5. SoFar(j - 1) /\ FlagSoFar(j - 1) /\ args = ArgsFrom(call.items, j - 1)
  BY <1>3 DEF In
<1>6. CASE item.conv \in Arrays
  <2>1. fs # <<>> /\ kind = ArrayKind[item.conv] /\ SubSeq(fs, 3, Len(fs)) = FsFrom(call.items, j)
    BY <1>2, <1>3, <1>4, <1>6, ArrayReads
  <2>2. PICK k : k = kind /\ k \in {"s", "c", "d", "x"} /\ k = ArrayKind[item.conv]
    BY <1>6, <2>1, ConvSets
  <2>3. argument = item.args[1] /\ Tail(args) = ArgsFrom(call.items, j)
    BY <1>2, <1>4, <1>5, <1>6, ArgumentReads
  <2>4. PICK n : n = argument.int
    OBVIOUS
  <2>5. IF n = 0 THEN Stops("no_element")
        ELSE /\ out' = out \o Braces([i \in 1 .. n |-> Element(k, i)])
             /\ fs' = SubSeq(fs, 3, Len(fs)) /\ args' = Tail(args) /\ state' = "init"
             /\ UNCHANGED <<version, call, printed, width, f, strings, status>>
    <3>1. kind \in Kinds /\ kind # "none"
      BY <2>2 DEF Kinds
    <3> QED
      BY <2>2, <2>4, <3>1 DEF lab8_array
  <2>6. CASE n = 0
    <3>1. Stops("no_element")
      BY <2>5, <2>6
    <3>2. version' = version /\ call' = call /\ status' = "no_element"
      BY <3>1 DEF Stops
    <3>3. \E i \in DOMAIN call.items : call.items[i].conv \in Arrays /\ call.items[i].args[1].int = 0
      BY <1>2, <1>4, <1>6, <2>3, <2>4, <2>6, CallLength
    <3>4. NamedStops'
      BY <3>2, <3>3, NamedWhy
    <3> QED
      BY <3>1, <3>4, StopKeeps
  <2>7. CASE n # 0
    <3>1. PICK text : text = Expected(item) /\ text = Braces([i \in 1 .. n |-> Element(k, i)]) /\ IsText(text)
      BY <1>1, <1>2, <1>4, <1>6, <2>2, <2>3, <2>4, ArrayExpected8
    <3>2. Prints(j, text)
      BY <2>1, <2>3, <2>5, <2>7, <3>1 DEF Prints
    <3>3. /\ printed' = printed /\ width' = width /\ f' = f /\ strings' = strings
      BY <2>5, <2>7
    <3>4. /\ f \in {0, 1} /\ width \in 0 .. MaxInt /\ IsText(strings) /\ Len(strings) = Len(Strings_array)
          /\ \A i \in DOMAIN strings : strings[i] \in {Strings_array[i], <<>>}
      BY DEF PrintfInv, Texts, TypeOK
    <3>5. item.conv \notin Counted /\ item.conv \notin Widths
      BY <1>6, ConvSets DEF Counted
    <3>6. printed' \in 0 .. Len(out) + Len(text)
      <4>1. Len(text) \in Nat /\ Len(out) \in Nat /\ printed \in 0 .. Len(out)
        BY <1>2, <3>1, TextLen DEF PrintfInv, TypeOK, Texts
      <4> QED
        BY <3>3, <4>1
    <3>7. f' \in {0, 1} /\ width' \in 0 .. MaxInt
      BY <3>3, <3>4
    <3>8. /\ IsText(strings') /\ Len(strings') = Len(Strings_array)
          /\ \A i \in DOMAIN strings' : strings'[i] \in {Strings_array[i], <<>>}
      BY <3>3, <3>4
    <3> QED
      BY <1>1, <1>4, <1>5, <3>1, <3>2, <3>3, <3>5, <3>6, <3>7, <3>8, ItemDone
  <2> QED
    BY <2>6, <2>7
<1>7. CASE item.conv = "broken"
  <2>1. fs = <<"A">>
    BY <1>1, <1>2, <1>3, <1>4, <1>7, InReads, ConvSets
  <2>2. kind = "none"
    <3>1. Len(<<"A">>) = 1
      OBVIOUS
    <3> QED
      BY <2>1, <3>1 DEF kind
  <2>3. Stops("overrun")
    BY <2>2 DEF lab8_array, Kinds
  <2>4. version' = version /\ call' = call /\ status' = "overrun"
    BY <2>3 DEF Stops
  <2>5. Last(call.items).conv = "broken"
    BY <1>2, <1>4, <1>7, BrokenReads
  <2>6. NamedStops'
    BY <2>4, <2>5, NamedWhy
  <2> QED
    BY <2>3, <2>6, StopKeeps
<1> QED
  BY <1>1, <1>2, <1>3, <1>4, <1>6, <1>7, InReads

LEMMA Minus8 ==
  ASSUME PrintfInv, lab8_minus
  PROVE  PrintfInv'
<1>1. /\ status = "running" /\ version = "lab8" /\ state = "percent" /\ fs # <<>> /\ char = "-"
      /\ f' = 0 /\ fs' = Tail(fs)
      /\ UNCHANGED <<version, call, args, out, printed, state, width, strings, status>>
  BY DEF lab8_minus, Turn
<1>2. Texts /\ ~ OutOfStep /\ "-" \notin Decimal /\ "-" \in Layout /\ "-" # "A"
  BY <1>1, CharsAre DEF PrintfInv, OutOfStep
<1>3. PICK j \in 1 .. Len(call.items) : In(j)
  BY <1>1, <1>2, DirectiveTurn
<1>4. PICK item : item = call.items[j] /\ IsItem(item)
  BY <1>2, CallLength
<1>5. item.conv \in Widths \cup {"broken"}
  BY <1>1, <1>2, <1>3, <1>4, InReads
<1>6. PICK t : t = Tail(item.fs)
  OBVIOUS
<1>7. PICK m : m = Len(t)
  OBVIOUS
<1>8. IsText(item.fs) /\ Len(item.fs) \in Nat \ {0} /\ item.fs # <<>>
  <2>1. IsText(item.fs) /\ Len(item.fs) \in Nat \ {0}
    BY <1>4, ItemTexts
  <2> QED
    BY <2>1, TextOne
<1>9. IsText(t) /\ m = Len(item.fs) - 1 /\ \A i \in 1 .. Len(item.fs) - 1 : t[i] = item.fs[i + 1]
  BY ONLY <1>6, <1>7, <1>8, TextTail
<1>10. PICK r : r = FsFrom(call.items, j) /\ fs = t \o r /\ IsText(r)
  <2>1. IsText(FsFrom(call.items, j))
    <3>1. j \in 0 .. Len(call.items) /\ IsCall(call.items)
      BY <1>2, CallLength
    <3> QED
      BY <3>1, CallRest
  <2> QED
    BY <1>3, <1>4, <1>6, <2>1 DEF In
<1>11. t # <<>>
  <2>1. CASE item.conv \in Widths
    <3>1. WideForm(item, t, m)
      BY ONLY <1>4, <1>6, <1>7, <2>1, WideItem
    <3>2. m >= 2
      BY ONLY <3>1 DEF WideForm
    <3> QED
      BY ONLY <1>7, <3>2, Len(<<>>) = 0
  <2>2. CASE item.conv = "broken"
    <3>1. t \o FsFrom(call.items, j) = t
      BY ONLY <1>2, <1>4, <1>6, <1>7, <2>2, j \in 1 .. Len(call.items), BrokenReads
    <3>2. fs = t
      BY <1>10, <3>1
    <3> QED
      BY <1>1, <3>2
  <2> QED
    BY <1>5, <2>1, <2>2
<1>12. char = t[1] /\ Tail(fs) = Tail(t) \o r
  <2>1. Head(t \o r) = t[1] /\ Tail(t \o r) = Tail(t) \o r
    BY ONLY <1>9, <1>10, <1>11, HeadOfConcat
  <2> QED
    BY <1>10, <2>1 DEF char
<1>13. Len(item.fs) >= 2 /\ item.fs[2] = "-"
  <2>1. Len(t) \in Nat \ {0}
    BY ONLY <1>9, <1>11, TextTail
  <2>2. Len(item.fs) >= 2 /\ 1 \in 1 .. Len(item.fs) - 1 /\ 1 + 1 = 2
    <3>1. PICK l \in Nat : l = Len(item.fs)
      BY <1>8
    <3>2. m \in Nat \ {0} /\ m = l - 1
      BY <1>7, <1>9, <2>1, <3>1
    <3>3. l >= 2 /\ 1 \in 1 .. l - 1 /\ 1 + 1 = 2
      BY ONLY <3>2, l \in Nat
    <3> QED
      BY ONLY <3>1, <3>3
  <2> QED
    BY <1>1, <1>9, <1>12, <2>2
<1>14. SoFar(j - 1)'
  BY <1>1, <1>3, SoFarKept DEF In
<1>15. fs' = Tail(t) \o r
  BY <1>1, <1>12
<1>16. args = ArgsFrom(call.items, j - 1) /\ state = "percent"
  BY <1>3 DEF In
<1>17. Signs(j)'
  BY <1>1, <1>4, <1>5, <1>6, <1>10, <1>13, <1>14, <1>15, <1>16 DEF Signs
<1>18. InStep'
  BY <1>1, <1>17 DEF InStep
<1>19. IsText(fs')
  BY <1>1, <1>2, TextTail DEF Texts
<1>20. TypeOK'
  BY <1>1 DEF PrintfInv, TypeOK
<1>21. Texts'
  BY <1>1, <1>2, <1>19 DEF Texts
<1>22. NamedStops'
  BY <1>1, NamedWhy
<1>23. TextAsAsked' /\ CountIsText'
  BY <1>1 DEF TextAsAsked, CountIsText
<1> QED
  BY <1>18, <1>20, <1>21, <1>22, <1>23 DEF PrintfInv

LEMMA Unhandled8 ==
  ASSUME PrintfInv, lab8_unhandled
  PROVE  PrintfInv'
<1>1. /\ status = "running" /\ version = "lab8" /\ state = "percent" /\ fs # <<>>
      /\ char \notin Decimal \cup {"%", "d", "b", "o", "x", "X", "u", "s", "c", "A", "-"}
      /\ Stops("unhandled")
  BY DEF lab8_unhandled, Turn
<1>2. Texts /\ ~ OutOfStep
  BY <1>1 DEF PrintfInv, OutOfStep
<1>3. PICK j \in 1 .. Len(call.items) : In(j)
  BY <1>1, <1>2, DirectiveTurn
<1>4. char \notin Directives
  BY <1>1, CharsAre
<1>5. call.items[j].conv = "unknown"
  BY <1>1, <1>2, <1>3, <1>4, InReads
<1>6. Asked({"unknown", "broken"})
  BY <1>2, <1>5, CallLength DEF Asked
<1>7. version' = version /\ call' = call /\ status' = "unhandled"
  BY <1>1 DEF Stops
<1>8. NamedStops'
  BY <1>6, <1>7, NamedWhy
<1> QED
  BY <1>1, <1>8, StopKeeps

(* A width ends within a directive that was cut off. *)
LEMMA WidthCutOff ==
  ASSUME PrintfInv, NEW j \in 1 .. Len(call.items), call.items[j].conv = "broken",
         Stops("overrun") \/ Stops("overflow")
  PROVE  PrintfInv'
<1>1. Texts
  BY DEF PrintfInv
<1>2. Last(call.items).conv = "broken"
  BY <1>1, BrokenReads
<1>3. Asked(Widths \cup {"broken"})
  BY <1>1, CallLength DEF Asked
<1>4. CASE Stops("overrun")
  <2>1. version' = version /\ call' = call /\ status' = "overrun"
    BY <1>4 DEF Stops
  <2>2. NamedStops'
    BY <1>2, <2>1, NamedWhy
  <2> QED
    BY <1>4, <2>2, StopKeeps
<1>5. CASE Stops("overflow")
  <2>1. version' = version /\ call' = call /\ status' = "overflow"
    BY <1>5 DEF Stops
  <2>2. NamedStops'
    BY <1>3, <2>1, NamedWhy
  <2> QED
    BY <1>5, <2>2, StopKeeps
<1> QED
  BY <1>4, <1>5

LEMMA WidthStops ==
  ASSUME PrintfInv, NEW j \in 1 .. Len(call.items), call.items[j].conv \in Widths,
         \/ Stops("overflow")
         \/ Stops("smallest") /\ call.items[j].args[1].int = MinInt
         \/ Stops("kind") /\ version = "lab9" /\ call.items[j].conv = "wx"
  PROVE  PrintfInv'
<1>1. Texts
  BY DEF PrintfInv
<1>2. Asked(Widths \cup {"broken"})
  BY <1>1, CallLength DEF Asked
<1>3. CASE Stops("overflow")
  <2>1. version' = version /\ call' = call /\ status' = "overflow"
    BY <1>3 DEF Stops
  <2>2. NamedStops'
    BY <1>2, <2>1, NamedWhy
  <2> QED
    BY <1>3, <2>2, StopKeeps
<1>4. CASE Stops("smallest") /\ call.items[j].args[1].int = MinInt
  <2>1. version' = version /\ call' = call /\ status' = "smallest"
    BY <1>4 DEF Stops
  <2>2. \E i \in DOMAIN call.items : /\ call.items[i].conv \in {"d", "b", "X"} \cup Widths
                                     /\ call.items[i].args[1].int = MinInt
    BY <1>1, <1>4, CallLength
  <2>3. NamedStops'
    BY <2>1, <2>2, NamedWhy
  <2> QED
    BY <1>4, <2>3, StopKeeps
<1>5. CASE Stops("kind") /\ version = "lab9" /\ call.items[j].conv = "wx"
  <2>1. version' = version /\ call' = call /\ status' = "kind"
    BY <1>5 DEF Stops
  <2>2. Asked({"wx"})
    BY <1>1, <1>5, CallLength DEF Asked
  <2>3. NamedStops'
    BY <1>5, <2>1, <2>2, NamedWhy
  <2> QED
    BY <1>5, <2>3, StopKeeps
<1> QED
  BY <1>3, <1>4, <1>5

(* The width of an item is printed by lab8. *)
LEMMA WidthDone8 ==
  ASSUME PrintfInv, status = "running", version = "lab8", NEW j \in 1 .. Len(call.items), SoFar(j - 1),
         args = ArgsFrom(call.items, j - 1),
         NEW item, item = call.items[j], item.conv \in Widths,
         NEW k, k = WideKind[item.conv], NEW w \in Nat, w <= MaxInt,
         None(j - 1, Widths) /\ Trusted(j) => w = item.w /\ (item.left <=> f = 0),
         \/ k = "s" /\ out' = out \o my_string_print(argument.str, w)
         \/ k # "s" /\ argument.int # MinInt /\ out' = out \o my_int_print(argument.int, w),
         width' = w, fs' = FsFrom(call.items, j), args' = Tail(args), state' = "init",
         UNCHANGED <<version, call, printed, f, strings, status>>
  PROVE  PrintfInv'
<1>1. Texts
  BY DEF PrintfInv
<1>2. IsItem(item)
  BY <1>1, CallLength
<1>3. argument = item.args[1] /\ Tail(args) = ArgsFrom(call.items, j) /\ IsArgument(argument)
  BY <1>1, ArgumentReads
<1>4. argument.int \in MinInt .. MaxInt /\ IsText(argument.str)
  BY <1>3 DEF IsArgument
<1>5. PICK text : /\ out' = out \o text
                  /\ \/ k = "s" /\ text = my_string_print(argument.str, w)
                     \/ k # "s" /\ argument.int # MinInt /\ text = my_int_print(argument.int, w)
  OBVIOUS
<1>6. PICK flag \in BOOLEAN : flag <=> f = 0
  OBVIOUS
<1>7. /\ my_string_print(argument.str, w) = Padded(argument.str, w, flag)
      /\ IsText(my_string_print(argument.str, w))
  BY <1>4, <1>6, StringPadded8
<1>8. IsText(text)
  BY <1>4, <1>5, <1>7, IntPadded8
<1>9. Prints(j, text)
  BY <1>3, <1>5 DEF Prints
<1>10. Trusted(j) => text = Expected(item)
  <2> SUFFICES ASSUME Trusted(j) PROVE text = Expected(item)
    OBVIOUS
  <2>1. item.conv = "ws"
    <3>1. item.conv \in Promised
      BY TrustedIs
    <3> QED
      BY <3>1, ConvSets DEF Promised
  <2>2. ~ Before(j, {"ws", "wd", "wx"})
    BY <2>1, TrustedIs
  <2>3. None(j - 1, Widths)
    BY <2>2, ConvSets DEF Before, None
  <2>4. k = "s"
    BY <2>1, ConvSets
  <2>5. w = item.w /\ (item.left <=> flag)
    BY <1>6, <2>3
  <2>6. Expected(item) = Padded(item.args[1].str, item.w, item.left)
    BY <2>1, ExpectedIs
  <2>7. PICK s : s = argument.str
    OBVIOUS
  <2>8. Padded(s, w, item.left) = Padded(s, w, flag)
    BY ONLY <2>5 DEF Padded
  <2> QED
    BY <1>3, <1>5, <1>7, <2>4, <2>5, <2>6, <2>7, <2>8
<1>11. /\ f \in {0, 1} /\ IsText(strings) /\ Len(strings) = Len(Strings_array)
       /\ \A i \in DOMAIN strings : strings[i] \in {Strings_array[i], <<>>}
  BY DEF PrintfInv, Texts, TypeOK
<1>12. item.conv \notin Counted
  BY ConvSets DEF Counted
<1>13. printed' \in 0 .. Len(out) + Len(text)
  <2>1. Len(text) \in Nat /\ Len(out) \in Nat /\ printed \in 0 .. Len(out)
    BY <1>1, <1>8, TextLen DEF PrintfInv, TypeOK, Texts
  <2> QED
    BY <2>1
<1>14. f' \in {0, 1} /\ width' \in 0 .. MaxInt
  <2>1. MaxInt \in Nat
    BY IntRange
  <2> QED
    BY <1>11, <2>1
<1>15. /\ IsText(strings') /\ Len(strings') = Len(Strings_array)
       /\ \A i \in DOMAIN strings' : strings'[i] \in {Strings_array[i], <<>>}
  BY <1>11
<1> QED
  BY <1>8, <1>9, <1>10, <1>12, <1>13, <1>14, <1>15, ItemDone

LEMMA Width8 ==
  ASSUME PrintfInv, lab8_width
  PROVE  PrintfInv'
<1>1. PICK next : next = Behind(fs)
  OBVIOUS
<1>2. PICK w : w = ReadWidth(width, SubSeq(fs, 1, next - 1))
  OBVIOUS
<1>3. /\ status = "running" /\ version = "lab8" /\ state = "percent" /\ fs # <<>> /\ char \in Decimal
  BY DEF lab8_width, Turn
<1>4. \/ next = 0 /\ Stops("overrun")
      \/ w > MaxInt /\ Stops("overflow")
      \/ next > 0 /\ Stops("overflow")
      \/ next > 0 /\ fs[next] # "s" /\ argument.int = MinInt /\ Stops("smallest")
      \/ /\ next > 0 /\ w <= MaxInt
         /\ \/ fs[next] = "s" /\ out' = out \o my_string_print(argument.str, w)
            \/ fs[next] # "s" /\ argument.int # MinInt /\ out' = out \o my_int_print(argument.int, w)
         /\ width' = w
         /\ fs' = SubSeq(fs, next + 1, Len(fs)) /\ args' = Tail(args) /\ state' = "init"
         /\ UNCHANGED <<version, call, printed, f, strings, status>>
  BY <1>1, <1>2 DEF lab8_width
<1>5. Texts /\ ~ OutOfStep /\ char \in Layout /\ char # "-"
  BY <1>3, CharsAre DEF PrintfInv, OutOfStep
<1>6. PICK j \in 1 .. Len(call.items) : In(j) \/ Signs(j)
  BY <1>3, <1>5, WhereTurn
<1>7. PICK item : item = call.items[j] /\ IsItem(item)
  BY <1>5, CallLength
<1>8. item.conv \in Widths \cup {"broken"}
  BY <1>3, <1>5, <1>6, <1>7, InReads DEF Signs
<1>9. CASE item.conv = "broken"
  <2>1. next = 0
    BY <1>1, <1>3, <1>5, <1>6, <1>7, <1>9, NothingFound
  <2>2. Stops("overrun") \/ Stops("overflow")
    BY <1>4, <2>1
  <2> QED
    BY <1>7, <1>9, <2>2, WidthCutOff
<1>10. CASE item.conv \in Widths
  <2>1. SoFar(j - 1) /\ args = ArgsFrom(call.items, j - 1) /\ width \in Nat
    <3>1. MaxInt \in Nat /\ width \in 0 .. MaxInt
      BY IntRange DEF PrintfInv, TypeOK
    <3>2. width \in Nat
      BY ONLY <3>1
    <3>3. SoFar(j - 1) /\ args = ArgsFrom(call.items, j - 1)
      BY <1>6 DEF In, Signs
    <3> QED
      BY <3>2, <3>3
  <2>2. argument = item.args[1]
    BY <1>5, <1>7, <1>10, <2>1, ArgumentReads
  <2>3. PICK t : t = Tail(item.fs)
    OBVIOUS
  <2>4. PICK m : m = Len(t)
    OBVIOUS
  <2>5. WideForm(item, t, m)
    BY ONLY <1>7, <1>10, <2>3, <2>4, WideItem
  <2>6. PICK g : /\ g = Figures(item) /\ IsText(g) /\ item.w = ReadWidth(0, g)
                 /\ \A i \in 1 .. Len(g) : g[i] \in Layout
    <3>1. /\ m \in Nat /\ IsText(Figures(item)) /\ Len(Figures(item)) = m - 1 /\ item.w = ReadWidth(0, Figures(item))
          /\ \A i \in 1 .. m - 1 : t[i] \in Layout /\ Figures(item)[i] = t[i]
      BY ONLY <2>5 DEF WideForm
    <3> QED
      BY ONLY <3>1
  <2>7. /\ next > 0 /\ fs[next] = WideKind[item.conv] /\ SubSeq(fs, next + 1, Len(fs)) = FsFrom(call.items, j)
        /\ w = ReadWidth(width, g) /\ w \in Nat
        /\ item.left <=> Signs(j)
    <3>1. CASE In(j)
      <4>1. fs = t \o FsFrom(call.items, j)
        BY <1>7, <2>3, <3>1 DEF In
      <4>2. /\ m > 0 /\ fs[m] = WideKind[item.conv] /\ SubSeq(fs, m + 1, Len(fs)) = FsFrom(call.items, j)
            /\ SubSeq(fs, 1, m - 1) = Figures(item) /\ ~ item.left /\ Behind(fs) = m
        <5>1. FoundAt(j, item, t, m)
          BY <1>5, <1>7, <1>10, <2>3, <2>4, <4>1, WidthFound
        <5> QED
          BY ONLY <1>3, <1>5, <5>1 DEF FoundAt
      <4>3. ~ Signs(j)
        BY <1>7, <1>10, <4>2, <1>5, SignedFound
      <4>4. next = m /\ w = ReadWidth(width, g)
        BY <1>1, <1>2, <2>6, <4>2
      <4>5. ReadWidth(width, g) \in Nat
        BY ONLY <2>1, <2>6, WidthIsNat
      <4> QED
        BY <4>2, <4>3, <4>4, <4>5
    <3>2. CASE Signs(j)
      <4>1. PICK l \in Nat :
               /\ l > 0 /\ fs[l] = WideKind[item.conv] /\ SubSeq(fs, l + 1, Len(fs)) = FsFrom(call.items, j)
               /\ SubSeq(fs, 1, l - 1) = Tail(Figures(item)) /\ Behind(fs) = l
               /\ item.left /\ Figures(item) # <<>> /\ Figures(item)[1] = "-"
        BY <1>5, <1>7, <1>10, <3>2, SignedFound
      <4>2. g # <<>> /\ g[1] = "-" /\ next = l /\ w = ReadWidth(width, Tail(g))
        BY <1>1, <1>2, <2>6, <4>1
      <4>3. ReadWidth(width, g) = ReadWidth(width, Tail(g))
        BY ONLY <2>1, <2>6, <4>2, WidthBehindMinus
      <4>4. ReadWidth(width, g) \in Nat
        BY ONLY <2>1, <2>6, WidthIsNat
      <4> QED
        BY <3>2, <4>1, <4>2, <4>3, <4>4
    <3> QED
      BY <1>6, <3>1, <3>2
  <2>8. CASE (w > MaxInt \/ next > 0) /\ Stops("overflow")
    BY <1>7, <1>10, <2>8, WidthStops
  <2>9. CASE next > 0 /\ fs[next] # "s" /\ argument.int = MinInt /\ Stops("smallest")
    BY <1>7, <1>10, <2>2, <2>9, WidthStops
  <2>10. CASE /\ next > 0 /\ w <= MaxInt
              /\ \/ fs[next] = "s" /\ out' = out \o my_string_print(argument.str, w)
                 \/ fs[next] # "s" /\ argument.int # MinInt /\ out' = out \o my_int_print(argument.int, w)
              /\ width' = w
              /\ fs' = SubSeq(fs, next + 1, Len(fs)) /\ args' = Tail(args) /\ state' = "init"
              /\ UNCHANGED <<version, call, printed, f, strings, status>>
    <3>1. PICK k : k = WideKind[item.conv] /\ fs[next] = k
      BY <2>7
    <3>2. ASSUME None(j - 1, Widths), Trusted(j) PROVE w = item.w /\ (item.left <=> f = 0)
      <4>1. width = 0
        BY <2>1, <3>2 DEF SoFar
      <4>2. w = item.w
        BY <2>6, <2>7, <4>1
      <4>3. CASE Signs(j)
        BY <2>7, <4>2, <4>3 DEF Signs
      <4>4. CASE ~ Signs(j)
        <5>1. FlagSoFar(j - 1)
          BY <1>6, <4>4 DEF In
        <5>2. f = call.f
          BY <3>2, <5>1 DEF FlagSoFar
        <5>3. item.conv = "ws"
          <6>1. item.conv \in Promised
            BY <1>7, <3>2, TrustedIs
          <6> QED
            BY <1>10, <6>1, ConvSets DEF Promised
        <5>4. item.left \/ call.f = 1
          BY <1>7, <3>2, <5>3, TrustedIs
        <5> QED
          BY <2>7, <4>2, <4>4, <5>2, <5>4
      <4> QED
        BY <4>3, <4>4
    <3>3. fs' = FsFrom(call.items, j)
      BY <2>7, <2>10
    <3> QED
      BY <1>3, <1>7, <1>10, <2>1, <2>7, <2>10, <3>1, <3>2, <3>3, WidthDone8
  <2> QED
    BY <1>4, <2>7, <2>8, <2>9, <2>10
<1> QED
  BY <1>8, <1>9, <1>10

LEMMA Conversion8 ==
  ASSUME PrintfInv, lab8_conversion
  PROVE  PrintfInv'
<1>1. /\ status = "running" /\ version = "lab8" /\ state = "percent" /\ fs # <<>>
      /\ \/ percent_percent
         \/ char = "d" /\ Convert(TRUE, 10, digit)
         \/ char = "b" /\ Convert(TRUE, 2, digit)
         \/ char = "o" /\ Convert(FALSE, 8, digit)
         \/ char = "x" /\ Convert(FALSE, 16, digit)
         \/ char = "X" /\ Convert(TRUE, 16, DIGIT)
         \/ char = "u" /\ Convert(FALSE, 10, digit)
         \/ percent_s
         \/ percent_c
  BY DEF lab8_conversion, Turn
<1>2. ~ OutOfStep
  BY <1>1 DEF OutOfStep
<1>3. char \notin Decimal
  <2>1. char \in {"%", "d", "b", "o", "x", "X", "u", "s", "c"}
    BY <1>1 DEF percent_percent, percent_s, percent_c
  <2> QED
    BY <2>1, CharsAre
<1>4. PICK j \in 1 .. Len(call.items) : In(j)
  BY <1>1, <1>2, <1>3, DirectiveTurn
<1> QED
  BY <1>1, <1>4, PercentDone, UnsignedDone, SignedDone8, StringDone

LEMMA Turn8 ==
  ASSUME PrintfInv, lab8_toy_printf
  PROVE  PrintfInv'
<1>1. CASE lab8_literal
  <2>1. /\ status = "running" /\ version = "lab8" /\ state = "init" /\ fs # <<>> /\ char # "%"
        /\ Put(<<char>>, printed + 1) /\ UNCHANGED args /\ Keeps
    BY <1>1 DEF lab8_literal, Turn
  <2>2. ~ OutOfStep
    BY <2>1 DEF OutOfStep
  <2> QED
    BY <2>1, <2>2, WhereTurn, LiteralTurn
<1>2. CASE lab8_percent
  <2>1. /\ status = "running" /\ version = "lab8" /\ state = "init" /\ fs # <<>> /\ char = "%"
        /\ state' = "percent" /\ fs' = Tail(fs)
        /\ UNCHANGED <<version, call, args, out, printed, width, f, strings, status>>
    BY <1>2 DEF lab8_percent, Turn
  <2>2. ~ OutOfStep
    BY <2>1 DEF OutOfStep
  <2> QED
    BY <2>1, <2>2, WhereTurn, PercentTurn
<1> QED
  BY <1>1, <1>2, Conversion8, Array8, Width8, Minus8, Unhandled8 DEF lab8_toy_printf

-----------------------------------------------------------------------------
(* Arrays as lab9 and lab11 print them.                                        *)
LEMMA StringsAre ==
  ASSUME TypeOK, Texts
  PROVE  /\ DOMAIN strings = 1 .. Len(Strings_array) /\ Len(Strings_array) \in Nat
         /\ \A i \in 1 .. Len(Strings_array) : strings[i] \in {Strings_array[i], <<>>} /\ IsText(strings[i])
<1>1. IsText(strings) /\ Len(strings) = Len(Strings_array)
  BY DEF Texts
<1>2. DOMAIN strings = 1 .. Len(Strings_array) /\ Len(Strings_array) \in Nat
  BY <1>1, TextLen
<1>3. \A i \in 1 .. Len(Strings_array) : strings[i] \in {Strings_array[i], <<>>}
  BY <1>2 DEF TypeOK
<1>4. \A i \in 1 .. Len(Strings_array) : IsText(Strings_array[i]) /\ IsText(<<>>)
  BY ArraysAre, TextOne
<1> QED
  BY <1>2, <1>3, <1>4

LEMMA ArrayText ==
  ASSUME TypeOK, Texts, NEW k \in {"d", "s", "x"}, NEW n \in Nat, n <= Len(ArrayOf(k))
  PROVE  IsText(Array(k, n))
<1>1. PICK g : g = [i \in 1 .. n |->
                     IF k = "s" THEN strings[i]
                     ELSE print_int_d(Integers_array[i], IF k = "x" THEN 8 ELSE 10, digit)]
  OBVIOUS
<1>2. Array(k, n) = Braces(g)
  BY ONLY <1>1 DEF Array
<1>3. PICK l \in Nat : l = Len(ArrayOf(k)) /\ n <= l
  BY ArraysAre DEF ArrayOf
<1>4. \A i \in 1 .. n : i \in 1 .. l
  BY <1>3
<1>5. \A i \in 1 .. n : IsText(g[i])
  <2>1. CASE k = "s"
    <3>1. \A i \in 1 .. n : g[i] = strings[i]
      BY <1>1, <2>1
    <3>2. l = Len(Strings_array)
      BY <1>3, <2>1 DEF ArrayOf
    <3> QED
      BY <1>4, <3>1, <3>2, StringsAre
  <2>2. CASE k # "s"
    <3>1. l = Len(Integers_array)
      BY <1>3, <2>2 DEF ArrayOf
    <3>2. \A i \in 1 .. n : Integers_array[i] \in MinInt .. MaxInt
      BY <1>4, <3>1, ArraysAre
    <3>3. PICK radix \in {2, 8, 10, 16} : radix = IF k = "x" THEN 8 ELSE 10
      OBVIOUS
    <3>4. \A i \in 1 .. n : g[i] = print_int_d(Integers_array[i], radix, digit)
      BY <1>1, <2>2, <3>3
    <3>5. digit \in {digit, DIGIT}
      OBVIOUS
    <3>6. \A i \in 1 .. n : IsText(print_int_d(Integers_array[i], radix, digit))
      BY <3>2, <3>5, NumberText
    <3> QED
      BY <3>4, <3>6
  <2> QED
    BY <2>1, <2>2
<1>6. g = [i \in 1 .. n |-> g[i]]
  BY <1>1
<1>7. IsText(Braces(g))
  BY ONLY n \in Nat, <1>5, <1>6, BracesOfList
<1> QED
  BY <1>2, <1>7

LEMMA SpentText ==
  ASSUME TypeOK, Texts, NEW n \in Nat
  PROVE  /\ IsText(Spent(n)) /\ Len(Spent(n)) = Len(Strings_array)
         /\ \A i \in DOMAIN Spent(n) : Spent(n)[i] \in {Strings_array[i], <<>>}
<1>1. /\ DOMAIN strings = 1 .. Len(Strings_array) /\ Len(Strings_array) \in Nat
      /\ \A i \in 1 .. Len(Strings_array) : strings[i] \in {Strings_array[i], <<>>}
  BY StringsAre
<1>2. PICK l \in Nat : l = Len(Strings_array)
  BY <1>1
<1>3. PICK g : g = Spent(n)
  OBVIOUS
<1>4. g = [i \in 1 .. l |-> IF i <= n THEN <<>> ELSE strings[i]]
  BY <1>1, <1>2, <1>3 DEF Spent
<1>5. PICK S : S = {strings[i] : i \in 1 .. l} \cup {<<>>}
  OBVIOUS
<1>6. g \in [1 .. l -> S]
  BY ONLY <1>4, <1>5
<1>7. g \in Seq(S)
  BY ONLY <1>6, l \in Nat
<1>8. IsText(g)
  BY <1>7, TextOf
<1>9. DOMAIN g = 1 .. l /\ Len(g) = l
  BY ONLY <1>4, l \in Nat
<1>10. \A i \in 1 .. l : g[i] \in {Strings_array[i], <<>>}
  BY <1>1, <1>2, <1>4
<1> QED
  BY <1>2, <1>3, <1>8, <1>9, <1>10

LEMMA ArrayExpected9 ==
  ASSUME TypeOK, Texts, version = "lab9", NEW j \in 1 .. Len(call.items), SoFar(j - 1), Trusted(j),
         NEW item, item = call.items[j], item.conv \in Arrays,
         NEW n, n = item.args[1].int, NEW k, k = ArrayKind[item.conv]
  PROVE  Array(k, n) = Expected(item)
<1>1. IsItem(item)
  BY CallLength
<1>2. /\ n \in Nat
      /\ item.conv \in {"Ad", "Ax"} => \A i \in 1 .. n : i \in 1 .. Len(Integers_array)
      /\ item.conv = "As" => n <= Len(Strings_array)
  BY <1>1, ArrayLength
<1>3. item.conv \in {"Ad", "As"}
  BY ConvSets, TrustedIs
<1>4. PICK g : g = [i \in 1 .. n |->
                     IF k = "s" THEN strings[i]
                     ELSE print_int_d(Integers_array[i], IF k = "x" THEN 8 ELSE 10, digit)]
  OBVIOUS
<1>5. Array(k, n) = Braces(g)
  BY ONLY <1>4 DEF Array
<1>6. CASE item.conv = "Ad"
  <2>1. k = "d"
    BY <1>6, ConvSets
  <2>2. \A i \in 1 .. n : Signed(Integers_array[i]) = print_int_d(Integers_array[i], 10, digit)
    BY <1>2, <1>6, ArraysAre, SignedText
  <2>3. g = [i \in 1 .. n |-> Signed(Integers_array[i])]
    BY ONLY <1>4, <2>1, <2>2
  <2>4. Expected(item) = Braces([i \in 1 .. item.args[1].int |-> Signed(Integers_array[i])])
    BY ONLY <1>6, ExpectedIs
  <2> QED
    BY ONLY <1>5, <2>3, <2>4, n = item.args[1].int
<1>7. CASE item.conv = "As"
  <2>1. k = "s"
    BY <1>7, ConvSets
  <2>2. call.strings = Strings_array /\ ~ Before(j, {"As"})
    BY <1>7, TrustedIs
  <2>3. strings = Strings_array
    BY <2>2 DEF SoFar, None, Before
  <2>4. g = [i \in 1 .. n |-> Strings_array[i]]
    BY ONLY <1>4, <2>1, <2>3
  <2>5. SubSeq(Strings_array, 1, n) = g
    BY <1>2, <1>7, <2>4, StringsPart
  <2>6. Expected(item) = Braces(SubSeq(Strings_array, 1, item.args[1].int))
    BY ONLY <1>7, ExpectedIs
  <2> QED
    BY ONLY <1>5, <2>5, <2>6, n = item.args[1].int
<1> QED
  BY <1>3, <1>6, <1>7

-----------------------------------------------------------------------------
(* lab9.                                                                       *)
LEMMA DirectiveTurn9 ==
  ASSUME PrintfInv, status = "running", version = "lab9", state = "percent"
  PROVE  Texts /\ ~ OutOfStep /\ \E j \in 1 .. Len(call.items) : In(j)
<1>1. ~ OutOfStep
  BY DEF OutOfStep
<1> QED
  BY <1>1, WhereTurn DEF Signs, PrintfInv

LEMMA Array9 ==
  ASSUME PrintfInv, percent_handler_A
  PROVE  PrintfInv'
<1>1. /\ status = "running" /\ version = "lab9" /\ state = "percent" /\ fs # <<>> /\ char = "A"
      /\ \/ kind \notin {"d", "s", "x"} /\ Stops("unhandled")
         \/ /\ kind \in {"d", "s", "x"}
            /\ IF argument.int = 0 /\ kind = "s" THEN Stops("no_element")
               ELSE /\ out' = out \o Array(kind, argument.int)
                    /\ strings' = IF kind = "s" THEN Spent(argument.int) ELSE strings
                    /\ fs' = SubSeq(fs, 3, Len(fs)) /\ args' = Tail(args) /\ state' = "init"
                    /\ UNCHANGED <<version, call, printed, width, f, status>>
  BY DEF percent_handler_A, Turn
<1>2. Texts /\ TypeOK /\ ~ OutOfStep
  BY <1>1, DirectiveTurn9 DEF PrintfInv
<1>3. PICK j \in 1 .. Len(call.items) : In(j)
  BY <1>1, DirectiveTurn9
<1>4. PICK item : item = call.items[j] /\ IsItem(item)
  BY <1>2, CallLength
<1>5. SoFar(j - 1) /\ FlagSoFar(j - 1) /\ args = ArgsFrom(call.items, j - 1)
  BY <1>3 DEF In
<1>6. CASE item.conv \in Arrays
  <2>1. fs # <<>> /\ kind = ArrayKind[item.conv] /\ SubSeq(fs, 3, Len(fs)) = FsFrom(call.items, j)
    BY <1>2, <1>3, <1>4, <1>6, ArrayReads
  <2>2. PICK k : k = kind /\ k = ArrayKind[item.conv]
    BY <2>1
  <2>3. argument = item.args[1] /\ Tail(args) = ArgsFrom(call.items, j)
    BY <1>2, <1>4, <1>5, <1>6, ArgumentReads
  <2>4. PICK n \in Nat : n = argument.int /\ n = item.args[1].int /\ n <= Len(ArrayOf(k))
    <3>1. argument.int \in 0 .. Len(ArrayOf(k))
      BY <1>4, <1>6, <2>2, <2>3, ItemForms
    <3>2. argument.int \in Nat
      BY <1>4, <1>6, <2>3, ArrayLength
    <3>3. Len(ArrayOf(k)) \in Nat
      BY ArraysAre DEF ArrayOf
    <3>4. argument.int <= Len(ArrayOf(k))
      BY ONLY <3>1, <3>2, <3>3
    <3> QED
      BY <2>3, <3>2, <3>4
  <2>5. CASE kind \notin {"d", "s", "x"} /\ Stops("unhandled")
    <3>1. item.conv = "Ac"
      BY <1>6, <2>1, <2>5, ConvSets
    <3>2. Asked({"c", "Ac"})
      BY <1>2, <1>4, <3>1, CallLength DEF Asked
    <3>3. version' = version /\ call' = call /\ status' = "unhandled"
      BY <2>5 DEF Stops
    <3>4. NamedStops'
      BY <1>1, <3>2, <3>3, NamedWhy
    <3> QED
      BY <2>5, <3>4, StopKeeps
  <2>6. CASE n = 0 /\ Stops("no_element")
    <3>1. version' = version /\ call' = call /\ status' = "no_element"
      BY <2>6 DEF Stops
    <3>2. \E i \in DOMAIN call.items : call.items[i].conv \in Arrays /\ call.items[i].args[1].int = 0
      BY <1>2, <1>4, <1>6, <2>4, <2>6, CallLength
    <3>3. NamedStops'
      BY <3>1, <3>2, NamedWhy
    <3> QED
      BY <2>6, <3>3, StopKeeps
  <2>7. CASE /\ k \in {"d", "s", "x"}
             /\ out' = out \o Array(k, n)
             /\ strings' = IF k = "s" THEN Spent(n) ELSE strings
             /\ fs' = SubSeq(fs, 3, Len(fs)) /\ args' = Tail(args) /\ state' = "init"
             /\ UNCHANGED <<version, call, printed, width, f, status>>
    <3>1. PICK text : text = Array(k, n) /\ IsText(text)
      BY <1>2, <2>4, <2>7, ArrayText
    <3>2. Trusted(j) => text = Expected(item)
      BY <1>1, <1>2, <1>4, <1>5, <1>6, <2>2, <2>4, <3>1, ArrayExpected9
    <3>3. Prints(j, text)
      BY <2>1, <2>3, <2>7, <3>1 DEF Prints
    <3>4. /\ f \in {0, 1} /\ width \in 0 .. MaxInt /\ IsText(strings) /\ Len(strings) = Len(Strings_array)
          /\ \A i \in DOMAIN strings : strings[i] \in {Strings_array[i], <<>>}
      BY <1>2 DEF Texts, TypeOK
    <3>5. item.conv \notin Counted /\ item.conv \notin Widths
      BY <1>6, ConvSets DEF Counted
    <3>6. printed' \in 0 .. Len(out) + Len(text)
      <4>1. Len(text) \in Nat /\ Len(out) \in Nat /\ printed \in 0 .. Len(out)
        BY <1>2, <3>1, TextLen DEF TypeOK, Texts
      <4> QED
        BY <2>7, <4>1
    <3>7. f' \in {0, 1} /\ width' \in 0 .. MaxInt /\ width' = width /\ f' = f
      BY <2>7, <3>4
    <3>8. /\ IsText(strings') /\ Len(strings') = Len(Strings_array)
          /\ \A i \in DOMAIN strings' : strings'[i] \in {Strings_array[i], <<>>}
      BY <1>2, <2>7, <3>4, SpentText
    <3>9. item.conv # "As" => strings' = strings
      BY <1>6, <2>2, <2>7, ConvSets
    <3> QED
      BY <1>1, <1>4, <1>5, <3>1, <3>2, <3>3, <3>5, <3>6, <3>7, <3>8, <3>9, ItemDone
  <2> QED
    BY <1>1, <2>2, <2>4, <2>5, <2>6, <2>7
<1>7. CASE item.conv = "broken"
  <2>1. fs = <<"A">>
    BY <1>1, <1>2, <1>3, <1>4, <1>7, InReads, ConvSets
  <2>2. kind = "none"
    <3>1. Len(<<"A">>) = 1
      OBVIOUS
    <3> QED
      BY <2>1, <3>1 DEF kind
  <2>3. Stops("unhandled")
    BY <1>1, <2>2
  <2>4. version' = version /\ call' = call /\ status' = "unhandled"
    BY <2>3 DEF Stops
  <2>5. Asked({"unknown", "broken"})
    BY <1>2, <1>4, <1>7, CallLength DEF Asked
  <2>6. NamedStops'
    BY <2>4, <2>5, NamedWhy
  <2> QED
    BY <2>3, <2>6, StopKeeps
<1> QED
  BY <1>1, <1>2, <1>3, <1>4, <1>6, <1>7, InReads

LEMMA ZerosText ==
  ASSUME NEW n \in MinInt .. MaxInt, n # MinInt, NEW w \in Nat, NEW negative
  PROVE  IsText(Zeros(n, w, negative))
<1>1. PICK top \in Nat : top = MaxInt /\ MinInt = -top - 1
  BY IntRange
<1>2. PICK a \in MinInt .. MaxInt : a = IF n < 0 THEN -n ELSE n
  <2>1. (IF n < 0 THEN -n ELSE n) \in MinInt .. MaxInt
    BY ONLY <1>1, top \in Nat, n \in MinInt .. MaxInt, n # MinInt
  <2> QED
    BY <2>1
<1>3. PICK sign : sign = (IF n < 0 THEN <<"-">> ELSE <<>>) /\ IsText(sign)
  BY TextOne
<1>4. PICK zeros : zeros = (IF negative THEN <<>> ELSE Copies("0", w)) /\ IsText(zeros)
  <2>1. w \in Int
    OBVIOUS
  <2> QED
    BY <2>1, CopiesText, TextOne
<1>5. IsText(print_int_d(a, 10, digit))
  BY DecimalText
<1>6. IsText(sign \o zeros)
  BY ONLY <1>3, <1>4, TextConcat
<1>7. IsText((sign \o zeros) \o print_int_d(a, 10, digit))
  BY ONLY <1>5, <1>6, TextConcat
<1>8. Zeros(n, w, negative) = sign \o zeros \o print_int_d(a, 10, digit)
  BY ONLY <1>2, <1>3, <1>4 DEF Zeros
<1> QED
  BY <1>7, <1>8

LEMMA BlanksText ==
  ASSUME NEW text, IsText(text), NEW w \in Nat, NEW negative, NEW mark, IsText(mark)
  PROVE  /\ IsText(Blanks(text, w, negative, mark))
         /\ Len(Blanks(text, w, negative, mark)) \in Nat
         /\ Len(text) <= Len(Blanks(text, w, negative, mark))
<1>1. PICK pad : pad = Copies(Blank, w) /\ IsText(pad)
  <2>1. w \in Int
    OBVIOUS
  <2> QED
    BY <2>1, CopiesText
<1>2. PICK rest : rest = (IF negative THEN <<>> ELSE pad) /\ IsText(rest)
  BY <1>1, TextOne
<1>3. Len(text) \in Nat /\ Len(pad) \in Nat /\ Len(rest) \in Nat /\ Len(mark) \in Nat
  BY <1>1, <1>2, TextLen
<1>4. IsText(pad \o text) /\ Len(pad \o text) = Len(pad) + Len(text)
  BY ONLY <1>1, IsText(text), TextConcat
<1>5. IsText(text \o rest) /\ Len(text \o rest) = Len(text) + Len(rest)
  BY ONLY <1>2, IsText(text), TextConcat
<1>6. /\ IsText((text \o rest) \o mark)
      /\ Len((text \o rest) \o mark) = Len(text \o rest) + Len(mark)
  BY ONLY <1>5, IsText(mark), TextConcat
<1>7. Blanks(text, w, negative, mark) = IF negative /\ w > 0 THEN pad \o text ELSE text \o rest \o mark
  BY ONLY <1>1, <1>2 DEF Blanks
<1>8. /\ Len(pad \o text) \in Nat /\ Len(text) <= Len(pad \o text)
      /\ Len((text \o rest) \o mark) \in Nat /\ Len(text) <= Len((text \o rest) \o mark)
  <2>1. PICK a \in Nat, b \in Nat, c \in Nat, d \in Nat :
           a = Len(text) /\ b = Len(pad) /\ c = Len(rest) /\ d = Len(mark)
    BY <1>3
  <2>2. Len(pad \o text) = b + a /\ Len((text \o rest) \o mark) = a + c + d
    BY <1>4, <1>5, <1>6, <2>1
  <2>3. b + a \in Nat /\ a <= b + a /\ a + c + d \in Nat /\ a <= a + c + d
    OBVIOUS
  <2> QED
    BY ONLY <2>1, <2>2, <2>3
<1> QED
  BY ONLY <1>4, <1>6, <1>7, <1>8

LEMMA Width9 ==
  ASSUME PrintfInv, lab9_width
  PROVE  PrintfInv'
<1>1. PICK next : next = Behind9(fs)
  OBVIOUS
<1>2. PICK g : g = SubSeq(fs, 1, next - 1)
  OBVIOUS
<1>3. PICK w : w = ReadWidth(0, g)
  OBVIOUS
<1>4. PICK negative : negative = Contains(g, "-")
  OBVIOUS
<1>5. PICK mark : mark = (IF char = "-" THEN <<>> ELSE <<"#">>) /\ IsText(mark)
  BY TextOne
<1>6. /\ status = "running" /\ version = "lab9" /\ state = "percent" /\ fs # <<>> /\ char \in Layout
  BY DEF lab9_width, Turn
<1>7. \/ next = 0 /\ Stops("overrun")
      \/ w > MaxInt /\ Stops("overflow")
      \/ next > 0 /\ fs[next] = "d" /\ argument.int = MinInt /\ Stops("smallest")
      \/ next > 0 /\ fs[next] # "d" /\ argument.kind # "string" /\ Stops("kind")
      \/ /\ next > 0 /\ w <= MaxInt
         /\ \/ /\ fs[next] = "d" /\ argument.int # MinInt
               /\ out' = out \o Zeros(argument.int, w, negative)
               /\ UNCHANGED printed
            \/ /\ fs[next] # "d" /\ argument.kind = "string"
               /\ out' = out \o Blanks(argument.str, w, negative, mark)
               /\ printed' = printed + Len(argument.str)
         /\ fs' = SubSeq(fs, next + 1, Len(fs)) /\ args' = Tail(args) /\ state' = "init"
         /\ UNCHANGED <<version, call, width, f, strings, status>>
  BY <1>1, <1>2, <1>3, <1>4, <1>5 DEF lab9_width, Value
<1>8. Texts /\ ~ OutOfStep
  BY <1>6, DirectiveTurn9
<1>9. PICK j \in 1 .. Len(call.items) : In(j)
  BY <1>6, DirectiveTurn9
<1>10. PICK item : item = call.items[j] /\ IsItem(item)
  BY <1>8, CallLength
<1>11. item.conv \in Widths \cup {"broken"}
  BY <1>6, <1>8, <1>9, <1>10, InReads
<1>12. CASE item.conv = "broken"
  <2>1. next = 0
    BY <1>1, <1>6, <1>8, <1>9, <1>10, <1>12, NothingFound
  <2>2. Stops("overrun") \/ Stops("overflow")
    BY <1>7, <2>1
  <2> QED
    BY <1>10, <1>12, <2>2, WidthCutOff
<1>13. CASE item.conv \in Widths
  <2>1. SoFar(j - 1) /\ args = ArgsFrom(call.items, j - 1)
    BY <1>9 DEF In
  <2>2. /\ argument = item.args[1] /\ Tail(args) = ArgsFrom(call.items, j) /\ IsArgument(argument)
        /\ argument.kind = IF item.conv \in {"s", "ws"} THEN "string" ELSE "int"
    BY <1>8, <1>10, <1>13, <2>1, ArgumentReads
  <2>3. PICK t : t = Tail(item.fs)
    OBVIOUS
  <2>4. PICK m : m = Len(t)
    OBVIOUS
  <2>5. WideForm(item, t, m)
    BY ONLY <1>10, <1>13, <2>3, <2>4, WideItem
  <2>6. FoundAt(j, item, t, m)
    <3>1. fs = t \o FsFrom(call.items, j)
      BY <1>9, <1>10, <2>3 DEF In
    <3> QED
      BY <1>8, <1>10, <1>13, <2>3, <2>4, <3>1, WidthFound
  <2>7. /\ next = m /\ next > 0 /\ fs[next] = WideKind[item.conv]
        /\ SubSeq(fs, next + 1, Len(fs)) = FsFrom(call.items, j) /\ g = Figures(item)
    BY ONLY <1>1, <1>2, <2>6 DEF FoundAt
  <2>8. w \in Nat
    BY ONLY <1>3, <2>5, <2>7 DEF WideForm
  <2>9. argument.int \in MinInt .. MaxInt /\ IsText(argument.str)
    BY <2>2 DEF IsArgument
  <2>10. CASE w > MaxInt /\ Stops("overflow")
    BY <1>10, <1>13, <2>10, WidthStops
  <2>11. CASE next > 0 /\ fs[next] = "d" /\ argument.int = MinInt /\ Stops("smallest")
    BY <1>10, <1>13, <2>2, <2>11, WidthStops
  <2>12. CASE next > 0 /\ fs[next] # "d" /\ argument.kind # "string" /\ Stops("kind")
    <3>1. item.conv = "wx"
      BY <1>13, <2>2, <2>7, <2>12, ConvSets
    <3> QED
      BY <1>6, <1>10, <1>13, <2>12, <3>1, WidthStops
  <2>13. CASE /\ next > 0 /\ w <= MaxInt
              /\ \/ /\ fs[next] = "d" /\ argument.int # MinInt
                    /\ out' = out \o Zeros(argument.int, w, negative)
                    /\ UNCHANGED printed
                 \/ /\ fs[next] # "d" /\ argument.kind = "string"
                    /\ out' = out \o Blanks(argument.str, w, negative, mark)
                    /\ printed' = printed + Len(argument.str)
              /\ fs' = SubSeq(fs, next + 1, Len(fs)) /\ args' = Tail(args) /\ state' = "init"
              /\ UNCHANGED <<version, call, width, f, strings, status>>
    <3>1. printed \in 0 .. Len(out) /\ Len(out) \in Nat /\ Len(argument.str) \in Nat
      BY <1>8, <2>9, TextLen DEF PrintfInv, TypeOK, Texts
    <3>2. PICK text : out' = out \o text /\ IsText(text) /\ printed' \in 0 .. Len(out) + Len(text)
      <4>1. CASE fs[next] = "d" /\ argument.int # MinInt
        <5>1. PICK text : text = Zeros(argument.int, w, negative) /\ IsText(text)
          BY <2>8, <2>9, <4>1, ZerosText
        <5>2. out' = out \o text /\ printed' = printed
          BY <2>13, <4>1, <5>1
        <5>3. Len(text) \in Nat
          BY <5>1, TextLen
        <5>4. printed' \in 0 .. Len(out) + Len(text)
          BY <3>1, <5>2, <5>3
        <5> QED
          BY <5>1, <5>2, <5>4
      <4>2. CASE ~ (fs[next] = "d" /\ argument.int # MinInt)
        <5>1. PICK text : /\ text = Blanks(argument.str, w, negative, mark) /\ IsText(text)
                          /\ Len(text) \in Nat /\ Len(argument.str) <= Len(text)
          BY <1>5, <2>8, <2>9, BlanksText
        <5>2. out' = out \o text /\ printed' = printed + Len(argument.str)
          BY <2>13, <4>2, <5>1
        <5>3. printed' \in 0 .. Len(out) + Len(text)
          <6>1. PICK a \in Nat : a = Len(argument.str)
            BY <3>1
          <6>2. PICK b \in Nat : b = Len(text) /\ a <= b
            BY <5>1, <6>1
          <6>3. PICK c \in Nat : c = Len(out) /\ printed \in 0 .. c
            BY <3>1
          <6>4. printed + a \in 0 .. c + b
            BY ONLY <6>2, <6>3, a \in Nat, b \in Nat, c \in Nat
          <6> QED
            BY <5>2, <6>1, <6>2, <6>3, <6>4
        <5> QED
          BY <5>1, <5>2, <5>3
      <4> QED
        BY <4>1, <4>2
    <3>3. Prints(j, text)
      BY <2>2, <2>7, <2>13, <3>2 DEF Prints
    <3>4. ~ Trusted(j)
      <4>1. item.conv \in Promised => item.conv = "ws"
        BY <1>13, ConvSets DEF Promised
      <4> QED
        BY <1>6, <1>10, <4>1, TrustedIs
    <3>5. /\ f \in {0, 1} /\ width \in 0 .. MaxInt /\ IsText(strings) /\ Len(strings) = Len(Strings_array)
          /\ \A i \in DOMAIN strings : strings[i] \in {Strings_array[i], <<>>}
      BY DEF PrintfInv, Texts, TypeOK
    <3>6. f' \in {0, 1} /\ width' \in 0 .. MaxInt
      BY <2>13, <3>5
    <3>7. /\ IsText(strings') /\ Len(strings') = Len(Strings_array) /\ strings' = strings
          /\ \A i \in DOMAIN strings' : strings'[i] \in {Strings_array[i], <<>>}
      BY <2>13, <3>5
    <3> QED
      BY <1>6, <1>10, <1>13, <2>1, <3>2, <3>3, <3>4, <3>6, <3>7, ItemDone
  <2> QED
    BY <1>7, <2>7, <2>10, <2>11, <2>12, <2>13, SMTT(40)
<1> QED
  BY <1>11, <1>12, <1>13

LEMMA Default9 ==
  ASSUME PrintfInv, default_handler
  PROVE  PrintfInv'
<1>1. /\ status = "running" /\ version = "lab9" /\ state = "percent" /\ fs # <<>>
      /\ char \notin Layout \cup {"%", "d", "b", "o", "x", "X", "u", "s", "A"}
      /\ Stops("unhandled")
  BY DEF default_handler, Turn
<1>2. Texts
  BY <1>1, DirectiveTurn9
<1>3. PICK j \in 1 .. Len(call.items) : In(j)
  BY <1>1, DirectiveTurn9
<1>4. char = "c" \/ char \notin Directives
  BY <1>1, CharsAre
<1>5. "c" \in Plain
  BY ConvSets DEF Plain
<1>6. call.items[j].conv \in {"c", "unknown"}
  BY <1>1, <1>2, <1>3, <1>4, <1>5, InReads
<1>7. Asked({"unknown", "broken"}) \/ Asked({"c", "Ac"})
  BY <1>2, <1>6, CallLength DEF Asked
<1>8. version' = version /\ call' = call /\ status' = "unhandled"
  BY <1>1 DEF Stops
<1>9. NamedStops'
  BY <1>1, <1>7, <1>8, NamedWhy
<1> QED
  BY <1>1, <1>9, StopKeeps

LEMMA Turn9 ==
  ASSUME PrintfInv, lab9_toy_printf
  PROVE  PrintfInv'
<1>1. CASE lab9_wild_result
  <2>1. Stops("wild_result") /\ version = "lab9"
    BY <1>1 DEF lab9_wild_result
  <2>2. version' = version /\ call' = call /\ status' = "wild_result"
    BY <2>1 DEF Stops
  <2>3. NamedStops'
    BY <2>1, <2>2, NamedWhy
  <2> QED
    BY <2>1, <2>3, StopKeeps
<1>2. CASE init_state_handler
  <2>1. status = "running" /\ version = "lab9" /\ state = "init" /\ fs # <<>> /\ ~ OutOfStep
    BY <1>2 DEF init_state_handler, Turn, OutOfStep
  <2>2. PICK i \in 0 .. Len(call.items) : At(i)
    BY <2>1, WhereTurn
  <2>3. CASE char = "%"
    <3>1. /\ state' = "percent" /\ fs' = Tail(fs) /\ printed' = 0
          /\ UNCHANGED <<version, call, args, out, width, f, strings, status>>
      BY <1>2, <2>3 DEF init_state_handler
    <3> QED
      BY <2>1, <2>2, <2>3, <3>1, PercentTurn
  <2>4. CASE char # "%"
    <3>1. Put(<<char>>, 1) /\ UNCHANGED args /\ Keeps
      BY <1>2, <2>4 DEF init_state_handler
    <3> QED
      BY <2>1, <2>2, <2>4, <3>1, LiteralTurn
  <2> QED
    BY <2>3, <2>4
<1>3. CASE lab9_conversion
  <2>1. /\ status = "running" /\ version = "lab9" /\ state = "percent" /\ fs # <<>>
        /\ \/ percent_percent
           \/ char = "d" /\ Convert(TRUE, 10, digit)
           \/ char = "b" /\ Convert(FALSE, 2, digit)
           \/ char = "u" /\ Convert(FALSE, 10, digit)
           \/ char = "o" /\ Convert(FALSE, 8, digit)
           \/ char = "x" /\ Convert(FALSE, 16, digit)
           \/ char = "X" /\ Convert(FALSE, 16, DIGIT)
           \/ percent_s
    BY <1>3 DEF lab9_conversion, Turn
  <2>2. PICK j \in 1 .. Len(call.items) : In(j)
    BY <2>1, DirectiveTurn9
  <2> QED
    BY <2>1, <2>2, PercentDone, UnsignedDone, StringDone
<1> QED
  BY <1>1, <1>2, <1>3, Array9, Width9, Default9 DEF lab9_toy_printf

-----------------------------------------------------------------------------
(* lab11 out of step: the variables keep their types, nothing more is known.  *)
LEMMA LooseDone ==
  ASSUME PrintfInv, OutOfStep, status = "running",
         version' = version, call' = call, status' = status, state' \in {"init", "percent"},
         NEW text, IsText(text), out' = out \o text, printed' \in 0 .. Len(out) + Len(text),
         IsText(fs'), IsText(args'), AllArguments(args'), width' = width, f' = f,
         IsText(strings'), Len(strings') = Len(Strings_array),
         \A i \in DOMAIN strings' : strings'[i] \in {Strings_array[i], <<>>}
  PROVE  PrintfInv'
<1>1. Texts /\ OutOfStep'
  BY SameCall DEF PrintfInv
<1>2. IsText(out') /\ Len(out') = Len(out) + Len(text)
  <2>1. IsText(out)
    BY <1>1 DEF Texts
  <2>2. IsText(out \o text) /\ Len(out \o text) = Len(out) + Len(text)
    BY ONLY <2>1, IsText(text), TextConcat
  <2> QED
    BY <2>2
<1>3. f' \in {0, 1} /\ width' \in 0 .. MaxInt
  BY DEF PrintfInv, TypeOK
<1>4. TypeOK'
  BY <1>2, <1>3 DEF TypeOK, AllArguments
<1>5. Texts'
  <2>1. version = "lab11"
    BY DEF OutOfStep
  <2> QED
    BY <1>1, <1>2, <2>1 DEF Texts
<1>6. NamedStops'
  BY NamedWhy
<1>7. TextAsAsked' /\ CountIsText'
  BY DEF TextAsAsked, CountIsText
<1> QED
  BY <1>1, <1>4, <1>5, <1>6, <1>7 DEF PrintfInv

LEMMA LooseStop ==
  ASSUME PrintfInv, OutOfStep,
         NEW why \in {"smallest", "unhandled", "no_element", "swapped", "kind"}, Stops(why)
  PROVE  PrintfInv'
<1>1. version' = version /\ call' = call /\ status' = why
  BY DEF Stops
<1>2. version = "lab11" /\ Asked(Arrays) /\ Asked(Arrays \cup Widths)
  BY DEF OutOfStep, Asked
<1>3. NamedStops'
  BY <1>1, <1>2, NamedWhy
<1> QED
  BY <1>3, StopKeeps

LEMMA LooseKeeps ==
  ASSUME PrintfInv, fs # <<>>
  PROVE  /\ IsText(Tail(fs)) /\ IsText(SubSeq(fs, 3, Len(fs)))
         /\ IsText(args) /\ AllArguments(args)
         /\ args # <<>> => IsArgument(argument) /\ IsText(Tail(args)) /\ AllArguments(Tail(args))
         /\ IsText(strings) /\ Len(strings) = Len(Strings_array)
         /\ \A i \in DOMAIN strings : strings[i] \in {Strings_array[i], <<>>}
         /\ printed \in 0 .. Len(out) /\ Len(out) \in Nat
<1>1. Texts /\ TypeOK
  BY DEF PrintfInv
<1>2. IsText(fs) /\ IsText(args) /\ IsText(out) /\ AllArguments(args)
  BY <1>1 DEF Texts, TypeOK, AllArguments
<1>3. IsText(Tail(fs))
  BY <1>2, TextTail
<1>4. IsText(SubSeq(fs, 3, Len(fs)))
  <2>1. PICK l \in Nat : l = Len(fs)
    BY <1>2, TextLen
  <2>2. 3 \in Nat \ {0} /\ l \in Int /\ l <= Len(fs)
    BY <2>1
  <2>3. IsText(SubSeq(fs, 3, l))
    BY ONLY <1>2, <2>2, TextPart
  <2> QED
    BY <2>1, <2>3
<1>5. ASSUME args # <<>>
      PROVE  IsArgument(argument) /\ IsText(Tail(args)) /\ AllArguments(Tail(args))
  <2>1. PICK a : a = args /\ IsText(a) /\ a # <<>> /\ \A i \in DOMAIN a : IsArgument(a[i])
    BY <1>2, <1>5 DEF AllArguments
  <2>2. PICK l \in Nat \ {0} : l = Len(a) /\ DOMAIN a = 1 .. l
    BY <2>1, TextTail, TextLen
  <2>3. PICK t : t = Tail(a) /\ IsText(t) /\ Len(t) = l - 1 /\ \A i \in 1 .. l - 1 : t[i] = a[i + 1]
    BY ONLY <2>1, <2>2, TextTail, ZenonT(40)
  <2>4. Head(a) = a[1]
    BY <2>1, TextTail
  <2>5. IsArgument(a[1])
    BY <2>1, <2>2
  <2>6. DOMAIN t = 1 .. l - 1
    BY <2>3, TextLen
  <2>7. \A i \in 1 .. l - 1 : i + 1 \in 1 .. l
    BY ONLY l \in Nat \ {0}
  <2>8. \A i \in DOMAIN t : IsArgument(t[i])
    BY <2>1, <2>2, <2>3, <2>6, <2>7
  <2> QED
    BY <2>1, <2>3, <2>4, <2>5, <2>8 DEF argument, AllArguments
<1>6. Len(out) \in Nat
  BY <1>2, TextLen
<1> QED
  BY <1>1, <1>2, <1>3, <1>4, <1>5, <1>6 DEF Texts, TypeOK

LEMMA LoosePut ==
  ASSUME PrintfInv, OutOfStep, status = "running", fs # <<>>,
         NEW text, IsText(text), NEW count, Put(text, count), Keeps,
         count \in 0 .. Len(out) + Len(text),
         args' = args \/ (args # <<>> /\ args' = Tail(args))
  PROVE  PrintfInv'
<1>1. /\ out' = out \o text /\ printed' = count /\ fs' = Tail(fs) /\ state' = "init"
      /\ version' = version /\ call' = call /\ status' = status
      /\ width' = width /\ f' = f /\ strings' = strings
  BY DEF Put, Keeps
<1>2. IsText(fs') /\ IsText(args') /\ AllArguments(args')
  BY <1>1, LooseKeeps
<1>3. /\ IsText(strings') /\ Len(strings') = Len(Strings_array)
      /\ \A i \in DOMAIN strings' : strings'[i] \in {Strings_array[i], <<>>}
  BY <1>1, LooseKeeps
<1> QED
  BY <1>1, <1>2, <1>3, LooseDone

LEMMA LooseConvert ==
  ASSUME PrintfInv, OutOfStep, status = "running", fs # <<>>,
         NEW signed \in BOOLEAN, NEW radix \in {2, 8, 10, 16}, NEW table \in {digit, DIGIT},
         Convert(signed, radix, table)
  PROVE  PrintfInv'
<1>1. CASE Lacks("int")
  <2>1. Stops("kind")
    BY <1>1 DEF Convert
  <2> QED
    BY <2>1, LooseStop
<1>2. CASE ~ Lacks("int")
  <2>1. args # <<>> /\ IsArgument(argument)
    BY <1>2, LooseKeeps DEF Lacks
  <2>2. PICK n \in MinInt .. MaxInt : n = argument.int
    BY <2>1 DEF IsArgument
  <2>3. CASE signed /\ n = MinInt
    <3>1. Stops("smallest")
      BY <1>2, <2>2, <2>3 DEF Convert
    <3> QED
      BY <3>1, LooseStop
  <2>4. CASE ~ (signed /\ n = MinInt)
    <3>1. PICK text : text = IF signed THEN print_int_d(n, radix, table) ELSE print_int(n, radix, table)
      OBVIOUS
    <3>2. Put(text, printed + Len(text)) /\ args' = Tail(args) /\ Keeps
      BY <1>2, <2>2, <2>4, <3>1 DEF Convert
    <3>3. IsText(text)
      <4>1. IsText(print_int(n, radix, table)) /\ IsText(print_int_d(n, radix, table))
        BY NumberText
      <4> QED
        BY <3>1, <4>1
    <3>4. Len(text) \in Nat /\ Len(out) \in Nat /\ printed \in 0 .. Len(out)
      BY <3>3, TextLen, LooseKeeps
    <3>5. printed + Len(text) \in 0 .. Len(out) + Len(text)
      BY <3>4
    <3> QED
      BY <2>1, <3>2, <3>3, <3>5, LoosePut
  <2> QED
    BY <2>3, <2>4
<1> QED
  BY <1>1, <1>2

LEMMA LooseArgument ==
  ASSUME PrintfInv, OutOfStep, status = "running", fs # <<>>, percent_s \/ percent_c
  PROVE  PrintfInv'
<1>1. PICK k, count :
           /\ PutArgument(k, count)
           /\ \/ k = "string" /\ count = printed + Len(argument.str)
              \/ k = "int" /\ count = printed + 1
  BY DEF percent_s, percent_c
<1>2. CASE Lacks(k)
  <2>1. Stops("kind")
    BY <1>1, <1>2 DEF PutArgument
  <2> QED
    BY <2>1, LooseStop
<1>3. CASE ~ Lacks(k)
  <2>1. args # <<>> /\ IsArgument(argument) /\ argument.kind = k
    BY <1>3, LooseKeeps DEF Lacks
  <2>2. PICK text : text = argument.str /\ IsText(text) /\ (k = "int" => Len(text) = 1)
    BY <2>1 DEF IsArgument
  <2>3. Put(text, count) /\ args' = Tail(args) /\ Keeps
    BY <1>1, <1>3, <2>2 DEF PutArgument
  <2>4. Len(text) \in Nat /\ Len(out) \in Nat /\ printed \in 0 .. Len(out)
    BY <2>2, TextLen, LooseKeeps
  <2>5. count = printed + Len(text)
    BY <1>1, <2>2
  <2>6. count \in 0 .. Len(out) + Len(text)
    BY <2>4, <2>5
  <2> QED
    BY <2>1, <2>2, <2>3, <2>6, LoosePut
<1> QED
  BY <1>2, <1>3

LEMMA LooseOne ==
  ASSUME PrintfInv, OutOfStep, status = "running", fs # <<>>, NEW c, Put(<<c>>, printed + 1),
         UNCHANGED args, Keeps
  PROVE  PrintfInv'
<1>1. PICK text : text = <<c>> /\ IsText(text) /\ Len(text) = 1
  BY TextOne
<1>2. Len(out) \in Nat /\ printed \in 0 .. Len(out)
  BY LooseKeeps
<1>3. printed + 1 \in 0 .. Len(out) + Len(text)
  BY <1>1, <1>2
<1> QED
  BY <1>1, <1>3, LoosePut

LEMMA LooseArray ==
  ASSUME PrintfInv, OutOfStep, lab11_array
  PROVE  PrintfInv'
<1>1. /\ status = "running" /\ state = "percent" /\ fs # <<>>
      /\ \/ Stops("unhandled")
         \/ Stops("swapped")
         \/ /\ kind \in {"d", "s", "x"}
            /\ IF Lacks("int") THEN Stops("kind")
               ELSE IF argument.int \notin 0..Len(ArrayOf(kind)) THEN Stops("kind")
               ELSE IF argument.int = 0 THEN Stops("no_element")
               ELSE /\ out' = out \o <<kind>> \o Array(kind, argument.int)
                    /\ strings' = IF kind = "s" THEN Spent(argument.int) ELSE strings
                    /\ fs' = SubSeq(fs, 3, Len(fs)) /\ args' = Tail(args)
                    /\ UNCHANGED <<version, call, printed, state, width, f, status>>
  BY DEF lab11_array, Turn
<1>2. CASE Stops("unhandled") \/ Stops("swapped") \/ Stops("kind") \/ Stops("no_element")
  BY <1>2, LooseStop
<1>3. CASE /\ kind \in {"d", "s", "x"} /\ ~ Lacks("int") /\ argument.int \in 0..Len(ArrayOf(kind))
           /\ out' = out \o <<kind>> \o Array(kind, argument.int)
           /\ strings' = IF kind = "s" THEN Spent(argument.int) ELSE strings
           /\ fs' = SubSeq(fs, 3, Len(fs)) /\ args' = Tail(args)
           /\ UNCHANGED <<version, call, printed, state, width, f, status>>
  <2>1. PICK k \in {"d", "s", "x"} : k = kind
    BY <1>3
  <2>2. Texts /\ TypeOK /\ args # <<>>
    BY <1>3 DEF PrintfInv, Lacks
  <2>3. PICK n \in Nat : n = argument.int /\ n <= Len(ArrayOf(k))
    <3>1. PICK l \in Nat : l = Len(ArrayOf(k))
      BY ArraysAre DEF ArrayOf
    <3>2. argument.int \in 0 .. l
      BY <1>3, <2>1, <3>1
    <3> QED
      BY <3>1, <3>2
  <2>4. PICK array : array = Array(k, n) /\ IsText(array)
    BY <2>2, <2>3, ArrayText
  <2>5. PICK mark : mark = <<k>> /\ IsText(mark)
    BY TextOne
  <2>6. PICK text : text = mark \o array /\ IsText(text)
    BY ONLY <2>4, <2>5, TextConcat
  <2>7. out' = out \o text
    <3>1. out' = (out \o mark) \o array
      BY <1>3, <2>1, <2>3, <2>4, <2>5
    <3>2. IsText(out)
      BY <2>2 DEF Texts
    <3>3. (out \o mark) \o array = out \o (mark \o array)
      BY ONLY <2>4, <2>5, <3>2, TextAssociates
    <3> QED
      BY <2>6, <3>1, <3>3
  <2>8. Len(out) \in Nat /\ printed \in 0 .. Len(out) /\ Len(text) \in Nat
    BY <1>1, <2>6, LooseKeeps, TextLen
  <2>9. printed' \in 0 .. Len(out) + Len(text)
    BY <1>3, <2>8
  <2>10. IsText(fs') /\ IsText(args') /\ AllArguments(args')
    BY <1>1, <1>3, <2>2, LooseKeeps
  <2>11. /\ IsText(strings') /\ Len(strings') = Len(Strings_array)
         /\ \A i \in DOMAIN strings' : strings'[i] \in {Strings_array[i], <<>>}
    <3>1. strings' = strings \/ strings' = Spent(n)
      BY <1>3, <2>3
    <3> QED
      BY <1>1, <2>2, <3>1, LooseKeeps, SpentText
  <2> QED
    BY <1>1, <1>3, <2>6, <2>7, <2>9, <2>10, <2>11, LooseDone
<1> QED
  BY <1>1, <1>2, <1>3

LEMMA Loose11 ==
  ASSUME PrintfInv, OutOfStep, lab11_toy_printf
  PROVE  PrintfInv'
<1>1. CASE lab11_literal
  <2>1. status = "running" /\ fs # <<>> /\ Put(<<char>>, printed + 1) /\ UNCHANGED args /\ Keeps
    BY <1>1 DEF lab11_literal, Turn
  <2> QED
    BY <2>1, LooseOne
<1>2. CASE lab11_percent
  <2>1. /\ status = "running" /\ fs # <<>> /\ state' = "percent" /\ fs' = Tail(fs)
        /\ UNCHANGED <<version, call, args, out, printed, width, f, strings, status>>
    BY <1>2 DEF lab11_percent, Turn
  <2>2. PICK text : text = <<>> /\ IsText(text) /\ Len(text) = 0
    BY TextOne
  <2>3. out' = out \o text
    <3>1. IsText(out)
      BY DEF PrintfInv, Texts
    <3>2. out \o text = out
      BY ONLY <2>2, <3>1, TextConcat
    <3> QED
      BY <2>1, <3>2
  <2>4. Len(out) \in Nat /\ printed \in 0 .. Len(out)
    BY <2>1, LooseKeeps
  <2>5. printed' \in 0 .. Len(out) + Len(text)
    BY <2>1, <2>2, <2>4
  <2>6. IsText(fs') /\ IsText(args') /\ AllArguments(args')
    BY <2>1, LooseKeeps
  <2>7. /\ IsText(strings') /\ Len(strings') = Len(Strings_array)
        /\ \A i \in DOMAIN strings' : strings'[i] \in {Strings_array[i], <<>>}
    BY <2>1, LooseKeeps
  <2> QED
    BY <2>1, <2>2, <2>3, <2>5, <2>6, <2>7, LooseDone
<1>3. CASE lab11_conversion
  <2>1. /\ status = "running" /\ fs # <<>>
        /\ \/ percent_percent
           \/ Convert(TRUE, 10, digit) \/ Convert(FALSE, 2, digit) \/ Convert(FALSE, 10, digit)
           \/ Convert(FALSE, 8, digit) \/ Convert(FALSE, 16, digit) \/ Convert(FALSE, 16, DIGIT)
           \/ percent_s \/ percent_c
    BY <1>3 DEF lab11_conversion, Turn
  <2>2. CASE percent_percent
    BY <2>1, <2>2, LooseOne DEF percent_percent
  <2>3. CASE percent_s \/ percent_c
    BY <2>1, <2>3, LooseArgument
  <2>4. ASSUME NEW signed \in BOOLEAN, NEW radix \in {2, 8, 10, 16}, NEW table \in {digit, DIGIT},
               Convert(signed, radix, table)
        PROVE  PrintfInv'
    BY <2>1, <2>4, LooseConvert
  <2>5. CASE Convert(TRUE, 10, digit)
    BY <2>4, <2>5
  <2>6. CASE Convert(FALSE, 2, digit)
    BY <2>4, <2>6
  <2>7. CASE Convert(FALSE, 10, digit)
    BY <2>4, <2>7
  <2>8. CASE Convert(FALSE, 8, digit)
    BY <2>4, <2>8
  <2>9. CASE Convert(FALSE, 16, digit)
    BY <2>4, <2>9
  <2>10. CASE Convert(FALSE, 16, DIGIT)
    BY <2>4, <2>10
  <2> QED
    BY <2>1, <2>2, <2>3, <2>5, <2>6, <2>7, <2>8, <2>9, <2>10
<1>4. CASE lab11_unhandled
  <2>1. Stops("unhandled")
    BY <1>4 DEF lab11_unhandled
  <2> QED
    BY <2>1, LooseStop
<1> QED
  BY <1>1, <1>2, <1>3, <1>4, LooseArray DEF lab11_toy_printf

(* lab11 in step. *)
LEMMA Strict11 ==
  ASSUME PrintfInv, ~ OutOfStep, lab11_toy_printf
  PROVE  PrintfInv'
<1>1. status = "running" /\ version = "lab11" /\ fs # <<>> /\ Texts
  BY DEF lab11_toy_printf, lab11_literal, lab11_percent, lab11_conversion, lab11_array,
         lab11_unhandled, Turn, PrintfInv
<1>2. /\ state = "init" => \E i \in 0 .. Len(call.items) : At(i)
      /\ state = "percent" => \E j \in 1 .. Len(call.items) : In(j)
  BY <1>1, WhereTurn DEF Signs
<1>3. CASE lab11_literal
  <2>1. state = "init" /\ char # "%" /\ Put(<<char>>, printed + 1) /\ UNCHANGED args /\ Keeps
    BY <1>3 DEF lab11_literal, Turn
  <2> QED
    BY <1>1, <1>2, <2>1, LiteralTurn
<1>4. CASE lab11_percent
  <2>1. /\ state = "init" /\ char = "%" /\ state' = "percent" /\ fs' = Tail(fs)
        /\ UNCHANGED <<version, call, args, out, printed, width, f, strings, status>>
    BY <1>4 DEF lab11_percent, Turn
  <2> QED
    BY <1>1, <1>2, <2>1, PercentTurn
<1>5. CASE lab11_conversion
  <2>1. /\ state = "percent"
        /\ \/ percent_percent
           \/ char = "d" /\ Convert(TRUE, 10, digit)
           \/ char = "b" /\ Convert(FALSE, 2, digit)
           \/ char = "u" /\ Convert(FALSE, 10, digit)
           \/ char = "o" /\ Convert(FALSE, 8, digit)
           \/ char = "x" /\ Convert(FALSE, 16, digit)
           \/ char = "X" /\ Convert(FALSE, 16, DIGIT)
           \/ percent_s
           \/ percent_c
    BY <1>5 DEF lab11_conversion, Turn
  <2>2. PICK j \in 1 .. Len(call.items) : In(j)
    BY <1>2, <2>1
  <2> QED
    BY <1>1, <2>1, <2>2, PercentDone, UnsignedDone, StringDone
<1>6. CASE lab11_array
  <2>1. state = "percent" /\ char = "A"
    BY <1>6 DEF lab11_array, Turn
  <2>2. PICK j \in 1 .. Len(call.items) : In(j)
    BY <1>2, <2>1
  <2>3. ~ Asked(Arrays)
    BY <1>1 DEF OutOfStep
  <2>4. call.items[j].conv \notin Arrays
    BY <1>1, <2>3, CallLength DEF Asked
  <2>5. call.items[j].conv = "broken" /\ fs = <<"A">>
    BY <1>1, <2>1, <2>2, <2>4, InReads
  <2>6. kind = "none"
    <3>1. Len(<<"A">>) = 1
      OBVIOUS
    <3> QED
      BY <2>5, <3>1 DEF kind
  <2>7. Stops("unhandled")
    BY <1>6, <2>6 DEF lab11_array
  <2>8. version' = version /\ call' = call /\ status' = "unhandled"
    BY <2>7 DEF Stops
  <2>9. Asked({"unknown", "broken"})
    BY <1>1, <2>5, CallLength DEF Asked
  <2>10. NamedStops'
    BY <2>8, <2>9, NamedWhy
  <2> QED
    BY <2>7, <2>10, StopKeeps
<1>7. CASE lab11_unhandled
  <2>1. /\ state = "percent" /\ char \notin {"%", "d", "b", "o", "x", "X", "u", "s", "c", "A"}
        /\ Stops("unhandled")
    BY <1>7 DEF lab11_unhandled, Turn
  <2>2. PICK j \in 1 .. Len(call.items) : In(j)
    BY <1>2, <2>1
  <2>3. char \in Layout \/ char \notin Directives
    BY <2>1, CharsAre
  <2>4. call.items[j].conv \in Widths \cup {"unknown", "broken"}
    BY <1>1, <2>2, <2>3, InReads
  <2>5. Asked({"unknown", "broken"}) \/ Asked(Arrays \cup Widths)
    BY <1>1, <2>4, CallLength DEF Asked
  <2>6. version' = version /\ call' = call /\ status' = "unhandled"
    BY <2>1 DEF Stops
  <2>7. NamedStops'
    BY <1>1, <2>5, <2>6, NamedWhy
  <2> QED
    BY <2>1, <2>7, StopKeeps
<1> QED
  BY <1>3, <1>4, <1>5, <1>6, <1>7 DEF lab11_toy_printf

-----------------------------------------------------------------------------
LEMMA PrintfInvariant ==
  Spec => []PrintfInv
<1>1. PrintfInv /\ [Next]_vars => PrintfInv'
  <2> SUFFICES ASSUME PrintfInv, [Next]_vars PROVE PrintfInv'
    OBVIOUS
  <2>1. CASE \E items \in Calls : Call(items)
    BY <2>1, CallInv
  <2>2. CASE lab8_toy_printf
    BY <2>2, Turn8
  <2>3. CASE lab9_toy_printf
    BY <2>3, Turn9
  <2>4. CASE lab11_toy_printf
    BY <2>4, Loose11, Strict11
  <2>5. CASE Return
    BY <2>5, ReturnInv
  <2>6. CASE Resume
    BY <2>6, ResumeInv
  <2>7. CASE UNCHANGED vars
    BY <2>7, StutterInv
  <2> QED
    BY <2>1, <2>2, <2>3, <2>4, <2>5, <2>6, <2>7 DEF Next
<1> QED
  BY InitInv, <1>1, PTL DEF Spec

(* In every call of every version what is left of the arguments are           *)
(* arguments, the count is never negative nor more than the characters        *)
(* printed, f and the width keep their ranges, and each string of the array   *)
(* is the whole of it or empty (toy_printf.c of lab8, lab9 and lab11).         *)
THEOREM PrintfTypeCorrect ==
  Spec => []TypeOK
<1>1. PrintfInv => TypeOK
  BY DEF PrintfInv
<1> QED
  BY <1>1, PrintfInvariant, PTL

(* A call stops only for a reason its items name: toy_printf reads past the   *)
(* end of the format, follows what is no pointer or exits for no other.        *)
THEOREM StopsAreNamed ==
  Spec => []NamedStops
<1>1. PrintfInv => NamedStops
  BY DEF PrintfInv
<1> QED
  BY <1>1, PrintfInvariant, PTL

(* A call whose items are trusted prints what they ask for, one after the     *)
(* other, whatever was called before: for every width of an int and for       *)
(* arguments, arrays and formats of any length.                                *)
THEOREM TextIsAsAsked ==
  Spec => []TextAsAsked
<1>1. PrintfInv => TextAsAsked
  BY DEF PrintfInv
<1> QED
  BY <1>1, PrintfInvariant, PTL

(* lab8 and lab11 return the number of characters printed, of a call of       *)
(* literals and of conversions that are neither arrays nor widths.             *)
THEOREM CountIsWhatIsPrinted ==
  Spec => []CountIsText
<1>1. PrintfInv => CountIsText
  BY DEF PrintfInv
<1> QED
  BY <1>1, PrintfInvariant, PTL
===============================================================================

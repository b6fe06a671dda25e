------------------------------- MODULE ToolsProofs ------------------------------
(* The proofs about the small programs: line_parser.c, wordcounter.c, find    *)
(* (lab4_main.c) and hexeditplus.c.                                            *)
EXTENDS Tools, NaturalLemmas, SequenceTheorems, TLAPS

-----------------------------------------------------------------------------
(* wordcounter.c.                                                            *)

(* The words of a text, and its places that hold a byte.                     *)
WordsIn(t) ==
  {w \in (1 .. Len(t)) \X (1 .. Len(t)) :
      /\ \A i \in w[1] .. w[2] : t[i] = "letter"
      /\ w[1] <= w[2]
      /\ w[1] = 1 \/ t[w[1] - 1] # "letter"
      /\ w[2] = Len(t) \/ t[w[2] + 1] # "letter"}

PlacesOf(t, byte) == {i \in DOMAIN t : t[i] = byte}

LettersIn(t, i, j) == \A k \in i .. j : t[k] = "letter"

LEMMA IsWord ==
  ASSUME NEW S, NEW t \in Seq(S), NEW i, NEW j
  PROVE  <<i, j>> \in WordsIn(t) <=>
           /\ i \in 1 .. Len(t) /\ j \in 1 .. Len(t) /\ i <= j /\ LettersIn(t, i, j)
           /\ i = 1 \/ t[i - 1] # "letter"
           /\ j = Len(t) \/ t[j + 1] # "letter"
BY DEF WordsIn, LettersIn

LEMMA WordPair ==
  ASSUME NEW t, NEW w \in WordsIn(t)
  PROVE  w = <<w[1], w[2]>> /\ w[1] \in 1 .. Len(t) /\ w[2] \in 1 .. Len(t) /\ w[1] <= w[2]
BY DEF WordsIn

LEMMA SamePairs ==
  ASSUME NEW t, NEW B, B \subseteq Nat \X Nat,
         \A i, j : <<i, j>> \in WordsIn(t) <=> <<i, j>> \in B
  PROVE  WordsIn(t) = B
<1>1. \A w \in WordsIn(t) : w \in B
  BY WordPair
<1>2. \A w \in B : w = <<w[1], w[2]>>
  OBVIOUS
<1>3. \A w \in B : w \in WordsIn(t)
  BY <1>2
<1> QED
  BY <1>1, <1>3

LEMMA Appended ==
  ASSUME NEW S, NEW t \in Seq(S), NEW b \in S
  PROVE  /\ Append(t, b) \in Seq(S) /\ Len(t) \in Nat
         /\ Len(Append(t, b)) = Len(t) + 1
         /\ \A i \in 1 .. Len(t) : Append(t, b)[i] = t[i]
         /\ Append(t, b)[Len(t) + 1] = b
BY AppendProperties, LenProperties

(* Another byte ends a word, or none, and begins none.                       *)
LEMMA WordsOther ==
  ASSUME NEW S, NEW t \in Seq(S), NEW b \in S, b # "letter"
  PROVE  WordsIn(Append(t, b)) = WordsIn(t)
<1> DEFINE u == Append(t, b)
           n == Len(t)
<1>1. u \in Seq(S) /\ n \in Nat /\ Len(u) = n + 1 /\ u[n + 1] = b /\ \A i \in 1 .. n : u[i] = t[i]
  BY Appended
<1> HIDE DEF u
<1>2. WordsIn(t) \subseteq Nat \X Nat
  BY <1>1 DEF WordsIn
<1>3. ASSUME NEW i, NEW j, <<i, j>> \in WordsIn(u) PROVE <<i, j>> \in WordsIn(t)
  <2>1. /\ i \in 1 .. n + 1 /\ j \in 1 .. n + 1 /\ i <= j /\ LettersIn(u, i, j)
        /\ i = 1 \/ u[i - 1] # "letter"
        /\ j = n + 1 \/ u[j + 1] # "letter"
    BY <1>1, <1>3, IsWord
  <2>2. u[j] = "letter"
    BY <2>1 DEF LettersIn
  <2>3. j # n + 1
    BY <1>1, <2>2
  <2>4. j \in 1 .. n /\ i \in 1 .. n
    BY <1>1, <2>1, <2>3
  <2>5. LettersIn(t, i, j)
    BY <1>1, <2>1, <2>4 DEF LettersIn
  <2>6. i = 1 \/ t[i - 1] # "letter"
    BY <1>1, <2>1, <2>4
  <2>7. j = n \/ t[j + 1] # "letter"
    BY <1>1, <2>1, <2>4
  <2> QED
    BY <2>1, <2>4, <2>5, <2>6, <2>7, IsWord
<1>4. ASSUME NEW i, NEW j, <<i, j>> \in WordsIn(t) PROVE <<i, j>> \in WordsIn(u)
  <2>1. /\ i \in 1 .. n /\ j \in 1 .. n /\ i <= j /\ LettersIn(t, i, j)
        /\ i = 1 \/ t[i - 1] # "letter"
        /\ j = n \/ t[j + 1] # "letter"
    BY <1>4, IsWord
  <2>2. LettersIn(u, i, j) /\ (i = 1 \/ u[i - 1] # "letter")
    BY <1>1, <2>1 DEF LettersIn
  <2>3. j = n + 1 \/ u[j + 1] # "letter"
    BY <1>1, <2>1
  <2>4. i \in 1 .. n + 1 /\ j \in 1 .. n + 1
    BY <1>1, <2>1
  <2> QED
    BY <1>1, <2>1, <2>2, <2>3, <2>4, IsWord
<1>5. \A i, j : <<i, j>> \in WordsIn(u) <=> <<i, j>> \in WordsIn(t)
  BY <1>3, <1>4
<1> QED
  BY <1>2, <1>5, SamePairs DEF u

(* A letter behind no letter begins a word.                                  *)
LEMMA WordsBegun ==
  ASSUME NEW S, NEW t \in Seq(S), "letter" \in S, t = <<>> \/ t[Len(t)] # "letter"
  PROVE  /\ WordsIn(Append(t, "letter")) = WordsIn(t) \cup {<<Len(t) + 1, Len(t) + 1>>}
         /\ \A w \in WordsIn(t) : w[2] < Len(t)
<1> DEFINE u == Append(t, "letter")
           n == Len(t)
           new == <<n + 1, n + 1>>
<1>1. /\ u \in Seq(S) /\ n \in Nat /\ Len(u) = n + 1 /\ u[n + 1] = "letter"
      /\ \A i \in 1 .. n : u[i] = t[i]
  BY Appended
<1> HIDE DEF u
<1>2. WordsIn(t) \cup {new} \subseteq Nat \X Nat
  BY <1>1 DEF WordsIn
<1>3. ASSUME NEW i, NEW j, <<i, j>> \in WordsIn(t)
      PROVE  <<i, j>> \in WordsIn(u) /\ j < n
  <2>1. /\ i \in 1 .. n /\ j \in 1 .. n /\ i <= j /\ LettersIn(t, i, j)
        /\ i = 1 \/ t[i - 1] # "letter"
        /\ j = n \/ t[j + 1] # "letter"
    BY <1>3, IsWord
  <2>2. t[j] = "letter" /\ t # <<>>
    BY <2>1 DEF LettersIn
  <2>3. j # n
    BY <2>2
  <2>4. LettersIn(u, i, j) /\ (i = 1 \/ u[i - 1] # "letter") /\ u[j + 1] # "letter"
    BY <1>1, <2>1, <2>3 DEF LettersIn
  <2>5. i \in 1 .. n + 1 /\ j \in 1 .. n + 1
    BY <1>1, <2>1
  <2>6. <<i, j>> \in WordsIn(u)
    BY <1>1, <2>1, <2>4, <2>5, IsWord
  <2> QED
    BY <1>1, <2>1, <2>3, <2>6
<1>4. new \in WordsIn(u)
  <2>1. LettersIn(u, n + 1, n + 1)
    BY <1>1 DEF LettersIn
  <2>2. n + 1 = 1 \/ u[n + 1 - 1] # "letter"
    BY <1>1
  <2>3. n + 1 \in 1 .. n + 1 /\ n + 1 <= n + 1
    BY <1>1
  <2> QED
    BY <1>1, <2>1, <2>2, <2>3, IsWord
<1>5. ASSUME NEW i, NEW j, <<i, j>> \in WordsIn(u), <<i, j>> # new
      PROVE  <<i, j>> \in WordsIn(t)
  <2>1. /\ i \in 1 .. n + 1 /\ j \in 1 .. n + 1 /\ i <= j /\ LettersIn(u, i, j)
        /\ i = 1 \/ u[i - 1] # "letter"
        /\ j = n + 1 \/ u[j + 1] # "letter"
    BY <1>1, <1>5, IsWord
  <2>2. ASSUME j = n + 1 PROVE FALSE
    <3>1. i \in 1 .. n /\ n # 0
      BY <1>1, <1>5, <2>1, <2>2
    <3>2. u[n] = "letter" /\ t[n] # "letter" /\ t[n] = u[n]
      BY <1>1, <2>1, <2>2, <3>1 DEF LettersIn
    <3> QED
      BY <3>2
  <2>3. j \in 1 .. n /\ i \in 1 .. n
    BY <1>1, <2>1, <2>2
  <2>4. LettersIn(t, i, j) /\ (i = 1 \/ t[i - 1] # "letter")
    BY <1>1, <2>1, <2>3 DEF LettersIn
  <2>5. j = n \/ t[j + 1] # "letter"
    BY <1>1, <2>1, <2>3
  <2> QED
    BY <2>1, <2>3, <2>4, <2>5, IsWord
<1>6. \A i, j : <<i, j>> \in WordsIn(u) <=> <<i, j>> \in WordsIn(t) \cup {new}
  BY <1>3, <1>4, <1>5
<1>7. WordsIn(u) = WordsIn(t) \cup {new}
  <2> HIDE DEF new
  <2> QED
    BY <1>2, <1>6, SamePairs
<1>8. \A w \in WordsIn(t) : w[2] < n
  BY <1>3, WordPair
<1> QED
  BY <1>7, <1>8 DEF u

(* A letter behind a letter makes the last word longer.                      *)
LEMMA WordsGrown ==
  ASSUME NEW S, NEW t \in Seq(S), "letter" \in S, NEW a, <<a, Len(t)>> \in WordsIn(t)
  PROVE  /\ WordsIn(Append(t, "letter")) =
              (WordsIn(t) \ {<<a, Len(t)>>}) \cup {<<a, Len(t) + 1>>}
         /\ \A w \in WordsIn(t) : w[2] = Len(t) => w = <<a, Len(t)>>
<1> DEFINE u == Append(t, "letter")
           n == Len(t)
           old == <<a, n>>
           new == <<a, n + 1>>
<1>1. /\ u \in Seq(S) /\ n \in Nat /\ Len(u) = n + 1 /\ u[n + 1] = "letter"
      /\ \A i \in 1 .. n : u[i] = t[i]
  BY Appended
<1> HIDE DEF u
<1>2. /\ a \in 1 .. n /\ LettersIn(t, a, n)
      /\ a = 1 \/ t[a - 1] # "letter"
  BY IsWord
<1>3. (WordsIn(t) \ {old}) \cup {new} \subseteq Nat \X Nat
  BY <1>1, <1>2 DEF WordsIn
<1>4. ASSUME NEW i, <<i, n>> \in WordsIn(t)
      PROVE  i = a
  <2>1. /\ i \in 1 .. n /\ LettersIn(t, i, n)
        /\ i = 1 \/ t[i - 1] # "letter"
    BY <1>4, IsWord
  <2>2. ~ (i < a)
    <3> SUFFICES ASSUME i < a PROVE FALSE
      OBVIOUS
    <3>1. a - 1 \in i .. n /\ a # 1
      BY <1>1, <1>2, <2>1
    <3> QED
      BY <1>2, <2>1, <3>1 DEF LettersIn
  <2>3. ~ (a < i)
    <3> SUFFICES ASSUME a < i PROVE FALSE
      OBVIOUS
    <3>1. i - 1 \in a .. n /\ i # 1
      BY <1>1, <1>2, <2>1
    <3> QED
      BY <1>2, <2>1, <3>1 DEF LettersIn
  <2> QED
    BY <1>1, <1>2, <2>1, <2>2, <2>3
<1>5. ASSUME NEW i, NEW j, <<i, j>> \in WordsIn(t), j # n
      PROVE  <<i, j>> \in WordsIn(u)
  <2>1. /\ i \in 1 .. n /\ j \in 1 .. n /\ i <= j /\ LettersIn(t, i, j)
        /\ i = 1 \/ t[i - 1] # "letter"
        /\ t[j + 1] # "letter"
    BY <1>5, IsWord
  <2>2. LettersIn(u, i, j) /\ (i = 1 \/ u[i - 1] # "letter")
    <3>1. \A k \in i .. j : u[k] = t[k]
      BY <1>1, <2>1
    <3>2. LettersIn(u, i, j)
      BY <2>1, <3>1, Zenon DEF LettersIn
    <3>3. i # 1 => u[i - 1] = t[i - 1]
      BY <1>1, <2>1
    <3> QED
      BY <2>1, <3>2, <3>3
  <2>4. u[j + 1] # "letter"
    BY <1>1, <1>5, <2>1
  <2>3. i \in 1 .. n + 1 /\ j \in 1 .. n + 1
    BY <1>1, <2>1
  <2> QED
    BY <1>1, <2>1, <2>2, <2>3, <2>4, IsWord
<1>6. new \in WordsIn(u)
  <2>1. LettersIn(u, a, n + 1)
    BY <1>1, <1>2 DEF LettersIn
  <2>2. a = 1 \/ u[a - 1] # "letter"
    BY <1>1, <1>2
  <2>3. a \in 1 .. n + 1 /\ n + 1 \in 1 .. n + 1 /\ a <= n + 1
    BY <1>1, <1>2
  <2> QED
    BY <1>1, <2>1, <2>2, <2>3, IsWord
<1>7. ASSUME NEW i, NEW j, <<i, j>> \in WordsIn(u), j # n + 1
      PROVE  <<i, j>> \in WordsIn(t) /\ j # n
  <2>1. /\ i \in 1 .. n + 1 /\ j \in 1 .. n + 1 /\ i <= j /\ LettersIn(u, i, j)
        /\ i = 1 \/ u[i - 1] # "letter"
        /\ u[j + 1] # "letter"
    BY <1>1, <1>7, IsWord
  <2>2. j \in 1 .. n /\ i \in 1 .. n /\ j # n
    BY <1>1, <1>7, <2>1
  <2>3. LettersIn(t, i, j) /\ (i = 1 \/ t[i - 1] # "letter") /\ t[j + 1] # "letter"
    BY <1>1, <2>1, <2>2 DEF LettersIn
  <2> QED
    BY <2>1, <2>2, <2>3, IsWord
<1>8. ASSUME NEW i, <<i, n + 1>> \in WordsIn(u)
      PROVE  i = a
  <2>1. /\ i \in 1 .. n + 1 /\ LettersIn(u, i, n + 1)
        /\ i = 1 \/ u[i - 1] # "letter"
    BY <1>1, <1>8, IsWord
  <2>2. t[n] = "letter" /\ n >= 1
    BY <1>1, <1>2 DEF LettersIn
  <2>3. i # n + 1
    BY <1>1, <2>1, <2>2
  <2>4. i \in 1 .. n /\ LettersIn(t, i, n) /\ (i = 1 \/ t[i - 1] # "letter")
    BY <1>1, <2>1, <2>3 DEF LettersIn
  <2>5. n \in 1 .. n /\ i <= n
    BY <1>1, <2>4
  <2>6. <<i, n>> \in WordsIn(t)
    BY <2>4, <2>5, IsWord
  <2> QED
    BY <1>4, <2>6
<1>9. \A i, j : <<i, j>> \in WordsIn(u) <=> <<i, j>> \in (WordsIn(t) \ {old}) \cup {new}
  <2>1. n # n + 1
    BY <1>1
  <2> SUFFICES ASSUME NEW i, NEW j
               PROVE  <<i, j>> \in WordsIn(u) <=>
                        (<<i, j>> \in WordsIn(t) /\ ~ (i = a /\ j = n)) \/ (i = a /\ j = n + 1)
    OBVIOUS
  <2>2. CASE j = n + 1
    <3>1. <<i, j>> \notin WordsIn(t)
      BY <1>1, <2>2, WordPair
    <3> QED
      BY <1>6, <1>8, <2>1, <2>2, <3>1
  <2>3. CASE j = n
    BY <1>4, <1>7, <2>1, <2>3
  <2>4. CASE j # n /\ j # n + 1
    BY <1>5, <1>7, <2>4
  <2> QED
    BY <2>2, <2>3, <2>4
<1>10. WordsIn(u) = (WordsIn(t) \ {old}) \cup {new}
  <2> DEFINE B == (WordsIn(t) \ {old}) \cup {new}
  <2>1. B \subseteq Nat \X Nat /\ \A i, j : <<i, j>> \in WordsIn(u) <=> <<i, j>> \in B
    BY <1>3, <1>9
  <2> HIDE DEF B
  <2>2. WordsIn(u) = B
    BY <2>1, SamePairs
  <2> QED
    BY <2>2 DEF B
<1>11. \A w \in WordsIn(t) : w[2] = n => w = <<a, n>>
  BY <1>4, WordPair
<1> QED
  BY <1>10, <1>11 DEF u

LEMMA WordCount ==
  ASSUME NEW S, NEW t \in Seq(S)
  PROVE  IsFiniteSet(WordsIn(t)) /\ Cardinality(WordsIn(t)) \in Nat
<1>1. Len(t) \in Nat
  BY LenProperties
<1>2. IsFiniteSet(1 .. Len(t))
  BY <1>1, FS_Interval
<1>3. IsFiniteSet((1 .. Len(t)) \X (1 .. Len(t)))
  BY <1>2, FS_Product
<1>4. WordsIn(t) \subseteq (1 .. Len(t)) \X (1 .. Len(t))
  BY DEF WordsIn
<1>5. IsFiniteSet(WordsIn(t))
  BY <1>3, <1>4, FS_Subset
<1> QED
  BY <1>5, FS_CardinalityType

(* The places of a byte, once another one has been read.                     *)
LEMMA PlaceCount ==
  ASSUME NEW S, NEW t \in Seq(S), NEW b \in S, NEW c
  PROVE  /\ Cardinality(PlacesOf(t, c)) \in Nat
         /\ Cardinality(PlacesOf(Append(t, b), c)) =
              IF b = c THEN Cardinality(PlacesOf(t, c)) + 1 ELSE Cardinality(PlacesOf(t, c))
<1> DEFINE u == Append(t, b)
           n == Len(t)
<1>1. /\ n \in Nat /\ Len(u) = n + 1 /\ u[n + 1] = b /\ \A i \in 1 .. n : u[i] = t[i]
      /\ DOMAIN t = 1 .. n /\ DOMAIN u = 1 .. n + 1
  <2>1. u \in Seq(S)
    BY Appended
  <2> QED
    BY <2>1, Appended, LenProperties
<1> HIDE DEF u
<1>2. IsFiniteSet(PlacesOf(t, c)) /\ Cardinality(PlacesOf(t, c)) \in Nat
  <2>1. PlacesOf(t, c) \subseteq 1 .. n
    BY <1>1 DEF PlacesOf
  <2>2. IsFiniteSet(1 .. n)
    BY <1>1, FS_Interval
  <2>3. IsFiniteSet(PlacesOf(t, c))
    BY <2>1, <2>2, FS_Subset
  <2> QED
    BY <2>3, FS_CardinalityType
<1>3. CASE b = c
  <2>1. PlacesOf(u, c) = PlacesOf(t, c) \cup {n + 1} /\ n + 1 \notin PlacesOf(t, c)
    BY <1>1, <1>3 DEF PlacesOf
  <2> QED
    BY <1>2, <1>3, <2>1, FS_AddElement DEF u
<1>4. CASE b # c
  <2>1. PlacesOf(u, c) = PlacesOf(t, c)
    BY <1>1, <1>4 DEF PlacesOf
  <2> QED
    BY <1>2, <1>4, <2>1 DEF u
<1> QED
  BY <1>3, <1>4

------------------------------------------------------------------------------
(* The counters as the input is read.                                        *)

Spelled(w) == w[2] - w[1] + 1

Over == wc_pc \in {"reporting", "done"}

CounterTypes ==
  /\ text \in Seq(InputBytes)
  /\ {wordcounter, charcounter, wordlencounter, largestword, linecounter} \subseteq Nat
  /\ CounterTypeOK

(* The word that is being read, if one is.                                   *)
WordOpen ==
  IF foundLetter = 0
  THEN /\ ~ Over /\ wordlencounter >= 1
       /\ <<Len(text) - wordlencounter + 1, Len(text)>> \in WordsIn(text)
  ELSE wordlencounter = 0 /\ (Over \/ text = <<>> \/ text[Len(text)] # "letter")

(* The longest of the words that have ended.                                 *)
Longest ==
  /\ largestword = 0 \/ \E w \in WordsIn(text) :
                           Spelled(w) = largestword /\ (Over \/ w[2] < Len(text))
  /\ \A w \in WordsIn(text) :
        Spelled(w) <= largestword \/ (foundLetter = 0 /\ w[2] = Len(text))

Tally ==
  /\ wordcounter = Cardinality(WordsIn(text))
  /\ charcounter = Cardinality(PlacesOf(text, "letter"))
  /\ linecounter = 1 + Cardinality(PlacesOf(text, "newline"))

CounterInv == CounterTypes /\ WordOpen /\ Longest /\ Tally /\ CountsAsRead

LEMMA CounterInit == WordCounterInit => CounterInv
<1> SUFFICES ASSUME WordCounterInit PROVE CounterInv
  OBVIOUS
<1>1. /\ wc_pc = "start" /\ text = <<>> /\ foundLetter = 1 /\ wordcounter = 0 /\ charcounter = 0
      /\ wordlencounter = 0 /\ largestword = 0 /\ linecounter = 1
  BY DEF WordCounterInit
<1>2. text \in Seq(InputBytes) /\ Len(text) = 0 /\ DOMAIN text = {}
  BY <1>1
<1>3. WordsIn(text) = {} /\ PlacesOf(text, "letter") = {} /\ PlacesOf(text, "newline") = {}
  BY <1>2 DEF WordsIn, PlacesOf
<1>4. CounterTypes
  BY <1>1, <1>2 DEF CounterTypes, CounterTypeOK
<1>5. Tally
  <2>1. Cardinality({}) = 0
    BY FS_EmptySet
  <2>2. /\ Cardinality(WordsIn(text)) = 0 /\ Cardinality(PlacesOf(text, "letter")) = 0
        /\ Cardinality(PlacesOf(text, "newline")) = 0
    BY <1>3, <2>1, Zenon
  <2> QED
    BY <1>1, <2>2 DEF Tally
<1>6. WordOpen /\ Longest /\ CountsAsRead
  BY <1>1, <1>3 DEF WordOpen, Longest, CountsAsRead
<1> QED
  BY <1>4, <1>5, <1>6 DEF CounterInv

LEMMA CounterStutter ==
  ASSUME CounterInv, UNCHANGED counterVars
  PROVE  CounterInv'
<1>1. CounterTypes'
  BY DEF CounterInv, CounterTypes, CounterTypeOK, counterVars
<1>2. WordOpen' /\ Longest' /\ Tally'
  BY DEF CounterInv, WordOpen, Longest, Tally, Over, counterVars
<1>3. CountsAsRead'
  <2>1. CountsAsRead /\ UNCHANGED <<wc_pc, argv, text, printed>>
    BY DEF CounterInv, counterVars
  <2> QED
    BY <2>1 DEF CountsAsRead, Counted, Words
<1> QED
  BY <1>1, <1>2, <1>3 DEF CounterInv

LEMMA OpenInputStep ==
  ASSUME CounterInv, open_input
  PROVE  CounterInv'
<1>1. /\ wc_pc = "start" /\ wc_pc' \in {"crashed", "reading"}
      /\ UNCHANGED <<text, foundLetter, wordcounter, charcounter, wordlencounter, largestword,
                     linecounter>>
  BY DEF open_input
<1>2. CounterTypes'
  BY <1>1 DEF CounterInv, CounterTypes, CounterTypeOK
<1>3. WordOpen' /\ Longest' /\ Tally'
  BY <1>1 DEF CounterInv, WordOpen, Longest, Tally, Over
<1>4. CountsAsRead'
  BY <1>1 DEF CountsAsRead
<1> QED
  BY <1>2, <1>3, <1>4 DEF CounterInv

(* A letter: it begins a word, or makes the last one longer.                 *)
LEMMA LetterStep ==
  ASSUME CounterInv, wc_pc = "reading", wc_pc' = "reading", count_letter,
         Len(text) < MaxText, text' = Append(text, "letter")
  PROVE  CounterInv'
<1> DEFINE n == Len(text)
<1>1. /\ text \in Seq(InputBytes) /\ "letter" \in InputBytes /\ n \in Nat
      /\ wordcounter \in Nat /\ charcounter \in Nat /\ wordlencounter \in Nat
      /\ largestword \in Nat /\ linecounter \in Nat /\ foundLetter \in {0, 1}
      /\ wordlencounter <= charcounter /\ largestword <= charcounter /\ wordcounter <= charcounter
      /\ charcounter + linecounter <= n + 1
  BY DEF CounterInv, CounterTypes, CounterTypeOK, InputBytes
<1>2. /\ wordcounter' = IF foundLetter = 1 THEN wordcounter + 1 ELSE wordcounter
      /\ foundLetter' = 0 /\ charcounter' = charcounter + 1
      /\ wordlencounter' = wordlencounter + 1
      /\ largestword' = largestword /\ linecounter' = linecounter
  BY DEF count_letter
<1>3. text' \in Seq(InputBytes) /\ Len(text') = n + 1
  BY <1>1, Appended
<1>4. CounterTypes'
  BY <1>1, <1>2, <1>3 DEF CounterTypes, CounterTypeOK
<1>5. /\ charcounter' = Cardinality(PlacesOf(text', "letter"))
      /\ linecounter' = 1 + Cardinality(PlacesOf(text', "newline"))
  <2>1. \A c : /\ Cardinality(PlacesOf(text, c)) \in Nat
               /\ Cardinality(PlacesOf(text', c)) =
                    IF "letter" = c THEN Cardinality(PlacesOf(text, c)) + 1
                    ELSE Cardinality(PlacesOf(text, c))
    BY <1>1, PlaceCount
  <2>2. charcounter = Cardinality(PlacesOf(text, "letter")) /\ linecounter = 1 + Cardinality(PlacesOf(text, "newline"))
    BY DEF CounterInv, Tally
  <2> QED
    BY <1>2, <2>1, <2>2
<1>6. IsFiniteSet(WordsIn(text)) /\ Cardinality(WordsIn(text)) = wordcounter
  BY <1>1, WordCount DEF CounterInv, Tally
<1>7. CASE foundLetter = 1
  <2> DEFINE new == <<n + 1, n + 1>>
  <2>1. text = <<>> \/ text[n] # "letter"
    BY <1>7 DEF CounterInv, WordOpen, Over
  <2>2. WordsIn(text') = WordsIn(text) \cup {new} /\ \A w \in WordsIn(text) : w[2] < n
    BY <1>1, <2>1, WordsBegun
  <2>3. new \notin WordsIn(text)
    BY <1>1, WordPair
  <2>4. wordcounter' = Cardinality(WordsIn(text'))
    BY <1>2, <1>6, <1>7, <2>2, <2>3, FS_AddElement
  <2>5. WordOpen'
    <3>1. wordlencounter = 0
      BY <1>7 DEF CounterInv, WordOpen
    <3>2. <<Len(text') - wordlencounter' + 1, Len(text')>> = new
      BY <1>1, <1>2, <1>3, <3>1
    <3> QED
      BY <1>2, <2>2, <3>1, <3>2 DEF WordOpen, Over
  <2>6. Longest'
    <3>1. \A w \in WordsIn(text') : Spelled(w) <= largestword' \/ w[2] = Len(text')
      BY <1>2, <1>3, <1>7, <2>2 DEF CounterInv, Longest
    <3>2. largestword = 0 \/ \E w \in WordsIn(text) : Spelled(w) = largestword /\ w[2] < n
      BY DEF CounterInv, Longest, Over
    <3>3. \A w \in WordsIn(text) : w \in WordsIn(text') /\ w[2] < Len(text')
      BY <1>1, <1>3, <2>2, WordPair
    <3> QED
      BY <1>2, <3>1, <3>2, <3>3 DEF Longest, Over
  <2> QED
    BY <1>4, <1>5, <2>4, <2>5, <2>6 DEF CounterInv, Tally, CountsAsRead
<1>8. CASE foundLetter = 0
  <2> DEFINE a == n - wordlencounter + 1
             old == <<a, n>>
             new == <<a, n + 1>>
  <2>1. old \in WordsIn(text) /\ wordlencounter >= 1
    BY <1>8 DEF CounterInv, WordOpen
  <2>2. /\ WordsIn(text') = (WordsIn(text) \ {old}) \cup {new}
        /\ \A w \in WordsIn(text) : w[2] = n => w = old
    BY <1>1, <2>1, WordsGrown
  <2>3. wordcounter' = Cardinality(WordsIn(text'))
    <3>1. new \notin WordsIn(text) \ {old}
      BY <1>1, WordPair
    <3>2. /\ IsFiniteSet(WordsIn(text) \ {old})
          /\ Cardinality(WordsIn(text) \ {old}) = wordcounter - 1
      BY <1>6, <2>1, FS_RemoveElement
    <3>3. Cardinality((WordsIn(text) \ {old}) \cup {new}) = wordcounter - 1 + 1
      BY <3>1, <3>2, FS_AddElement
    <3>4. wordcounter' = wordcounter /\ wordcounter - 1 + 1 = wordcounter
      BY <1>1, <1>2, <1>8
    <3> QED
      BY <2>2, <3>3, <3>4, Zenon
  <2>4. WordOpen'
    <3>1. <<Len(text') - wordlencounter' + 1, Len(text')>> = new
      BY <1>1, <1>2, <1>3
    <3> QED
      BY <1>1, <1>2, <2>2, <3>1 DEF WordOpen, Over
  <2>5. Longest'
    <3>1. \A w \in WordsIn(text') : Spelled(w) <= largestword' \/ w[2] = Len(text')
      <4> SUFFICES ASSUME NEW w \in WordsIn(text'), w # new PROVE Spelled(w) <= largestword'
        BY <1>3
      <4>1. w \in WordsIn(text) /\ w # old
        BY <2>2
      <4>2. w[2] # n
        BY <2>2, <4>1
      <4> QED
        BY <1>2, <4>1, <4>2 DEF CounterInv, Longest
    <3>2. largestword = 0 \/ \E w \in WordsIn(text) : Spelled(w) = largestword /\ w[2] < n
      BY DEF CounterInv, Longest, Over
    <3>3. \A w \in WordsIn(text) : w[2] < n => w \in WordsIn(text') /\ w[2] < Len(text')
      <4> SUFFICES ASSUME NEW w \in WordsIn(text), w[2] < n
                   PROVE  w \in WordsIn(text') /\ w[2] < Len(text')
        OBVIOUS
      <4>1. w # old /\ w[2] \in Nat
        BY <1>1, WordPair
      <4> QED
        BY <1>1, <1>3, <2>2, <4>1
    <3> QED
      BY <1>2, <3>1, <3>2, <3>3 DEF Longest, Over
  <2> QED
    BY <1>4, <1>5, <2>3, <2>4, <2>5 DEF CounterInv, Tally, CountsAsRead
<1> QED
  BY <1>1, <1>7, <1>8

(* The word that ends, with its letters counted.                             *)
LEMMA LastWord ==
  ASSUME CounterInv, foundLetter = 0
  PROVE  \E old \in WordsIn(text) :
            /\ Spelled(old) = wordlencounter /\ old[2] = Len(text)
            /\ \A w \in WordsIn(text) : w[2] = Len(text) => w = old
<1> DEFINE n == Len(text)
           old == <<n - wordlencounter + 1, n>>
<1>1. /\ text \in Seq(InputBytes) /\ "letter" \in InputBytes /\ n \in Nat
      /\ wordlencounter \in Nat
  BY DEF CounterInv, CounterTypes, InputBytes
<1>2. old \in WordsIn(text)
  BY DEF CounterInv, WordOpen
<1>3. \A w \in WordsIn(text) : w[2] = n => w = old
  BY <1>1, <1>2, WordsGrown
<1>4. Spelled(old) = wordlencounter /\ old[2] = n
  BY <1>1 DEF Spelled
<1> QED
  BY <1>2, <1>3, <1>4

(* A byte that is no letter, or the end of the input: the word that was read  *)
(* has ended.                                                                *)
LEMMA EndStep ==
  ASSUME CounterInv, wc_pc = "reading", NEW byte \in InputBytes \cup {"eof"}, byte # "letter",
         byte = "eof" => UNCHANGED text,
         byte # "eof" => Len(text) < MaxText /\ text' = Append(text, byte),
         end_word(byte),
         wc_pc' = IF byte \in {"eof", "byte255"} THEN "reporting" ELSE "reading"
  PROVE  CounterInv'
<1> DEFINE n == Len(text)
<1>1. /\ text \in Seq(InputBytes) /\ n \in Nat
      /\ wordcounter \in Nat /\ charcounter \in Nat /\ wordlencounter \in Nat
      /\ largestword \in Nat /\ linecounter \in Nat /\ foundLetter \in {0, 1}
      /\ wordlencounter <= charcounter /\ largestword <= charcounter /\ wordcounter <= charcounter
      /\ charcounter + linecounter <= n + 1
  BY DEF CounterInv, CounterTypes, CounterTypeOK
<1>2. /\ foundLetter' = 1 /\ wordlencounter' = 0
      /\ largestword' = IF wordlencounter > largestword THEN wordlencounter ELSE largestword
      /\ linecounter' = IF byte = "newline" THEN linecounter + 1 ELSE linecounter
      /\ UNCHANGED <<wordcounter, charcounter>>
  BY DEF end_word
<1>3. /\ text' \in Seq(InputBytes) /\ Len(text') = IF byte = "eof" THEN n ELSE n + 1
      /\ byte # "eof" => text'[n + 1] = byte
      /\ WordsIn(text') = WordsIn(text)
      /\ Cardinality(PlacesOf(text', "letter")) = Cardinality(PlacesOf(text, "letter"))
      /\ Cardinality(PlacesOf(text', "newline")) =
            IF byte = "newline" THEN Cardinality(PlacesOf(text, "newline")) + 1
            ELSE Cardinality(PlacesOf(text, "newline"))
  <2>1. CASE byte = "eof"
    <3>1. text' = text
      BY <2>1
    <3> QED
      BY <1>1, <2>1, <3>1
  <2>2. CASE byte # "eof"
    <3>1. byte \in InputBytes /\ text' = Append(text, byte)
      BY <2>2
    <3>2. text' \in Seq(InputBytes) /\ Len(text') = n + 1 /\ text'[n + 1] = byte
      BY <1>1, <3>1, Appended
    <3>3. WordsIn(text') = WordsIn(text)
      BY <1>1, <3>1, WordsOther
    <3>4. \A c : Cardinality(PlacesOf(text', c)) =
                    IF byte = c THEN Cardinality(PlacesOf(text, c)) + 1
                    ELSE Cardinality(PlacesOf(text, c))
      BY <1>1, <3>1, PlaceCount
    <3> QED
      BY <2>2, <3>2, <3>3, <3>4
  <2> QED
    BY <2>1, <2>2
<1>4. CounterTypes'
  <2>1. largestword' \in Nat /\ linecounter' \in Nat /\ largestword' <= charcounter
    BY <1>1, <1>2
  <2>2. charcounter + linecounter' <= Len(text') + 1
    BY <1>1, <1>2, <1>3
  <2> QED
    BY <1>1, <1>2, <1>3, <2>1, <2>2 DEF CounterTypes, CounterTypeOK
<1>5. Tally'
  <2>1. Cardinality(PlacesOf(text, "newline")) \in Nat
    BY <1>1, <1>2, PlaceCount DEF InputBytes
  <2>2. /\ wordcounter = Cardinality(WordsIn(text))
        /\ charcounter = Cardinality(PlacesOf(text, "letter"))
        /\ linecounter = 1 + Cardinality(PlacesOf(text, "newline"))
    BY DEF CounterInv, Tally
  <2>3. wordcounter' = Cardinality(WordsIn(text'))
    BY <1>2, <1>3, <2>2
  <2>4. charcounter' = Cardinality(PlacesOf(text', "letter"))
    BY <1>2, <1>3, <2>2
  <2>5. linecounter' = 1 + Cardinality(PlacesOf(text', "newline"))
    BY <1>2, <1>3, <2>1, <2>2
  <2> QED
    BY <2>3, <2>4, <2>5 DEF Tally
<1>6. WordOpen'
  <2>1. CASE byte \in {"eof", "byte255"}
    BY <1>2, <2>1 DEF WordOpen, Over
  <2>2. CASE byte \notin {"eof", "byte255"}
    <3>1. text'[Len(text')] # "letter"
      BY <1>3, <2>2
    <3> QED
      BY <1>2, <3>1 DEF WordOpen
  <2> QED
    BY <2>1, <2>2
<1>7. Longest'
  <2>1. Len(text') \in Nat /\ n <= Len(text') /\ (byte = "eof" \/ n < Len(text'))
    BY <1>1, <1>3
  <2>2. Over' \/ n < Len(text')
    BY <2>1 DEF Over
  <2>3. \A w \in WordsIn(text) : w[2] \in Nat /\ w[2] <= n /\ Spelled(w) \in Nat
    BY <1>1, WordPair DEF Spelled
  <2>4. \A w \in WordsIn(text) : Over' \/ w[2] < Len(text')
    BY <1>1, <2>1, <2>2, <2>3
  <2>5. CASE foundLetter = 0
    <3>1. PICK old \in WordsIn(text) :
             /\ Spelled(old) = wordlencounter /\ old[2] = n
             /\ \A w \in WordsIn(text) : w[2] = n => w = old
      BY <2>5, LastWord
    <3>2. \A w \in WordsIn(text) : Spelled(w) <= largestword'
      BY <1>1, <1>2, <2>3, <3>1 DEF CounterInv, Longest
    <3>3. largestword' = 0 \/ \E w \in WordsIn(text) : Spelled(w) = largestword'
      BY <1>2, <3>1 DEF CounterInv, Longest
    <3> QED
      BY <1>3, <2>4, <3>2, <3>3 DEF Longest
  <2>6. CASE foundLetter = 1
    <3>1. largestword' = largestword
      BY <1>1, <1>2, <2>6 DEF CounterInv, WordOpen
    <3> QED
      BY <1>2, <1>3, <2>4, <2>6, <3>1 DEF CounterInv, Longest
  <2> QED
    BY <1>1, <2>5, <2>6
<1>8. CountsAsRead'
  BY DEF CountsAsRead
<1> QED
  BY <1>4, <1>5, <1>6, <1>7, <1>8 DEF CounterInv

LEMMA ReadByteStep ==
  ASSUME CounterInv, read_byte
  PROVE  CounterInv'
<1>1. PICK byte \in InputBytes \cup {"eof"} :
           /\ IF byte = "eof" THEN UNCHANGED text
              ELSE Len(text) < MaxText /\ text' = Append(text, byte)
           /\ IF byte = "letter" THEN count_letter ELSE end_word(byte)
           /\ wc_pc' = IF byte \in {"eof", "byte255"} THEN "reporting" ELSE "reading"
  BY DEF read_byte
<1>2. wc_pc = "reading"
  BY DEF read_byte
<1>3. CASE byte = "letter"
  BY <1>1, <1>2, <1>3, LetterStep
<1>4. CASE byte # "letter"
  BY <1>1, <1>2, <1>4, EndStep
<1> QED
  BY <1>3, <1>4

(* Once the input is over the counters are what the options ask for.         *)
LEMMA CountersAsAsked ==
  ASSUME CounterInv, wc_pc = "reporting"
  PROVE  /\ Counted("-l") = largestword /\ Counted("-c") = charcounter
         /\ Counted("-n") = linecounter
         /\ \A option : option \notin {"-l", "-c", "-n"} => Counted(option) = wordcounter
<1>1. Words = WordsIn(text)
  BY DEF Words, WordsIn
<1>2. Tally /\ Longest /\ WordOpen /\ largestword \in Nat /\ text \in Seq(InputBytes)
  BY DEF CounterInv, CounterTypes
<1>3. Counted("-c") = charcounter /\ Counted("-n") = linecounter
  BY <1>2 DEF Counted, Tally, PlacesOf
<1>4. ASSUME NEW option, option \notin {"-l", "-c", "-n"} PROVE Counted(option) = wordcounter
  BY <1>1, <1>2, <1>4 DEF Counted, Tally
<1>5. Counted("-l") = largestword
  <2> DEFINE M == {0} \cup {w[2] - w[1] + 1 : w \in WordsIn(text)}
  <2>1. foundLetter # 0
    BY <1>2 DEF WordOpen, Over
  <2>2. \A w \in WordsIn(text) : Spelled(w) <= largestword /\ Spelled(w) \in Nat
    <3>1. \A w \in WordsIn(text) : Spelled(w) <= largestword
      BY <1>2, <2>1 DEF Longest
    <3>2. \A w \in WordsIn(text) : Spelled(w) \in Nat
      BY <1>2, WordPair, LenProperties DEF Spelled
    <3> QED
      BY <3>1, <3>2
  <2>3. largestword \in M
    BY <1>2 DEF Longest, Spelled
  <2>4. M \subseteq Nat /\ M # {} /\ \A m \in M : m <= largestword
    BY <1>2, <2>2 DEF Spelled
  <2>5. Counted("-l") = Max(M)
    BY <1>1 DEF Counted
  <2> HIDE DEF M
  <2>6. Max(M) \in M /\ \A m \in M : Max(M) >= m
    BY <1>2, <2>4, MaxIsLargest
  <2>7. Max(M) \in Nat /\ Max(M) <= largestword
    BY <2>4, <2>6
  <2>8. Max(M) >= largestword
    BY <2>3, <2>6
  <2>9. Max(M) = largestword
    BY <1>2, <2>7, <2>8
  <2> QED
    BY <2>5, <2>9
<1> QED
  BY <1>3, <1>4, <1>5

LEMMA ReportStep ==
  ASSUME CounterInv, report
  PROVE  CounterInv'
<1> DEFINE value(option) == CASE option = "-l" -> largestword
                              [] option = "-c" -> charcounter
                              [] option = "-n" -> linecounter
                              [] OTHER -> wordcounter
<1>1. /\ wc_pc = "reporting" /\ wc_pc' = "done"
      /\ printed' = IF options_of(argv) = <<>> THEN <<wordcounter>>
                    ELSE [i \in DOMAIN options_of(argv) |-> value(options_of(argv)[i])]
      /\ UNCHANGED <<argv, text, foundLetter, wordcounter, charcounter, wordlencounter, largestword,
                     linecounter>>
  BY DEF report
<1>2. \A option : Counted(option) = value(option)
  BY <1>1, CountersAsAsked
<1>3. Counted("-w") = wordcounter
  BY <1>1, CountersAsAsked
<1>4. \A option : Counted(option)' = Counted(option)
  BY <1>1 DEF Counted, Words
<1>5. CountsAsRead'
  <2>1. printed' = IF options_of(argv) = <<>> THEN <<Counted("-w")>>
                   ELSE [i \in DOMAIN options_of(argv) |-> Counted(options_of(argv)[i])]
    BY <1>1, <1>2, <1>3
  <2> QED
    BY <1>1, <1>4, <2>1 DEF CountsAsRead
<1>6. CounterTypes'
  BY <1>1 DEF CounterInv, CounterTypes, CounterTypeOK
<1>7. WordOpen' /\ Longest' /\ Tally'
  BY <1>1 DEF CounterInv, WordOpen, Longest, Tally, Over
<1> QED
  BY <1>5, <1>6, <1>7 DEF CounterInv

LEMMA CounterStep ==
  ASSUME CounterInv, WordCounterNext
  PROVE  CounterInv'
BY OpenInputStep, ReadByteStep, ReportStep DEF WordCounterNext

-----------------------------------------------------------------------------
(* find.                                                                     *)

Frames(t) == [dir : DOMAIN t.dirs, pos : Nat, output : {0, 1}]

(* The calls of rec: each of the directory that the entry its caller has just *)
(* passed leads to.                                                            *)
Stack(t, f) ==
  /\ f \in Seq(Frames(t)) /\ f # <<>> /\ f[1].dir = 1
  /\ \A n \in DOMAIN f : f[n].pos >= 1 /\ f[n].pos <= Len(t.dirs[f[n].dir]) + 1
  /\ \A m, n \in DOMAIN f : m < n => f[m].dir < f[n].dir
  /\ \A n \in DOMAIN f : n + 1 \in DOMAIN f =>
        f[n].pos > 1 /\ Leads(t, <<f[n].dir, f[n].pos - 1>>) = f[n + 1].dir

(* The entries passed: those before the place of each call, and of the other  *)
(* directories all when the entry of the directory is passed, none else.       *)
Beside(f, d) == \A n \in DOMAIN f : f[n].dir # d
Passed(t, f, P) ==
  /\ P \subseteq Places(t)
  /\ \A n \in DOMAIN f : \A p \in DOMAIN t.dirs[f[n].dir] : <<f[n].dir, p>> \in P <=> p < f[n].pos
  /\ \A e \in Places(t) : Leads(t, e) # 0 /\ Beside(f, Leads(t, e)) =>
        \A p \in DOMAIN t.dirs[Leads(t, e)] : <<Leads(t, e), p>> \in P <=> e \in P

(* The moves of the walk. *)
Moved(f, o) == [f EXCEPT ![Len(f)].pos = @ + 1, ![Len(f)].output = o]
Entered(f, d) == Append(f, [dir |-> d, pos |-> 1, output |-> 0])
At(f) == <<Last(f).dir, Last(f).pos>>
Left(f) == [Front(f) EXCEPT ![Len(f) - 1].output = Last(f).output]

LEMMA TreeShape ==
  ASSUME NEW t, IsTree(t)
  PROVE  /\ Len(t.dirs) \in Nat /\ DOMAIN t.dirs = 1 .. Len(t.dirs) /\ 1 \in DOMAIN t.dirs
         /\ \A d \in DOMAIN t.dirs : Len(t.dirs[d]) \in Nat /\ DOMAIN t.dirs[d] = 1 .. Len(t.dirs[d])
         /\ \A d \in DOMAIN t.dirs : \A p \in DOMAIN t.dirs[d] : t.dirs[d][p].dir \in 0 .. Len(t.dirs)
<1> DEFINE S == [name : Names(t), dir : 0 .. Len(t.dirs)]
<1>1. t.dirs \in Seq(Seq(S)) /\ t.dirs # <<>>
  BY DEF IsTree
<1>2. Len(t.dirs) \in Nat /\ DOMAIN t.dirs = 1 .. Len(t.dirs)
  BY <1>1
<1>3. 1 \in DOMAIN t.dirs
  BY <1>1, <1>2
<1>4. \A d \in DOMAIN t.dirs : t.dirs[d] \in Seq(S)
  BY <1>1
<1> HIDE DEF S
<1>5. ASSUME NEW d \in DOMAIN t.dirs, NEW p \in DOMAIN t.dirs[d]
      PROVE  t.dirs[d][p] \in S
  <2>1. t.dirs[d] \in Seq(S)
    BY <1>4
  <2> QED
    BY <2>1
<1>6. \A d \in DOMAIN t.dirs : Len(t.dirs[d]) \in Nat /\ DOMAIN t.dirs[d] = 1 .. Len(t.dirs[d])
  BY <1>4
<1> QED
  BY <1>2, <1>3, <1>5, <1>6 DEF S

LEMMA PlaceIs ==
  ASSUME NEW t, IsTree(t)
  PROVE  /\ \A d, p : <<d, p>> \in Places(t) <=> d \in DOMAIN t.dirs /\ p \in DOMAIN t.dirs[d]
         /\ \A e \in Places(t) : /\ e = <<e[1], e[2]>> /\ e \in Nat \X Nat
                                 /\ e[1] \in DOMAIN t.dirs /\ e[2] \in DOMAIN t.dirs[e[1]]
<1>1. \A d, p : <<d, p>> \in Places(t) <=> d \in DOMAIN t.dirs /\ p \in DOMAIN t.dirs[d]
  BY DEF Places
<1>2. ASSUME NEW e \in Places(t)
      PROVE  e = <<e[1], e[2]>> /\ e[1] \in DOMAIN t.dirs /\ e[2] \in DOMAIN t.dirs[e[1]]
  <2>1. PICK d \in DOMAIN t.dirs : e \in {d} \X DOMAIN t.dirs[d]
    BY Zenon DEF Places
  <2> QED
    BY <2>1
<1>3. \A e \in Places(t) : e[1] \in Nat /\ e[2] \in Nat
  BY <1>2, TreeShape
<1> QED
  BY <1>1, <1>2, <1>3

(* Every directory but the root is led to by one entry, of one before it.     *)
LEMMA LeadsOn ==
  ASSUME NEW t, IsTree(t)
  PROVE  /\ \A e \in Places(t) : Leads(t, e) \in 0 .. Len(t.dirs)
         /\ \A e \in Places(t) : Leads(t, e) # 0 => e[1] < Leads(t, e) /\ Leads(t, e) \in DOMAIN t.dirs
         /\ \A e, g \in Places(t) : Leads(t, e) # 0 /\ Leads(t, e) = Leads(t, g) => e = g
         /\ \A d \in DOMAIN t.dirs : d # 1 => \E e \in Places(t) : Leads(t, e) = d
<1>1. \A e \in Places(t) : Leads(t, e) \in 0 .. Len(t.dirs)
  BY TreeShape, PlaceIs DEF Leads
<1>2. \A e \in Places(t) : Leads(t, e) # 0 => e[1] < Leads(t, e) /\ Leads(t, e) \in DOMAIN t.dirs
  BY <1>1, TreeShape DEF IsTree
<1>3. \A d \in DOMAIN t.dirs \ {1} : \E e \in Places(t) : {f \in Places(t) : Leads(t, f) = d} = {e}
  BY DEF IsTree
<1>4. ASSUME NEW e \in Places(t), NEW g \in Places(t), Leads(t, e) # 0, Leads(t, e) = Leads(t, g)
      PROVE  e = g
  <2>1. Leads(t, e) \in DOMAIN t.dirs \ {1}
    BY <1>2, <1>4, PlaceIs, TreeShape
  <2>2. PICK h \in Places(t) : {f \in Places(t) : Leads(t, f) = Leads(t, e)} = {h}
    BY <1>3, <2>1
  <2> QED
    BY <1>4, <2>2
<1>5. \A d \in DOMAIN t.dirs : d # 1 => \E e \in Places(t) : Leads(t, e) = d
  BY <1>3
<1> QED
  BY <1>1, <1>2, <1>4, <1>5

LEMMA TopIs ==
  ASSUME NEW t, IsTree(t), NEW f, Stack(t, f)
  PROVE  /\ Len(f) \in Nat /\ Len(f) >= 1 /\ DOMAIN f = 1 .. Len(f) /\ Last(f) = f[Len(f)]
         /\ \A n \in DOMAIN f : /\ f[n].dir \in DOMAIN t.dirs /\ f[n].dir \in Nat
                                /\ f[n].pos \in Nat /\ f[n].output \in {0, 1}
                                /\ f[n] \in Frames(t)
<1>1. f \in Seq(Frames(t)) /\ f # <<>>
  BY DEF Stack
<1>2. Len(f) \in Nat /\ Len(f) >= 1 /\ DOMAIN f = 1 .. Len(f) /\ Last(f) = f[Len(f)]
  BY <1>1 DEF Last
<1>3. \A n \in DOMAIN f : f[n] \in Frames(t)
  BY <1>1
<1>4. \A n \in DOMAIN f : f[n].dir \in DOMAIN t.dirs /\ f[n].pos \in Nat /\ f[n].output \in {0, 1}
  BY <1>3 DEF Frames
<1> QED
  BY <1>2, <1>3, <1>4, TreeShape

LEMMA FrameChanged ==
  ASSUME NEW D, NEW x \in [dir : D, pos : Nat, output : {0, 1}], NEW o
  PROVE  [[x EXCEPT !.pos = @ + 1] EXCEPT !.output = o] = [dir |-> x.dir, pos |-> x.pos + 1, output |-> o]
<1> DEFINE y == [x EXCEPT !.pos = @ + 1]
           z == [y EXCEPT !.output = o]
<1>1. DOMAIN x = {"dir", "pos", "output"} /\ x = [k \in {"dir", "pos", "output"} |-> x[k]]
  OBVIOUS
<1>2. DOMAIN y = {"dir", "pos", "output"} /\ y.dir = x.dir /\ y.pos = x.pos + 1
  BY <1>1
<1> HIDE DEF y
<1>3. DOMAIN z = {"dir", "pos", "output"} /\ z.dir = x.dir /\ z.pos = x.pos + 1 /\ z.output = o
  BY <1>2
<1>4. z = [k \in {"dir", "pos", "output"} |-> z[k]]
  BY <1>2
<1> HIDE DEF z
<1>5. z = [dir |-> x.dir, pos |-> x.pos + 1, output |-> o]
  BY <1>3, <1>4
<1> QED
  BY <1>5 DEF z, y

(* One entry further in the directory the walk is in.                         *)
LEMMA MovedIs ==
  ASSUME NEW t, IsTree(t), NEW f, Stack(t, f), NEW o \in {0, 1}
  PROVE  /\ Len(Moved(f, o)) = Len(f) /\ DOMAIN Moved(f, o) = DOMAIN f
         /\ Moved(f, o) \in Seq(Frames(t))
         /\ \A n \in DOMAIN f : /\ Moved(f, o)[n].dir = f[n].dir
                                /\ n # Len(f) => Moved(f, o)[n] = f[n]
         /\ Moved(f, o)[Len(f)] = [dir |-> f[Len(f)].dir, pos |-> f[Len(f)].pos + 1, output |-> o]
<1> DEFINE n == Len(f)
           new == [dir |-> f[n].dir, pos |-> f[n].pos + 1, output |-> o]
           g == [f EXCEPT ![n] = new]
<1>1. /\ n \in Nat /\ n >= 1 /\ DOMAIN f = 1 .. n /\ n \in DOMAIN f
      /\ f[n] \in Frames(t) /\ f[n].dir \in DOMAIN t.dirs /\ f[n].pos \in Nat
  BY TopIs
<1>2. f \in Seq(Frames(t))
  BY DEF Stack
<1>3. Moved(f, o) = g
  <2>1. [[f[n] EXCEPT !.pos = @ + 1] EXCEPT !.output = o] = new
    BY <1>1, FrameChanged DEF Frames
  <2>2. Moved(f, o) = [f EXCEPT ![n] = [[f[n] EXCEPT !.pos = @ + 1] EXCEPT !.output = o]]
    BY <1>1 DEF Moved
  <2> QED
    BY <2>1, <2>2, Zenon
<1>4. new \in Frames(t)
  BY <1>1 DEF Frames
<1>5. g \in Seq(Frames(t)) /\ Len(g) = n /\ DOMAIN g = DOMAIN f
  BY <1>1, <1>2, <1>4, ExceptSeq
<1>6. g[n] = new /\ \A k \in DOMAIN f : k # n => g[k] = f[k]
  BY <1>1
<1>7. \A k \in DOMAIN f : g[k].dir = f[k].dir
  BY <1>6
<1> QED
  BY <1>3, <1>5, <1>6, <1>7

LEMMA StackMoved ==
  ASSUME NEW t, IsTree(t), NEW f, Stack(t, f), NEW o \in {0, 1},
         Last(f).pos <= Len(t.dirs[Last(f).dir])
  PROVE  Stack(t, Moved(f, o))
<1> DEFINE g == Moved(f, o)
           n == Len(f)
<1>1. /\ n \in Nat /\ n >= 1 /\ DOMAIN f = 1 .. n /\ Last(f) = f[n]
      /\ \A k \in DOMAIN f : f[k].dir \in DOMAIN t.dirs /\ f[k].dir \in Nat /\ f[k].pos \in Nat
  BY TopIs
<1>2. /\ DOMAIN g = DOMAIN f /\ Len(g) = n /\ g \in Seq(Frames(t))
      /\ \A k \in DOMAIN f : g[k].dir = f[k].dir /\ (k # n => g[k] = f[k])
      /\ g[n] = [dir |-> f[n].dir, pos |-> f[n].pos + 1, output |-> o]
  BY MovedIs
<1> HIDE DEF g
<1>3. Len(t.dirs[f[n].dir]) \in Nat
  BY <1>1, TreeShape
<1>4. g # <<>> /\ g[1].dir = 1
  BY <1>1, <1>2 DEF Stack
<1>5. \A k \in DOMAIN g : g[k].pos >= 1 /\ g[k].pos <= Len(t.dirs[g[k].dir]) + 1
  <2>1. g[n].pos >= 1 /\ g[n].pos <= Len(t.dirs[g[n].dir]) + 1
    <3>1. g[n].pos = f[n].pos + 1 /\ g[n].dir = f[n].dir
      BY <1>2
    <3> QED
      BY <1>1, <3>1, <1>3
  <2> QED
    BY <1>1, <1>2, <2>1 DEF Stack
<1>6. \A k, m \in DOMAIN g : k < m => g[k].dir < g[m].dir
  BY <1>2 DEF Stack
<1>7. ASSUME NEW k \in DOMAIN g, k + 1 \in DOMAIN g
      PROVE  g[k].pos > 1 /\ Leads(t, <<g[k].dir, g[k].pos - 1>>) = g[k + 1].dir
  <2>1. k # n /\ k \in DOMAIN f /\ k + 1 \in DOMAIN f
    BY <1>1, <1>2, <1>7
  <2>2. f[k].pos > 1 /\ Leads(t, <<f[k].dir, f[k].pos - 1>>) = f[k + 1].dir
    BY <2>1 DEF Stack
  <2> QED
    BY <1>2, <2>1, <2>2
<1> QED
  BY <1>2, <1>4, <1>5, <1>6, <1>7 DEF Stack, g

(* What stands one behind the last call of a stack.                          *)
LEMMA EnteredIs ==
  ASSUME NEW t, IsTree(t), NEW f, Stack(t, f), NEW d \in DOMAIN t.dirs
  PROVE  /\ Entered(f, d) \in Seq(Frames(t)) /\ Len(Entered(f, d)) = Len(f) + 1
         /\ DOMAIN Entered(f, d) = 1 .. Len(f) + 1
         /\ \A n \in DOMAIN f : Entered(f, d)[n] = f[n]
         /\ Entered(f, d)[Len(f) + 1] = [dir |-> d, pos |-> 1, output |-> 0]
<1>1. f \in Seq(Frames(t))
  BY DEF Stack
<1>2. [dir |-> d, pos |-> 1, output |-> 0] \in Frames(t)
  BY DEF Frames
<1> QED
  BY <1>1, <1>2, AppendProperties DEF Entered

LEMMA StackEntered ==
  ASSUME NEW t, IsTree(t), NEW f, Stack(t, f), NEW d \in DOMAIN t.dirs,
         Last(f).pos > 1, Leads(t, <<Last(f).dir, Last(f).pos - 1>>) = d, d > Last(f).dir
  PROVE  Stack(t, Entered(f, d))
<1> DEFINE g == Entered(f, d)
           n == Len(f)
<1>1. /\ n \in Nat /\ n >= 1 /\ DOMAIN f = 1 .. n /\ Last(f) = f[n]
      /\ \A k \in DOMAIN f : f[k].dir \in DOMAIN t.dirs /\ f[k].dir \in Nat /\ f[k].pos \in Nat
  BY TopIs
<1>2. /\ g \in Seq(Frames(t)) /\ Len(g) = n + 1 /\ DOMAIN g = 1 .. n + 1
      /\ \A k \in DOMAIN f : g[k] = f[k]
      /\ g[n + 1] = [dir |-> d, pos |-> 1, output |-> 0]
  BY EnteredIs
<1> HIDE DEF g
<1>3. d \in Nat /\ Len(t.dirs[d]) \in Nat
  BY TreeShape
<1>4. g # <<>> /\ g[1].dir = 1
  BY <1>1, <1>2 DEF Stack
<1>5. ASSUME NEW k \in DOMAIN g PROVE g[k].pos >= 1 /\ g[k].pos <= Len(t.dirs[g[k].dir]) + 1
  <2>1. CASE k = n + 1
    <3>1. g[k].pos = 1 /\ g[k].dir = d
      BY <1>2, <2>1
    <3> QED
      BY <1>3, <3>1
  <2>2. CASE k # n + 1
    <3>1. k \in DOMAIN f
      BY <1>1, <1>2, <2>2
    <3> QED
      BY <1>2, <3>1 DEF Stack
  <2> QED
    BY <2>1, <2>2
<1>6. ASSUME NEW k \in DOMAIN g, NEW m \in DOMAIN g, k < m PROVE g[k].dir < g[m].dir
  <2>1. k \in DOMAIN f
    BY <1>1, <1>2, <1>6
  <2>2. CASE m = n + 1
    <3>1. f[k].dir <= f[n].dir
      <4>1. CASE k = n
        BY <1>1, <4>1
      <4>2. CASE k < n
        <5>1. \A a, b \in DOMAIN f : a < b => f[a].dir < f[b].dir
          BY DEF Stack
        <5>2. n \in DOMAIN f
          BY <1>1
        <5>3. f[k].dir < f[n].dir
          BY <2>1, <4>2, <5>1, <5>2
        <5> QED
          BY <1>1, <2>1, <5>3
      <4>3. k \in 1 .. n
        BY <1>1, <2>1
      <4>4. k = n \/ k < n
        BY <1>1, <4>3
      <4> QED
        BY <4>1, <4>2, <4>4
    <3>2. g[m].dir = d /\ g[k] = f[k]
      BY <1>2, <2>1, <2>2
    <3> QED
      BY <1>1, <1>3, <2>1, <3>1, <3>2
  <2>3. CASE m # n + 1
    <3>1. m \in DOMAIN f
      BY <1>1, <1>2, <2>3
    <3> QED
      BY <1>2, <1>6, <2>1, <3>1 DEF Stack
  <2> QED
    BY <2>2, <2>3
<1>7. ASSUME NEW k \in DOMAIN g, k + 1 \in DOMAIN g
      PROVE  g[k].pos > 1 /\ Leads(t, <<g[k].dir, g[k].pos - 1>>) = g[k + 1].dir
  <2>1. k \in DOMAIN f
    BY <1>1, <1>2, <1>7
  <2>2. CASE k = n
    <3>1. g[k] = f[n] /\ g[k + 1].dir = d
      BY <1>2, <2>1, <2>2
    <3> QED
      BY <1>1, <3>1
  <2>3. CASE k # n
    <3>1. k + 1 \in DOMAIN f
      BY <1>1, <2>1, <2>3
    <3> QED
      BY <1>2, <2>1, <3>1 DEF Stack
  <2> QED
    BY <2>2, <2>3
<1> QED
  BY <1>2, <1>4, <1>5, <1>6, <1>7 DEF Stack, g

(* Back in the caller.                                                       *)
LEMMA LeftIs ==
  ASSUME NEW t, IsTree(t), NEW f, Stack(t, f), Len(f) > 1
  PROVE  /\ Left(f) \in Seq(Frames(t)) /\ Len(Left(f)) = Len(f) - 1
         /\ DOMAIN Left(f) = 1 .. Len(f) - 1
         /\ \A n \in 1 .. Len(f) - 1 : /\ Left(f)[n].dir = f[n].dir
                                       /\ Left(f)[n].pos = f[n].pos
         /\ Left(f)[Len(f) - 1].output = f[Len(f)].output
<1> DEFINE n == Len(f)
           b == SubSeq(f, 1, n - 1)
           o == f[n].output
           x == [b[n - 1] EXCEPT !.output = o]
<1>1. /\ n \in Nat /\ DOMAIN f = 1 .. n /\ Last(f) = f[n] /\ f \in Seq(Frames(t)) /\ n - 1 \in 1 .. n
      /\ \A k \in DOMAIN f : f[k] \in Frames(t) /\ f[k].output \in {0, 1}
  BY TopIs DEF Stack
<1>2. /\ b \in Seq(Frames(t)) /\ Len(b) = n - 1 /\ DOMAIN b = 1 .. n - 1
      /\ \A k \in 1 .. n - 1 : b[k] = f[k]
  BY <1>1, SubSeqProperties
<1>3. Left(f) = [b EXCEPT ![n - 1] = x]
  BY <1>1 DEF Left, Front
<1> HIDE DEF b, o
<1>4. n \in DOMAIN f /\ n - 1 \in 1 .. n - 1
  BY <1>1
<1>5. b[n - 1] \in Frames(t) /\ o \in {0, 1} /\ b[n - 1] = f[n - 1]
  BY <1>1, <1>2, <1>4 DEF o
<1>6. x \in Frames(t) /\ x.dir = f[n - 1].dir /\ x.pos = f[n - 1].pos /\ x.output = o
  BY <1>5 DEF Frames
<1> HIDE DEF x
<1>7. [b EXCEPT ![n - 1] = x] \in Seq(Frames(t)) /\ Len([b EXCEPT ![n - 1] = x]) = n - 1
  BY <1>2, <1>4, <1>6, ExceptSeq
<1>8. [b EXCEPT ![n - 1] = x][n - 1] = x /\ \A k \in 1 .. n - 1 : k # n - 1 => [b EXCEPT ![n - 1] = x][k] = f[k]
  BY <1>2, <1>4
<1>9. DOMAIN [b EXCEPT ![n - 1] = x] = 1 .. n - 1
  BY <1>2
<1> QED
  BY <1>3, <1>6, <1>7, <1>8, <1>9 DEF o

LEMMA StackLeft ==
  ASSUME NEW t, IsTree(t), NEW f, Stack(t, f), Len(f) > 1
  PROVE  Stack(t, Left(f))
<1> DEFINE g == Left(f)
           n == Len(f)
<1>1. n \in Nat /\ DOMAIN f = 1 .. n
  BY TopIs
<1>2. /\ g \in Seq(Frames(t)) /\ Len(g) = n - 1 /\ DOMAIN g = 1 .. n - 1
      /\ \A k \in 1 .. n - 1 : g[k].dir = f[k].dir /\ g[k].pos = f[k].pos
  BY LeftIs
<1> HIDE DEF g
<1>3. g # <<>> /\ g[1].dir = 1
  BY <1>1, <1>2 DEF Stack
<1>4. ASSUME NEW k \in DOMAIN g PROVE g[k].pos >= 1 /\ g[k].pos <= Len(t.dirs[g[k].dir]) + 1
  <2>1. k \in DOMAIN f /\ g[k].pos = f[k].pos /\ g[k].dir = f[k].dir
    BY <1>1, <1>2
  <2> QED
    BY <2>1 DEF Stack
<1>5. \A k, m \in DOMAIN g : k < m => g[k].dir < g[m].dir
  BY <1>1, <1>2 DEF Stack
<1>6. ASSUME NEW k \in DOMAIN g, k + 1 \in DOMAIN g
      PROVE  g[k].pos > 1 /\ Leads(t, <<g[k].dir, g[k].pos - 1>>) = g[k + 1].dir
  <2>1. k \in DOMAIN f /\ k + 1 \in DOMAIN f
    BY <1>1, <1>2, <1>6
  <2>2. f[k].pos > 1 /\ Leads(t, <<f[k].dir, f[k].pos - 1>>) = f[k + 1].dir
    BY <2>1 DEF Stack
  <2>3. g[k].pos = f[k].pos /\ g[k].dir = f[k].dir /\ g[k + 1].dir = f[k + 1].dir
    BY <1>2, <1>6
  <2> QED
    BY <2>2, <2>3
<1> QED
  BY <1>2, <1>3, <1>4, <1>5, <1>6 DEF Stack, g

(* An entry is passed that leads nowhere.                                     *)
LEMMA PassedMoved ==
  ASSUME NEW t, IsTree(t), NEW f, Stack(t, f), NEW P, Passed(t, f, P), NEW o \in {0, 1},
         Last(f).pos <= Len(t.dirs[Last(f).dir])
  PROVE  /\ At(f) \in Places(t) /\ At(f) \notin P
         /\ \A n \in DOMAIN Moved(f, o) : \A p \in DOMAIN t.dirs[Moved(f, o)[n].dir] :
              <<Moved(f, o)[n].dir, p>> \in P \cup {At(f)} <=> p < Moved(f, o)[n].pos
         /\ Leads(t, At(f)) = 0 => Passed(t, Moved(f, o), P \cup {At(f)})
<1> DEFINE e == At(f)
           g == Moved(f, o)
           n == Len(f)
<1>1. /\ n \in Nat /\ n >= 1 /\ DOMAIN f = 1 .. n /\ Last(f) = f[n] /\ n \in DOMAIN f
      /\ \A k \in DOMAIN f : f[k].dir \in DOMAIN t.dirs /\ f[k].dir \in Nat /\ f[k].pos \in Nat
  BY TopIs
<1>0. e = <<f[n].dir, f[n].pos>>
  BY <1>1 DEF At
<1> HIDE DEF e
<1>2. /\ DOMAIN g = DOMAIN f /\ Len(g) = n /\ g \in Seq(Frames(t))
      /\ \A k \in DOMAIN f : g[k].dir = f[k].dir /\ (k # n => g[k] = f[k])
      /\ g[n] = [dir |-> f[n].dir, pos |-> f[n].pos + 1, output |-> o]
  BY MovedIs
<1> HIDE DEF g
<1>3. f[n].pos \in DOMAIN t.dirs[f[n].dir] /\ DOMAIN t.dirs[f[n].dir] = 1 .. Len(t.dirs[f[n].dir])
  <2>1. f[n].dir \in DOMAIN t.dirs /\ f[n].pos \in Nat /\ f[n].pos >= 1
    BY <1>1 DEF Stack
  <2>2. Len(t.dirs[f[n].dir]) \in Nat /\ DOMAIN t.dirs[f[n].dir] = 1 .. Len(t.dirs[f[n].dir])
    BY <2>1, TreeShape
  <2>3. f[n].pos <= Len(t.dirs[f[n].dir])
    BY <1>1
  <2> QED
    BY <2>1, <2>2, <2>3
<1>4. e \in Places(t) /\ e \notin P
  <2>1. e \in Places(t)
    BY <1>0, <1>1, <1>3, PlaceIs
  <2>2. ~ (f[n].pos < f[n].pos)
    BY <1>1
  <2> QED
    BY <1>0, <1>1, <1>3, <2>1, <2>2 DEF Passed
<1>5. ASSUME NEW k \in DOMAIN g, NEW p \in DOMAIN t.dirs[g[k].dir]
      PROVE  <<g[k].dir, p>> \in P \cup {e} <=> p < g[k].pos
  <2>1. CASE k = n
    <3>1. g[k].dir = f[n].dir /\ g[k].pos = f[n].pos + 1
      BY <1>2, <2>1
    <3>2. p \in Nat /\ f[n].pos \in Nat
      BY <1>1, <1>3, <3>1
    <3>3. <<f[n].dir, p>> \in P <=> p < f[n].pos
      BY <1>1, <3>1 DEF Passed
    <3>4. <<f[n].dir, p>> = e <=> p = f[n].pos
      BY <1>0
    <3> QED
      BY <3>1, <3>2, <3>3, <3>4
  <2>2. CASE k # n
    <3>1. k \in DOMAIN f /\ g[k] = f[k] /\ k < n
      BY <1>1, <1>2, <2>2
    <3>2. f[k].dir < f[n].dir
      BY <1>1, <3>1 DEF Stack
    <3>3. <<f[k].dir, p>> # e
      BY <1>0, <1>1, <3>1, <3>2
    <3> QED
      BY <3>1, <3>3 DEF Passed
  <2> QED
    BY <2>1, <2>2
<1>6. ASSUME Leads(t, e) = 0, NEW c \in Places(t), Leads(t, c) # 0, Beside(g, Leads(t, c)),
             NEW p \in DOMAIN t.dirs[Leads(t, c)]
      PROVE  <<Leads(t, c), p>> \in P \cup {e} <=> c \in P \cup {e}
  <2>1. Beside(f, Leads(t, c))
    BY <1>2, <1>6 DEF Beside
  <2>2. <<Leads(t, c), p>> \in P <=> c \in P
    BY <1>6, <2>1 DEF Passed
  <2>3. <<Leads(t, c), p>> # e
    BY <1>0, <1>1, <2>1 DEF Beside
  <2>4. c # e
    BY <1>6
  <2> QED
    BY <2>2, <2>3, <2>4
<1>7. P \cup {e} \subseteq Places(t)
  BY <1>4 DEF Passed
<1> QED
  BY <1>4, <1>5, <1>6, <1>7, Zenon DEF Passed, g, e

(* An entry is passed that leads to a directory, which none of the calls is   *)
(* in and nothing of which is passed yet.                                      *)
LEMMA NewDirectory ==
  ASSUME NEW t, IsTree(t), NEW f, Stack(t, f), NEW P, Passed(t, f, P),
         Last(f).pos <= Len(t.dirs[Last(f).dir]),
         Leads(t, At(f)) # 0
  PROVE  /\ Leads(t, At(f)) \in DOMAIN t.dirs /\ Leads(t, At(f)) > Last(f).dir
         /\ Beside(f, Leads(t, At(f)))
         /\ \A p \in DOMAIN t.dirs[Leads(t, At(f))] : <<Leads(t, At(f)), p>> \notin P
<1> DEFINE e == At(f)
           n == Len(f)
           d == Leads(t, e)
<1>1. /\ n \in Nat /\ n >= 1 /\ DOMAIN f = 1 .. n /\ Last(f) = f[n] /\ n \in DOMAIN f
      /\ \A k \in DOMAIN f : f[k].dir \in DOMAIN t.dirs /\ f[k].dir \in Nat /\ f[k].pos \in Nat
  BY TopIs
<1>0. e = <<f[n].dir, f[n].pos>>
  BY <1>1 DEF At
<1> HIDE DEF e
<1>2. e \in Places(t) /\ e \notin P
  <2>1. 0 \in {0, 1}
    OBVIOUS
  <2> QED
    BY <2>1, PassedMoved DEF e
<1>3. d \in DOMAIN t.dirs /\ d > f[n].dir /\ d \in Nat
  <2>1. d # 0 /\ e[1] = f[n].dir
    BY <1>0 DEF e
  <2>2. e[1] < d /\ d \in DOMAIN t.dirs
    BY <1>2, <2>1, LeadsOn
  <2> QED
    BY <1>1, <2>1, <2>2, TreeShape
<1>4. ASSUME NEW k \in DOMAIN f PROVE f[k].dir # d
  <2>1. CASE k = n
    BY <1>1, <1>3, <2>1
  <2>2. CASE k # n
    <3>1. k < n
      BY <1>1, <2>2
    <3>2. f[k].dir < f[n].dir
      BY <1>1, <3>1 DEF Stack
    <3> QED
      BY <1>1, <1>3, <3>2
  <2> QED
    BY <2>1, <2>2
<1>5. Beside(f, d)
  BY <1>4 DEF Beside
<1>6. \A p \in DOMAIN t.dirs[d] : <<d, p>> \notin P
  <2>1. d # 0
    BY DEF e
  <2> QED
    BY <1>2, <1>5, <2>1 DEF Passed
<1> QED
  BY <1>1, <1>3, <1>5, <1>6 DEF e

LEMMA PassedEntered ==
  ASSUME NEW t, IsTree(t), NEW f, Stack(t, f), NEW P, Passed(t, f, P), NEW o \in {0, 1},
         Last(f).pos <= Len(t.dirs[Last(f).dir]),
         Leads(t, At(f)) # 0
  PROVE  /\ Stack(t, Entered(Moved(f, o), Leads(t, At(f))))
         /\ Passed(t, Entered(Moved(f, o), Leads(t, At(f))), P \cup {At(f)})
<1> DEFINE e == At(f)
           n == Len(f)
           d == Leads(t, e)
           m == Moved(f, o)
           g == Entered(m, d)
<1>1. /\ n \in Nat /\ n >= 1 /\ DOMAIN f = 1 .. n /\ Last(f) = f[n] /\ n \in DOMAIN f
      /\ \A k \in DOMAIN f : f[k].dir \in DOMAIN t.dirs /\ f[k].dir \in Nat /\ f[k].pos \in Nat
  BY TopIs
<1>0. e = <<f[n].dir, f[n].pos>>
  BY <1>1 DEF At
<1> HIDE DEF e
<1>2. /\ DOMAIN m = DOMAIN f /\ Len(m) = n
      /\ \A k \in DOMAIN f : m[k].dir = f[k].dir /\ (k # n => m[k] = f[k])
      /\ m[n] = [dir |-> f[n].dir, pos |-> f[n].pos + 1, output |-> o]
  BY MovedIs
<1>3. /\ e \in Places(t) /\ e \notin P
      /\ \A k \in DOMAIN m : \A p \in DOMAIN t.dirs[m[k].dir] :
           <<m[k].dir, p>> \in P \cup {e} <=> p < m[k].pos
  BY PassedMoved DEF e
<1>4. d \in DOMAIN t.dirs /\ d > f[n].dir /\ Beside(f, d) /\ \A p \in DOMAIN t.dirs[d] : <<d, p>> \notin P
  BY <1>1, NewDirectory DEF e
<1>5. Stack(t, m)
  BY StackMoved
<1> HIDE DEF m
<1>6. Last(m).dir = f[n].dir /\ Last(m).pos = f[n].pos + 1 /\ Last(m).pos > 1
  <2>1. Last(m) = m[n]
    BY <1>2 DEF Last
  <2>2. f[n].pos >= 1
    BY <1>1 DEF Stack
  <2> QED
    BY <1>1, <1>2, <2>1, <2>2
<1>7. Last(m).pos - 1 = f[n].pos
  BY <1>1, <1>6
<1>8. Stack(t, g)
  <2>1. Leads(t, <<Last(m).dir, Last(m).pos - 1>>) = d /\ d > Last(m).dir
    BY <1>0, <1>4, <1>6, <1>7
  <2> QED
    BY <1>4, <1>5, <1>6, <2>1, StackEntered
<1>9. /\ DOMAIN g = 1 .. n + 1
      /\ \A k \in DOMAIN f : g[k] = m[k]
      /\ g[n + 1] = [dir |-> d, pos |-> 1, output |-> 0]
  <2>1. /\ DOMAIN g = 1 .. Len(m) + 1
        /\ \A k \in DOMAIN m : g[k] = m[k]
        /\ g[Len(m) + 1] = [dir |-> d, pos |-> 1, output |-> 0]
    BY <1>4, <1>5, EnteredIs
  <2> QED
    BY <1>2, <2>1
<1> HIDE DEF g, d
<1>10. ASSUME NEW k \in DOMAIN g, NEW p \in DOMAIN t.dirs[g[k].dir]
       PROVE  <<g[k].dir, p>> \in P \cup {e} <=> p < g[k].pos
  <2>1. CASE k = n + 1
    <3>1. g[k].dir = d /\ g[k].pos = 1
      BY <1>9, <2>1
    <3>2. p \in Nat /\ p >= 1
      BY <1>4, <3>1, TreeShape
    <3>3. <<d, p>> \notin P /\ <<d, p>> # e
      BY <1>0, <1>1, <1>4, <3>1 DEF Beside
    <3> QED
      BY <3>1, <3>2, <3>3
  <2>2. CASE k # n + 1
    <3>1. k \in DOMAIN f /\ g[k] = m[k]
      BY <1>1, <1>9, <2>2
    <3> QED
      BY <1>2, <1>3, <3>1
  <2> QED
    BY <2>1, <2>2
<1>11. ASSUME NEW c \in Places(t), Leads(t, c) # 0, Beside(g, Leads(t, c)),
              NEW p \in DOMAIN t.dirs[Leads(t, c)]
       PROVE  <<Leads(t, c), p>> \in P \cup {e} <=> c \in P \cup {e}
  <2>1. ASSUME NEW k \in DOMAIN f PROVE f[k].dir # Leads(t, c)
    <3>1. k \in DOMAIN g /\ g[k].dir = f[k].dir
      BY <1>1, <1>2, <1>9
    <3> QED
      BY <1>11, <3>1 DEF Beside
  <2>2. <<Leads(t, c), p>> \in P <=> c \in P
    BY <1>11, <2>1 DEF Passed, Beside
  <2>3. <<Leads(t, c), p>> # e
    BY <1>0, <1>1, <2>1
  <2>4. c # e
    <3>1. n + 1 \in DOMAIN g /\ g[n + 1].dir = d
      BY <1>1, <1>9
    <3>2. Leads(t, c) # d
      BY <1>11, <3>1 DEF Beside
    <3> QED
      BY <3>2 DEF d
  <2> QED
    BY <2>2, <2>3, <2>4
<1>12. P \cup {e} \subseteq Places(t)
  BY <1>3 DEF Passed
<1> QED
  BY <1>8, <1>10, <1>11, <1>12, Zenon DEF Passed, g, d, m, e

(* A directory is left behind its last entry: what its entry says of it holds. *)
LEMMA PassedLeft ==
  ASSUME NEW t, IsTree(t), NEW f, Stack(t, f), NEW P, Passed(t, f, P),
         Last(f).pos > Len(t.dirs[Last(f).dir]), Len(f) > 1
  PROVE  Passed(t, Left(f), P)
<1> DEFINE g == Left(f)
           n == Len(f)
           up == <<f[n - 1].dir, f[n - 1].pos - 1>>
<1>1. /\ n \in Nat /\ DOMAIN f = 1 .. n /\ Last(f) = f[n] /\ n \in DOMAIN f /\ n - 1 \in DOMAIN f
      /\ \A k \in DOMAIN f : f[k].dir \in DOMAIN t.dirs /\ f[k].dir \in Nat /\ f[k].pos \in Nat
  BY TopIs
<1>2. /\ DOMAIN g = 1 .. n - 1
      /\ \A k \in 1 .. n - 1 : g[k].dir = f[k].dir /\ g[k].pos = f[k].pos
  BY LeftIs
<1> HIDE DEF g
<1>3. f[n - 1].pos > 1 /\ Leads(t, up) = f[n].dir
  <2>1. (n - 1) + 1 = n /\ (n - 1) + 1 \in DOMAIN f
    BY <1>1
  <2> QED
    BY <1>1, <2>1 DEF Stack
<1>4. f[n - 1].pos - 1 \in DOMAIN t.dirs[f[n - 1].dir]
  <2>1. f[n - 1].pos <= Len(t.dirs[f[n - 1].dir]) + 1
    BY <1>1 DEF Stack
  <2>2. Len(t.dirs[f[n - 1].dir]) \in Nat /\ DOMAIN t.dirs[f[n - 1].dir] = 1 .. Len(t.dirs[f[n - 1].dir])
    BY <1>1, TreeShape
  <2>3. f[n - 1].pos \in Nat
    BY <1>1
  <2>4. f[n - 1].pos - 1 \in 1 .. Len(t.dirs[f[n - 1].dir])
    <3>1. \A a, m \in Nat : a > 1 /\ a <= m + 1 => a - 1 \in 1 .. m
      OBVIOUS
    <3> QED
      BY <1>3, <2>1, <2>2, <2>3, <3>1, Zenon
  <2> QED
    BY <2>2, <2>4, Zenon
<1>5. up \in Places(t) /\ up \in P
  <2>1. up \in Places(t)
    BY <1>1, <1>4, PlaceIs
  <2>2. f[n - 1].pos - 1 < f[n - 1].pos
    BY <1>1
  <2> QED
    BY <1>1, <1>4, <2>1, <2>2 DEF Passed
<1>6. \A k \in DOMAIN g : \A p \in DOMAIN t.dirs[g[k].dir] : <<g[k].dir, p>> \in P <=> p < g[k].pos
  <2>1. \A k \in 1 .. n - 1 : k \in DOMAIN f
    BY <1>1
  <2>2. \A k \in DOMAIN f : \A p \in DOMAIN t.dirs[f[k].dir] : <<f[k].dir, p>> \in P <=> p < f[k].pos
    BY DEF Passed
  <2>3. ASSUME NEW k \in DOMAIN g, NEW p \in DOMAIN t.dirs[g[k].dir]
        PROVE  <<g[k].dir, p>> \in P <=> p < g[k].pos
    <3>1. g[k].dir = f[k].dir /\ g[k].pos = f[k].pos /\ k \in DOMAIN f
      BY <1>2, <2>1
    <3> QED
      BY <2>2, <3>1
  <2> QED
    BY <2>3
<1>7. ASSUME NEW c \in Places(t), Leads(t, c) # 0, Beside(g, Leads(t, c)),
             NEW p \in DOMAIN t.dirs[Leads(t, c)]
      PROVE  <<Leads(t, c), p>> \in P <=> c \in P
  <2>1. CASE Leads(t, c) = f[n].dir
    <3>1. c = up
      BY <1>3, <1>5, <1>7, <2>1, LeadsOn
    <3>2. p \in Nat /\ p <= Len(t.dirs[f[n].dir]) /\ Len(t.dirs[f[n].dir]) \in Nat
      BY <1>1, <1>7, <2>1, TreeShape
    <3>3. p < f[n].pos
      BY <1>1, <3>2
    <3>4. <<f[n].dir, p>> \in P
      BY <1>1, <1>7, <2>1, <3>3 DEF Passed
    <3> QED
      BY <1>5, <2>1, <3>1, <3>4
  <2>2. CASE Leads(t, c) # f[n].dir
    <3>1. ASSUME NEW k \in DOMAIN f PROVE f[k].dir # Leads(t, c)
      <4>1. CASE k = n
        BY <2>2, <4>1
      <4>2. CASE k # n
        <5>1. k \in DOMAIN g /\ g[k].dir = f[k].dir
          BY <1>1, <1>2, <4>2
        <5> QED
          BY <1>7, <5>1 DEF Beside
      <4> QED
        BY <4>1, <4>2
    <3> QED
      BY <1>7, <3>1 DEF Passed, Beside
  <2> QED
    BY <2>1, <2>2
<1>8. P \subseteq Places(t)
  BY DEF Passed
<1> QED
  BY <1>6, <1>7, <1>8, Zenon DEF Passed, g

(* When the root is left every entry is passed: a smallest directory that is  *)
(* not passed would be that of a passed entry.                                 *)
LEMMA AllPassed ==
  ASSUME NEW t, IsTree(t), NEW f, Stack(t, f), NEW P, Passed(t, f, P),
         Last(f).pos > Len(t.dirs[Last(f).dir]), Len(f) = 1
  PROVE  P = Places(t)
<1> DEFINE Open == {d \in DOMAIN t.dirs : \E p \in DOMAIN t.dirs[d] : <<d, p>> \notin P}
<1>1. /\ DOMAIN f = 1 .. 1 /\ Last(f) = f[1] /\ f[1].dir = 1 /\ f[1].pos \in Nat /\ 1 \in DOMAIN f
  BY TopIs DEF Stack
<1>2. ASSUME Open # {} PROVE FALSE
  <2>1. Open \subseteq Nat
    BY TreeShape
  <2>2. PICK d \in Open : \A c \in Open : d <= c
    BY <1>2, <2>1, SmallestNat
  <2>3. PICK p \in DOMAIN t.dirs[d] : <<d, p>> \notin P
    OBVIOUS
  <2>4. d # 1
    <3>1. ASSUME d = 1 PROVE FALSE
      <4>1. p \in Nat /\ p <= Len(t.dirs[1]) /\ Len(t.dirs[1]) \in Nat
        BY <3>1, TreeShape
      <4>2. p < f[1].pos
        BY <1>1, <4>1
      <4> QED
        BY <1>1, <2>3, <3>1, <4>2 DEF Passed
    <3> QED
      BY <3>1
  <2>5. PICK e \in Places(t) : Leads(t, e) = d
    BY <2>4, LeadsOn
  <2>6. Leads(t, e) # 0 /\ e[1] < d /\ e[1] \in DOMAIN t.dirs /\ e[2] \in DOMAIN t.dirs[e[1]] /\ e = <<e[1], e[2]>>
    BY <2>1, <2>5, LeadsOn, PlaceIs, TreeShape
  <2>7. e \in P
    <3>1. e[1] \notin Open
      <4>1. d \in Nat /\ e[1] \in Nat /\ ~ (d <= e[1])
        <5>1. d \in 1 .. Len(t.dirs) /\ e[1] \in 1 .. Len(t.dirs)
          BY <2>1, <2>6, TreeShape
        <5> QED
          BY <2>6, <5>1
      <4> QED
        BY <2>2, <4>1, Zenon
    <3> QED
      BY <2>6, <3>1
  <2>8. Beside(f, d)
    BY <1>1, <2>4 DEF Beside
  <2>9. <<d, p>> \in P
    BY <2>5, <2>6, <2>7, <2>8 DEF Passed
  <2> QED
    BY <2>3, <2>9
<1>3. \A e \in Places(t) : e \in P
  BY <1>2, PlaceIs
<1> QED
  BY <1>3 DEF Passed

(* No entry twice, and each behind the entries before it and behind the entry *)
(* of its directory.                                                           *)
Ordered(t, r) ==
  \A i, j \in DOMAIN r :
     /\ r[i] = r[j] => i = j
     /\ r[i][1] = r[j][1] /\ r[i][2] < r[j][2] => i < j
     /\ Leads(t, r[i]) = r[j][1] => i < j

LEMMA OrderedAppend ==
  ASSUME NEW t, IsTree(t), NEW f, Stack(t, f), NEW P, Passed(t, f, P),
         Last(f).pos <= Len(t.dirs[Last(f).dir]),
         NEW r \in Seq(Places(t)), Range(r) \subseteq P, Ordered(t, r)
  PROVE  Ordered(t, Append(r, At(f)))
<1> DEFINE e == At(f)
           n == Len(f)
           k == Len(r)
           s == Append(r, e)
<1>1. /\ n \in Nat /\ n >= 1 /\ DOMAIN f = 1 .. n /\ Last(f) = f[n] /\ n \in DOMAIN f
      /\ f[n].dir \in Nat /\ f[n].pos \in Nat /\ f[n].dir \in DOMAIN t.dirs
  BY TopIs
<1>2. e = <<f[n].dir, f[n].pos>>
  BY <1>1 DEF At
<1>3. e \in Places(t) /\ e \notin P
  <2>1. 0 \in {0, 1}
    OBVIOUS
  <2> QED
    BY <2>1, PassedMoved
<1>4. Leads(t, e) # 0 => /\ Leads(t, e) > f[n].dir
                         /\ \A p \in DOMAIN t.dirs[Leads(t, e)] : <<Leads(t, e), p>> \notin P
  BY <1>1, NewDirectory
<1> HIDE DEF e
<1>5. /\ k \in Nat /\ DOMAIN r = 1 .. k /\ DOMAIN s = 1 .. k + 1 /\ s[k + 1] = e
      /\ \A i \in DOMAIN r : s[i] = r[i]
  BY <1>3, AppendProperties
<1>6. \A i \in DOMAIN r : /\ r[i] \in P /\ r[i] \in Places(t) /\ r[i] = <<r[i][1], r[i][2]>>
                          /\ r[i][1] \in DOMAIN t.dirs /\ r[i][2] \in DOMAIN t.dirs[r[i][1]]
                          /\ r[i][1] \in Nat /\ r[i][2] \in Nat
  <2>1. \A i \in DOMAIN r : r[i] \in Range(r) /\ r[i] \in Places(t)
    BY DEF Range
  <2> QED
    BY <2>1, PlaceIs
<1> HIDE DEF s
<1>7. ASSUME NEW i \in DOMAIN s, NEW j \in DOMAIN s
      PROVE  /\ s[i] = s[j] => i = j
             /\ s[i][1] = s[j][1] /\ s[i][2] < s[j][2] => i < j
             /\ Leads(t, s[i]) = s[j][1] => i < j
  <2>1. CASE i \in DOMAIN r /\ j \in DOMAIN r
    BY <1>5, <2>1 DEF Ordered
  <2>2. CASE i \in DOMAIN r /\ j = k + 1
    BY <1>3, <1>5, <1>6, <2>2
  <2>3. CASE i = k + 1 /\ j \in DOMAIN r
    <3>1. s[i] = e /\ s[j] = r[j] /\ r[j] \in P /\ r[j] # e
      BY <1>3, <1>5, <1>6, <2>3
    <3>2. ASSUME e[1] = r[j][1], e[2] < r[j][2] PROVE FALSE
      <4>1. r[j] = <<f[n].dir, r[j][2]>> /\ r[j][2] \in DOMAIN t.dirs[f[n].dir]
        BY <1>2, <1>6, <2>3, <3>2
      <4>2. r[j][2] < f[n].pos
        BY <1>1, <3>1, <4>1 DEF Passed
      <4> QED
        BY <1>1, <1>2, <1>6, <2>3, <3>2, <4>2
    <3>3. ASSUME Leads(t, e) = r[j][1] PROVE FALSE
      <4>1. Leads(t, e) # 0
        BY <1>6, <2>3, <3>3, TreeShape
      <4>2. r[j] = <<Leads(t, e), r[j][2]>> /\ r[j][2] \in DOMAIN t.dirs[Leads(t, e)]
        BY <1>6, <2>3, <3>3
      <4>3. <<Leads(t, e), r[j][2]>> \notin P
        BY <1>4, <4>1, <4>2
      <4> QED
        BY <3>1, <4>2, <4>3
    <3> QED
      BY <3>1, <3>2, <3>3
  <2>4. CASE i = k + 1 /\ j = k + 1
    <3>1. ~ (f[n].pos < f[n].pos)
      BY <1>1
    <3>2. Leads(t, e) # f[n].dir
      <4>1. f[n].dir # 0
        BY <1>1, TreeShape
      <4> QED
        BY <1>1, <1>3, <1>4, <4>1, LeadsOn
    <3>3. s[i] = e /\ s[j] = e /\ e[1] = f[n].dir /\ e[2] = f[n].pos
      BY <1>2, <1>5, <2>4
    <3> QED
      BY <2>4, <3>1, <3>2, <3>3
  <2> QED
    BY <1>5, <2>1, <2>2, <2>3, <2>4
<1> QED
  BY <1>7 DEF Ordered, s, e

(* What is left of the places M looked for behind the last subdirectory of a  *)
(* directory, of that subdirectory, and so on.                                 *)
SubsOf(t, d) == {p \in DOMAIN t.dirs[d] : Leads(t, <<d, p>>) # 0}
Closed(t, X) ==
  \A c \in X : \A p \in SubsOf(t, c) : (\A q \in SubsOf(t, c) : q <= p) => Leads(t, <<c, p>>) \in X
NoneBehind(t, M, d) ==
  \A p \in DOMAIN t.dirs[d] : <<d, p>> \in M => \E q \in SubsOf(t, d) : q >= p
Quiet(t, M, d) ==
  \E X \in SUBSET DOMAIN t.dirs : d \in X /\ Closed(t, X) /\ \A c \in X : NoneBehind(t, M, c)
QuietTo(t, M, d, n) ==
  /\ \A p \in DOMAIN t.dirs[d] : p < n /\ <<d, p>> \in M => \E q \in SubsOf(t, d) : q >= p /\ q < n
  /\ \A p \in SubsOf(t, d) :
        p < n /\ (\A q \in SubsOf(t, d) : q < n => q <= p) => Quiet(t, M, Leads(t, <<d, p>>))

LEMMA QuietFirst ==
  ASSUME NEW t, IsTree(t), NEW d \in DOMAIN t.dirs, NEW M
  PROVE  QuietTo(t, M, d, 1)
<1>1. \A p \in DOMAIN t.dirs[d] : ~ (p < 1)
  BY TreeShape
<1> QED
  BY <1>1 DEF QuietTo, SubsOf

LEMMA QuietFile ==
  ASSUME NEW t, IsTree(t), NEW d \in DOMAIN t.dirs, NEW M, NEW n \in DOMAIN t.dirs[d],
         Leads(t, <<d, n>>) = 0
  PROVE  QuietTo(t, M, d, n + 1) <=> <<d, n>> \notin M /\ QuietTo(t, M, d, n)
<1>1. n \in Nat /\ \A p \in DOMAIN t.dirs[d] : p \in Nat
  BY TreeShape
<1>2. SubsOf(t, d) \subseteq DOMAIN t.dirs[d] /\ n \notin SubsOf(t, d)
  BY DEF SubsOf
<1>3. \A p \in SubsOf(t, d) : p < n + 1 <=> p < n
  BY <1>1, <1>2
<1>4. \A p \in DOMAIN t.dirs[d] : p < n + 1 <=> p < n \/ p = n
  BY <1>1
<1>5. ASSUME NEW q \in SubsOf(t, d), q < n PROVE ~ (q >= n)
  BY <1>1, <1>2, <1>5
<1>6. (\A p \in SubsOf(t, d) :
        p < n + 1 /\ (\A q \in SubsOf(t, d) : q < n + 1 => q <= p) => Quiet(t, M, Leads(t, <<d, p>>)))
      <=> (\A p \in SubsOf(t, d) :
        p < n /\ (\A q \in SubsOf(t, d) : q < n => q <= p) => Quiet(t, M, Leads(t, <<d, p>>)))
  BY <1>3, Zenon
<1>7. (\A p \in DOMAIN t.dirs[d] : p < n + 1 /\ <<d, p>> \in M => \E q \in SubsOf(t, d) : q >= p /\ q < n + 1)
      <=> /\ <<d, n>> \notin M
          /\ \A p \in DOMAIN t.dirs[d] : p < n /\ <<d, p>> \in M => \E q \in SubsOf(t, d) : q >= p /\ q < n
  BY <1>3, <1>4, <1>5, Zenon
<1> QED
  BY <1>6, <1>7 DEF QuietTo

LEMMA QuietSub ==
  ASSUME NEW t, IsTree(t), NEW d \in DOMAIN t.dirs, NEW M, NEW n \in DOMAIN t.dirs[d],
         Leads(t, <<d, n>>) # 0
  PROVE  QuietTo(t, M, d, n + 1) <=> Quiet(t, M, Leads(t, <<d, n>>))
<1>1. n \in Nat /\ \A p \in DOMAIN t.dirs[d] : p \in Nat
  BY TreeShape
<1>2. SubsOf(t, d) \subseteq DOMAIN t.dirs[d] /\ n \in SubsOf(t, d)
  BY DEF SubsOf
<1>3. n < n + 1 /\ \A p \in DOMAIN t.dirs[d] : p < n + 1 <=> p <= n
  BY <1>1
<1>4. \A p \in DOMAIN t.dirs[d] : p < n + 1 /\ <<d, p>> \in M => \E q \in SubsOf(t, d) : q >= p /\ q < n + 1
  BY <1>1, <1>2, <1>3
<1>5. \A p \in SubsOf(t, d) : p < n + 1 /\ (\A q \in SubsOf(t, d) : q < n + 1 => q <= p) <=> p = n
  BY <1>1, <1>2, <1>3
<1> QED
  BY <1>2, <1>4, <1>5 DEF QuietTo

LEMMA QuietLast ==
  ASSUME NEW t, IsTree(t), NEW d \in DOMAIN t.dirs, NEW M, NEW n \in Nat, n > Len(t.dirs[d])
  PROVE  QuietTo(t, M, d, n) <=> Quiet(t, M, d)
<1>1. /\ \A p \in DOMAIN t.dirs[d] : p \in Nat /\ p < n
      /\ SubsOf(t, d) \subseteq DOMAIN t.dirs[d]
  BY TreeShape DEF SubsOf
<1> DEFINE LastSub(p) == p \in SubsOf(t, d) /\ \A q \in SubsOf(t, d) : q <= p
<1>2. QuietTo(t, M, d, n) <=> NoneBehind(t, M, d) /\ \A p : LastSub(p) => Quiet(t, M, Leads(t, <<d, p>>))
  <2>1. (\A p \in DOMAIN t.dirs[d] : p < n /\ <<d, p>> \in M => \E q \in SubsOf(t, d) : q >= p /\ q < n)
        <=> NoneBehind(t, M, d)
    BY <1>1, Zenon DEF NoneBehind
  <2>2. (\A p \in SubsOf(t, d) : p < n /\ (\A q \in SubsOf(t, d) : q < n => q <= p) => Quiet(t, M, Leads(t, <<d, p>>)))
        <=> \A p : LastSub(p) => Quiet(t, M, Leads(t, <<d, p>>))
    BY <1>1, Zenon
  <2> QED
    BY <2>1, <2>2 DEF QuietTo
<1>3. ASSUME NoneBehind(t, M, d), \A p : LastSub(p) => Quiet(t, M, Leads(t, <<d, p>>))
      PROVE  Quiet(t, M, d)
  <2>1. CASE \E p : LastSub(p)
    <3>1. PICK p : LastSub(p)
      BY <2>1
    <3>2. PICK X \in SUBSET DOMAIN t.dirs : Leads(t, <<d, p>>) \in X /\ Closed(t, X) /\ \A c \in X : NoneBehind(t, M, c)
      BY <1>3, <3>1 DEF Quiet
    <3>3. \A q : LastSub(q) => q = p
      BY <1>1, <3>1
    <3>4. Closed(t, X \cup {d})
      <4>1. ASSUME NEW c \in X \cup {d}, NEW q \in SubsOf(t, c), \A r \in SubsOf(t, c) : r <= q
            PROVE  Leads(t, <<c, q>>) \in X
        <5>1. CASE c = d
          BY <3>2, <3>3, <4>1, <5>1
        <5>2. CASE c \in X
          BY <3>2, <4>1, <5>2 DEF Closed
        <5> QED
          BY <5>1, <5>2
      <4> QED
        BY <4>1 DEF Closed
    <3>5. X \cup {d} \in SUBSET DOMAIN t.dirs /\ d \in X \cup {d} /\ \A c \in X \cup {d} : NoneBehind(t, M, c)
      BY <1>3, <3>2
    <3> QED
      BY <3>4, <3>5 DEF Quiet
  <2>2. CASE ~ \E p : LastSub(p)
    <3>1. Closed(t, {d})
      BY <2>2 DEF Closed
    <3> QED
      BY <1>3, <3>1 DEF Quiet
  <2> QED
    BY <2>1, <2>2
<1>4. ASSUME Quiet(t, M, d)
      PROVE  NoneBehind(t, M, d) /\ \A p : LastSub(p) => Quiet(t, M, Leads(t, <<d, p>>))
  <2>1. PICK X \in SUBSET DOMAIN t.dirs : d \in X /\ Closed(t, X) /\ \A c \in X : NoneBehind(t, M, c)
    BY <1>4 DEF Quiet
  <2>2. \A p : LastSub(p) => Leads(t, <<d, p>>) \in X
    BY <2>1 DEF Closed
  <2> QED
    BY <2>1, <2>2 DEF Quiet
<1> QED
  BY <1>2, <1>3, <1>4

(* From the root it is what is said of the directories the walk leaves by.    *)
LEMMA QuietRoot ==
  ASSUME IsTree(tree), NEW M
  PROVE  Quiet(tree, M, 1) <=> \A d \in LastDirs : NoneBehind(tree, M, d)
<1>1. \A d : Subs(d) = SubsOf(tree, d)
  BY DEF Subs, SubsOf, Below
<1>2. \A X : WithLast(X) <=> Closed(tree, X)
  BY <1>1, Zenon DEF WithLast, Closed, Below
<1>3. LastDirs = {d \in DOMAIN tree.dirs : \A X \in SUBSET DOMAIN tree.dirs : 1 \in X /\ Closed(tree, X) => d \in X}
  BY <1>2, Zenon DEF LastDirs
<1>4. LastDirs \in SUBSET DOMAIN tree.dirs /\ 1 \in LastDirs
  BY <1>3, TreeShape
<1>5. ASSUME NEW c \in LastDirs, NEW p \in SubsOf(tree, c), \A q \in SubsOf(tree, c) : q <= p
      PROVE  Leads(tree, <<c, p>>) \in LastDirs
  <2>1. <<c, p>> \in Places(tree) /\ Leads(tree, <<c, p>>) # 0
    BY <1>4, PlaceIs DEF SubsOf
  <2>2. Leads(tree, <<c, p>>) \in DOMAIN tree.dirs
    BY <2>1, LeadsOn
  <2>3. ASSUME NEW X \in SUBSET DOMAIN tree.dirs, 1 \in X, Closed(tree, X)
        PROVE  Leads(tree, <<c, p>>) \in X
    <3>1. c \in X
      BY <1>3, <2>3
    <3> QED
      BY <1>5, <2>3, <3>1 DEF Closed
  <2> QED
    BY <1>3, <2>2, <2>3
<1>6. Closed(tree, LastDirs)
  BY <1>5 DEF Closed
<1>7. ASSUME NEW X \in SUBSET DOMAIN tree.dirs, 1 \in X, Closed(tree, X)
      PROVE  LastDirs \subseteq X
  BY <1>3, <1>7
<1> QED
  BY <1>4, <1>6, <1>7 DEF Quiet

-----------------------------------------------------------------------------
(* The entries the walk looks for. *)
Asked == {e \in Entries : Name(e) \notin {".", ".."} /\ Matches(Name(e))}

(* While find walks. *)
Walk ==
  /\ Stack(tree, frames)
  /\ \E P : Passed(tree, frames, P) /\ Range(reported) = P \cap Asked
  /\ Ordered(tree, reported)
  /\ mode = "-e" => (Last(frames).output = 0 <=> QuietTo(tree, Asked, Last(frames).dir, Last(frames).pos))

FindInv ==
  /\ FindTypeOK
  /\ fd_pc = "start" => frames = <<>> /\ opened = 0 /\ reported = <<>>
  /\ fd_pc # "start" => IsTree(tree) /\ reported \in Seq(Places(tree))
  /\ fd_pc = "walking" => Walk
  /\ EveryEntryOnce /\ MissingIsSaid

LEMMA FindConstants ==
  MaxOpen \in Nat /\ \A t \in Trees : IsTree(t)
BY FindAssumption

LEMMA FindInitial ==
  ASSUME FindInit PROVE FindInv
<1>1. fd_pc = "start" /\ frames = <<>> /\ opened = 0 /\ reported = <<>>
  BY DEF FindInit
<1>2. FindTypeOK
  BY <1>1, FindConstants DEF FindTypeOK
<1>3. EveryEntryOnce /\ MissingIsSaid
  BY <1>1 DEF EveryEntryOnce, MissingIsSaid, IsInjective
<1> QED
  BY <1>1, <1>2, <1>3 DEF FindInv

LEMMA FindStutter ==
  ASSUME FindInv, UNCHANGED findVars PROVE FindInv'
<1>0. UNCHANGED <<fd_pc, tree, mode, file_name, frames, opened, reported, said>>
  BY DEF findVars
<1>1. FindTypeOK'
  BY <1>0, Zenon DEF FindInv, FindTypeOK
<1>2. /\ Asked' = Asked
      /\ \A e : Name(e)' = Name(e)
      /\ \A d : Subs(d)' = Subs(d)
  BY <1>0 DEF Asked, Entries, Name, Below, Matches, Subs
<1>3. fd_pc = "walking" => Walk'
  BY <1>0, <1>2, Zenon DEF FindInv, Walk
<1>4. EveryEntryOnce'
  BY <1>0 DEF FindInv, EveryEntryOnce, Asked, Entries, Name, Below, Matches
<1>5. MissingIsSaid'
  <2>1. LastDirs' = LastDirs
    BY <1>0, <1>2 DEF LastDirs, WithLast, Below
  <2>2. MissingIsSaid
    BY DEF FindInv
  <2> QED
    BY <1>0, <1>2, <2>1, <2>2, Zenon DEF MissingIsSaid
<1> QED
  BY <1>0, <1>1, <1>3, <1>4, <1>5 DEF FindInv

(* The tree, and what is looked for, stay. *)
LEMMA SameTree ==
  ASSUME UNCHANGED <<tree, mode, file_name>>
  PROVE  /\ Asked' = Asked /\ Entries' = Entries
         /\ \A e : Name(e)' = Name(e) /\ Below(e)' = Below(e)
BY DEF Asked, Entries, Name, Below, Matches

(* What the walk needs and promises when it is not at its end.               *)
LEMMA OrderedInjective ==
  ASSUME NEW t, NEW r, Ordered(t, r) PROVE IsInjective(r)
BY DEF Ordered, IsInjective

(* The calls are those of FindTypeOK. *)
LEMMA StackTypes ==
  ASSUME NEW t, IsTree(t), NEW f, Stack(t, f)
  PROVE  \A n \in DOMAIN f :
           /\ f[n].dir \in DOMAIN t.dirs /\ f[n].output \in {0, 1}
           /\ f[n].pos \in 1..(Len(t.dirs[f[n].dir]) + 1)
<1>1. ASSUME NEW n \in DOMAIN f
      PROVE  f[n].pos \in 1..(Len(t.dirs[f[n].dir]) + 1)
  <2>1. f[n].pos \in Nat /\ Len(t.dirs[f[n].dir]) \in Nat
    BY TopIs, TreeShape
  <2> QED
    BY <2>1 DEF Stack
<1> QED
  BY <1>1, TopIs

LEMMA FirstStack ==
  ASSUME NEW t, IsTree(t)
  PROVE  LET f == Append(<<>>, [dir |-> 1, pos |-> 1, output |-> 0]) IN
         /\ Stack(t, f) /\ Passed(t, f, {}) /\ Len(f) = 1
         /\ Last(f).dir = 1 /\ Last(f).pos = 1 /\ Last(f).output = 0
<1> DEFINE x == [dir |-> 1, pos |-> 1, output |-> 0]
           f == Append(<<>>, x)
<1>1. f = <<x>> /\ Len(f) = 1 /\ DOMAIN f = {1} /\ f[1] = x /\ Last(f) = x
  BY DEF Last
<1>2. x \in Frames(t) /\ 1 \in DOMAIN t.dirs /\ Len(t.dirs[1]) \in Nat
  BY TreeShape DEF Frames
<1>3. f \in Seq(Frames(t)) /\ f # <<>>
  BY <1>1, <1>2
<1> HIDE DEF f
<1>4. f[1].dir = 1 /\ f[1].pos = 1 /\ f[1].output = 0
  BY <1>1
<1> HIDE DEF x
<1>5. Stack(t, f)
  BY <1>1, <1>2, <1>3, <1>4 DEF Stack
<1>6. \A p \in DOMAIN t.dirs[1] : ~ (p < 1)
  BY <1>2, TreeShape
<1>7. Passed(t, f, {})
  BY <1>1, <1>4, <1>6 DEF Passed
<1> QED
  BY <1>1, <1>4, <1>5, <1>7 DEF f, x

LEMMA StartFindStep ==
  ASSUME FindInv, start_find
  PROVE  FindInv'
<1> DEFINE x == [dir |-> 1, pos |-> 1, output |-> 0]
<1>1. /\ fd_pc = "start" /\ frames = <<>> /\ opened = 0 /\ reported = <<>> /\ opened <= MaxOpen
      /\ MaxOpen \in Nat
  BY FindConstants DEF start_find, FindInv, FindTypeOK
<1>2. /\ tree' \in Trees /\ rec(tree', 1, <<>>) /\ UNCHANGED <<reported, said>>
  BY DEF start_find
<1>3. IsTree(tree') /\ reported' = <<>> /\ reported' \in Seq(Places(tree'))
  BY <1>1, <1>2, FindConstants
<1>4. IsInjective(reported)'
  BY <1>3 DEF IsInjective
<1>5. CASE ~ OpensDir(tree', 1)
  <2>1. frames' = <<>> /\ fd_pc' = "spinning" /\ opened' = 0
    BY <1>1, <1>2, <1>5 DEF rec
  <2>2. FindTypeOK'
    BY <1>1, <2>1 DEF FindTypeOK
  <2> QED
    BY <1>3, <1>4, <2>1, <2>2 DEF FindInv, EveryEntryOnce, MissingIsSaid
<1>6. CASE OpensDir(tree', 1)
  <2>1. frames' = Append(<<>>, x) /\ fd_pc' = "walking" /\ opened' = 1 /\ 1 <= MaxOpen
    BY <1>1, <1>2, <1>6 DEF rec, OpensDir
  <2>2. /\ Stack(tree', frames') /\ Passed(tree', frames', {}) /\ Len(frames') = 1
        /\ Last(frames').dir = 1 /\ Last(frames').pos = 1 /\ Last(frames').output = 0
    BY <1>3, <2>1, FirstStack
  <2>3. FindTypeOK'
    <3>1. \A n \in DOMAIN frames' : /\ frames'[n].dir \in DOMAIN tree'.dirs /\ frames'[n].output \in {0, 1}
                                    /\ frames'[n].pos \in 1..(Len(tree'.dirs[frames'[n].dir]) + 1)
      BY <1>3, <2>2, StackTypes
    <3> QED
      BY <1>1, <2>1, <2>2, <3>1 DEF FindTypeOK
  <2>4. Range(reported') = {}
    BY <1>3 DEF Range
  <2>5. Ordered(tree', reported')
    BY <1>3 DEF Ordered
  <2>6. QuietTo(tree', Asked', Last(frames').dir, Last(frames').pos)
    BY <1>3, <2>2, TreeShape, QuietFirst
  <2>7. Walk'
    BY <2>2, <2>4, <2>5, <2>6 DEF Walk
  <2> QED
    BY <1>3, <1>4, <2>1, <2>3, <2>7 DEF FindInv, EveryEntryOnce, MissingIsSaid
<1> QED
  BY <1>5, <1>6

LEMMA RangeAppended ==
  ASSUME NEW S, NEW r \in Seq(S), NEW e \in S
  PROVE  Append(r, e) \in Seq(S) /\ Range(Append(r, e)) = Range(r) \cup {e}
<1> DEFINE s == Append(r, e)
<1>1. /\ s \in Seq(S) /\ Len(r) \in Nat /\ DOMAIN r = 1 .. Len(r) /\ DOMAIN s = 1 .. Len(r) + 1
      /\ s[Len(r) + 1] = e /\ \A i \in 1 .. Len(r) : s[i] = r[i]
  BY AppendProperties
<1> HIDE DEF s
<1>2. \A i \in DOMAIN s : i \in DOMAIN r \/ i = Len(r) + 1
  BY <1>1
<1>3. Len(r) + 1 \in DOMAIN s /\ DOMAIN r \subseteq DOMAIN s
  BY <1>1
<1>4. Range(s) = Range(r) \cup {e}
  BY <1>1, <1>2, <1>3 DEF Range
<1> QED
  BY <1>1, <1>4 DEF s

(* The entry of the walk, in the terms of the lemmas.                         *)
LEMMA EntryIs ==
  ASSUME IsTree(tree), Stack(tree, frames), Here.pos <= Len(tree.dirs[Here.dir])
  PROVE  /\ At(frames) = <<Here.dir, Here.pos>> /\ At(frames) \in Places(tree)
         /\ Here.dir \in DOMAIN tree.dirs /\ Here.pos \in DOMAIN tree.dirs[Here.dir] /\ Here.pos \in Nat
         /\ (Entry.name \notin {".", ".."} /\ Matches(Entry.name)) <=> At(frames) \in Asked
         /\ Descends <=> Leads(tree, At(frames)) # 0
         /\ Descends => Leads(tree, At(frames)) = Entry.dir
<1> DEFINE n == Len(frames)
<1>1. Here = frames[n] /\ n \in DOMAIN frames
  BY TopIs DEF Here
<1>2. Here.dir \in DOMAIN tree.dirs /\ Here.pos \in Nat /\ Here.pos >= 1
  BY <1>1, TopIs DEF Stack
<1>3. Here.pos \in DOMAIN tree.dirs[Here.dir]
  BY <1>2, TreeShape
<1>4. At(frames) = <<Here.dir, Here.pos>>
  BY DEF At, Here
<1>5. At(frames) \in Places(tree)
  BY <1>2, <1>3, <1>4, PlaceIs
<1>6. At(frames)[1] = Here.dir /\ At(frames)[2] = Here.pos
  BY <1>4
<1>7. Name(At(frames)) = Entry.name
  BY <1>6 DEF Name, Entry
<1>8. (Entry.name \notin {".", ".."} /\ Matches(Entry.name)) <=> At(frames) \in Asked
  BY <1>5, <1>7 DEF Asked, Entries
<1>9. Leads(tree, At(frames)) = IF Entry.name \in {".", ".."} THEN 0 ELSE Entry.dir
  BY <1>6 DEF Leads, Entry
<1> QED
  BY <1>2, <1>3, <1>4, <1>5, <1>8, <1>9 DEF Descends

(* One entry: what is passed grows by it, what is reported when it is asked.  *)
LEMMA EntryPassed ==
  ASSUME FindInv, next_entry
  PROVE  \E o \in {0, 1} : \E P :
           /\ Passed(tree, frames, P) /\ Range(reported) = P \cap Asked
           /\ o = IF At(frames) \in Asked /\ mode = "-e" THEN 1 ELSE Here.output
           /\ reported' \in Seq(Places(tree)) /\ Ordered(tree, reported')
           /\ Range(reported') = (P \cup {At(frames)}) \cap Asked
           /\ Leads(tree, At(frames)) # 0 => rec(tree, Leads(tree, At(frames)), Moved(frames, o))
           /\ Leads(tree, At(frames)) = 0 => frames' = Moved(frames, o) /\ UNCHANGED <<fd_pc, opened>>
<1> DEFINE e == At(frames)
           o == IF e \in Asked /\ mode = "-e" THEN 1 ELSE Here.output
<1>1. IsTree(tree) /\ Walk /\ reported \in Seq(Places(tree)) /\ Here.pos <= Len(tree.dirs[Here.dir])
  BY DEF FindInv, next_entry
<1>2. Stack(tree, frames) /\ Ordered(tree, reported)
  BY <1>1 DEF Walk
<1>3. PICK P : Passed(tree, frames, P) /\ Range(reported) = P \cap Asked
  BY <1>1 DEF Walk
<1>4. /\ e \in Places(tree)
      /\ (Entry.name \notin {".", ".."} /\ Matches(Entry.name)) <=> e \in Asked
      /\ Descends <=> Leads(tree, e) # 0
      /\ Descends => Leads(tree, e) = Entry.dir
  BY <1>1, <1>2, EntryIs
<1>5. o \in {0, 1}
  <2>1. Here.output \in {0, 1}
    BY <1>1, <1>2, TopIs DEF Here
  <2> QED
    BY <2>1
<1>6. /\ reported' = IF e \in Asked THEN Append(reported, <<Here.dir, Here.pos>>) ELSE reported
      /\ IF Leads(tree, e) # 0
         THEN rec(tree, Entry.dir, Moved(frames, o))
         ELSE frames' = Moved(frames, o) /\ UNCHANGED <<fd_pc, opened>>
  BY <1>4, Zenon DEF next_entry, Moved
<1>7. e = <<Here.dir, Here.pos>>
  BY DEF At, Here
<1>8. Here = Last(frames)
  BY DEF Here
<1>9. CASE e \in Asked
  <2>1. reported' = Append(reported, e)
    BY <1>6, <1>7, <1>9
  <2>2. Ordered(tree, reported')
    BY <1>1, <1>2, <1>3, <1>8, <2>1, OrderedAppend
  <2>3. reported' \in Seq(Places(tree)) /\ Range(reported') = Range(reported) \cup {e}
    BY <1>1, <1>4, <2>1, RangeAppended
  <2>4. Range(reported') = (P \cup {e}) \cap Asked
    BY <1>3, <1>9, <2>3
  <2> QED
    BY <1>3, <1>4, <1>5, <1>6, <2>2, <2>3, <2>4
<1>10. CASE e \notin Asked
  <2>1. reported' = reported
    BY <1>6, <1>10
  <2>2. Range(reported') = (P \cup {e}) \cap Asked
    BY <1>3, <1>10, <2>1
  <2> QED
    BY <1>1, <1>2, <1>3, <1>4, <1>5, <1>6, <2>1, <2>2
<1> QED
  BY <1>9, <1>10

LEMMA NextEntryStep ==
  ASSUME FindInv, next_entry
  PROVE  FindInv'
<1> DEFINE e == At(frames)
           d == Leads(tree, e)
<1>1. /\ IsTree(tree) /\ Walk /\ Stack(tree, frames) /\ Here.pos <= Len(tree.dirs[Here.dir])
      /\ fd_pc = "walking" /\ Here = Last(frames)
      /\ opened \in 0 .. MaxOpen /\ Len(frames) <= opened /\ MaxOpen \in Nat
      /\ mode = "-e" => (Here.output = 0 <=> QuietTo(tree, Asked, Here.dir, Here.pos))
  BY FindConstants DEF FindInv, next_entry, Walk, FindTypeOK, Here
<1>0. PICK o \in {0, 1} : \E P :
        /\ Passed(tree, frames, P) /\ Range(reported) = P \cap Asked
        /\ o = IF e \in Asked /\ mode = "-e" THEN 1 ELSE Here.output
        /\ reported' \in Seq(Places(tree)) /\ Ordered(tree, reported')
        /\ Range(reported') = (P \cup {e}) \cap Asked
        /\ d # 0 => rec(tree, d, Moved(frames, o))
        /\ d = 0 => frames' = Moved(frames, o) /\ UNCHANGED <<fd_pc, opened>>
  BY EntryPassed
<1>2. PICK P :
        /\ Passed(tree, frames, P) /\ Range(reported) = P \cap Asked
        /\ o = IF e \in Asked /\ mode = "-e" THEN 1 ELSE Here.output
        /\ reported' \in Seq(Places(tree)) /\ Ordered(tree, reported')
        /\ Range(reported') = (P \cup {e}) \cap Asked
        /\ d # 0 => rec(tree, d, Moved(frames, o))
        /\ d = 0 => frames' = Moved(frames, o) /\ UNCHANGED <<fd_pc, opened>>
  BY <1>0
<1>3. /\ e = <<Here.dir, Here.pos>> /\ e \in Places(tree)
      /\ Here.dir \in DOMAIN tree.dirs /\ Here.pos \in DOMAIN tree.dirs[Here.dir] /\ Here.pos \in Nat
  BY <1>1, EntryIs
<1>4. /\ UNCHANGED <<tree, mode, file_name, said>> /\ Asked' = Asked
  BY SameTree DEF next_entry
<1>5. IsInjective(reported)'
  BY <1>2, OrderedInjective
<1>6. /\ Len(frames) \in Nat /\ Len(frames) >= 1 /\ DOMAIN frames = 1 .. Len(frames)
      /\ Here = frames[Len(frames)]
  BY <1>1, TopIs
<1>7. /\ Len(Moved(frames, o)) = Len(frames) /\ DOMAIN Moved(frames, o) = DOMAIN frames
      /\ Moved(frames, o)[Len(frames)] = [dir |-> Here.dir, pos |-> Here.pos + 1, output |-> o]
      /\ Stack(tree, Moved(frames, o))
  <2>1. Stack(tree, Moved(frames, o))
    BY <1>1, <1>6, StackMoved
  <2>2. /\ Len(Moved(frames, o)) = Len(frames) /\ DOMAIN Moved(frames, o) = DOMAIN frames
        /\ Moved(frames, o)[Len(frames)] =
             [dir |-> frames[Len(frames)].dir, pos |-> frames[Len(frames)].pos + 1, output |-> o]
    BY <1>1, MovedIs
  <2> QED
    BY <1>6, <2>1, <2>2
<1> HIDE DEF e, d
<1>8. CASE d # 0 /\ ~ OpensDir(tree, d)
  <2>1. frames' = Moved(frames, o) /\ fd_pc' = "spinning" /\ opened' = opened
    BY <1>2, <1>8 DEF rec
  <2>2. FindTypeOK'
    <3>1. \A n \in DOMAIN frames' : /\ frames'[n].dir \in DOMAIN tree'.dirs /\ frames'[n].output \in {0, 1}
                                    /\ frames'[n].pos \in 1..(Len(tree'.dirs[frames'[n].dir]) + 1)
      BY <1>1, <1>4, <1>7, <2>1, StackTypes
    <3> QED
      BY <1>1, <1>7, <2>1, <3>1 DEF FindTypeOK
  <2> QED
    BY <1>1, <1>2, <1>4, <1>5, <2>1, <2>2 DEF FindInv, EveryEntryOnce, MissingIsSaid
<1>9. CASE d # 0 /\ OpensDir(tree, d)
  <2>1. frames' = Entered(Moved(frames, o), d) /\ fd_pc' = "walking" /\ opened' = opened + 1 /\ opened < MaxOpen
    BY <1>2, <1>9 DEF rec, OpensDir, Entered
  <2>2. Stack(tree, frames') /\ Passed(tree, frames', P \cup {e})
    BY <1>1, <1>2, <1>9, <2>1, PassedEntered DEF d, e
  <2>3. d \in DOMAIN tree.dirs
    BY <1>1, <1>3, <1>9, LeadsOn DEF d
  <2>4. Len(frames') = Len(frames) + 1 /\ Last(frames') = [dir |-> d, pos |-> 1, output |-> 0]
    BY <1>1, <1>7, <2>1, <2>3, EnteredIs DEF Last
  <2>5. QuietTo(tree, Asked, d, 1)
    BY <1>1, <2>3, QuietFirst
  <2>6. Walk'
    BY <1>2, <1>4, <2>2, <2>4, <2>5 DEF Walk
  <2>7. FindTypeOK'
    <3>1. \A n \in DOMAIN frames' : /\ frames'[n].dir \in DOMAIN tree'.dirs /\ frames'[n].output \in {0, 1}
                                    /\ frames'[n].pos \in 1..(Len(tree'.dirs[frames'[n].dir]) + 1)
      BY <1>1, <1>4, <2>2, StackTypes
    <3> QED
      BY <1>1, <1>6, <2>1, <2>4, <3>1 DEF FindTypeOK
  <2> QED
    BY <1>1, <1>2, <1>4, <1>5, <2>1, <2>6, <2>7 DEF FindInv, EveryEntryOnce, MissingIsSaid
<1>10. CASE d = 0
  <2>1. frames' = Moved(frames, o) /\ fd_pc' = "walking" /\ opened' = opened
    BY <1>1, <1>2, <1>10
  <2>2. Passed(tree, frames', P \cup {e})
    BY <1>1, <1>2, <1>10, <2>1, PassedMoved DEF d, e
  <2>3. Last(frames') = [dir |-> Here.dir, pos |-> Here.pos + 1, output |-> o]
    BY <1>7, <2>1 DEF Last
  <2>4. ASSUME mode = "-e"
        PROVE  o = 0 <=> QuietTo(tree, Asked, Here.dir, Here.pos + 1)
    <3>1. QuietTo(tree, Asked, Here.dir, Here.pos + 1) <=> e \notin Asked /\ QuietTo(tree, Asked, Here.dir, Here.pos)
      BY <1>1, <1>3, <1>10, QuietFile DEF d
    <3> QED
      BY <1>1, <1>2, <2>4, <3>1
  <2>5. Walk'
    BY <1>2, <1>4, <1>7, <2>1, <2>2, <2>3, <2>4 DEF Walk
  <2>6. FindTypeOK'
    <3>1. \A n \in DOMAIN frames' : /\ frames'[n].dir \in DOMAIN tree'.dirs /\ frames'[n].output \in {0, 1}
                                    /\ frames'[n].pos \in 1..(Len(tree'.dirs[frames'[n].dir]) + 1)
      BY <1>1, <1>4, <1>7, <2>1, StackTypes
    <3> QED
      BY <1>1, <1>7, <2>1, <3>1 DEF FindTypeOK
  <2> QED
    BY <1>1, <1>2, <1>4, <1>5, <2>1, <2>5, <2>6 DEF FindInv, EveryEntryOnce, MissingIsSaid
<1> QED
  BY <1>8, <1>9, <1>10

LEMMA ReturnStep ==
  ASSUME FindInv, return_from_rec
  PROVE  FindInv'
<1> DEFINE n == Len(frames)
<1>1. /\ IsTree(tree) /\ Walk /\ Stack(tree, frames) /\ Here.pos > Len(tree.dirs[Here.dir])
      /\ fd_pc = "walking" /\ Here = Last(frames)
      /\ opened \in 0 .. MaxOpen /\ n <= opened /\ MaxOpen \in Nat
      /\ mode = "-e" => (Here.output = 0 <=> QuietTo(tree, Asked, Here.dir, Here.pos))
      /\ reported \in Seq(Places(tree)) /\ Ordered(tree, reported) /\ IsInjective(reported)
  BY FindConstants DEF FindInv, return_from_rec, Walk, FindTypeOK, Here, EveryEntryOnce
<1>2. PICK P : Passed(tree, frames, P) /\ Range(reported) = P \cap Asked
  BY <1>1 DEF Walk
<1>3. UNCHANGED <<tree, mode, file_name, opened, reported>> /\ Asked' = Asked
  BY SameTree DEF return_from_rec
<1>4. /\ n \in Nat /\ n >= 1 /\ DOMAIN frames = 1 .. n /\ Here = frames[n]
      /\ Here.dir \in DOMAIN tree.dirs /\ Here.pos \in Nat
  BY <1>1, TopIs
<1>5. mode = "-e" => (Here.output = 0 <=> Quiet(tree, Asked, Here.dir))
  BY <1>1, <1>4, QuietLast
<1>6. CASE n > 1
  <2>1. frames' = Left(frames) /\ UNCHANGED <<fd_pc, said>>
    BY <1>6, Zenon DEF return_from_rec, Left, Here
  <2>2. Stack(tree, frames') /\ Passed(tree, frames', P)
    BY <1>1, <1>2, <1>6, <2>1, StackLeft, PassedLeft
  <2>3. /\ Len(frames') = n - 1 /\ Last(frames').dir = frames[n - 1].dir
        /\ Last(frames').pos = frames[n - 1].pos /\ Last(frames').output = Here.output
    <3>1. n - 1 \in 1 .. n - 1
      BY <1>4, <1>6
    <3> QED
      <4>1. /\ frames' \in Seq(Frames(tree)) /\ Len(frames') = n - 1
            /\ frames'[n - 1].dir = frames[n - 1].dir /\ frames'[n - 1].pos = frames[n - 1].pos
            /\ frames'[n - 1].output = frames[n].output
        BY <1>1, <1>4, <1>6, <2>1, <3>1, LeftIs
      <4>2. Last(frames') = frames'[n - 1]
        BY <4>1 DEF Last
      <4> QED
        BY <1>1, <1>4, <4>1, <4>2
  <2>4. ASSUME mode = "-e"
        PROVE  Last(frames').output = 0 <=> QuietTo(tree, Asked, frames[n - 1].dir, frames[n - 1].pos)
    <3> DEFINE c == frames[n - 1].dir
               p == frames[n - 1].pos - 1
    <3>1. n - 1 \in DOMAIN frames /\ (n - 1) + 1 = n /\ n \in DOMAIN frames
      BY <1>4, <1>6
    <3>2. frames[n - 1].pos > 1 /\ Leads(tree, <<c, p>>) = Here.dir
      BY <1>1, <1>4, <3>1 DEF Stack
    <3>3. /\ c \in DOMAIN tree.dirs /\ frames[n - 1].pos \in Nat
          /\ frames[n - 1].pos <= Len(tree.dirs[c]) + 1
      BY <1>1, <3>1, TopIs DEF Stack
    <3>4. p \in DOMAIN tree.dirs[c] /\ p + 1 = frames[n - 1].pos
      <4>1. Len(tree.dirs[c]) \in Nat /\ DOMAIN tree.dirs[c] = 1 .. Len(tree.dirs[c])
        BY <1>1, <3>3, TreeShape
      <4>2. p \in 1 .. Len(tree.dirs[c]) /\ p + 1 = frames[n - 1].pos
        BY <3>2, <3>3, <4>1
      <4> QED
        BY <4>1, <4>2, Zenon
    <3>5. Leads(tree, <<c, p>>) # 0
      BY <1>1, <1>4, <3>2, TreeShape
    <3> HIDE DEF c, p
    <3>6. QuietTo(tree, Asked, c, p + 1) <=> Quiet(tree, Asked, Leads(tree, <<c, p>>))
      BY <1>1, <3>3, <3>4, <3>5, QuietSub
    <3>7. QuietTo(tree, Asked, c, frames[n - 1].pos) <=> Quiet(tree, Asked, Here.dir)
      BY <3>2, <3>4, <3>6
    <3> QED
      BY <1>5, <2>3, <2>4, <3>7 DEF c
  <2>5. Walk'
    BY <1>1, <1>2, <1>3, <2>2, <2>3, <2>4 DEF Walk
  <2>6. FindTypeOK'
    <3>1. \A k \in DOMAIN frames' : /\ frames'[k].dir \in DOMAIN tree'.dirs /\ frames'[k].output \in {0, 1}
                                    /\ frames'[k].pos \in 1..(Len(tree'.dirs[frames'[k].dir]) + 1)
      BY <1>1, <1>3, <2>2, StackTypes
    <3> QED
      BY <1>1, <1>3, <1>4, <2>1, <2>3, <3>1 DEF FindTypeOK
  <2> QED
    BY <1>1, <1>3, <2>1, <2>5, <2>6 DEF FindInv, EveryEntryOnce, MissingIsSaid
<1>7. CASE n = 1
  <2>1. frames' = <<>> /\ fd_pc' = "ended" /\ said' = (mode = "-e" /\ Here.output = 0)
    BY <1>7 DEF return_from_rec
  <2>2. Range(reported) = Asked
    <3>1. P = Places(tree)
      BY <1>1, <1>2, <1>7, AllPassed
    <3>2. Asked \subseteq Places(tree)
      BY DEF Asked, Entries
    <3> QED
      BY <1>2, <3>1, <3>2
  <2>3. EveryEntryOnce'
    <3>1. Range(reported') = {e \in Entries' : Name(e)' \notin {".", ".."} /\ Matches(Name(e))'}
      BY <1>3, <2>2 DEF Asked
    <3>2. \A i, j \in DOMAIN reported' :
             (\/ reported'[i][1] = reported'[j][1] /\ reported'[i][2] < reported'[j][2]
              \/ Below(reported[i])' = reported'[j][1]) => i < j
      BY <1>1, <1>3 DEF Ordered, Below
    <3> QED
      BY <1>1, <1>3, <3>1, <3>2 DEF EveryEntryOnce
  <2>4. MissingIsSaid'
    <3>1. Here.dir = 1
      BY <1>1, <1>4, <1>7 DEF Stack
    <3>2. said' <=> mode = "-e" /\ \A c \in LastDirs : NoneBehind(tree, Asked, c)
      BY <1>1, <1>5, <2>1, <3>1, QuietRoot
    <3>3. ASSUME mode = "-e", NEW c \in LastDirs
          PROVE  NoneBehind(tree, Asked, c) <=>
                   \A p \in DOMAIN tree.dirs[c] :
                      (Name(<<c, p>>) = file_name /\ Name(<<c, p>>) \notin {".", ".."}) =>
                            \E q \in Subs(c) : q >= p
      <4>1. c \in DOMAIN tree.dirs
        BY DEF LastDirs
      <4>2. Subs(c) = SubsOf(tree, c)
        BY DEF Subs, SubsOf, Below
      <4>3. \A p \in DOMAIN tree.dirs[c] :
              <<c, p>> \in Asked <=> Name(<<c, p>>) = file_name /\ Name(<<c, p>>) \notin {".", ".."}
        BY <1>1, <3>3, <4>1, PlaceIs DEF Asked, Entries, Matches
      <4> QED
        BY <4>2, <4>3, Zenon DEF NoneBehind
    <3>4. /\ LastDirs' = LastDirs /\ \A c : Subs(c)' = Subs(c)
          /\ \A c, p : Name(<<c, p>>)' = Name(<<c, p>>)
      BY <1>3 DEF LastDirs, WithLast, Subs, Below, Name
    <3> QED
      BY <1>3, <3>2, <3>3, <3>4, Zenon DEF MissingIsSaid
  <2>5. FindTypeOK'
    BY <1>1, <1>3, <2>1 DEF FindTypeOK
  <2> QED
    BY <1>1, <1>3, <2>1, <2>3, <2>4, <2>5 DEF FindInv
<1> QED
  BY <1>4, <1>6, <1>7

LEMMA FindStep ==
  ASSUME FindInv, FindNext
  PROVE  FindInv'
BY StartFindStep, NextEntryStep, ReturnStep DEF FindNext

-----------------------------------------------------------------------------
(* hexeditplus.c.                                                            *)

(* The bytes a file may come to hold. *)
Bytes == (UNION {Range(Disk[name]) : name \in Files}) \cup {Val[i] : i \in 1 .. 5} \cup {"zero", "garbage"}

DiskOK == disk \in [Files -> Seq(Bytes)]

LEMMA MinMaxOfTwo ==
  ASSUME NEW a \in Nat, NEW b \in Nat
  PROVE  /\ Min({a, b}) = IF a <= b THEN a ELSE b
         /\ Max({a, b}) = IF a >= b THEN a ELSE b
<1>1. Min({a, b}) \in {a, b} /\ \A y \in {a, b} : Min({a, b}) <= y
  <2>1. {a, b} \subseteq Nat /\ {a, b} # {}
    OBVIOUS
  <2> QED
    BY <2>1, MinIsSmallest, Zenon
<1>2. Max({a, b}) \in {a, b} /\ \A y \in {a, b} : Max({a, b}) >= y
  <2>1. {a, b} \subseteq Nat /\ {a, b} # {} /\ a + b \in Nat /\ \A s \in {a, b} : s <= a + b
    OBVIOUS
  <2>2. \A n \in Nat : (\A s \in {a, b} : s <= n)
             => Max({a, b}) \in {a, b} /\ \A y \in {a, b} : Max({a, b}) >= y
    BY <2>1, MaxIsLargest
  <2> QED
    BY <2>1, <2>2
<1> QED
  BY <1>1, <1>2

(* read gives the bytes from the location on, no further than the file goes.  *)
LEMMA ReadAtIs ==
  ASSUME NEW S, NEW content \in Seq(S), NEW location \in Nat, NEW n \in Nat
  PROVE  LET read == ReadAt(content, location, n)
         IN  /\ read \in Seq(S)
             /\ \A i \in 1 .. n : i <= Len(read) <=> location + i <= Len(content)
             /\ \A i \in 1 .. Len(read) : i <= n /\ read[i] = content[location + i]
<1> DEFINE m == Min({Len(content), location + n})
<1>1. Len(content) \in Nat /\ \A i \in 1 .. Len(content) : content[i] \in S
  BY ElementOfSeq, LenProperties
<1>2. m = IF Len(content) <= location + n THEN Len(content) ELSE location + n
  BY <1>1, MinMaxOfTwo
<1> HIDE DEF m
<1>3. m \in Nat /\ m <= Len(content) /\ m <= location + n
  BY <1>1, <1>2
<1>4. \A i \in (location + 1) .. m : content[i] \in S
  BY <1>1, <1>3
<1>5. LET r == SubSeq(content, location + 1, m)
      IN  /\ r \in Seq(S)
          /\ Len(r) = IF location + 1 <= m THEN m - (location + 1) + 1 ELSE 0
          /\ \A i \in 1 .. m - (location + 1) + 1 : r[i] = content[location + 1 + i - 1]
  BY <1>3, <1>4, SubSeqProperties
<1>6. ReadAt(content, location, n) = SubSeq(content, location + 1, m)
  BY DEF ReadAt, m
<1> DEFINE r == SubSeq(content, location + 1, m)
<1>7. /\ r \in Seq(S)
      /\ Len(r) = IF location + 1 <= m THEN m - location ELSE 0
      /\ \A i \in 1 .. m - location : r[i] = content[location + i]
  <2>1. m - (location + 1) + 1 = m - location /\ \A i \in Int : location + 1 + i - 1 = location + i
    BY <1>3
  <2> QED
    BY <1>5, <2>1
<1> HIDE DEF r
<1>8. /\ r \in Seq(S)
      /\ \A i \in 1 .. n : i <= Len(r) <=> location + i <= Len(content)
      /\ \A i \in 1 .. Len(r) : i <= n /\ r[i] = content[location + i]
  BY <1>1, <1>2, <1>3, <1>7
<1> QED
  BY <1>6, <1>8 DEF r

(* write leaves what is outside of it, and fills a gap with zeros.            *)
LEMMA WrittenAtIs ==
  ASSUME NEW S, "zero" \in S, NEW content \in Seq(S), NEW location \in Nat, NEW bytes \in Seq(S)
  PROVE  LET new == WrittenAt(content, location, bytes)
         IN  /\ new \in Seq(S)
             /\ Len(new) >= Len(content)
             /\ \A i \in 1 .. Len(new) :
                   new[i] = IF i \in (location + 1) .. (location + Len(bytes))
                            THEN bytes[i - location]
                            ELSE IF i <= Len(content) THEN content[i] ELSE "zero"
<1>1. /\ Len(content) \in Nat /\ \A i \in 1 .. Len(content) : content[i] \in S
      /\ Len(bytes) \in Nat /\ \A i \in 1 .. Len(bytes) : bytes[i] \in S
  BY ElementOfSeq, LenProperties
<1>2. CASE bytes = <<>>
  <2>1. WrittenAt(content, location, bytes) = content /\ Len(bytes) = 0
    BY <1>2 DEF WrittenAt
  <2> QED
    BY <1>1, <2>1
<1>3. CASE bytes # <<>>
  <2> DEFINE m == Max({Len(content), location + Len(bytes)})
             at(i) == IF i \in (location + 1) .. (location + Len(bytes))
                      THEN bytes[i - location]
                      ELSE IF i <= Len(content) THEN content[i] ELSE "zero"
             new == [i \in 1 .. m |-> at(i)]
  <2>1. m \in Nat /\ m >= Len(content)
    <3>1. location + Len(bytes) \in Nat
      BY <1>1
    <3>2. m = IF Len(content) >= location + Len(bytes) THEN Len(content) ELSE location + Len(bytes)
      BY <1>1, <3>1, MinMaxOfTwo
    <3> QED
      BY <1>1, <3>1, <3>2
  <2>2. WrittenAt(content, location, bytes) = new
    BY <1>3 DEF WrittenAt
  <2> HIDE DEF m
  <2>3. \A i \in 1 .. m : at(i) \in S
    BY <1>1, <2>1
  <2>4. new \in Seq(S) /\ Len(new) = m
    BY <2>1, <2>3
  <2> QED
    BY <2>1, <2>2, <2>4
<1> QED
  BY <1>2, <1>3

LEMMA BoxIs ==
  ASSUME DiskOK, NEW source \in Files, NEW from \in Nat, NEW length \in Nat
  PROVE  /\ Box(source, from, length) \in Seq(Bytes)
         /\ Len(Box(source, from, length)) = length
         /\ \A i \in 1 .. length :
               Box(source, from, length)[i] =
                  IF from + i <= Len(disk[source]) THEN disk[source][from + i] ELSE "garbage"
<1> DEFINE read == ReadAt(disk[source], from, length)
<1>1. disk[source] \in Seq(Bytes)
  BY DEF DiskOK
<1>2. /\ read \in Seq(Bytes)
      /\ \A i \in 1 .. length : i <= Len(read) <=> from + i <= Len(disk[source])
      /\ \A i \in 1 .. Len(read) : i <= length /\ read[i] = disk[source][from + i]
  BY <1>1, ReadAtIs
<1>3. Box(source, from, length) = [i \in 1 .. length |-> IF i <= Len(read) THEN read[i] ELSE "garbage"]
  BY DEF Box
<1> HIDE DEF read
<1>4. Len(read) \in Nat /\ \A i \in 1 .. Len(read) : read[i] \in Bytes
  BY <1>2, ElementOfSeq, LenProperties
<1>5. "garbage" \in Bytes
  BY DEF Bytes
<1>6. \A i \in 1 .. length : (IF i <= Len(read) THEN read[i] ELSE "garbage") \in Bytes
  BY <1>4, <1>5
<1>7. /\ [i \in 1 .. length |-> IF i <= Len(read) THEN read[i] ELSE "garbage"] \in Seq(Bytes)
      /\ Len([i \in 1 .. length |-> IF i <= Len(read) THEN read[i] ELSE "garbage"]) = length
  BY <1>6
<1> QED
  BY <1>2, <1>3, <1>4, <1>7

HexInv == DiskOK /\ HexTypeOK

LEMMA HexConstants ==
  /\ MaxChoices \in Nat /\ MaxLocation \in Nat /\ MaxLength \in Nat /\ MaxDescriptors \in Nat
  /\ Disk \in [Files -> Seq(UNION {Range(Disk[name]) : name \in Files})]
BY HexEditAssumption DEF Files

LEMMA TypedIs ==
  ASSUME NEW n \in 1 .. 5, NEW read \in BOOLEAN
  PROVE  LET bytes == SubSeq(ValRead(read), 1, n)
         IN  /\ bytes \in Seq(Bytes) /\ Len(bytes) = n
             /\ \A i \in 1 .. n : bytes[i] = IF read THEN Val[i] ELSE "garbage"
<1> DEFINE typed == ValRead(read)
           at(i) == IF read THEN Val[i] ELSE "garbage"
<1>1. \A i \in 1 .. 5 : at(i) \in Bytes
  BY DEF Bytes
<1>2. typed = [i \in 1 .. 5 |-> at(i)]
  <2>1. Val = [i \in 1 .. 5 |-> Val[i]]
    BY DEF Val
  <2> HIDE DEF Val
  <2> QED
    BY <2>1 DEF ValRead
<1> HIDE DEF typed, at
<1>3. \A i \in 1 .. n : typed[i] = at(i) /\ typed[i] \in Bytes
  BY <1>1, <1>2
<1>4. 1 \in Int /\ n \in Int
  OBVIOUS
<1>5. /\ SubSeq(typed, 1, n) \in Seq(Bytes)
      /\ Len(SubSeq(typed, 1, n)) = IF 1 <= n THEN n - 1 + 1 ELSE 0
      /\ \A i \in 1 .. n - 1 + 1 : SubSeq(typed, 1, n)[i] = typed[1 + i - 1]
  BY <1>3, <1>4, SubSeqProperties
<1>6. /\ SubSeq(typed, 1, n) \in Seq(Bytes) /\ Len(SubSeq(typed, 1, n)) = n
      /\ \A i \in 1 .. n : SubSeq(typed, 1, n)[i] = at(i)
  BY <1>3, <1>5
<1> QED
  BY <1>6 DEF typed, at

LEMMA HexInit == HexEditInit => HexInv
<1> SUFFICES ASSUME HexEditInit PROVE HexInv
  OBVIOUS
<1>1. HexTypeOK
  BY HexConstants DEF HexEditInit, HexTypeOK, InputKinds
<1>2. DiskOK
  <2>1. (UNION {Range(Disk[name]) : name \in Files}) \subseteq Bytes
    BY DEF Bytes
  <2>2. Seq(UNION {Range(Disk[name]) : name \in Files}) \subseteq Seq(Bytes)
    BY <2>1, SeqMonotonic
  <2>3. Disk \in [Files -> Seq(Bytes)]
    BY <2>2, HexConstants
  <2> QED
    BY <2>3 DEF HexEditInit, DiskOK
<1> QED
  BY <1>1, <1>2 DEF HexInv

(* Where a step may have changed the bytes of a file.                        *)
WrittenWhereAsked(name) ==
  /\ Len(disk'[name]) >= Len(disk[name])
  /\ \A i \in DOMAIN disk'[name] :
        LET place == i - asked'.to
        IN  \/ disk'[name][i] = Was(name, i)
            \/ /\ name = fileName /\ place \in 1 .. asked'.length
               /\ asked'.op = "copy" =>
                      disk'[name][i] =
                         IF asked'.from + place <= Len(disk[asked'.source])
                         THEN disk[asked'.source][asked'.from + place] ELSE "garbage"
               /\ asked'.op = "modify" =>
                      disk'[name][i] = IF input' = "fine" THEN Val[place] ELSE "garbage"
               /\ asked'.op \in {"copy", "modify"}

(* A file that a step leaves alone.                                          *)
LEMMA LeftAlone ==
  ASSUME DiskOK, NEW name \in Files, disk'[name] = disk[name]
  PROVE  WrittenWhereAsked(name)
<1>1. disk[name] \in Seq(Bytes)
  BY DEF DiskOK
<1>2. Len(disk[name]) \in Nat /\ DOMAIN disk[name] = 1 .. Len(disk[name])
  BY <1>1
<1> QED
  BY <1>2 DEF WrittenWhereAsked, Was

LEMMA DiskUnchanged ==
  ASSUME DiskOK, UNCHANGED disk
  PROVE  DiskOK' /\ \A name \in Files : WrittenWhereAsked(name)
<1>1. DiskOK'
  BY DEF DiskOK
<1> QED
  BY <1>1, LeftAlone

(* A write to the named file, of bytes with a known origin.                  *)
LEMMA WriteStep ==
  ASSUME DiskOK, fileName \in Files, NEW location \in Nat, NEW bytes \in Seq(Bytes),
         disk' = [disk EXCEPT ![fileName] = WrittenAt(@, location, bytes)],
         asked'.to = location, asked'.length = Len(bytes), asked'.op \in {"copy", "modify"},
         asked'.op = "copy" =>
            \A place \in 1 .. Len(bytes) :
               bytes[place] = IF asked'.from + place <= Len(disk[asked'.source])
                              THEN disk[asked'.source][asked'.from + place] ELSE "garbage",
         asked'.op = "modify" =>
            \A place \in 1 .. Len(bytes) :
               bytes[place] = IF input' = "fine" THEN Val[place] ELSE "garbage"
  PROVE  DiskOK' /\ \A name \in Files : WrittenWhereAsked(name)
<1> DEFINE old == disk[fileName]
           new == WrittenAt(old, location, bytes)
<1>1. old \in Seq(Bytes) /\ "zero" \in Bytes
  BY DEF DiskOK, Bytes
<1>2. /\ new \in Seq(Bytes) /\ Len(new) >= Len(old)
      /\ \A i \in 1 .. Len(new) :
            new[i] = IF i \in (location + 1) .. (location + Len(bytes)) THEN bytes[i - location]
                     ELSE IF i <= Len(old) THEN old[i] ELSE "zero"
  <2> HIDE DEF old
  <2> QED
    BY <1>1, WrittenAtIs
<1>3. disk' = [disk EXCEPT ![fileName] = new]
  OBVIOUS
<1> HIDE DEF new
<1>4. disk' \in [Files -> Seq(Bytes)] /\ disk'[fileName] = new
      /\ \A name \in Files : name # fileName => disk'[name] = disk[name]
  BY <1>2, <1>3 DEF DiskOK
<1>5. WrittenWhereAsked(fileName)
  <2>1. DOMAIN new = 1 .. Len(new) /\ Len(new) \in Nat /\ Len(bytes) \in Nat /\ Len(old) \in Nat
    BY <1>1, <1>2
  <2>2. ASSUME NEW i \in 1 .. Len(new), new[i] # Was(fileName, i)
        PROVE  /\ i - location \in 1 .. Len(bytes)
               /\ new[i] = bytes[i - location]
    <3>1. Was(fileName, i) = IF i <= Len(old) THEN old[i] ELSE "zero"
      BY DEF Was
    <3>2. i \in (location + 1) .. (location + Len(bytes))
      BY <1>2, <2>2, <3>1
    <3> QED
      BY <1>2, <2>1, <3>2
  <2>3. ASSUME NEW i \in DOMAIN disk'[fileName]
        PROVE  LET place == i - asked'.to
               IN  \/ disk'[fileName][i] = Was(fileName, i)
                   \/ /\ place \in 1 .. asked'.length
                      /\ asked'.op = "copy" =>
                             disk'[fileName][i] =
                                IF asked'.from + place <= Len(disk[asked'.source])
                                THEN disk[asked'.source][asked'.from + place] ELSE "garbage"
                      /\ asked'.op = "modify" =>
                             disk'[fileName][i] =
                                IF input' = "fine" THEN Val[place] ELSE "garbage"
                      /\ asked'.op \in {"copy", "modify"}
    <3>1. CASE new[i] = Was(fileName, i)
      BY <1>4, <3>1
    <3>2. CASE new[i] # Was(fileName, i)
      <4>1. i \in 1 .. Len(new)
        BY <1>4, <2>1
      <4>2. i - location \in 1 .. Len(bytes) /\ new[i] = bytes[i - location]
        BY <2>2, <3>2, <4>1
      <4> HIDE DEF old
      <4> QED
        BY <1>4, <4>2
    <3> QED
      BY <3>1, <3>2
  <2>4. Len(disk'[fileName]) >= Len(disk[fileName])
    BY <1>2, <1>4
  <2> QED
    BY <2>3, <2>4, Zenon DEF WrittenWhereAsked
<1> QED
  BY <1>4, <1>5, LeftAlone DEF DiskOK

LEMMA ModifyStep ==
  ASSUME HexInv, file_modify
  PROVE  HexInv' /\ \A name \in Files : WrittenWhereAsked(name)
<1>1. PICK location \in Locations :
         IF unitSize = 0 \/ ~ Opens(fileName, descriptors)
         THEN asked' = Nothing /\ UNCHANGED <<disk, descriptors>>
         ELSE IF location = -1
         THEN /\ descriptors' = descriptors + 1
              /\ asked' = Nothing /\ UNCHANGED disk
         ELSE /\ disk' = [disk EXCEPT ![fileName] =
                            WrittenAt(@, location, SubSeq(ValRead(input' = "fine"), 1, unitSize))]
              /\ asked' = [op |-> "modify", source |-> "none", from |-> 0, to |-> location,
                           length |-> unitSize]
              /\ UNCHANGED descriptors
  BY DEF file_modify
<1>2. /\ UNCHANGED <<he_pc, fileName, unitSize, display>>
      /\ choice' \in 0 .. 6 /\ input' \in InputKinds
  BY DEF file_modify, choose, InputAfter, InputKinds
<1>3. CASE unitSize = 0 \/ ~ Opens(fileName, descriptors)
  BY <1>1, <1>2, <1>3, DiskUnchanged DEF HexInv, HexTypeOK
<1>4. CASE ~ (unitSize = 0 \/ ~ Opens(fileName, descriptors)) /\ location = -1
  BY <1>1, <1>2, <1>4, DiskUnchanged, HexConstants DEF HexInv, HexTypeOK, Opens
<1>5. CASE ~ (unitSize = 0 \/ ~ Opens(fileName, descriptors)) /\ location # -1
  <2>1. location \in Nat /\ unitSize \in 1 .. 5 /\ fileName \in Files
    BY <1>5, HexConstants DEF Locations, HexInv, HexTypeOK, Opens
  <2>2. /\ disk' = [disk EXCEPT ![fileName] =
                       WrittenAt(@, location, SubSeq(ValRead(input' = "fine"), 1, unitSize))]
        /\ asked'.to = location /\ asked'.length = unitSize /\ asked'.op = "modify"
        /\ UNCHANGED descriptors
    BY <1>1, <1>5
  <2>3. DiskOK' /\ \A name \in Files : WrittenWhereAsked(name)
    <3> DEFINE bytes == SubSeq(ValRead(input' = "fine"), 1, unitSize)
    <3>1. /\ bytes \in Seq(Bytes) /\ Len(bytes) = unitSize
          /\ \A i \in 1 .. unitSize : bytes[i] = IF input' = "fine" THEN Val[i] ELSE "garbage"
      BY <2>1, TypedIs
    <3>2. disk' = [disk EXCEPT ![fileName] = WrittenAt(@, location, bytes)]
      BY <2>2
    <3> HIDE DEF bytes
    <3> QED
      BY <2>1, <2>2, <3>1, <3>2, WriteStep DEF HexInv
  <2> QED
    BY <1>2, <2>2, <2>3 DEF HexInv, HexTypeOK
<1> QED
  BY <1>3, <1>4, <1>5

LEMMA CopyStep ==
  ASSUME HexInv, file_copy
  PROVE  HexInv' /\ \A name \in Files : WrittenWhereAsked(name)
<1> DEFINE src(source) == Opens(source, descriptors)
           held(source) == descriptors + (IF src(source) THEN 1 ELSE 0)
           dest(source) == Opens(fileName, held(source))
           fails(n) == asked' = Nothing /\ descriptors' = n /\ UNCHANGED <<he_pc, disk>>
<1>1. PICK source \in Files \cup {"missing"}, from \in Locations, to \in Locations,
           length \in 0 .. MaxLength :
         \/ ~ (src(source) /\ dest(source))
            /\ fails(held(source) + (IF dest(source) THEN 1 ELSE 0))
         \/ src(source) /\ dest(source) /\ (from = -1 \/ to = -1) /\ fails(held(source) + 1)
         \/ src(source) /\ dest(source) /\ from # -1 /\ to # -1 /\ copy(source, from, to, length)
         \/ src(source) /\ dest(source) /\ from # -1 /\ to # -1 /\ length > 0
            /\ fails(held(source) + 1)
         \/ /\ src(source) /\ dest(source) /\ from # -1 /\ to # -1 /\ length > 0
            /\ he_pc' = "undefined"
            /\ asked' = Nothing /\ UNCHANGED <<disk, descriptors>>
  BY DEF file_copy
<1>2. /\ UNCHANGED <<fileName, unitSize, display>>
      /\ choice' \in 0 .. 6 /\ input' \in InputKinds
  BY DEF file_copy, choose, InputKinds
<1>3. /\ descriptors \in 0 .. MaxDescriptors /\ MaxDescriptors \in Nat
      /\ held(source) + (IF dest(source) THEN 1 ELSE 0) \in 0 .. MaxDescriptors
  BY HexConstants DEF HexInv, HexTypeOK, Opens
<1>4. CASE UNCHANGED disk
  <2>1. descriptors' \in 0 .. MaxDescriptors /\ he_pc' \in {he_pc, "undefined"}
    BY <1>1, <1>3, <1>4 DEF copy
  <2> QED
    BY <1>2, <1>4, <2>1, DiskUnchanged DEF HexInv, HexTypeOK
<1>5. CASE src(source) /\ dest(source) /\ from # -1 /\ to # -1 /\ copy(source, from, to, length)
  <2> DEFINE bytes == Box(source, from, length)
  <2>1. from \in Nat /\ to \in Nat /\ length \in Nat /\ source \in Files /\ fileName \in Files
    BY <1>5, HexConstants DEF Locations, Opens
  <2>2. /\ bytes \in Seq(Bytes) /\ Len(bytes) = length
        /\ \A i \in 1 .. length :
              bytes[i] = IF from + i <= Len(disk[source]) THEN disk[source][from + i] ELSE "garbage"
    BY <2>1, BoxIs DEF HexInv
  <2>3. /\ disk' = [disk EXCEPT ![fileName] = WrittenAt(@, to, bytes)]
        /\ asked'.source = source /\ asked'.from = from /\ asked'.to = to
        /\ asked'.length = length /\ asked'.op = "copy" /\ UNCHANGED <<he_pc, descriptors>>
    BY <1>5 DEF copy
  <2> HIDE DEF bytes
  <2>4. DiskOK' /\ \A name \in Files : WrittenWhereAsked(name)
    BY <2>1, <2>2, <2>3, WriteStep DEF HexInv
  <2> QED
    BY <1>2, <2>3, <2>4 DEF HexInv, HexTypeOK
<1> QED
  BY <1>1, <1>4, <1>5

LEMMA HexStep ==
  ASSUME HexInv, HexEditNext
  PROVE  HexInv' /\ \A name \in Files : WrittenWhereAsked(name)
<1>1. CASE quit \/ no_such_choice
  BY <1>1, DiskUnchanged DEF quit, no_such_choice, choose, InputKinds, HexInv, HexTypeOK
<1>2. CASE set_file_name
  BY <1>2, DiskUnchanged DEF set_file_name, choose, InputKinds, HexInv, HexTypeOK
<1>3. CASE set_unit_size
  <2>1. unitSize' \in 0 .. 5
    BY <1>3 DEF set_unit_size, HexInv, HexTypeOK
  <2> QED
    BY <1>3, <2>1, DiskUnchanged DEF set_unit_size, choose, InputAfter, InputKinds, HexInv, HexTypeOK
<1>4. CASE file_display
  <2>1. /\ he_pc' \in {he_pc, "undefined"} /\ choice' \in 0 .. 6 /\ input' \in InputKinds
        /\ UNCHANGED <<disk, fileName, unitSize, descriptors>>
    BY <1>4 DEF file_display, choose, InputAfter, InputKinds
  <2> QED
    BY <2>1, DiskUnchanged DEF HexInv, HexTypeOK
<1>5. CASE file_modify
  BY <1>5, ModifyStep
<1>6. CASE file_copy
  BY <1>6, CopyStep
<1> QED
  BY <1>1, <1>2, <1>3, <1>4, <1>5, <1>6 DEF HexEditNext

LEMMA HexStutter ==
  ASSUME HexInv, UNCHANGED hexVars
  PROVE  HexInv'
BY DEF HexInv, DiskOK, HexTypeOK, hexVars

------------------------------------------------------------------------------
(* What is shown.                                                            *)

Shown ==
  LET width == unitSize
      shown(n) == display'[((n - 1) \div width) + 1][((n - 1) % width) + 1]
  IN  (asked'.op = "display" /\ display' # display /\ width \in {1, 2, 4}) =>
        \A n \in 1 .. (width * asked'.length) :
           shown(n) = IF asked'.from + n <= Len(disk[asked'.source])
                      THEN disk[asked'.source][asked'.from + n] ELSE "garbage"

(* The n-th byte of units of width bytes.                                    *)
LEMMA UnitOf ==
  ASSUME NEW width \in {1, 2, 4}, NEW length \in Nat, NEW n \in 1 .. (width * length)
  PROVE  /\ ((n - 1) \div width) + 1 \in 1 .. length
         /\ ((n - 1) % width) + 1 \in 1 .. width
         /\ (((n - 1) \div width) + 1 - 1) * width + ((n - 1) % width) + 1 = n
<1>1. CASE width = 1
  BY <1>1
<1>2. CASE width = 2
  BY <1>2
<1>3. CASE width = 4
  BY <1>3
<1> QED
  BY <1>1, <1>2, <1>3

LEMMA DisplayStep ==
  ASSUME HexInv, file_display
  PROVE  Shown
<1> SUFFICES ASSUME asked'.op = "display", display' # display, unitSize \in {1, 2, 4},
                    NEW n \in 1 .. (unitSize * asked'.length)
             PROVE  display'[((n - 1) \div unitSize) + 1][((n - 1) % unitSize) + 1]
                      = IF asked'.from + n <= Len(disk[asked'.source])
                        THEN disk[asked'.source][asked'.from + n] ELSE "garbage"
  BY DEF Shown
<1>1. Opens(fileName, descriptors)
  BY DEF file_display
<1>2. PICK location \in Locations, length \in 0 .. MaxLength :
         LET at == IF location = -1 THEN 0 ELSE location
         IN  /\ display' = Units(ReadAt(disk[fileName], at, unitSize * length), length)
             /\ asked' = [op |-> "display", source |-> fileName, from |-> at,
                          to |-> 0, length |-> length]
  BY <1>1 DEF file_display
<1> DEFINE at == IF location = -1 THEN 0 ELSE location
           content == disk[fileName]
           read == ReadAt(content, at, unitSize * length)
           u == ((n - 1) \div unitSize) + 1
           i == ((n - 1) % unitSize) + 1
<1>3. at \in Nat /\ length \in Nat /\ content \in Seq(Bytes) /\ unitSize * length \in Nat
  BY <1>1, HexConstants DEF Locations, Opens, HexInv, DiskOK
<1>4. /\ display' = Units(read, length)
      /\ asked'.source = fileName /\ asked'.from = at /\ asked'.length = length
  BY <1>2
<1> HIDE DEF at
<1>5. /\ read \in Seq(Bytes)
      /\ \A k \in 1 .. unitSize * length : k <= Len(read) <=> at + k <= Len(content)
      /\ \A k \in 1 .. Len(read) : k <= unitSize * length /\ read[k] = content[at + k]
  <2> HIDE DEF content
  <2> QED
    BY <1>3, ReadAtIs
<1> HIDE DEF read
<1>6. n \in 1 .. (unitSize * length)
  BY <1>4
<1>7. u \in 1 .. length /\ i \in 1 .. unitSize /\ (u - 1) * unitSize + i = n
  <2>1. PICK w \in {1, 2, 4} : w = unitSize
    OBVIOUS
  <2>2. n \in 1 .. (w * length)
    BY <1>6, <2>1
  <2>3. /\ ((n - 1) \div w) + 1 \in 1 .. length
        /\ ((n - 1) % w) + 1 \in 1 .. w
        /\ (((n - 1) \div w) + 1 - 1) * w + ((n - 1) % w) + 1 = n
    BY <1>3, <2>2, UnitOf
  <2> QED
    BY <2>1, <2>3
<1> HIDE DEF u, i
<1>8. display'[u][i] = IF n <= Len(read) THEN read[n] ELSE "garbage"
  <2>1. (IF unitSize \in {1, 2} THEN unitSize ELSE 4) = unitSize
    OBVIOUS
  <2>2. Units(read, length)[u][i] =
          LET t == (u - 1) * unitSize + i IN IF t <= Len(read) THEN read[t] ELSE "garbage"
    BY <1>7, <2>1 DEF Units
  <2> QED
    BY <1>4, <1>7, <2>2
<1>9. display'[u][i] = IF at + n <= Len(content) THEN content[at + n] ELSE "garbage"
  <2>1. Len(read) \in Nat /\ n \in Nat /\ n >= 1
    BY <1>3, <1>5, <1>6
  <2> QED
    BY <1>5, <1>6, <1>8, <2>1
<1> QED
  BY <1>4, <1>9 DEF u, i

LEMMA ShownStep ==
  ASSUME HexInv, HexEditNext
  PROVE  Shown
<1>1. CASE file_display
  BY <1>1, DisplayStep
<1>2. CASE quit \/ no_such_choice \/ set_file_name \/ set_unit_size \/ file_modify \/ file_copy
  <2>1. display' = display
    BY <1>2 DEF quit, no_such_choice, set_file_name, set_unit_size, file_modify, file_copy
  <2> QED
    BY <2>1 DEF Shown
<1> QED
  BY <1>1, <1>2 DEF HexEditNext

-----------------------------------------------------------------------------
(* line_parser.c.                                                            *)

(* The number of a place among the places of a set. *)
Rank(B, i) == Cardinality({j \in B : j <= i})

LEMMA SameNumber ==
  ASSUME NEW S, NEW T, NEW f \in [S -> T], IsFiniteSet(T),
         \A x, y \in S : f[x] = f[y] => x = y,
         \A y \in T : \E x \in S : f[x] = y
  PROVE  IsFiniteSet(S) /\ Cardinality(S) = Cardinality(T)
<1>1. f \in Injection(S, T)
  BY Zenon DEF Injection, IsInjective
<1>2. f \in Surjection(S, T)
  BY Zenon DEF Surjection
<1> QED
  BY <1>1, <1>2, FS_Injection, Zenon

LEMMA Ranks ==
  ASSUME NEW B, B \subseteq Nat, IsFiniteSet(B)
  PROVE  /\ Cardinality(B) \in Nat
         /\ \A i \in B : Rank(B, i) \in 1 .. Cardinality(B)
         /\ \A i, k \in B : i < k => Rank(B, i) < Rank(B, k)
         /\ \A i, k \in B : Rank(B, i) = Rank(B, k) => i = k
         /\ \A n \in 1 .. Cardinality(B) : \E i \in B : Rank(B, i) = n
<1> DEFINE Up(i) == {j \in B : j <= i}
<1>1. Cardinality(B) \in Nat
  BY FS_CardinalityType
<1>2. ASSUME NEW i \in B
      PROVE  IsFiniteSet(Up(i)) /\ Cardinality(Up(i)) \in 1 .. Cardinality(B)
  <2>1. IsFiniteSet(Up(i)) /\ Cardinality(Up(i)) <= Cardinality(B)
    <3>1. Up(i) \in SUBSET B
      OBVIOUS
    <3> QED
      BY <3>1, FS_Subset
  <2>2. Cardinality(Up(i)) \in Nat
    BY <2>1, FS_CardinalityType
  <2>3. Cardinality(Up(i)) # 0
    <3>1. i \in Up(i)
      OBVIOUS
    <3> HIDE DEF Up
    <3> QED
      BY <2>1, <3>1, FS_EmptySet
  <2> HIDE DEF Up
  <2> QED
    BY <1>1, <2>1, <2>2, <2>3
<1>3. ASSUME NEW i \in B, NEW k \in B, i < k
      PROVE  Cardinality(Up(i)) < Cardinality(Up(k))
  <2>1. Up(i) \in SUBSET Up(k) /\ k \in Up(k) /\ k \notin Up(i)
    <3>1. i \in Nat /\ k \in Nat /\ \A j \in B : j \in Nat
      OBVIOUS
    <3>2. \A j \in B : j <= i => j <= k
      BY <1>3, <3>1
    <3>3. ~ (k <= i) /\ k <= k
      BY <1>3, <3>1
    <3> QED
      BY <3>2, <3>3, Zenon
  <2>2. IsFiniteSet(Up(k)) /\ Cardinality(Up(k)) \in Nat /\ Cardinality(Up(i)) \in Nat
    BY <1>1, <1>2
  <2> HIDE DEF Up
  <2>3. Cardinality(Up(i)) <= Cardinality(Up(k)) /\ Cardinality(Up(i)) # Cardinality(Up(k))
    BY <2>1, <2>2, FS_Subset
  <2> QED
    BY <2>2, <2>3
<1>4. \A i \in B : Rank(B, i) = Cardinality(Up(i))
  BY DEF Rank
<1> HIDE DEF Up
<1>5. \A i \in B : Rank(B, i) \in 1 .. Cardinality(B)
  BY <1>2, <1>4
<1>6. \A i, k \in B : i < k => Rank(B, i) < Rank(B, k)
  BY <1>3, <1>4
<1>7. ASSUME NEW i \in B, NEW k \in B, Rank(B, i) = Rank(B, k) PROVE i = k
  <2>1. ~ (i < k)
    BY <1>1, <1>5, <1>6, <1>7
  <2>2. ~ (k < i)
    BY <1>1, <1>5, <1>6, <1>7
  <2> QED
    BY <2>1, <2>2
<1>8. ASSUME NEW n \in 1 .. Cardinality(B) PROVE \E i \in B : Rank(B, i) = n
  <2> DEFINE g == [i \in B |-> Rank(B, i)]
  <2>1. g \in [B -> 1 .. Cardinality(B)]
    BY <1>5
  <2>2. IsFiniteSet(1 .. Cardinality(B)) /\ Cardinality(B) = Cardinality(1 .. Cardinality(B))
    BY <1>1, FS_Interval
  <2>3. \A x, y \in B : g[x] = g[y] => x = y
    BY <1>7
  <2>4. PICK f \in [B -> 1 .. Cardinality(B)] :
          (\A x, y \in B : f[x] = f[y] => x = y) /\ \A x \in B : f[x] = Rank(B, x)
    BY <2>1, <2>3
  <2>5. PICK T : T = 1 .. Cardinality(B)
    OBVIOUS
  <2>6. \A y \in T : \E x \in B : f[x] = y
    <3>1. f \in [B -> T] /\ IsFiniteSet(T) /\ Cardinality(B) = Cardinality(T)
      BY <2>2, <2>5
    <3>2. \A x, y \in B : f[x] = f[y] => x = y
      BY <2>4
    <3>3. f \in Injection(B, T)
      BY <3>1, <3>2, Zenon DEF Injection, IsInjective
    <3>4. f \in Surjection(B, T)
      BY <3>1, <3>3, FS_Injection, Zenon
    <3> QED
      BY <3>4, Zenon DEF Surjection
  <2> QED
    BY <2>4, <2>5, <2>6
<1> QED
  BY <1>1, <1>5, <1>6, <1>7, <1>8

LEMMA NumberShifted ==
  ASSUME NEW B, B \subseteq Nat, IsFiniteSet(B), NEW k \in Nat
  PROVE  IsFiniteSet({k + x : x \in B}) /\ Cardinality({k + x : x \in B}) = Cardinality(B)
<1> DEFINE C == {k + x : x \in B}
           f == [y \in C |-> y - k]
<1>1. f \in [C -> B]
  OBVIOUS
<1>2. \A x, y \in C : f[x] = f[y] => x = y
  OBVIOUS
<1>3. \A y \in B : \E x \in C : f[x] = y
  <2>1. \A y \in B : k + y \in C /\ f[k + y] = y
    OBVIOUS
  <2> QED
    BY <2>1, Zenon
<1> HIDE DEF f, C
<1>4. IsFiniteSet(C) /\ Cardinality(C) = Cardinality(B)
  BY <1>1, <1>2, <1>3, SameNumber
<1> QED
  BY <1>4 DEF C

LEMMA RankShifted ==
  ASSUME NEW B, B \subseteq Nat, IsFiniteSet(B), NEW k \in Nat, NEW i \in B
  PROVE  Rank({k + x : x \in B}, k + i) = Rank(B, i)
<1> DEFINE U == {j \in B : j <= i}
<1>1. {j \in {k + x : x \in B} : j <= k + i} = {k + x : x \in U}
  OBVIOUS
<1>2. U \subseteq Nat /\ IsFiniteSet(U)
  BY FS_Subset
<1> HIDE DEF U
<1>3. Cardinality({k + x : x \in U}) = Cardinality(U)
  BY <1>2, NumberShifted
<1> QED
  BY <1>1, <1>3, Zenon DEF Rank, U

(* The first q places of a set. *)
LEMMA FirstPlaces ==
  ASSUME NEW B, B \subseteq Nat, IsFiniteSet(B), NEW q \in Nat
  PROVE  LET K == {i \in B : Rank(B, i) <= q} IN
         /\ Cardinality(K) = IF Cardinality(B) < q THEN Cardinality(B) ELSE q
         /\ \A i \in K : Rank(K, i) = Rank(B, i)
<1> DEFINE K == {i \in B : Rank(B, i) <= q}
           n == IF Cardinality(B) < q THEN Cardinality(B) ELSE q
           f == [i \in K |-> Rank(B, i)]
<1>1. /\ Cardinality(B) \in Nat
      /\ \A i \in B : Rank(B, i) \in 1 .. Cardinality(B)
      /\ \A i, k \in B : i < k => Rank(B, i) < Rank(B, k)
      /\ \A i, k \in B : Rank(B, i) = Rank(B, k) => i = k
      /\ \A j \in 1 .. Cardinality(B) : \E i \in B : Rank(B, i) = j
  BY Ranks
<1>2. n \in Nat /\ IsFiniteSet(1 .. n) /\ Cardinality(1 .. n) = n
  <2>1. n \in Nat
    BY <1>1
  <2> HIDE DEF n
  <2> QED
    BY <2>1, FS_Interval
<1>3. f \in [K -> 1 .. n]
  <2>1. ASSUME NEW i \in K PROVE Rank(B, i) \in 1 .. n
    BY <1>1
  <2> QED
    BY <2>1
<1>4. \A x, y \in K : f[x] = f[y] => x = y
  BY <1>1
<1>5. \A y \in 1 .. n : \E x \in K : f[x] = y
  <2>1. ASSUME NEW y \in 1 .. n PROVE \E x \in K : f[x] = y
    <3>1. y \in 1 .. Cardinality(B) /\ y <= q
      BY <1>1
    <3>2. PICK x \in B : Rank(B, x) = y
      BY <1>1, <3>1
    <3> QED
      BY <3>1, <3>2
  <2> QED
    BY <2>1
<1>6. Cardinality(K) = n
  <2> HIDE DEF f, K, n
  <2> QED
    BY <1>2, <1>3, <1>4, <1>5, SameNumber
<1>7. ASSUME NEW i \in K PROVE Rank(K, i) = Rank(B, i)
  <2>1. ASSUME NEW j \in B, j <= i PROVE j \in K
    <3>1. Rank(B, j) <= Rank(B, i)
      <4>1. CASE j = i
        BY <1>1, <4>1
      <4>2. CASE j < i
        BY <1>1, <4>2
      <4> QED
        BY <2>1, <4>1, <4>2
    <3> QED
      BY <1>1, <3>1
  <2>2. {j \in K : j <= i} = {j \in B : j <= i}
    BY <2>1
  <2> QED
    BY <2>2, Zenon DEF Rank
<1> QED
  BY <1>6, <1>7

-----------------------------------------------------------------------------
(* Pieces of a line.                                                         *)
LEMMA CutIs ==
  ASSUME NEW S, NEW s \in Seq(S), NEW a \in 1 .. Len(s) + 1, NEW r \in a - 1 .. Len(s)
  PROVE  /\ SubSeq(s, a, r) \in Seq(S) /\ Len(SubSeq(s, a, r)) = r - a + 1
         /\ DOMAIN SubSeq(s, a, r) = 1 .. r - a + 1
         /\ \A i \in 1 .. r - a + 1 : SubSeq(s, a, r)[i] = s[a + i - 1]
<1>1. a \in Int /\ r \in Int /\ Len(s) \in Nat
  OBVIOUS
<1>2. \A i \in a .. r : s[i] \in S
  BY <1>1
<1>3. /\ SubSeq(s, a, r) \in Seq(S)
      /\ Len(SubSeq(s, a, r)) = IF a <= r THEN r - a + 1 ELSE 0
      /\ \A i \in 1 .. r - a + 1 : SubSeq(s, a, r)[i] = s[a + i - 1]
  BY <1>1, <1>2, SubSeqProperties
<1>4. Len(SubSeq(s, a, r)) = r - a + 1
  BY <1>1, <1>3
<1> QED
  BY <1>3, <1>4

LEMMA CutOfCut ==
  ASSUME NEW S, NEW s \in Seq(S), NEW a \in 1 .. Len(s) + 1, NEW r \in a - 1 .. Len(s),
         NEW i \in 1 .. r - a + 2, NEW j \in i - 1 .. r - a + 1
  PROVE  SubSeq(SubSeq(s, a, r), i, j) = SubSeq(s, a + i - 1, a + j - 1)
<1> DEFINE t == SubSeq(s, a, r)
           u == SubSeq(t, i, j)
           v == SubSeq(s, a + i - 1, a + j - 1)
<1>1. a \in Nat /\ r \in Int /\ Len(s) \in Nat /\ i \in Nat /\ j \in Int
  OBVIOUS
<1>2. /\ t \in Seq(S) /\ Len(t) = r - a + 1
      /\ \A k \in 1 .. r - a + 1 : t[k] = s[a + k - 1]
  BY CutIs
<1> HIDE DEF t
<1>3. i \in 1 .. Len(t) + 1 /\ j \in i - 1 .. Len(t)
  BY <1>1, <1>2
<1>4. /\ u \in Seq(S) /\ Len(u) = j - i + 1
      /\ \A k \in 1 .. j - i + 1 : u[k] = t[i + k - 1]
  BY <1>2, <1>3, CutIs
<1>5. a + i - 1 \in 1 .. Len(s) + 1 /\ a + j - 1 \in (a + i - 1) - 1 .. Len(s)
  BY <1>1, <1>2, <1>3
<1>6. /\ v \in Seq(S) /\ Len(v) = (a + j - 1) - (a + i - 1) + 1
      /\ \A k \in 1 .. (a + j - 1) - (a + i - 1) + 1 : v[k] = s[(a + i - 1) + k - 1]
  BY <1>5, CutIs
<1> HIDE DEF u, v
<1>7. Len(u) = Len(v) /\ Len(v) = j - i + 1
  BY <1>1, <1>4, <1>6
<1>8. ASSUME NEW k \in 1 .. Len(u) PROVE u[k] = v[k]
  <2>1. u[k] = t[i + k - 1] /\ i + k - 1 \in 1 .. r - a + 1
    BY <1>1, <1>2, <1>3, <1>4, <1>8
  <2>2. t[i + k - 1] = s[a + (i + k - 1) - 1]
    BY <1>2, <2>1
  <2>3. v[k] = s[(a + i - 1) + k - 1]
    BY <1>1, <1>6, <1>7, <1>8
  <2>4. a + (i + k - 1) - 1 = (a + i - 1) + k - 1
    BY <1>1
  <2> QED
    BY <2>1, <2>2, <2>3, <2>4
<1>9. u = v
  BY <1>4, <1>6, <1>7, <1>8, SeqEqual
<1> QED
  BY <1>9 DEF u, v, t

LEMMA UntilIs ==
  ASSUME NEW S, NEW s \in Seq(S), NEW stops
  PROVE  \E e \in 0 .. Len(s) :
           /\ Until(s, stops) = SubSeq(s, 1, e) /\ Len(Until(s, stops)) = e
           /\ \A i \in 1 .. e : s[i] \notin stops
           /\ e = Len(s) \/ s[e + 1] \in stops
<1> DEFINE I == {i \in 1 .. Len(s) : s[i] \in stops}
<1>1. SelectInSeq(s, LAMBDA x : x \in stops) = IF I # {} THEN Min(I) ELSE 0
  BY DEF SelectInSeq
<1>2. Len(s) \in Nat /\ I \subseteq Nat
  OBVIOUS
<1>3. CASE I = {}
  <2>1. Until(s, stops) = s
    BY <1>1, <1>3 DEF Until
  <2>2. SubSeq(s, 1, Len(s)) = s
    BY SubSeqFull
  <2>3. \A i \in 1 .. Len(s) : s[i] \notin stops
    BY <1>3
  <2>4. Len(s) \in 0 .. Len(s)
    BY <1>2
  <2> HIDE DEF I
  <2> QED
    BY <2>1, <2>2, <2>3, <2>4
<1>4. CASE I # {}
  <2>1. PICK m \in I : m = Min(I) /\ \A y \in I : m <= y
    <3> HIDE DEF I
    <3>1. Min(I) \in I /\ \A y \in I : Min(I) <= y
      BY <1>2, <1>4, MinIsSmallest
    <3> QED
      BY <3>1, Zenon
  <2>2. m # 0 /\ m - 1 \in 0 .. Len(s) /\ m \in 1 .. Len(s) /\ s[m] \in stops
    BY <1>2
  <2>3. Until(s, stops) = SubSeq(s, 1, m - 1)
    BY <1>1, <1>4, <2>1, <2>2 DEF Until
  <2>4. Len(SubSeq(s, 1, m - 1)) = m - 1
    BY <1>2, <2>2, CutIs
  <2>5. \A i \in 1 .. m - 1 : s[i] \notin stops
    BY <1>2, <2>1, <2>2
  <2>6. s[(m - 1) + 1] \in stops
    BY <2>2
  <2> QED
    BY <2>2, <2>3, <2>4, <2>5, <2>6
<1> QED
  BY <1>3, <1>4

(* The same for a piece of a line.                                           *)
LEMMA UntilInCut ==
  ASSUME NEW S, NEW s \in Seq(S), NEW a \in 1 .. Len(s) + 1, NEW r \in a - 1 .. Len(s), NEW stops
  PROVE  \E e \in a - 1 .. r :
           /\ Until(SubSeq(s, a, r), stops) = SubSeq(s, a, e)
           /\ Len(Until(SubSeq(s, a, r), stops)) = e - a + 1
           /\ \A i \in a .. e : s[i] \notin stops
           /\ e = r \/ s[e + 1] \in stops
<1> DEFINE t == SubSeq(s, a, r)
<1>1. a \in Nat /\ r \in Int /\ Len(s) \in Nat
  OBVIOUS
<1>2. /\ t \in Seq(S) /\ Len(t) = r - a + 1
      /\ \A k \in 1 .. r - a + 1 : t[k] = s[a + k - 1]
  BY CutIs
<1>3. PICK c \in 0 .. Len(t) :
           /\ Until(t, stops) = SubSeq(t, 1, c) /\ Len(Until(t, stops)) = c
           /\ \A i \in 1 .. c : t[i] \notin stops
           /\ c = Len(t) \/ t[c + 1] \in stops
  BY <1>2, UntilIs
<1> DEFINE e == a + c - 1
<1>4. e \in a - 1 .. r /\ c = e - a + 1 /\ c \in Nat
  BY <1>1, <1>2
<1>5. Until(t, stops) = SubSeq(s, a, e)
  <2>1. 1 \in 1 .. r - a + 2 /\ c \in 1 - 1 .. r - a + 1
    BY <1>1, <1>2
  <2>2. SubSeq(t, 1, c) = SubSeq(s, a + 1 - 1, a + c - 1)
    BY <2>1, CutOfCut
  <2> QED
    BY <1>1, <1>3, <2>2
<1> HIDE DEF t
<1>6. ASSUME NEW i \in a .. e PROVE s[i] \notin stops
  <2>1. i - a + 1 \in 1 .. c /\ i - a + 1 \in 1 .. r - a + 1 /\ a + (i - a + 1) - 1 = i
    BY <1>1, <1>4
  <2> QED
    BY <1>2, <1>3, <2>1
<1>7. e = r \/ s[e + 1] \in stops
  <2>1. CASE c = Len(t)
    BY <1>1, <1>2, <2>1
  <2>2. CASE c # Len(t)
    <3>1. c + 1 \in 1 .. r - a + 1 /\ a + (c + 1) - 1 = e + 1
      BY <1>1, <1>2, <1>4, <2>2
    <3> QED
      BY <1>2, <1>3, <2>2, <3>1
  <2> QED
    BY <2>1, <2>2
<1> QED
  BY <1>3, <1>4, <1>5, <1>6, <1>7 DEF t

-----------------------------------------------------------------------------
(* The words of a piece of the line, each from where it begins.               *)
Signs == {Bar} \cup Redirections
LiveEnd == Len(Until(str_line, {"nl", "&"}))
BeginIn(a, r) == {i \in a .. r : Begins(i)}

(* A piece between two signs, or an end of what counts of the line.           *)
Piece(a, r) ==
  /\ a \in 1 .. LiveEnd + 1 /\ r \in a - 1 .. LiveEnd
  /\ \A i \in a .. r : str_line[i] \notin Signs
  /\ a = 1 \/ str_line[a - 1] \in Signs
  /\ r = LiveEnd \/ str_line[r + 1] \in Signs

LEMMA LiveIs ==
  ASSUME NEW S, str_line \in Seq(S)
  PROVE  /\ Len(str_line) \in Nat /\ LiveEnd \in 0 .. Len(str_line) /\ Live = 1 .. LiveEnd
         /\ Until(str_line, {"nl", "&"}) = SubSeq(str_line, 1, LiveEnd)
<1>1. PICK e \in 0 .. Len(str_line) :
        Until(str_line, {"nl", "&"}) = SubSeq(str_line, 1, e) /\ Len(Until(str_line, {"nl", "&"})) = e
  BY UntilIs
<1> QED
  BY <1>1 DEF LiveEnd, Live

LEMMA PieceIs ==
  ASSUME NEW S, str_line \in Seq(S), NEW a, NEW r, Piece(a, r)
  PROVE  /\ Len(str_line) \in Nat /\ LiveEnd \in Nat /\ LiveEnd <= Len(str_line)
         /\ a \in Nat /\ a >= 1 /\ a <= LiveEnd + 1
         /\ r \in Int /\ r >= a - 1 /\ r <= LiveEnd
         /\ a \in 1 .. Len(str_line) + 1 /\ r \in a - 1 .. Len(str_line)
<1>1. Len(str_line) \in Nat /\ LiveEnd \in 0 .. Len(str_line)
  BY LiveIs
<1>2. a \in 1 .. LiveEnd + 1 /\ r \in a - 1 .. LiveEnd
  BY DEF Piece
<1>3. a \in Nat /\ LiveEnd \in Nat
  BY <1>1, <1>2
<1>4. r \in Int
  BY <1>2, <1>3
<1> QED
  BY <1>1, <1>2, <1>3, <1>4

LEMMA InWordIs ==
  ASSUME NEW S, str_line \in Seq(S), NEW a, NEW r, Piece(a, r)
  PROVE  /\ \A i \in a .. r : InWord(i) <=> str_line[i] # Space
         /\ ~ InWord(a - 1) /\ ~ InWord(r + 1)
<1>1. LiveEnd \in Nat /\ a \in Nat /\ a >= 1 /\ r \in Int /\ r <= LiveEnd
  BY PieceIs
<1>0. \A i : InWord(i) <=> i \in 1 .. LiveEnd /\ str_line[i] # Space /\ str_line[i] \notin Signs
  BY LiveIs DEF InWord, Signs
<1>2. ASSUME NEW i \in a .. r PROVE InWord(i) <=> str_line[i] # Space
  <2>1. i \in 1 .. LiveEnd
    BY <1>1
  <2>2. str_line[i] \notin Signs
    BY DEF Piece
  <2> QED
    BY <1>0, <2>1, <2>2
<1>3. ~ InWord(a - 1)
  <2>1. a = 1 \/ str_line[a - 1] \in Signs
    BY DEF Piece
  <2>2. a = 1 => a - 1 \notin 1 .. LiveEnd
    OBVIOUS
  <2> QED
    BY <1>0, <2>1, <2>2
<1>4. ~ InWord(r + 1)
  <2>1. r = LiveEnd \/ str_line[r + 1] \in Signs
    BY DEF Piece
  <2>2. r = LiveEnd => r + 1 \notin 1 .. LiveEnd
    BY <1>1
  <2> QED
    BY <1>0, <2>1, <2>2
<1> QED
  BY <1>2, <1>3, <1>4

LEMMA WordOfPiece ==
  ASSUME NEW S, str_line \in Seq(S), NEW a \in Nat, NEW r \in Int, Piece(a, r),
         NEW i \in 1 .. r - a + 1, str_line[a + i - 1] # Space
  PROVE  Until(After(SubSeq(str_line, a, r), i), {Space}) = WordFrom(a + i - 1)
<1> DEFINE L == str_line
           m == LiveEnd
           b == a + i - 1
           Stops(j) == InWord(j) /\ ~ InWord(j + 1) /\ \A n \in b .. j : InWord(n)
<1>1. /\ Len(L) \in Nat /\ m \in Nat /\ m <= Len(L) /\ a \in Nat /\ a >= 1 /\ a <= m + 1
      /\ r \in Int /\ r >= a - 1 /\ r <= m /\ i \in Nat /\ i >= 1 /\ i <= r - a + 1
  BY PieceIs
<1>2. /\ \A k \in a .. r : InWord(k) <=> L[k] # Space
      /\ ~ InWord(a - 1) /\ ~ InWord(r + 1)
  BY InWordIs
<1>3. b \in a .. r /\ b \in Nat
  BY <1>1
<1>4. a \in 1 .. Len(L) + 1 /\ r \in a - 1 .. Len(L)
  BY <1>1
<1>5. After(SubSeq(L, a, r), i) = SubSeq(L, b, r)
  <2>1. Len(SubSeq(L, a, r)) = r - a + 1
    BY <1>4, CutIs
  <2>2. i \in 1 .. r - a + 2 /\ r - a + 1 \in i - 1 .. r - a + 1
    BY <1>1
  <2>3. SubSeq(SubSeq(L, a, r), i, r - a + 1) = SubSeq(L, a + i - 1, a + (r - a + 1) - 1)
    BY <1>4, <2>2, CutOfCut
  <2>4. a + (r - a + 1) - 1 = r
    BY <1>1
  <2> QED
    BY <2>1, <2>3, <2>4 DEF After
<1>6. b \in 1 .. Len(L) + 1 /\ r \in b - 1 .. Len(L)
  BY <1>1, <1>3
<1>7. PICK e \in b - 1 .. r :
           /\ Until(SubSeq(L, b, r), {Space}) = SubSeq(L, b, e)
           /\ \A k \in b .. e : L[k] \notin {Space}
           /\ e = r \/ L[e + 1] \in {Space}
  BY <1>6, UntilInCut
<1>8. e \in b .. r
  <2>1. ASSUME e = b - 1 PROVE FALSE
    <3>1. e # r /\ e + 1 = b
      BY <1>1, <1>3, <2>1
    <3> QED
      BY <1>7, <3>1
  <2> QED
    BY <1>1, <1>3, <1>7, <2>1
<1>9. ASSUME NEW k \in b .. e PROVE InWord(k)
  <2>1. k \in a .. r /\ L[k] # Space
    BY <1>1, <1>3, <1>7
  <2> QED
    BY <1>2, <2>1
<1>10. ~ InWord(e + 1)
  <2>1. CASE e = r
    BY <1>2, <2>1
  <2>2. CASE e # r
    <3>1. e + 1 \in a .. r /\ L[e + 1] = Space
      BY <1>1, <1>3, <1>7, <1>8, <2>2
    <3> QED
      BY <1>2, <3>1
  <2> QED
    BY <2>1, <2>2
<1>11. e \in b .. Len(L) /\ Stops(e)
  BY <1>1, <1>3, <1>8, <1>9, <1>10
<1>12. ASSUME NEW j \in b .. Len(L), Stops(j) PROVE j = e
  <2>1. ~ (j < e)
    <3>1. ASSUME j < e PROVE FALSE
      <4>1. j + 1 \in b .. e
        BY <1>1, <1>3, <1>8, <3>1
      <4> QED
        BY <1>9, <1>12, <4>1
    <3> QED
      BY <3>1
  <2>2. ~ (e < j)
    <3>1. ASSUME e < j PROVE FALSE
      <4>1. e + 1 \in b .. j
        BY <1>1, <1>3, <1>8, <3>1
      <4> QED
        BY <1>10, <1>12, <4>1
    <3> QED
      BY <3>1
  <2> QED
    BY <1>1, <1>3, <1>8, <2>1, <2>2
<1> HIDE DEF b
<1>13. (CHOOSE j \in b .. Len(L) : Stops(j)) = e
  BY <1>11, <1>12
<1>14. WordFrom(b) = SubSeq(L, b, e)
  BY <1>13, Zenon DEF WordFrom
<1> QED
  BY <1>5, <1>7, <1>14 DEF b

(* The words of T are those of the line that begin at the places B. *)
WordsFrom(T, B) ==
  /\ B \subseteq Nat /\ IsFiniteSet(B) /\ Cardinality(B) \in Nat
  /\ T \in Seq({T[n] : n \in 1 .. Cardinality(B)}) /\ Len(T) = Cardinality(B)
  /\ \A i \in B : Rank(B, i) \in 1 .. Cardinality(B) /\ T[Rank(B, i)] = WordFrom(i)

(* strtok on such a piece: its words are those of the line that begin in it.  *)
LEMMA TokensOfPiece ==
  ASSUME NEW S, str_line \in Seq(S), NEW a \in Nat, NEW r \in Int, Piece(a, r)
  PROVE  WordsFrom(Tokens(SubSeq(str_line, a, r)), BeginIn(a, r))
<1> DEFINE t == SubSeq(str_line, a, r)
           B == BeginIn(a, r)
           starts == {i \in DOMAIN t : t[i] # Space /\ (i = 1 \/ t[i - 1] = Space)}
           start(n) == CHOOSE i \in starts : Cardinality({j \in starts : j <= i}) = n
           T == [n \in 1 .. Cardinality(starts) |-> Until(After(t, start(n)), {Space})]
<1>1. /\ Len(str_line) \in Nat /\ LiveEnd \in Nat /\ LiveEnd <= Len(str_line) /\ a >= 1 /\ a <= LiveEnd + 1
      /\ r >= a - 1 /\ r <= LiveEnd /\ a \in 1 .. Len(str_line) + 1 /\ r \in a - 1 .. Len(str_line)
  BY PieceIs
<1>2. /\ DOMAIN t = 1 .. r - a + 1
      /\ \A i \in 1 .. r - a + 1 : t[i] = str_line[a + i - 1]
  BY <1>1, CutIs
<1>3. Tokens(t) = T
  BY DEF Tokens
<1>4. /\ \A k \in a .. r : InWord(k) <=> str_line[k] # Space
      /\ ~ InWord(a - 1)
  BY InWordIs
<1> HIDE DEF t
<1>5. starts \subseteq Nat /\ IsFiniteSet(starts)
  <2>1. starts \in SUBSET (1 .. r - a + 1) /\ IsFiniteSet(1 .. r - a + 1)
    BY <1>2, FS_Interval
  <2> QED
    BY <2>1, FS_Subset
<1>6. \A i \in 1 .. r - a + 1 : i \in starts <=> Begins((a - 1) + i)
  <2>1. ASSUME NEW i \in 1 .. r - a + 1 PROVE i \in starts <=> Begins((a - 1) + i)
    <3>1. /\ (a - 1) + i \in a .. r /\ t[i] = str_line[(a - 1) + i] /\ i \in DOMAIN t
      BY <1>1, <1>2
    <3>2. CASE i = 1
      <4>1. (a - 1) + i - 1 = a - 1
        BY <3>2
      <4> QED
        BY <1>4, <3>1, <3>2, <4>1 DEF Begins
    <3>3. CASE i # 1
      <4>1. (a - 1) + i - 1 \in a .. r /\ i - 1 \in 1 .. r - a + 1
        BY <1>1, <3>3
      <4>2. t[i - 1] = str_line[(a - 1) + i - 1]
        <5>1. t[i - 1] = str_line[a + (i - 1) - 1] /\ a + (i - 1) - 1 = (a - 1) + i - 1
          BY <1>2, <4>1
        <5> QED
          BY <5>1
      <4> QED
        BY <1>4, <3>1, <3>3, <4>1, <4>2 DEF Begins
    <3> QED
      BY <3>2, <3>3
  <2> QED
    BY <2>1
<1>7. starts \subseteq 1 .. r - a + 1
  BY <1>2
<1> DEFINE N == Cardinality(starts)
<1>8. ASSUME NEW n \in 1 .. N
      PROVE  start(n) \in starts /\ Rank(starts, start(n)) = n
  <2>1. \E i \in starts : Rank(starts, i) = n
    <3> HIDE DEF starts
    <3> QED
      BY <1>5, Ranks
  <2> QED
    BY <2>1 DEF Rank
<1>9. ASSUME NEW i \in starts
      PROVE  /\ Rank(starts, i) \in 1 .. N
             /\ T[Rank(starts, i)] = WordFrom((a - 1) + i)
  <2>1. Rank(starts, i) \in 1 .. N
    <3> HIDE DEF starts
    <3> QED
      BY <1>5, Ranks
  <2>2. start(Rank(starts, i)) = i
    <3>1. start(Rank(starts, i)) \in starts /\ Rank(starts, start(Rank(starts, i))) = Rank(starts, i)
      BY <1>8, <2>1
    <3> HIDE DEF starts, start
    <3> QED
      BY <1>5, <3>1, Ranks
  <2>3. T[Rank(starts, i)] = Until(After(t, i), {Space})
    <3> HIDE DEF start
    <3> QED
      BY <2>1, <2>2
  <2>4. i \in 1 .. r - a + 1 /\ str_line[a + i - 1] # Space
    BY <1>2
  <2>5. a + i - 1 = (a - 1) + i
    BY <1>7
  <2> QED
    BY <2>1, <2>3, <2>4, <2>5, WordOfPiece DEF t
<1> HIDE DEF T, starts
<1>10. B = {(a - 1) + x : x \in starts}
  <2>1. ASSUME NEW k \in B PROVE \E x \in starts : k = (a - 1) + x
    <3>1. k \in a .. r /\ Begins(k)
      BY DEF BeginIn
    <3>2. k - (a - 1) \in 1 .. r - a + 1 /\ k = (a - 1) + (k - (a - 1))
      BY <3>1
    <3> QED
      BY <1>6, <3>1, <3>2
  <2>2. ASSUME NEW x \in starts PROVE (a - 1) + x \in B
    <3>1. x \in 1 .. r - a + 1 /\ (a - 1) + x \in a .. r
      BY <1>7
    <3> QED
      BY <1>6, <3>1 DEF BeginIn
  <2> QED
    BY <2>1, <2>2
<1> HIDE DEF B
<1>11. a - 1 \in Nat
  BY <1>1
<1>12. IsFiniteSet(B) /\ Cardinality(B) = N
  BY <1>5, <1>10, <1>11, NumberShifted
<1>13. N \in Nat
  BY <1>5, FS_CardinalityType
<1>14. ASSUME NEW i \in B PROVE Rank(B, i) \in 1 .. N /\ T[Rank(B, i)] = WordFrom(i)
  <2>1. PICK x \in starts : i = (a - 1) + x
    BY <1>10
  <2>2. Rank(B, i) = Rank(starts, x)
    BY <1>5, <1>10, <1>11, <2>1, RankShifted
  <2> QED
    BY <1>9, <2>1, <2>2
<1>15. T \in Seq({T[n] : n \in 1 .. N}) /\ Len(T) = N
  <2>1. DOMAIN T = 1 .. N /\ T = [n \in 1 .. N |-> T[n]]
    BY DEF T
  <2> HIDE DEF N
  <2>2. T \in [1 .. N -> {T[n] : n \in 1 .. N}]
    BY <2>1
  <2>3. PICK Q : Q = {T[n] : n \in 1 .. N}
    OBVIOUS
  <2>4. PICK M \in Nat : M = N
    BY <1>13
  <2>5. T \in [1 .. M -> Q] /\ DOMAIN T = 1 .. M
    BY <2>1, <2>2, <2>3, <2>4
  <2>6. T \in Seq(Q) /\ Len(T) = M
    BY <2>5
  <2> QED
    BY <2>3, <2>4, <2>6, Zenon
<1>16. B \subseteq Nat
  BY <1>5, <1>10, <1>11
<1> QED
  BY <1>3, <1>12, <1>13, <1>14, <1>15, <1>16 DEF t, B, WordsFrom

-----------------------------------------------------------------------------
(* The parts of the line.  A part begins behind a bar, or where the line does. *)
Bars(i) == Between(1, i, {Bar})

LEMMA BarsAre ==
  ASSUME NEW i \in Int
  PROVE  /\ Bars(i) \subseteq 1 .. i /\ IsFiniteSet(Bars(i)) /\ Cardinality(Bars(i)) \in Nat
         /\ \A n : n \in Bars(i) <=> n \in 1 .. i /\ str_line[n] = Bar
<1>1. \A n : n \in Bars(i) <=> n \in 1 .. i /\ str_line[n] = Bar
  BY DEF Bars, Between
<1>2. Bars(i) \in SUBSET (1 .. i) /\ IsFiniteSet(1 .. i)
  BY <1>1, FS_Interval
<1>3. IsFiniteSet(Bars(i))
  BY <1>2, FS_Subset
<1> QED
  BY <1>1, <1>2, <1>3, FS_CardinalityType

PartAt(o, e) ==
  /\ o \in Nat /\ e \in Nat /\ o <= e /\ e <= LiveEnd
  /\ o = 0 \/ str_line[o] = Bar
  /\ \A i \in o + 1 .. e : str_line[i] # Bar
  /\ e = LiveEnd \/ str_line[e + 1] = Bar

LEMMA BarsInPart ==
  ASSUME NEW S, str_line \in Seq(S), NEW o \in Nat, NEW e \in Nat, PartAt(o, e)
  PROVE  /\ \A i \in o .. e : Cardinality(Bars(i)) = Cardinality(Bars(o))
         /\ \A i \in 1 .. o : str_line[i] # Bar => Cardinality(Bars(i)) < Cardinality(Bars(o))
         /\ e < LiveEnd => /\ Cardinality(Bars(e + 1)) = Cardinality(Bars(o)) + 1
                           /\ \A i \in e + 1 .. LiveEnd : Cardinality(Bars(i)) > Cardinality(Bars(o))
<1>1. o <= e /\ e <= LiveEnd /\ LiveEnd \in Nat
  BY LiveIs DEF PartAt
<1>0. o \in Int /\ e \in Int /\ e + 1 \in Int
  OBVIOUS
<1>2. ASSUME NEW i \in o .. e PROVE Bars(i) = Bars(o)
  <2>1. i \in Int /\ \A n \in o + 1 .. i : str_line[n] # Bar
    BY DEF PartAt
  <2>2. \A n : n \in Bars(i) <=> n \in 1 .. i /\ str_line[n] = Bar
    BY <2>1, BarsAre
  <2>3. \A n : n \in Bars(o) <=> n \in 1 .. o /\ str_line[n] = Bar
    BY <1>0, BarsAre
  <2>4. \A n \in 1 .. i : n \in 1 .. o \/ n \in o + 1 .. i
    BY <2>1
  <2>5. \A n \in 1 .. o : n \in 1 .. i
    BY <2>1
  <2> QED
    BY <2>1, <2>2, <2>3, <2>4, <2>5
<1>3. ASSUME NEW i \in 1 .. o, str_line[i] # Bar PROVE Cardinality(Bars(i)) < Cardinality(Bars(o))
  <2>1. o # 0 /\ str_line[o] = Bar /\ i # o /\ i < o
    BY <1>3 DEF PartAt
  <2>0. i \in Int
    OBVIOUS
  <2>2. o \in Bars(o) /\ o \notin Bars(i) /\ Bars(i) \in SUBSET Bars(o)
    <3>1. /\ \A n : n \in Bars(i) <=> n \in 1 .. i /\ str_line[n] = Bar
          /\ \A n : n \in Bars(o) <=> n \in 1 .. o /\ str_line[n] = Bar
      BY <1>0, <2>0, BarsAre
    <3>2. o \in 1 .. o /\ o \notin 1 .. i /\ \A n \in 1 .. i : n \in 1 .. o
      BY <2>1
    <3> QED
      BY <2>1, <3>1, <3>2
  <2>3. IsFiniteSet(Bars(o)) /\ Cardinality(Bars(o)) \in Nat /\ Cardinality(Bars(i)) \in Nat
    BY <1>0, <2>0, BarsAre
  <2>4. Cardinality(Bars(i)) <= Cardinality(Bars(o)) /\ Cardinality(Bars(i)) # Cardinality(Bars(o))
    BY <2>2, <2>3, FS_Subset
  <2> QED
    BY <2>3, <2>4
<1>4. ASSUME e < LiveEnd
      PROVE  /\ Cardinality(Bars(e + 1)) = Cardinality(Bars(o)) + 1
             /\ \A i \in e + 1 .. LiveEnd : Cardinality(Bars(i)) > Cardinality(Bars(o))
  <2>1. str_line[e + 1] = Bar
    BY <1>1, <1>4 DEF PartAt
  <2>2. Bars(e) = Bars(o)
    BY <1>1, <1>2
  <2>3. Bars(e + 1) = Bars(o) \cup {e + 1} /\ e + 1 \notin Bars(o)
    <3>1. /\ \A n : n \in Bars(e) <=> n \in 1 .. e /\ str_line[n] = Bar
          /\ \A n : n \in Bars(e + 1) <=> n \in 1 .. e + 1 /\ str_line[n] = Bar
      BY <1>0, BarsAre
    <3>2. e + 1 \in 1 .. e + 1 /\ e + 1 \notin 1 .. e /\ \A n : n \in 1 .. e + 1 <=> n \in 1 .. e \/ n = e + 1
      OBVIOUS
    <3> QED
      BY <2>1, <2>2, <3>1, <3>2
  <2>4. IsFiniteSet(Bars(o)) /\ Cardinality(Bars(o)) \in Nat
    BY BarsAre
  <2>5. Cardinality(Bars(e + 1)) = Cardinality(Bars(o)) + 1
    BY <2>3, <2>4, FS_AddElement
  <2>6. ASSUME NEW i \in e + 1 .. LiveEnd PROVE Cardinality(Bars(i)) > Cardinality(Bars(o))
    <3>0. i \in Int
      OBVIOUS
    <3>1. Bars(e + 1) \in SUBSET Bars(i)
      <4>1. /\ \A n : n \in Bars(i) <=> n \in 1 .. i /\ str_line[n] = Bar
            /\ \A n : n \in Bars(e + 1) <=> n \in 1 .. e + 1 /\ str_line[n] = Bar
        BY <1>0, <3>0, BarsAre
      <4>2. \A n \in 1 .. e + 1 : n \in 1 .. i
        OBVIOUS
      <4> QED
        BY <4>1, <4>2
    <3>2. IsFiniteSet(Bars(i)) /\ Cardinality(Bars(i)) \in Nat
      BY BarsAre
    <3>3. Cardinality(Bars(e + 1)) <= Cardinality(Bars(i))
      BY <3>1, <3>2, FS_Subset
    <3> QED
      BY <2>4, <2>5, <3>2, <3>3
  <2> QED
    BY <2>5, <2>6
<1> QED
  BY <1>2, <1>3, <1>4

LEMMA PartIs ==
  ASSUME NEW S, str_line \in Seq(S), NEW o \in Nat, NEW e \in Nat, PartAt(o, e),
         NEW k \in Nat, k = Cardinality(Bars(o)) + 1
  PROVE  /\ Part(k) = o + 1 .. e
         /\ e < LiveEnd => Cardinality(Bars(e + 1)) = k
         /\ e = LiveEnd => Part(k + 1) = {}
<1>1. o <= e /\ e <= LiveEnd /\ LiveEnd \in Nat /\ Live = 1 .. LiveEnd
  BY LiveIs DEF PartAt
<1>2. \A h, i : i \in Part(h) <=> i \in 1 .. LiveEnd /\ str_line[i] # Bar /\ Cardinality(Bars(i)) = h - 1
  BY <1>1 DEF Part, Bars
<1>3. Cardinality(Bars(o)) \in Nat /\ Cardinality(Bars(o)) = k - 1
  BY BarsAre
<1>4. /\ \A i \in o .. e : Cardinality(Bars(i)) = k - 1
      /\ \A i \in 1 .. o : str_line[i] # Bar => Cardinality(Bars(i)) < k - 1
      /\ e < LiveEnd => /\ Cardinality(Bars(e + 1)) = k
                        /\ \A i \in e + 1 .. LiveEnd : Cardinality(Bars(i)) > k - 1
  <2> DEFINE c == Cardinality(Bars(o))
  <2>1. /\ \A i \in o .. e : Cardinality(Bars(i)) = c
        /\ \A i \in 1 .. o : str_line[i] # Bar => Cardinality(Bars(i)) < c
        /\ e < LiveEnd => /\ Cardinality(Bars(e + 1)) = c + 1
                          /\ \A i \in e + 1 .. LiveEnd : Cardinality(Bars(i)) > c
    BY BarsInPart
  <2>2. c = k - 1 /\ c + 1 = k
    BY <1>3
  <2> HIDE DEF c
  <2> QED
    BY <2>1, <2>2
<1>5. ASSUME NEW i \in o + 1 .. e PROVE i \in Part(k)
  <2>1. i \in o .. e /\ i \in 1 .. LiveEnd
    BY <1>1
  <2>2. str_line[i] # Bar
    BY DEF PartAt
  <2> QED
    BY <1>2, <1>4, <2>1, <2>2
<1>6. ASSUME NEW i \in 1 .. LiveEnd, str_line[i] # Bar, Cardinality(Bars(i)) >= k - 1
      PROVE  i \in o + 1 .. LiveEnd /\ (e = LiveEnd => Cardinality(Bars(i)) = k - 1)
  <2>1. i \notin 1 .. o
    <3>1. Cardinality(Bars(i)) \in Nat
      BY BarsAre
    <3> QED
      BY <1>3, <1>4, <1>6, <3>1
  <2>2. i \in o + 1 .. LiveEnd
    BY <2>1
  <2> QED
    BY <1>4, <2>2
<1>7. ASSUME NEW i \in Part(k) PROVE i \in o + 1 .. e
  <2>1. i \in 1 .. LiveEnd /\ str_line[i] # Bar /\ Cardinality(Bars(i)) = k - 1
    BY <1>2
  <2>2. i \in o + 1 .. LiveEnd
    BY <1>3, <1>6, <2>1
  <2>3. i \notin e + 1 .. LiveEnd
    <3>1. ASSUME i \in e + 1 .. LiveEnd PROVE FALSE
      <4>1. e < LiveEnd
        BY <1>1, <3>1
      <4> QED
        BY <1>3, <1>4, <2>1, <3>1, <4>1
    <3> QED
      BY <3>1
  <2> QED
    BY <1>1, <2>2, <2>3
<1>8. ASSUME e = LiveEnd, NEW i \in Part(k + 1) PROVE FALSE
  <2>1. i \in 1 .. LiveEnd /\ str_line[i] # Bar /\ Cardinality(Bars(i)) = (k + 1) - 1
    BY <1>2
  <2> QED
    BY <1>6, <1>8, <2>1
<1>9. Part(k) = o + 1 .. e
  BY <1>5, <1>7
<1> QED
  BY <1>4, <1>8, <1>9

(* The arguments of a part are the words before its first redirection.        *)
LEMMA ArgumentsAre ==
  ASSUME NEW S, str_line \in Seq(S), NEW o \in Nat, NEW e \in Nat, PartAt(o, e),
         NEW k \in Nat, k = Cardinality(Bars(o)) + 1
  PROVE  \E r \in o .. e :
           /\ Until(SubSeq(str_line, o + 1, e), Redirections) = SubSeq(str_line, o + 1, r)
           /\ Piece(o + 1, r)
           /\ Arguments(k) = BeginIn(o + 1, r)
<1>1. /\ o <= e /\ e <= LiveEnd /\ LiveEnd \in Nat /\ Len(str_line) \in Nat /\ LiveEnd <= Len(str_line)
  BY LiveIs DEF PartAt
<1>2. o + 1 \in 1 .. Len(str_line) + 1 /\ e \in (o + 1) - 1 .. Len(str_line)
  BY <1>1
<1>3. PICK r \in (o + 1) - 1 .. e :
           /\ Until(SubSeq(str_line, o + 1, e), Redirections) = SubSeq(str_line, o + 1, r)
           /\ \A i \in o + 1 .. r : str_line[i] \notin Redirections
           /\ r = e \/ str_line[r + 1] \in Redirections
  BY <1>2, UntilInCut
<1>4. r \in o .. e /\ r \in Nat
  OBVIOUS
<1>5. Piece(o + 1, r)
  <2>1. o + 1 \in 1 .. LiveEnd + 1 /\ r \in (o + 1) - 1 .. LiveEnd
    BY <1>1, <1>4
  <2>2. \A i \in o + 1 .. r : str_line[i] # Bar
    <3>1. \A i \in o + 1 .. r : i \in o + 1 .. e
      BY <1>4
    <3> QED
      BY <3>1 DEF PartAt
  <2>3. o + 1 = 1 \/ str_line[(o + 1) - 1] = Bar
    BY DEF PartAt
  <2>4. r = LiveEnd \/ str_line[r + 1] \in Redirections \/ str_line[r + 1] = Bar
    <3>1. r = e => r = LiveEnd \/ str_line[r + 1] = Bar
      BY DEF PartAt
    <3> QED
      BY <1>3, <3>1
  <2> QED
    BY <1>3, <2>1, <2>2, <2>3, <2>4 DEF Piece, Signs
<1>6. Part(k) = o + 1 .. e
  BY PartIs
<1>7. ASSUME NEW i \in o + 1 .. e
      PROVE  Between(1, i, Redirections) \cap Part(k) = {} <=> i <= r
  <2>1. \A n : n \in Between(1, i, Redirections) \cap Part(k) <=> n \in o + 1 .. i /\ str_line[n] \in Redirections
    <3>1. \A n : n \in o + 1 .. i <=> n \in 1 .. i /\ n \in o + 1 .. e
      OBVIOUS
    <3> QED
      BY <1>6, <3>1 DEF Between
  <2>2. CASE i <= r
    <3>1. \A n \in o + 1 .. i : n \in o + 1 .. r
      BY <1>4, <2>2
    <3> QED
      BY <1>3, <2>1, <2>2, <3>1
  <2>3. CASE ~ (i <= r)
    <3>1. r + 1 \in o + 1 .. i /\ r # e
      BY <1>4, <2>3
    <3> QED
      BY <1>3, <2>1, <2>3, <3>1
  <2> QED
    BY <2>2, <2>3
<1>8. Arguments(k) = BeginIn(o + 1, r)
  <2>1. \A i : i \in o + 1 .. r <=> i \in o + 1 .. e /\ i <= r
    BY <1>4
  <2> QED
    BY <1>6, <1>7, <2>1 DEF Arguments, BeginIn
<1> QED
  BY <1>3, <1>4, <1>5, <1>8

(* What is kept of them. *)
Kept(k) == {i \in Arguments(k) : Rank(Arguments(k), i) < MAX_ARGUMENTS}

LEMMA ArgumentsKept ==
  ASSUME NEW S, str_line \in Seq(S), NEW o \in Nat, NEW e \in Nat, PartAt(o, e),
         NEW k \in Nat, k = Cardinality(Bars(o)) + 1, MAX_ARGUMENTS \in Nat \ {0},
         NEW c, c = parse_single_cmd_line(SubSeq(str_line, o + 1, e))
  PROVE  /\ Len(c.arguments) = Cardinality(Kept(k)) /\ Len(c.arguments) < MAX_ARGUMENTS
         /\ \A i \in Kept(k) : WordFrom(i) = c.arguments[Rank(Kept(k), i)]
<1>1. PICK r \in o .. e :
           /\ Until(SubSeq(str_line, o + 1, e), Redirections) = SubSeq(str_line, o + 1, r)
           /\ Piece(o + 1, r)
           /\ Arguments(k) = BeginIn(o + 1, r)
  BY ArgumentsAre
<1> DEFINE T == Tokens(SubSeq(str_line, o + 1, r))
           B == Arguments(k)
           N == Cardinality(B)
           n == IF N < MAX_ARGUMENTS THEN N ELSE MAX_ARGUMENTS - 1
           q == MAX_ARGUMENTS - 1
<1>2. /\ B \subseteq Nat /\ IsFiniteSet(B) /\ N \in Nat
      /\ T \in Seq({T[j] : j \in 1 .. N}) /\ Len(T) = N
      /\ \A i \in B : Rank(B, i) \in 1 .. N /\ T[Rank(B, i)] = WordFrom(i)
  <2>1. o + 1 \in Nat /\ r \in Int
    OBVIOUS
  <2>2. WordsFrom(T, BeginIn(o + 1, r))
    BY <1>1, <2>1, TokensOfPiece
  <2>3. WordsFrom(T, B)
    BY <1>1, <2>2
  <2> HIDE DEF T, B
  <2> QED
    BY <2>3 DEF WordsFrom
<1> HIDE DEF T, B
<1>3. c.arguments = SubSeq(T, 1, n)
  BY <1>1, <1>2 DEF parse_single_cmd_line, T
<1>4. q \in Nat /\ n \in 0 .. N /\ n <= q /\ n = IF N < q THEN N ELSE q
  BY <1>2
<1>5. Kept(k) = {i \in B : Rank(B, i) <= q}
  <2>1. \A i \in B : Rank(B, i) < MAX_ARGUMENTS <=> Rank(B, i) <= q
    BY <1>2
  <2> QED
    BY <2>1 DEF Kept, B
<1>6. /\ Cardinality(Kept(k)) = n
      /\ \A i \in Kept(k) : Rank(Kept(k), i) = Rank(B, i)
  <2>1. /\ Cardinality(Kept(k)) = IF N < q THEN N ELSE q
        /\ \A i \in Kept(k) : Rank(Kept(k), i) = Rank(B, i)
    <3> DEFINE K == {i \in B : Rank(B, i) <= q}
    <3>1. q \in Nat /\ K = Kept(k)
      BY <1>4, <1>5
    <3> HIDE DEF q
    <3>2. /\ Cardinality(K) = IF N < q THEN N ELSE q
          /\ \A i \in K : Rank(K, i) = Rank(B, i)
      BY <1>2, <3>1, FirstPlaces
    <3> HIDE DEF K, N
    <3> QED
      BY <3>1, <3>2
  <2> QED
    BY <1>4, <2>1
<1>7. Len(c.arguments) = n /\ \A j \in 1 .. n : c.arguments[j] = T[j]
  <2>1. 1 \in 1 .. Len(T) + 1 /\ n \in 1 - 1 .. Len(T)
    BY <1>2, <1>4
  <2>2. PICK Q : T \in Seq(Q)
    BY <1>2
  <2>3. Len(SubSeq(T, 1, n)) = n - 1 + 1 /\ \A j \in 1 .. n - 1 + 1 : SubSeq(T, 1, n)[j] = T[1 + j - 1]
    BY <2>1, <2>2, CutIs
  <2>4. n - 1 + 1 = n /\ \A j \in 1 .. n : 1 + j - 1 = j
    BY <1>4
  <2> HIDE DEF n
  <2> QED
    BY <1>3, <2>3, <2>4
<1>8. ASSUME NEW i \in Kept(k) PROVE WordFrom(i) = c.arguments[Rank(Kept(k), i)]
  <2>1. i \in B /\ Rank(B, i) <= q /\ Rank(B, i) \in 1 .. N
    BY <1>2, <1>5
  <2>2. Rank(B, i) \in 1 .. n
    BY <1>4, <2>1
  <2> HIDE DEF n
  <2> QED
    BY <1>2, <1>6, <1>7, <2>1, <2>2
<1> QED
  BY <1>4, <1>6, <1>7, <1>8

LEMMA FirstWord ==
  ASSUME NEW T, NEW B, WordsFrom(T, B)
  PROVE  (IF T = <<>> THEN <<>> ELSE Head(T))
           = IF B = {} THEN <<>> ELSE WordFrom(CHOOSE i \in B : \A j \in B : i <= j)
<1>1. /\ B \subseteq Nat /\ IsFiniteSet(B) /\ Cardinality(B) \in Nat
      /\ Len(T) = Cardinality(B)
      /\ \A i \in B : Rank(B, i) \in 1 .. Cardinality(B) /\ T[Rank(B, i)] = WordFrom(i)
  BY DEF WordsFrom
<1>2. PICK Q : T \in Seq(Q)
  BY DEF WordsFrom
<1>3. CASE B = {}
  <2>1. Cardinality(B) = 0
    BY <1>1, <1>3, FS_EmptySet
  <2>2. T = <<>>
    BY <1>1, <1>2, <2>1
  <2> QED
    BY <1>3, <2>2
<1>4. CASE B # {}
  <2>1. PICK m \in B : \A j \in B : m <= j
    BY <1>1, <1>4, SmallestNat
  <2>2. (CHOOSE i \in B : \A j \in B : i <= j) = m
    <3>1. \A i \in B : (\A j \in B : i <= j) => i = m
      BY <1>1, <2>1
    <3> QED
      BY <2>1, <3>1
  <2>3. Cardinality(B) # 0
    BY <1>1, <1>4, FS_EmptySet
  <2>4. Rank(B, m) = 1
    <3>1. PICK i \in B : Rank(B, i) = 1
      <4>1. 1 \in 1 .. Cardinality(B)
        BY <1>1, <2>3
      <4> QED
        BY <1>1, <4>1, Ranks
    <3>2. m = i
      <4>1. ~ (m < i)
        <5>1. m < i => Rank(B, m) < Rank(B, i)
          BY <1>1, Ranks
        <5> QED
          BY <1>1, <3>1, <5>1
      <4> QED
        BY <1>1, <2>1, <4>1
    <3> QED
      BY <3>1, <3>2
  <2>5. T # <<>> /\ Head(T) = T[1]
    <3>1. Len(T) # 0
      BY <1>1, <2>3
    <3> QED
      BY <1>2, <3>1
  <2> QED
    BY <1>1, <1>4, <2>2, <2>4, <2>5
<1> QED
  BY <1>3, <1>4

(* A redirection names the first word behind its last sign, unless the other  *)
(* sign comes before it.                                                       *)
LEMMA TargetIs ==
  ASSUME NEW S, str_line \in Seq(S), NEW o \in Nat, NEW e \in Nat, PartAt(o, e),
         NEW k \in Nat, k = Cardinality(Bars(o)) + 1, NEW sign \in Redirections
  PROVE  extract_redirections(SubSeq(str_line, o + 1, e), sign) = Target(k, sign)
<1> DEFINE L == str_line
           part == SubSeq(L, o + 1, e)
           I == {x \in 1 .. Len(part) : part[x] = sign}
           G == {i \in Part(k) : L[i] = sign}
<1>1. /\ o <= e /\ e <= LiveEnd /\ LiveEnd \in Nat /\ Len(L) \in Nat /\ LiveEnd <= Len(L)
  BY LiveIs DEF PartAt
<1>2. o + 1 \in 1 .. Len(L) + 1 /\ e \in (o + 1) - 1 .. Len(L)
  BY <1>1
<1>3. /\ part \in Seq(S) /\ Len(part) = e - o
      /\ \A x \in 1 .. e - o : part[x] = L[o + x]
  <2>1. /\ part \in Seq(S) /\ Len(part) = e - (o + 1) + 1
        /\ \A x \in 1 .. e - (o + 1) + 1 : part[x] = L[(o + 1) + x - 1]
    BY <1>2, CutIs
  <2>2. e - (o + 1) + 1 = e - o /\ \A x \in 1 .. e - o : (o + 1) + x - 1 = o + x
    BY <1>1
  <2> HIDE DEF part
  <2> QED
    BY <2>1, <2>2
<1>4. Part(k) = o + 1 .. e
  BY PartIs
<1>5. extract_redirections(part, sign) =
        IF I # {} THEN clone_first_word(After(part, Max(I) + 1)) ELSE <<>>
  <2>1. SelectLastInSeq(part, LAMBDA x : x = sign) = IF I # {} THEN Max(I) ELSE 0
    BY DEF SelectLastInSeq
  <2>2. I # {} => Max(I) # 0
    <3>1. I \subseteq Nat /\ \A x \in I : x <= e - o /\ x # 0
      BY <1>3
    <3>2. e - o \in Nat
      BY <1>1
    <3> HIDE DEF I
    <3> QED
      BY <3>1, <3>2, MaxIsLargest
  <2> HIDE DEF I
  <2> QED
    BY <2>1, <2>2 DEF extract_redirections
<1> HIDE DEF part
<1>6. CASE I = {}
  <2>1. G = {}
    <3>1. ASSUME NEW i \in G PROVE FALSE
      <4>1. i - o \in 1 .. e - o /\ o + (i - o) = i /\ L[i] = sign
        BY <1>4
      <4>2. i - o \in I
        BY <1>3, <4>1
      <4> QED
        BY <1>6, <4>2
    <3> QED
      BY <3>1
  <2> HIDE DEF I, G
  <2> QED
    BY <1>5, <1>6, <2>1, Zenon DEF Target, G, part
<1>7. CASE I # {}
  <2>1. PICK mx \in I : mx = Max(I) /\ \A x \in I : x <= mx
    <3>1. I \subseteq Nat /\ \A x \in I : x <= e - o
      BY <1>3
    <3>2. e - o \in Nat
      BY <1>1
    <3> HIDE DEF I
    <3>3. Max(I) \in I /\ \A x \in I : Max(I) >= x
      BY <1>7, <3>1, <3>2, MaxIsLargest
    <3>4. \A x \in I : x <= Max(I)
      BY <3>1, <3>3
    <3> QED
      BY <3>3, <3>4
  <2>2. mx \in 1 .. e - o /\ part[mx] = sign
    BY <1>3
  <2> DEFINE f == o + mx
  <2>3. f \in Nat /\ f >= o + 1 /\ f <= e /\ f \in o + 1 .. e /\ L[f] = sign
    BY <1>1, <1>3, <2>2
  <2>4. f \in G /\ \A i \in G : i <= f
    <3>1. ASSUME NEW i \in G PROVE i <= f
      <4>1. i - o \in 1 .. e - o /\ o + (i - o) = i /\ L[i] = sign
        BY <1>4
      <4>2. i - o \in I
        BY <1>3, <4>1
      <4>3. i - o <= mx
        BY <2>1, <4>2
      <4> QED
        BY <2>2, <4>1, <4>3
    <3> QED
      BY <1>4, <2>3, <3>1
  <2>5. After(part, mx + 1) = SubSeq(L, f + 1, e)
    <3>1. mx + 1 \in 1 .. e - (o + 1) + 2 /\ e - o \in (mx + 1) - 1 .. e - (o + 1) + 1
      BY <1>1, <2>2
    <3>2. SubSeq(SubSeq(L, o + 1, e), mx + 1, e - o) = SubSeq(L, (o + 1) + (mx + 1) - 1, (o + 1) + (e - o) - 1)
      BY <1>2, <3>1, CutOfCut
    <3>3. (o + 1) + (mx + 1) - 1 = f + 1 /\ (o + 1) + (e - o) - 1 = e
      BY <1>1, <2>2
    <3> HIDE DEF f
    <3> QED
      BY <1>3, <3>2, <3>3 DEF After, part
  <2> HIDE DEF I, f, G
  <2>6. PICK r \in (f + 1) - 1 .. e :
           /\ Until(SubSeq(L, f + 1, e), Redirections) = SubSeq(L, f + 1, r)
           /\ \A i \in f + 1 .. r : L[i] \notin Redirections
           /\ r = e \/ L[r + 1] \in Redirections
    <3>1. f + 1 \in 1 .. Len(L) + 1 /\ e \in (f + 1) - 1 .. Len(L)
      BY <1>1, <2>3
    <3> QED
      BY <3>1, UntilInCut
  <2>7. r \in Nat /\ r >= f /\ r <= e
    BY <2>3
  <2>8. Piece(f + 1, r)
    <3>1. f + 1 \in 1 .. LiveEnd + 1 /\ r \in (f + 1) - 1 .. LiveEnd
      BY <1>1, <2>3, <2>7
    <3>2. \A i \in f + 1 .. r : L[i] # Bar
      <4>1. \A i \in f + 1 .. r : i \in o + 1 .. e
        BY <2>3, <2>7
      <4> QED
        BY <4>1 DEF PartAt
    <3>3. L[(f + 1) - 1] \in Redirections
      BY <2>3
    <3>4. r = LiveEnd \/ L[r + 1] \in Redirections \/ L[r + 1] = Bar
      <4>1. r = e => r = LiveEnd \/ L[r + 1] = Bar
        BY DEF PartAt
      <4> QED
        BY <2>6, <4>1
    <3> QED
      BY <2>6, <3>1, <3>2, <3>3, <3>4 DEF Piece, Signs
  <2> DEFINE W == {i \in Part(k) : Begins(i) /\ i > f /\ Between(f + 1, i, Redirections) = {}}
  <2>9. W = BeginIn(f + 1, r)
    <3>1. ASSUME NEW i \in o + 1 .. e, i > f
          PROVE  Between(f + 1, i, Redirections) = {} <=> i <= r
      <4>1. CASE i <= r
        <5>1. \A n \in f + 1 .. i : n \in f + 1 .. r
          BY <2>3, <2>7, <4>1
        <5> QED
          BY <2>6, <4>1, <5>1 DEF Between
      <4>2. CASE ~ (i <= r)
        <5>1. r + 1 \in f + 1 .. i /\ r # e
          BY <2>3, <2>7, <3>1, <4>2
        <5>2. r + 1 \in Between(f + 1, i, Redirections)
          BY <2>6, <5>1 DEF Between
        <5> QED
          BY <4>2, <5>2
      <4> QED
        BY <4>1, <4>2
    <3>2. \A i : i \in f + 1 .. r <=> i \in o + 1 .. e /\ i > f /\ i <= r
      BY <2>3, <2>7
    <3> QED
      BY <1>4, <3>1, <3>2 DEF BeginIn
  <2>10. WordsFrom(Tokens(SubSeq(L, f + 1, r)), BeginIn(f + 1, r))
    <3>1. f + 1 \in Nat /\ r \in Int
      BY <2>3, <2>7
    <3> QED
      BY <2>8, <3>1, TokensOfPiece
  <2>11. extract_redirections(part, sign) =
           IF W = {} THEN <<>> ELSE WordFrom(CHOOSE i \in W : \A j \in W : i <= j)
    <3>1. extract_redirections(part, sign) = clone_first_word(SubSeq(L, f + 1, e))
      BY <1>5, <1>7, <2>1, <2>5
    <3>2. clone_first_word(SubSeq(L, f + 1, e)) =
            LET T == Tokens(SubSeq(L, f + 1, r)) IN IF T = <<>> THEN <<>> ELSE Head(T)
      BY <2>6 DEF clone_first_word
    <3> HIDE DEF W
    <3>3. (LET T == Tokens(SubSeq(L, f + 1, r)) IN IF T = <<>> THEN <<>> ELSE Head(T)) =
            IF W = {} THEN <<>> ELSE WordFrom(CHOOSE i \in W : \A j \in W : i <= j)
      <4>1. WordsFrom(Tokens(SubSeq(L, f + 1, r)), W)
        BY <2>9, <2>10
      <4> QED
        BY <4>1, FirstWord
    <3> QED
      BY <3>1, <3>2, <3>3
  <2>12. (CHOOSE i \in G : \A j \in G : j <= i) = f
    <3>1. \A i \in G : (\A j \in G : j <= i) => i = f
      <4>1. \A i \in G : i \in Nat
        BY <1>4 DEF G
      <4> QED
        BY <2>3, <2>4, <4>1
    <3> QED
      BY <2>4, <3>1
  <2>13. Target(k, sign) = IF G = {} \/ W = {} THEN <<>>
                           ELSE WordFrom(CHOOSE i \in W : \A j \in W : i <= j)
    <3>1. Target(k, sign) =
            LET g == CHOOSE i \in G : \A j \in G : j <= i
                V == {i \in Part(k) : Begins(i) /\ i > g /\ Between(g + 1, i, Redirections) = {}}
            IN IF G = {} \/ V = {} THEN <<>> ELSE WordFrom(CHOOSE i \in V : \A j \in V : i <= j)
      BY DEF Target, G
    <3> QED
      BY <2>12, <3>1
  <2> HIDE DEF W
  <2> QED
    BY <2>4, <2>11, <2>13 DEF part
<1> QED
  BY <1>6, <1>7

-----------------------------------------------------------------------------
(* What is parsed and what is still to come.                                 *)
Good(k, c) ==
  /\ c = [arguments |-> c.arguments, input_redirect |-> Target(k, "<"),
          output_redirect |-> Target(k, ">"), blocking |-> FALSE, idx |-> 0]
  /\ Len(c.arguments) = Cardinality(Kept(k)) /\ Len(c.arguments) < MAX_ARGUMENTS
  /\ \A i \in Kept(k) : WordFrom(i) = c.arguments[Rank(Kept(k), i)]

Finished(k, c) ==
  /\ Len(c.arguments) = Cardinality(Kept(k))
  /\ \A i \in Kept(k) : WordFrom(i) = c.arguments[Rank(Kept(k), i)]
  /\ c.input_redirect = Target(k, "<") /\ c.output_redirect = Target(k, ">")
  /\ c.idx = k - 1
  /\ c.blocking <=> k = Cardinality(Parsed) /\ ~ Contains(str_line, "&")

HasWord(k) == \E i \in Part(k) : str_line[i] \notin Blank

LEMMA ParserConstants == MaxLine \in Nat /\ MAX_ARGUMENTS \in Nat \ {0}
BY LineParserAssumption, Zenon

(* The part of line R that P is: the places behind o up to e. *)
NextIs(o, e, k, R, P) ==
  /\ Part(k) = o + 1 .. e
  /\ Len(P) = e - o /\ Len(R) = LiveEnd - o
  /\ is_empty(P) <=> ~ HasWord(k)
  /\ Good(k, parse_single_cmd_line(P))
  /\ e < LiveEnd => /\ After(R, Len(P) + 2) = SubSeq(str_line, (e + 1) + 1, LiveEnd)
                    /\ str_line[e + 1] = Bar /\ Cardinality(Bars(e + 1)) = k
  /\ e = LiveEnd => Part(k + 1) = {} /\ Len(After(R, Len(P) + 2)) = 0

LEMMA NextPart ==
  ASSUME NEW S, str_line \in Seq(S), NEW o \in Nat, o <= LiveEnd, o = 0 \/ str_line[o] = Bar,
         NEW k \in Nat, k = Cardinality(Bars(o)) + 1,
         NEW R, R = SubSeq(str_line, o + 1, LiveEnd), NEW P, P = Until(R, {Bar})
  PROVE  \E e \in o .. LiveEnd : NextIs(o, e, k, R, P)
<1> DEFINE L == str_line
           m == LiveEnd
<1>1. Len(L) \in Nat /\ m \in Nat /\ m <= Len(L) /\ o <= m
  BY LiveIs
<1>2. o + 1 \in 1 .. Len(L) + 1 /\ m \in (o + 1) - 1 .. Len(L)
  BY <1>1
<1>3. R \in Seq(S) /\ Len(R) = m - o
  <2>1. R \in Seq(S) /\ Len(R) = m - (o + 1) + 1
    BY <1>2, CutIs
  <2> QED
    BY <1>1, <2>1
<1>4. PICK e \in (o + 1) - 1 .. m :
           /\ P = SubSeq(L, o + 1, e)
           /\ Len(P) = e - (o + 1) + 1
           /\ \A i \in o + 1 .. e : L[i] \notin {Bar}
           /\ e = m \/ L[e + 1] \in {Bar}
  BY <1>2, UntilInCut
<1>5. e \in Nat /\ e >= o /\ e <= m /\ e \in o .. m /\ Len(P) = e - o
  BY <1>1, <1>4
<1>6. PartAt(o, e)
  BY <1>1, <1>4, <1>5 DEF PartAt
<1>7. /\ Part(k) = o + 1 .. e
      /\ e < m => Cardinality(Bars(e + 1)) = k
      /\ e = m => Part(k + 1) = {}
  BY <1>5, <1>6, PartIs
<1>8. is_empty(P) <=> ~ HasWord(k)
  <2>1. o + 1 \in 1 .. Len(L) + 1 /\ e \in (o + 1) - 1 .. Len(L)
    BY <1>1, <1>5
  <2>2. /\ DOMAIN P = 1 .. e - (o + 1) + 1
        /\ \A i \in 1 .. e - (o + 1) + 1 : P[i] = L[(o + 1) + i - 1]
    <3> DEFINE Q == SubSeq(L, o + 1, e)
    <3>1. /\ DOMAIN Q = 1 .. e - (o + 1) + 1
          /\ \A i \in 1 .. e - (o + 1) + 1 : Q[i] = L[(o + 1) + i - 1]
      BY <2>1, CutIs
    <3>2. P = Q
      BY <1>4
    <3> HIDE DEF Q
    <3> QED
      BY <3>1, <3>2
  <2>3. ASSUME NEW i \in DOMAIN P PROVE (o + 1) + i - 1 \in o + 1 .. e /\ P[i] = L[(o + 1) + i - 1]
    <3>1. i \in 1 .. e - (o + 1) + 1
      BY <2>2
    <3>2. (o + 1) + i - 1 \in o + 1 .. e
      BY <1>5, <3>1
    <3> QED
      BY <2>2, <3>1, <3>2
  <2>4. ASSUME NEW j \in o + 1 .. e PROVE j - o \in DOMAIN P /\ P[j - o] = L[j]
    <3>1. j - o \in 1 .. e - (o + 1) + 1 /\ (o + 1) + (j - o) - 1 = j
      BY <1>5
    <3> QED
      BY <2>2, <3>1
  <2> QED
    BY <1>7, <2>3, <2>4 DEF is_empty, HasWord
<1>9. Good(k, parse_single_cmd_line(P))
  <2>1. PICK c : c = parse_single_cmd_line(P)
    OBVIOUS
  <2>2. /\ Len(c.arguments) = Cardinality(Kept(k)) /\ Len(c.arguments) < MAX_ARGUMENTS
        /\ \A i \in Kept(k) : WordFrom(i) = c.arguments[Rank(Kept(k), i)]
    BY <1>4, <1>5, <1>6, <2>1, ParserConstants, ArgumentsKept
  <2>3. \A sign \in Redirections : extract_redirections(P, sign) = Target(k, sign)
    <3>1. ASSUME NEW sign \in Redirections
          PROVE  extract_redirections(SubSeq(str_line, o + 1, e), sign) = Target(k, sign)
      BY <1>5, <1>6, TargetIs
    <3> QED
      BY <1>4, <3>1
  <2>4. "<" \in Redirections /\ ">" \in Redirections
    BY DEF Redirections
  <2>5. extract_redirections(P, "<") = Target(k, "<") /\ extract_redirections(P, ">") = Target(k, ">")
    BY <2>3, <2>4
  <2>6. c = [arguments |-> c.arguments, input_redirect |-> extract_redirections(P, "<"),
             output_redirect |-> extract_redirections(P, ">"), blocking |-> FALSE, idx |-> 0]
    BY <2>1 DEF parse_single_cmd_line
  <2> QED
    BY <2>1, <2>2, <2>5, <2>6 DEF Good
<1>10. ASSUME e < m
       PROVE  After(R, Len(P) + 2) = SubSeq(L, (e + 1) + 1, m) /\ L[e + 1] = Bar
  <2>1. Len(P) + 2 \in 1 .. m - (o + 1) + 2 /\ m - o \in (Len(P) + 2) - 1 .. m - (o + 1) + 1
    BY <1>1, <1>5, <1>10
  <2>2. SubSeq(SubSeq(L, o + 1, m), Len(P) + 2, m - o)
          = SubSeq(L, (o + 1) + (Len(P) + 2) - 1, (o + 1) + (m - o) - 1)
    <3>1. PICK b : b = Len(P) + 2
      OBVIOUS
    <3>2. PICK j : j = m - o
      OBVIOUS
    <3>3. PICK a : a = o + 1
      OBVIOUS
    <3>4. b \in 1 .. m - a + 2 /\ j \in b - 1 .. m - a + 1 /\ a \in 1 .. Len(L) + 1 /\ m \in a - 1 .. Len(L)
      BY <1>2, <2>1, <3>1, <3>2, <3>3
    <3>5. SubSeq(SubSeq(L, a, m), b, j) = SubSeq(L, a + b - 1, a + j - 1)
      BY <3>4, CutOfCut
    <3> QED
      BY <3>1, <3>2, <3>3, <3>5
  <2>3. (o + 1) + (Len(P) + 2) - 1 = (e + 1) + 1 /\ (o + 1) + (m - o) - 1 = m
    BY <1>1, <1>5
  <2>4. L[e + 1] = Bar
    BY <1>4, <1>10
  <2> QED
    BY <1>3, <2>2, <2>3, <2>4 DEF After
<1>11. ASSUME e = m PROVE Len(After(R, Len(P) + 2)) = 0
  <2>1. PICK b : b = Len(P) + 2
    OBVIOUS
  <2>2. PICK j : j = Len(R)
    OBVIOUS
  <2>3. b \in Int /\ j \in Int /\ ~ (b <= j)
    BY <1>1, <1>3, <1>5, <1>11, <2>1, <2>2
  <2>4. \A i \in b .. j : R[i] \in S
    BY <2>3
  <2>5. Len(SubSeq(R, b, j)) = 0
    BY <2>3, <2>4, SubSeqProperties
  <2> QED
    BY <2>1, <2>2, <2>5 DEF After
<1> QED
  BY <1>3, <1>5, <1>7, <1>8, <1>9, <1>10, <1>11 DEF NextIs

LEMMA ParsedIs ==
  ASSUME NEW S, str_line \in Seq(S), NEW K \in Nat, \A h \in 1 .. K : HasWord(h), ~ HasWord(K + 1)
  PROVE  Parsed = 1 .. K /\ Cardinality(Parsed) = K
<1>1. Len(str_line) \in Nat /\ LiveEnd \in Nat /\ LiveEnd <= Len(str_line) /\ Live = 1 .. LiveEnd
  BY LiveIs
<1>2. K <= Len(str_line) + 1
  <2>1. CASE K = 0
    BY <1>1, <2>1
  <2>2. CASE K # 0
    <3>1. PICK i \in Part(K) : TRUE
      <4>1. K \in 1 .. K
        BY <2>2
      <4> QED
        BY <4>1 DEF HasWord
    <3>2. i \in 1 .. LiveEnd /\ Cardinality(Bars(i)) = K - 1
      BY <1>1 DEF Part, Bars
    <3>3. i \in Nat /\ Bars(i) \in SUBSET (1 .. i) /\ IsFiniteSet(1 .. i) /\ Cardinality(1 .. i) = i
      <4>1. i \in Nat /\ i \in Int /\ 1 \in Int /\ 1 <= i
        BY <1>1, <3>2
      <4>2. IsFiniteSet(1 .. i) /\ Cardinality(1 .. i) = i - 1 + 1
        BY <4>1, FS_Interval
      <4>3. Bars(i) \subseteq 1 .. i
        BY <4>1, BarsAre
      <4> QED
        BY <4>1, <4>2, <4>3
    <3>4. Cardinality(Bars(i)) <= i
      BY <3>3, FS_Subset
    <3> QED
      BY <1>1, <3>2, <3>3, <3>4
  <2> QED
    BY <2>1, <2>2
<1>3. Parsed = {k \in 1 .. Len(str_line) + 1 : \A h \in 1 .. k : HasWord(h)}
  BY Zenon DEF Parsed, HasWord
<1>4. Parsed = 1 .. K
  <2>1. ASSUME NEW k \in 1 .. K PROVE k \in Parsed
    <3>1. k \in 1 .. Len(str_line) + 1 /\ \A h \in 1 .. k : h \in 1 .. K
      BY <1>1, <1>2
    <3> QED
      BY <1>3, <3>1
  <2>2. ASSUME NEW k \in Parsed PROVE k \in 1 .. K
    <3>1. k \in 1 .. Len(str_line) + 1 /\ \A h \in 1 .. k : HasWord(h)
      BY <1>3
    <3>2. ~ (K + 1 <= k)
      <4>1. K + 1 <= k => K + 1 \in 1 .. k
        BY <1>1, <3>1
      <4> QED
        BY <3>1, <4>1
    <3> QED
      BY <1>1, <3>1, <3>2
  <2> QED
    BY <2>1, <2>2
<1> QED
  BY <1>4, FS_Interval

(* The target of a redirection, by its two places. *)
SignsAre(h, sign, G) == G = {i \in Part(h) : str_line[i] = sign}
WordsAre(h, f, W) == W = {i \in Part(h) : Begins(i) /\ i > f /\ Between(f + 1, i, Redirections) = {}}
LastOf(G) == CHOOSE i \in G : \A j \in G : j <= i
FirstOf(W) == CHOOSE i \in W : \A j \in W : i <= j
TargetUnfolds ==
  \A h, sign, G, f, W, w :
    SignsAre(h, sign, G) /\ f = LastOf(G) /\ WordsAre(h, f, W) /\ w = FirstOf(W)
      => Target(h, sign) = IF G = {} \/ W = {} THEN <<>> ELSE WordFrom(w)

LEMMA TargetByPlaces == TargetUnfolds
BY DEF Target, TargetUnfolds, SignsAre, WordsAre, LastOf, FirstOf

(* Nothing of the reference changes while the line does not.                 *)
LEMMA LineKept ==
  ASSUME str_line' = str_line
  PROVE  /\ LiveEnd' = LiveEnd /\ Parsed' = Parsed
         /\ \A o : Bars(o)' = Bars(o)
         /\ \A h : HasWord(h)' <=> HasWord(h)
         /\ \A h, c : Good(h, c)' <=> Good(h, c)
         /\ \A h, c : Finished(h, c)' <=> Finished(h, c)
<1>1. LiveEnd' = LiveEnd /\ Live' = Live
  BY Zenon DEF LiveEnd, Live
<1>2. \A i, j, signs : Between(i, j, signs)' = Between(i, j, signs)
  BY Zenon DEF Between
<1>3. \A o : Bars(o)' = Bars(o)
  BY <1>2, Zenon DEF Bars
<1>4. \A h : Part(h)' = Part(h)
  BY <1>1, <1>2, Zenon DEF Part
<1>5. \A h : HasWord(h)' <=> HasWord(h)
  BY <1>4, Zenon DEF HasWord
<1>6. Parsed' = Parsed
  BY <1>4, Zenon DEF Parsed
<1>7. \A i : InWord(i)' <=> InWord(i)
  BY <1>1, Zenon DEF InWord
<1>8. \A i : Begins(i)' <=> Begins(i)
  BY <1>7, Zenon DEF Begins
<1>9. \A i : WordFrom(i)' = WordFrom(i)
  BY <1>7, Zenon DEF WordFrom
<1>10. \A h : Arguments(h)' = Arguments(h)
  BY <1>2, <1>4, <1>8, Zenon DEF Arguments
<1>11. \A h : Kept(h)' = Kept(h)
  BY <1>10, Zenon DEF Kept, Rank
<1>12. \A h, sign : Target(h, sign)' = Target(h, sign)
  <2>0. TargetUnfolds'
    BY TargetByPlaces, PTL
  <2>1. ASSUME NEW h, NEW sign PROVE Target(h, sign)' = Target(h, sign)
    <3>1. PICK G : SignsAre(h, sign, G)
      BY DEF SignsAre
    <3>2. PICK f : f = LastOf(G)
      OBVIOUS
    <3>3. PICK W : WordsAre(h, f, W)
      BY DEF WordsAre
    <3>4. PICK w : w = FirstOf(W)
      OBVIOUS
    <3>5. SignsAre(h, sign, G)'
      BY <1>4, <3>1, Zenon DEF SignsAre
    <3>6. WordsAre(h, f, W)'
      BY <1>2, <1>4, <1>8, <3>3, Zenon DEF WordsAre
    <3>7. Target(h, sign) = IF G = {} \/ W = {} THEN <<>> ELSE WordFrom(w)
      BY <3>1, <3>2, <3>3, <3>4, TargetByPlaces, Zenon DEF TargetUnfolds
    <3>8. Target(h, sign)' = IF G = {} \/ W = {} THEN <<>> ELSE WordFrom(w)'
      BY <2>0, <3>2, <3>4, <3>5, <3>6, Zenon DEF TargetUnfolds
    <3>9. WordFrom(w)' = WordFrom(w)
      BY <1>9, Zenon
    <3> QED
      BY <3>7, <3>8, <3>9
  <2> QED
    BY <2>1, Zenon
<1>13. \A h, c : Good(h, c)' <=> Good(h, c)
  BY <1>9, <1>11, <1>12, Zenon DEF Good, Rank
<1>14. \A h, c : Finished(h, c)' <=> Finished(h, c)
  BY <1>6, <1>9, <1>11, <1>12, Zenon DEF Finished, Rank
<1> QED
  BY <1>1, <1>3, <1>5, <1>6, <1>13, <1>14, Zenon

-----------------------------------------------------------------------------
(* The invariant of the parser: what is parsed has its words, its targets and *)
(* nothing else, and what is still to come begins behind the bar of the next   *)
(* part.                                                                       *)
ParserShape ==
  /\ lp_pc \in {"typing", "parsing", "marking", "done"}
  /\ str_line \in Seq(Characters \cup {"nl"})
  /\ Len(str_line) <= MaxLine + 1 /\ Len(rest) <= Len(str_line)
  /\ commands \in Seq({commands[n] : n \in DOMAIN commands})
  /\ \A k \in DOMAIN commands : Len(commands[k].arguments) < MAX_ARGUMENTS
  /\ lp_pc = "typing" => rest = <<>> /\ commands = <<>> /\ Len(str_line) <= MaxLine
ParsedSoFar ==
  lp_pc \in {"parsing", "marking"} =>
    \A h \in 1 .. Len(commands) : Good(h, commands[h]) /\ HasWord(h)
ToCome(o) ==
  /\ o <= LiveEnd /\ (o = 0 \/ str_line[o] = Bar)
  /\ Cardinality(Bars(o)) = Len(commands)
  /\ rest = SubSeq(str_line, o + 1, LiveEnd)
StillToCome == lp_pc = "parsing" => \E o \in Nat : ToCome(o)
AllParsed == lp_pc = "marking" => Cardinality(Parsed) = Len(commands)
DoneAsWritten ==
  lp_pc = "done" =>
    /\ Len(commands) = Cardinality(Parsed)
    /\ \A k \in DOMAIN commands : Finished(k, commands[k])
ParserInv == ParserShape /\ ParsedSoFar /\ StillToCome /\ AllParsed /\ DoneAsWritten

LEMMA WrittenIs == DoneAsWritten => ParsesAsWritten
<1>1. ASSUME NEW k, Finished(k, commands[k])
      PROVE  LET given == commands[k]
                 kept == {i \in Arguments(k) :
                            Cardinality({j \in Arguments(k) : j <= i}) < MAX_ARGUMENTS}
             IN  /\ Len(given.arguments) = Cardinality(kept)
                 /\ \A i \in kept : WordFrom(i) =
                        given.arguments[Cardinality({j \in kept : j <= i})]
                 /\ given.input_redirect = Target(k, "<")
                 /\ given.output_redirect = Target(k, ">")
                 /\ given.idx = k - 1
                 /\ given.blocking <=> k = Cardinality(Parsed) /\ ~ Contains(str_line, "&")
  BY <1>1, Zenon DEF Finished, Kept, Rank
<1> QED
  BY <1>1, Zenon DEF DoneAsWritten, ParsesAsWritten

LEMMA ParserInit ==
  ASSUME LineParserInit PROVE ParserInv
<1>1. lp_pc = "typing" /\ str_line = <<>> /\ rest = <<>> /\ commands = <<>>
  BY DEF LineParserInit
<1>2. ParserShape
  BY <1>1, ParserConstants DEF ParserShape
<1> QED
  BY <1>1, <1>2 DEF ParserInv, ParsedSoFar, StillToCome, AllParsed, DoneAsWritten

LEMMA ParserStutter ==
  ASSUME ParserInv, UNCHANGED parserVars PROVE ParserInv'
<1>1. lp_pc' = lp_pc /\ str_line' = str_line /\ rest' = rest /\ commands' = commands
  BY DEF parserVars
<1>2. /\ LiveEnd' = LiveEnd /\ Parsed' = Parsed
      /\ \A o : Bars(o)' = Bars(o)
      /\ \A h : HasWord(h)' <=> HasWord(h)
      /\ \A h, c : Good(h, c)' <=> Good(h, c)
      /\ \A h, c : Finished(h, c)' <=> Finished(h, c)
  BY <1>1, LineKept
<1>3. ParserShape'
  BY <1>1, Zenon DEF ParserInv, ParserShape
<1>4. ParsedSoFar'
  BY <1>1, <1>2, Zenon DEF ParserInv, ParsedSoFar
<1>5. StillToCome'
  BY <1>1, <1>2, Zenon DEF ParserInv, StillToCome, ToCome
<1>6. AllParsed'
  BY <1>1, <1>2, Zenon DEF ParserInv, AllParsed
<1>7. DoneAsWritten'
  BY <1>1, <1>2, Zenon DEF ParserInv, DoneAsWritten
<1> QED
  BY <1>3, <1>4, <1>5, <1>6, <1>7 DEF ParserInv

LEMMA Typed ==
  ASSUME ParserInv, type_character PROVE ParserInv'
<1>1. /\ lp_pc = "typing" /\ lp_pc' = "typing" /\ rest = <<>> /\ commands = <<>>
      /\ rest' = rest /\ commands' = commands
      /\ str_line \in Seq(Characters \cup {"nl"}) /\ Len(str_line) < MaxLine
  BY DEF ParserInv, ParserShape, type_character
<1>2. PICK x \in Characters : str_line' = Append(str_line, x)
  BY DEF type_character
<1>3. str_line' \in Seq(Characters \cup {"nl"}) /\ Len(str_line') = Len(str_line) + 1 /\ Len(str_line) \in Nat
  BY <1>1, <1>2
<1>4. ParserShape'
  BY <1>1, <1>3, ParserConstants DEF ParserShape
<1> QED
  BY <1>1, <1>4 DEF ParserInv, ParsedSoFar, StillToCome, AllParsed, DoneAsWritten

LEMMA LineTaken ==
  ASSUME ParserInv, parse_cmd_lines PROVE ParserInv'
<1>1. /\ lp_pc = "typing" /\ commands = <<>> /\ commands' = commands
      /\ str_line \in Seq(Characters \cup {"nl"}) /\ Len(str_line) <= MaxLine
  BY DEF ParserInv, ParserShape, parse_cmd_lines
<1>2. PICK line \in {str_line, Append(str_line, "nl")} :
           /\ str_line' = line
           /\ lp_pc' = IF is_empty(line) THEN "done" ELSE "parsing"
           /\ rest' = Until(line, {"nl", "&"})
  BY DEF parse_cmd_lines
<1>3. line \in Seq(Characters \cup {"nl"}) /\ Len(line) <= MaxLine + 1 /\ Len(line) \in Nat
  BY <1>1, ParserConstants
<1>4. PICK m \in 0 .. Len(line) : rest' = SubSeq(line, 1, m) /\ Len(rest') = m
  BY <1>2, <1>3, UntilIs
<1>5. LiveEnd' = m /\ Live' = 1 .. m
  BY <1>2, <1>4 DEF LiveEnd, Live
<1>6. ParserShape'
  <2>1. commands' = <<>> /\ lp_pc' \in {"done", "parsing"} /\ str_line' = line
    BY <1>1, <1>2
  <2> QED
    BY <1>3, <1>4, <2>1 DEF ParserShape
<1>7. ParsedSoFar'
  BY <1>1 DEF ParsedSoFar
<1>8. StillToCome'
  <2>1. Bars(0)' = {}
    BY DEF Bars, Between
  <2>2. Cardinality(Bars(0)') = 0
    BY <2>1, FS_EmptySet
  <2>3. ToCome(0)'
    BY <1>1, <1>2, <1>3, <1>4, <1>5, <2>2 DEF ToCome
  <2> QED
    BY <2>3 DEF StillToCome
<1>9. AllParsed'
  BY <1>2 DEF AllParsed
<1>10. DoneAsWritten'
  <2>1. ASSUME lp_pc' = "done" PROVE Cardinality(Parsed') = 0
    <3>1. \A i \in 1 .. Len(line) : line[i] \in Blank
      BY <1>2, <1>3, <2>1 DEF is_empty
    <3>2. ASSUME NEW i \in Part(1)' PROVE str_line'[i] \in Blank
      <4>1. i \in 1 .. m
        BY <1>5 DEF Part
      <4> QED
        BY <1>2, <1>3, <3>1, <4>1
    <3>3. Parsed' = {}
      <4>1. ASSUME NEW k \in Parsed' PROVE FALSE
        <5>1. /\ k \in 1 .. Len(str_line') + 1
              /\ \A h \in 1 .. k : \E i \in Part(h)' : str_line'[i] \notin Blank
          BY DEF Parsed
        <5>2. 1 \in 1 .. k
          BY <5>1
        <5> QED
          BY <3>2, <5>1, <5>2
      <4> QED
        BY <4>1
    <3> QED
      BY <3>3, FS_EmptySet
  <2> QED
    BY <1>1, <2>1 DEF DoneAsWritten
<1> QED
  BY <1>6, <1>7, <1>8, <1>9, <1>10 DEF ParserInv

LEMMA PartTaken ==
  ASSUME ParserInv, _parse_cmd_lines PROVE ParserInv'
<1> DEFINE S == Characters \cup {"nl"}
           part == Until(rest, {Bar})
           k == Len(commands) + 1
<1>1. /\ lp_pc = "parsing" /\ str_line' = str_line
      /\ str_line \in Seq(S) /\ Len(str_line) <= MaxLine + 1 /\ Len(rest) <= Len(str_line)
      /\ commands \in Seq({commands[n] : n \in DOMAIN commands})
      /\ \A h \in DOMAIN commands : Len(commands[h].arguments) < MAX_ARGUMENTS
  BY DEF ParserInv, ParserShape, _parse_cmd_lines
<1>2. \A h \in 1 .. Len(commands) : Good(h, commands[h]) /\ HasWord(h)
  BY <1>1 DEF ParserInv, ParsedSoFar
<1>3. PICK o \in Nat : ToCome(o)
  BY <1>1 DEF ParserInv, StillToCome
<1>4. Len(commands) \in Nat /\ DOMAIN commands = 1 .. Len(commands)
      /\ k \in Nat /\ k = Cardinality(Bars(o)) + 1
  BY <1>1, <1>3 DEF ToCome
<1>5. o <= LiveEnd /\ (o = 0 \/ str_line[o] = Bar) /\ rest = SubSeq(str_line, o + 1, LiveEnd)
  BY <1>3 DEF ToCome
<1>6. PICK e \in o .. LiveEnd : NextIs(o, e, k, rest, part)
  <2>1. PICK R, P : R = rest /\ P = part
    OBVIOUS
  <2>2. R = SubSeq(str_line, o + 1, LiveEnd) /\ P = Until(R, {Bar})
    BY <1>5, <2>1
  <2>3. \E e \in o .. LiveEnd : NextIs(o, e, k, R, P)
    <3>1. str_line \in Seq(S)
      BY <1>1
    <3> HIDE DEF S, part, k
    <3> QED
      BY <1>4, <1>5, <2>2, <3>1, NextPart
  <2> QED
    BY <2>1, <2>3
<1>12. /\ Len(part) = e - o /\ Len(rest) = LiveEnd - o
       /\ is_empty(part) <=> ~ HasWord(k)
       /\ Good(k, parse_single_cmd_line(part))
       /\ e < LiveEnd => /\ After(rest, Len(part) + 2) = SubSeq(str_line, (e + 1) + 1, LiveEnd)
                         /\ str_line[e + 1] = Bar /\ Cardinality(Bars(e + 1)) = k
       /\ e = LiveEnd => Part(k + 1) = {} /\ Len(After(rest, Len(part) + 2)) = 0
  BY <1>6 DEF NextIs
<1> HIDE DEF S, part, k
<1>7. /\ LiveEnd' = LiveEnd /\ Parsed' = Parsed
      /\ \A i : Bars(i)' = Bars(i)
      /\ \A h : HasWord(h)' <=> HasWord(h)
      /\ \A h, c : Good(h, c)' <=> Good(h, c)
  BY <1>1, LineKept
<1>8. Len(str_line) \in Nat /\ LiveEnd \in Nat /\ LiveEnd <= Len(str_line)
  BY <1>1, LiveIs
<1>9. ASSUME \A h \in 1 .. Len(commands) : HasWord(h), ~ HasWord(k)
      PROVE  Cardinality(Parsed) = Len(commands)
  <2>1. ~ HasWord(Len(commands) + 1)
    BY <1>9 DEF k
  <2> QED
    BY <1>1, <1>4, <1>9, <2>1, ParsedIs
<1>10. CASE is_empty(part)
  <2>1. lp_pc' = "marking" /\ rest' = rest /\ commands' = commands
    BY <1>10 DEF _parse_cmd_lines, part
  <2>2. ParserShape'
    BY <1>1, <2>1, Zenon DEF ParserInv, ParserShape
  <2>3. ParsedSoFar'
    BY <1>2, <1>7, <2>1, Zenon DEF ParsedSoFar
  <2>4. AllParsed'
    <3>1. Cardinality(Parsed) = Len(commands)
      BY <1>2, <1>12, <1>9, <1>10
    <3> QED
      BY <1>7, <2>1, <3>1 DEF AllParsed
  <2>5. StillToCome' /\ DoneAsWritten'
    BY <2>1 DEF StillToCome, DoneAsWritten
  <2> QED
    BY <2>2, <2>3, <2>4, <2>5 DEF ParserInv
<1>11. CASE ~ is_empty(part)
  <2>1. PICK c : c = parse_single_cmd_line(part)
    OBVIOUS
  <2>2. /\ commands' = Append(commands, c)
        /\ rest' = After(rest, Len(part) + 2)
        /\ lp_pc' = IF Len(part) = Len(rest) THEN "marking" ELSE "parsing"
    BY <1>11, <2>1 DEF _parse_cmd_lines, part
  <2>3. Good(k, c) /\ HasWord(k)
    BY <1>12, <1>11, <2>1
  <2>4. /\ Len(commands') = k /\ DOMAIN commands' = 1 .. k
        /\ \A h \in 1 .. Len(commands) : commands'[h] = commands[h]
        /\ commands'[k] = c
    BY <1>1, <1>4, <2>2 DEF k
  <2>5. \A h \in 1 .. k : h \in 1 .. Len(commands) \/ h = k
    BY <1>4 DEF k
  <2>6. \A h \in 1 .. k : Good(h, commands'[h]) /\ HasWord(h)
    BY <1>2, <2>3, <2>4, <2>5
  <2>7. commands' \in Seq({commands'[n] : n \in DOMAIN commands'})
    <3>1. \A n \in DOMAIN commands : n \in DOMAIN commands' /\ commands'[n] = commands[n]
      BY <1>4, <2>4 DEF k
    <3>2. k \in DOMAIN commands'
      BY <1>4, <2>4 DEF k
    <3> DEFINE Q == {commands'[n] : n \in DOMAIN commands'}
    <3>3. c \in Q /\ {commands[n] : n \in DOMAIN commands} \subseteq Q
      BY <2>4, <3>1, <3>2
    <3> HIDE DEF Q
    <3>4. commands \in Seq(Q)
      BY <1>1, <3>3
    <3>5. commands' \in Seq(Q)
      BY <2>2, <3>3, <3>4
    <3> QED
      BY <3>5 DEF Q
  <2>8. \A h \in 1 .. k : Len(commands'[h].arguments) < MAX_ARGUMENTS
    BY <2>6 DEF Good
  <2>9. ParsedSoFar'
    BY <1>7, <2>4, <2>6, Zenon DEF ParsedSoFar
  <2>10. CASE e = LiveEnd
    <3>1. lp_pc' = "marking" /\ Len(rest') = 0
      BY <1>12, <2>2, <2>10
    <3>2. ParserShape'
      BY <1>1, <1>8, <2>4, <2>7, <2>8, <3>1 DEF ParserShape, S
    <3>3. ~ HasWord(k + 1)
      BY <1>12, <2>10 DEF HasWord
    <3>4. AllParsed'
      <4>1. Cardinality(Parsed) = k
        BY <1>1, <1>4, <2>6, <3>3, ParsedIs
      <4> QED
        BY <1>7, <2>4, <4>1 DEF AllParsed
    <3>5. StillToCome' /\ DoneAsWritten'
      BY <3>1 DEF StillToCome, DoneAsWritten
    <3> QED
      BY <2>9, <3>2, <3>4, <3>5 DEF ParserInv
  <2>11. CASE e # LiveEnd
    <3>1. e < LiveEnd /\ Len(part) # Len(rest) /\ e \in Nat
      BY <1>6, <1>12, <1>8, <2>11
    <3>2. /\ lp_pc' = "parsing" /\ rest' = SubSeq(str_line, (e + 1) + 1, LiveEnd)
          /\ str_line[e + 1] = Bar /\ Cardinality(Bars(e + 1)) = k
      BY <1>12, <2>2, <3>1
    <3>3. Len(rest') <= Len(str_line)
      <4>1. (e + 1) + 1 \in 1 .. Len(str_line) + 1 /\ LiveEnd \in ((e + 1) + 1) - 1 .. Len(str_line)
        BY <1>8, <3>1
      <4>2. Len(SubSeq(str_line, (e + 1) + 1, LiveEnd)) = LiveEnd - ((e + 1) + 1) + 1
        BY <1>1, <4>1, CutIs
      <4> QED
        BY <1>8, <3>1, <3>2, <4>2
    <3>4. ParserShape'
      BY <1>1, <1>8, <2>4, <2>7, <2>8, <3>2, <3>3 DEF ParserShape, S
    <3>5. StillToCome'
      <4>1. e + 1 \in Nat /\ e + 1 <= LiveEnd'
        BY <1>7, <1>8, <3>1
      <4>2. Cardinality(Bars(e + 1)') = Len(commands')
        BY <1>7, <2>4, <3>2
      <4>3. str_line'[e + 1] = Bar /\ rest' = SubSeq(str_line', (e + 1) + 1, LiveEnd')
        BY <1>1, <1>7, <3>2
      <4>4. ToCome(e + 1)'
        BY <4>1, <4>2, <4>3 DEF ToCome
      <4> QED
        BY <4>1, <4>4 DEF StillToCome
    <3>6. AllParsed' /\ DoneAsWritten'
      BY <3>2 DEF AllParsed, DoneAsWritten
    <3> QED
      BY <2>9, <3>4, <3>5, <3>6 DEF ParserInv
  <2> QED
    BY <2>10, <2>11
<1> QED
  BY <1>10, <1>11

LEMMA Marked ==
  ASSUME ParserInv, mark_commands PROVE ParserInv'
<1>1. /\ lp_pc = "marking" /\ lp_pc' = "done" /\ str_line' = str_line /\ rest' = rest
      /\ commands \in Seq({commands[n] : n \in DOMAIN commands})
  BY DEF ParserInv, ParserShape, mark_commands
<1>2. /\ \A h \in 1 .. Len(commands) : Good(h, commands[h])
      /\ Cardinality(Parsed) = Len(commands)
  BY <1>1 DEF ParserInv, ParsedSoFar, AllParsed
<1>3. Len(commands) \in Nat /\ DOMAIN commands = 1 .. Len(commands)
  BY <1>1
<1> DEFINE n == Len(commands)
           last(k) == k = n /\ ~ Contains(str_line, "&")
<1>4. commands' = [k \in 1 .. n |-> [commands[k] EXCEPT !.idx = k - 1, !.blocking = last(k)]]
  BY <1>3 DEF mark_commands
<1>5. ASSUME NEW k \in 1 .. n
      PROVE  Finished(k, commands'[k]) /\ Len(commands'[k].arguments) < MAX_ARGUMENTS
  <2>1. PICK c : c = commands[k]
    OBVIOUS
  <2>2. Good(k, c)
    BY <1>2, <2>1
  <2>3. commands'[k] = [c EXCEPT !.idx = k - 1, !.blocking = last(k)]
    BY <1>4, <2>1
  <2>4. PICK b \in BOOLEAN : b <=> last(k)
    OBVIOUS
  <2>5. last(k) = b
    BY <2>4
  <2> HIDE DEF last
  <2>6. /\ commands'[k].arguments = c.arguments
        /\ commands'[k].input_redirect = Target(k, "<")
        /\ commands'[k].output_redirect = Target(k, ">")
        /\ commands'[k].idx = k - 1 /\ commands'[k].blocking = b
    <3>1. PICK d : d = [c EXCEPT !.idx = k - 1, !.blocking = b]
      OBVIOUS
    <3>2. c = [arguments |-> c.arguments, input_redirect |-> Target(k, "<"),
               output_redirect |-> Target(k, ">"), blocking |-> FALSE, idx |-> 0]
      BY <2>2 DEF Good
    <3>3. PICK a, t, u : a = c.arguments /\ t = Target(k, "<") /\ u = Target(k, ">")
      OBVIOUS
    <3>4. c = [arguments |-> a, input_redirect |-> t, output_redirect |-> u,
               blocking |-> FALSE, idx |-> 0]
      BY <3>2, <3>3
    <3>5. /\ d.arguments = a /\ d.input_redirect = t /\ d.output_redirect = u
          /\ d.idx = k - 1 /\ d.blocking = b
      BY <3>1, <3>4
    <3> QED
      BY <2>3, <2>5, <3>1, <3>3, <3>5
  <2>7. /\ Len(c.arguments) = Cardinality(Kept(k)) /\ Len(c.arguments) < MAX_ARGUMENTS
        /\ \A i \in Kept(k) : WordFrom(i) = c.arguments[Rank(Kept(k), i)]
    BY <2>2 DEF Good
  <2>8. b <=> k = Cardinality(Parsed) /\ ~ Contains(str_line, "&")
    BY <1>2, <2>4 DEF last
  <2> QED
    BY <2>6, <2>7, <2>8 DEF Finished
<1>6. Len(commands') = n /\ DOMAIN commands' = 1 .. n
      /\ commands' \in Seq({commands'[h] : h \in DOMAIN commands'})
  <2> DEFINE F(k) == [commands[k] EXCEPT !.idx = k - 1, !.blocking = last(k)]
  <2> HIDE DEF F
  <2>1. commands' = [k \in 1 .. n |-> F(k)]
    BY <1>4 DEF F
  <2>2. DOMAIN commands' = 1 .. n
    BY <2>1
  <2>3. commands' \in [1 .. n -> {commands'[h] : h \in 1 .. n}]
    BY <2>1
  <2> QED
    BY <1>3, <2>2, <2>3
<1> HIDE DEF n, last
<1>7. Parsed' = Parsed /\ \A h, c : Finished(h, c)' <=> Finished(h, c)
  BY <1>1, LineKept
<1>8. ParserShape'
  <2>1. /\ str_line \in Seq(Characters \cup {"nl"})
        /\ Len(str_line) <= MaxLine + 1 /\ Len(rest) <= Len(str_line)
    BY DEF ParserInv, ParserShape
  <2> QED
    BY <1>1, <1>5, <1>6, <2>1 DEF ParserShape
<1>9. DoneAsWritten'
  <2>1. Len(commands') = Cardinality(Parsed')
    BY <1>2, <1>6, <1>7 DEF n
  <2> QED
    BY <1>5, <1>6, <1>7, <2>1, Zenon DEF DoneAsWritten
<1>10. ParsedSoFar' /\ StillToCome' /\ AllParsed'
  BY <1>1 DEF ParsedSoFar, StillToCome, AllParsed
<1> QED
  BY <1>8, <1>9, <1>10 DEF ParserInv

LEMMA ParserStep ==
  ASSUME ParserInv, LineParserNext PROVE ParserInv'
BY Typed, LineTaken, PartTaken, Marked DEF LineParserNext

-----------------------------------------------------------------------------
(* The programs side by side.                                                *)

ToolsInv == ParserInv /\ CounterInv /\ FindInv /\ HexInv

LEMMA ToolsInit ==
  ASSUME Init PROVE ToolsInv
BY ParserInit, CounterInit, FindInitial, HexInit DEF Init, ToolsInv

LEMMA ToolsStutter ==
  ASSUME ToolsInv, UNCHANGED vars PROVE ToolsInv'
<1>1. UNCHANGED parserVars /\ UNCHANGED counterVars /\ UNCHANGED findVars /\ UNCHANGED hexVars
  BY DEF vars
<1> QED
  BY <1>1, ParserStutter, CounterStutter, FindStutter, HexStutter DEF ToolsInv

LEMMA ToolsStep ==
  ASSUME ToolsInv, Next PROVE ToolsInv'
<1>1. CASE LineParserNext /\ UNCHANGED counterVars /\ UNCHANGED findVars /\ UNCHANGED hexVars
  BY <1>1, ParserStep, CounterStutter, FindStutter, HexStutter DEF ToolsInv
<1>2. CASE WordCounterNext /\ UNCHANGED parserVars /\ UNCHANGED findVars /\ UNCHANGED hexVars
  BY <1>2, ParserStutter, CounterStep, FindStutter, HexStutter DEF ToolsInv
<1>3. CASE FindNext /\ UNCHANGED parserVars /\ UNCHANGED counterVars /\ UNCHANGED hexVars
  BY <1>3, ParserStutter, CounterStutter, FindStep, HexStutter DEF ToolsInv
<1>4. CASE HexEditNext /\ UNCHANGED parserVars /\ UNCHANGED counterVars /\ UNCHANGED findVars
  BY <1>4, ParserStutter, CounterStutter, FindStutter, HexStep DEF ToolsInv
<1> QED
  BY <1>1, <1>2, <1>3, <1>4, Zenon DEF Next

(* The invariant of the programs holds of every behaviour.                    *)
LEMMA ToolsInvariant == FairSpec => []ToolsInv
<1>1. Init => ToolsInv
  BY ToolsInit
<1>2. ToolsInv /\ [Next]_vars => ToolsInv'
  BY ToolsStep, ToolsStutter
<1> QED
  BY <1>1, <1>2, PTL DEF FairSpec

(* The variables of every program stay what their code allows: no command     *)
(* gets more arguments than fit (line_parser.c), the counts stay within the    *)
(* input (wordcounter.c), the walk within its directories (lab4_main.c) and    *)
(* the editor within its descriptors (hexeditplus.c).                          *)
THEOREM ToolsTypeCorrect == FairSpec => []TypeOK
<1>1. ToolsInv => TypeOK
  BY DEF ToolsInv, TypeOK, ParserInv, ParserShape, ParserTypeOK, CounterInv, CounterTypes,
         FindInv, HexInv
<1> QED
  BY <1>1, ToolsInvariant, PTL

(* parse_cmd_lines (line_parser.c) gives the commands of the line: for every  *)
(* line, every alphabet and every number of places for arguments, each word is *)
(* an argument in its place, the file of a redirection, or lost for one of the *)
(* reasons the property names.                                                 *)
THEOREM LineParsedAsWritten == FairSpec => []ParsesAsWritten
<1>1. ToolsInv => ParsesAsWritten
  BY WrittenIs DEF ToolsInv, ParserInv
<1> QED
  BY <1>1, ToolsInvariant, PTL

(* main (wordcounter.c): at the end what is printed for each option is the    *)
(* number of words, letters or lines of the text, or its longest word, for     *)
(* texts of any length, up to the end of the input or its first byte 255.      *)
THEOREM WordsCountedAsRead == FairSpec => []CountsAsRead
<1>1. ToolsInv => CountsAsRead
  BY DEF ToolsInv, CounterInv
<1> QED
  BY <1>1, ToolsInvariant, PTL

(* rec (lab4_main.c): at the end of the walk of any tree every entry that     *)
(* matches has been reported, no entry twice, and each behind the entry of its *)
(* directory and behind the entries before it.                                 *)
THEOREM EntriesReportedOnce == FairSpec => []EveryEntryOnce
<1>1. ToolsInv => EveryEntryOnce
  BY DEF ToolsInv, FindInv
<1> QED
  BY <1>1, ToolsInvariant, PTL

(* rec (lab4_main.c): in any tree, "Does not exist" is written exactly when no *)
(* directory on the way from the root by last subdirectories has an entry of   *)
(* that name behind its last subdirectory, found before or not.                *)
THEOREM MissingSaidAsWritten == FairSpec => []MissingIsSaid
<1>1. ToolsInv => MissingIsSaid
  BY DEF ToolsInv, FindInv
<1> QED
  BY <1>1, ToolsInvariant, PTL

(* A step of the editor, among the steps of the programs.                     *)
LEMMA EditorStep ==
  ASSUME ToolsInv, [Next]_vars
  PROVE  UNCHANGED hexVars \/ (HexInv /\ HexEditNext)
BY DEF Next, vars, ToolsInv

(* file_modify and file_copy (hexeditplus.c) write nothing outside the bytes  *)
(* from the location they used on, and there the bytes of the source or of    *)
(* the number that was typed; memory nobody wrote only where the source ends, *)
(* in the fifth byte of a unit, and for a number that could not be read.  For *)
(* files and operations of any size.                                           *)
THEOREM EditorWritesAsAsked == FairSpec => WritesWhatWasAsked
<1>1. ToolsInv /\ [Next]_vars =>
        [\A name \in Files : WrittenWhereAsked(name)]_hexVars
  BY EditorStep, HexStep
<1> QED
  BY <1>1, ToolsInvariant, PTL DEF FairSpec, WritesWhatWasAsked, WrittenWhereAsked

(* file_display (hexeditplus.c) with units of 1, 2 or 4 bytes shows the bytes *)
(* of the file from the location used on, in order and without gaps, for      *)
(* files, locations and lengths of any size.                                   *)
THEOREM EditorShowsDisk == FairSpec => ShownAsOnDisk
<1>1. ToolsInv /\ [Next]_vars => [Shown]_hexVars
  BY EditorStep, ShownStep
<1> QED
  BY <1>1, ToolsInvariant, PTL DEF FairSpec, ShownAsOnDisk, Shown
================================================================================

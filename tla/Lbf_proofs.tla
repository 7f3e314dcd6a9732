----------------------------- MODULE Lbf_proofs -----------------------------
(***************************************************************************)
(* What lbf makes of a program and how it executes it, for every text: the *)
(* operations are those of the text, brackets know each other, and each    *)
(* operation does what the machine does that walks over the text.          *)
(***************************************************************************)
EXTENDS Lbf, Induction, FiniteSetTheorems, SequenceTheorems

-----------------------------------------------------------------------------
(* How deep a text is in brackets *)

Weight(c) == CASE c = "[" -> 1 [] c = "]" -> -1 [] OTHER -> 0

\* p is how deep each place of t lies, counted from the beginning.
Sums(t, p) ==
    /\ p \in [0..Len(t) -> Int]
    /\ p[0] = 0
    /\ \A k \in 1..Len(t) : p[k] = p[k - 1] + Weight(t[k])

LEMMA WeightType == \A c : Weight(c) \in Int
  BY DEF Weight

\* Such a count exists for every text.
LEMMA HasSums ==
    ASSUME NEW t \in Seq(Characters)
    PROVE  \E p : Sums(t, p)
<1> DEFINE Part(n, p) == /\ p \in [0..n -> Int] /\ p[0] = 0
                         /\ \A k \in 1..n : p[k] = p[k - 1] + Weight(t[k])
           S == {n \in Nat : \E p : Part(n, p)}
<1>1. 0 \in S
  <2>1. Part(0, [k \in 0..0 |-> 0])
    OBVIOUS
  <2> QED
    BY <2>1
<1>2. ASSUME NEW n \in Nat, n \in S PROVE n + 1 \in S
  <2>1. PICK p : Part(n, p)
    BY <1>2
  <2> DEFINE q == [k \in 0..(n + 1) |-> IF k = n + 1 THEN p[n] + Weight(t[n + 1]) ELSE p[k]]
  <2>2. Part(n + 1, q)
    BY <2>1, WeightType
  <2> HIDE DEF Part
  <2> QED
    BY <2>2
<1>3. Nat \subseteq S
  <2> HIDE DEF S
  <2> QED
    BY <1>1, <1>2, SetInduction
<1> QED
  BY <1>3 DEF Sums

\* The recursion of Depth is the difference of two counts.
LEMMA DepthIs ==
    ASSUME NEW t \in Seq(Characters), NEW p, Sums(t, p),
           NEW from \in 1..Len(t), NEW k \in from..Len(t)
    PROVE  Depth(t, from, k) = p[k] - p[from - 1]
<1> DEFINE Eq(d) == d = [j \in (from - 1)..k |->
                            IF j < from THEN 0 ELSE d[j - 1] + Weight(t[j])]
           g == [j \in (from - 1)..k |-> p[j] - p[from - 1]]
<1>1. Eq(g)
  <2>1. ASSUME NEW j \in (from - 1)..k
        PROVE  g[j] = IF j < from THEN 0 ELSE g[j - 1] + Weight(t[j])
    <3>1. CASE j < from
      BY <3>1 DEF Sums
    <3>2. CASE ~(j < from)
      <4>1. /\ j \in 1..Len(t) /\ j - 1 \in (from - 1)..k
            /\ j - 1 \in 0..Len(t) /\ j \in 0..Len(t) /\ from - 1 \in 0..Len(t)
        BY <3>2
      <4>2. p[j] = p[j - 1] + Weight(t[j]) /\ p[j] \in Int /\ p[j - 1] \in Int /\ p[from - 1] \in Int
        BY <4>1 DEF Sums
      <4> QED
        BY <3>2, <4>1, <4>2, WeightType
    <3> QED
      BY <3>1, <3>2
  <2> QED
    BY <2>1
<1>2. ASSUME NEW d, Eq(d) PROVE d[k] = g[k]
  <2> DEFINE S == {n \in Nat : from - 1 + n <= k => d[from - 1 + n] = g[from - 1 + n]}
  <2>1. 0 \in S
    BY <1>2, <1>1
  <2>2. ASSUME NEW n \in Nat, n \in S PROVE n + 1 \in S
    <3> SUFFICES ASSUME from - 1 + (n + 1) <= k
                 PROVE  d[from - 1 + (n + 1)] = g[from - 1 + (n + 1)]
      OBVIOUS
    <3> DEFINE j == from - 1 + (n + 1)
    <3>1. j \in (from - 1)..k /\ ~(j < from) /\ j - 1 = from - 1 + n
      OBVIOUS
    <3>2. d[j] = d[j - 1] + Weight(t[j]) /\ g[j] = g[j - 1] + Weight(t[j])
      <4> HIDE DEF g, j
      <4> QED
        BY <1>1, <1>2, <3>1
    <3>3. d[j - 1] = g[j - 1]
      BY <2>2, <3>1
    <3> QED
      BY <3>2, <3>3
  <2>3. Nat \subseteq S
    <3> HIDE DEF S
    <3> QED
      BY <2>1, <2>2, SetInduction
  <2> DEFINE m == k - (from - 1)
  <2>4. m \in Nat /\ from - 1 + m = k /\ k <= k
    OBVIOUS
  <2> HIDE DEF g, m
  <2>5. m \in S
    BY <2>3, <2>4
  <2> QED
    BY <2>4, <2>5
<1>3. Depth(t, from, k) = (CHOOSE d : Eq(d))[k]
  BY DEF Depth, Weight
<1>4. Eq(CHOOSE d : Eq(d))
  <2> HIDE DEF Eq
  <2> QED
    BY <1>1
<1>5. g[k] = p[k] - p[from - 1]
  OBVIOUS
<1> HIDE DEF Eq, g
<1> QED
  BY <1>2, <1>3, <1>4, <1>5

\* Without brackets the depth stays as it is.
LEMMA FlatRow ==
    ASSUME NEW t \in Seq(Characters), NEW p, Sums(t, p),
           NEW a \in 1..Len(t), NEW b \in a..Len(t),
           \A k \in a..b : t[k] \notin {"[", "]"}
    PROVE  \A k \in a..b : p[k] = p[a - 1]
<1> DEFINE S == {n \in Nat : a - 1 + n <= b => p[a - 1 + n] = p[a - 1]}
<1>1. 0 \in S
  OBVIOUS
<1>2. ASSUME NEW n \in Nat, n \in S PROVE n + 1 \in S
  <2> SUFFICES ASSUME a - 1 + (n + 1) <= b
               PROVE  p[a - 1 + (n + 1)] = p[a - 1]
    OBVIOUS
  <2>1. /\ a + n \in a..b /\ a + n \in 1..Len(t) /\ a - 1 + (n + 1) = a + n
        /\ a - 1 + n = a + n - 1 /\ a - 1 + n <= b /\ a - 1 + n \in 0..Len(t) /\ a - 1 \in 0..Len(t)
    OBVIOUS
  <2>2. p[a + n] = p[a - 1 + n] + Weight(t[a + n])
    BY <2>1 DEF Sums
  <2>4. Weight(t[a + n]) = 0
    BY <2>1 DEF Weight
  <2>3. p[a - 1 + n] = p[a - 1] /\ p[a - 1] \in Int
    BY <1>2, <2>1 DEF Sums
  <2> QED
    BY <2>1, <2>2, <2>3, <2>4
<1>3. Nat \subseteq S
  <2> HIDE DEF S
  <2> QED
    BY <1>1, <1>2, SetInduction
<1> SUFFICES ASSUME NEW k \in a..b PROVE p[k] = p[a - 1]
  OBVIOUS
<1> DEFINE m == k - (a - 1)
<1>4. m \in Nat /\ a - 1 + m = k /\ k <= b
  OBVIOUS
<1> HIDE DEF m
<1> QED
  BY <1>3, <1>4

-----------------------------------------------------------------------------
(* Numbers *)

LEMMA DigitNat ==
    ASSUME NEW c \in DigitSet
    PROVE  DigitValue(c) \in Nat
  BY DEF DigitSet, Digits, DigitValue

LEMMA NumberNat ==
    ASSUME NEW t \in Seq(Characters), NEW from \in 1..(Len(t) + 1), NEW to \in (from - 1)..Len(t),
           \A k \in from..to : t[k] \in DigitSet
    PROVE  Number(t, from, to) \in Nat
<1> DEFINE D(n) == (from - 1)..(from - 1 + n)
           Eq(f, n) == f = [k \in D(n) |-> IF k < from THEN 0 ELSE 10 * f[k - 1] + DigitValue(t[k])]
           Good(f, n) == Eq(f, n) /\ \A k \in D(n) : f[k] \in Nat
           S == {n \in Nat : from - 1 + n <= to => \E f : Good(f, n)}
<1>1. 0 \in S
  <2>1. Good([k \in D(0) |-> 0], 0)
    OBVIOUS
  <2> HIDE DEF Good
  <2> QED
    BY <2>1
<1>2. ASSUME NEW n \in Nat, n \in S PROVE n + 1 \in S
  <2> SUFFICES ASSUME from - 1 + (n + 1) <= to PROVE \E f : Good(f, n + 1)
    OBVIOUS
  <2> DEFINE e == from + n
             next(f) == [k \in D(n + 1) |-> IF k = e THEN 10 * f[e - 1] + DigitValue(t[e]) ELSE f[k]]
  <2>1. PICK f : Good(f, n)
    <3>1. from - 1 + n <= to
      OBVIOUS
    <3> HIDE DEF Good
    <3> QED
      BY <1>2, <3>1
  <2>2. /\ e \in from..to /\ e - 1 \in D(n) /\ e \in D(n + 1) /\ e \notin D(n)
        /\ \A k \in D(n + 1) : k # e => k \in D(n)
        /\ \A k \in D(n + 1) : k - 1 # e
        /\ \A k \in D(n + 1) : k # e /\ ~(k < from) => k - 1 \in D(n) /\ k - 1 \in D(n + 1)
        /\ e - 1 \in D(n + 1) /\ ~(e < from)
    OBVIOUS
  <2>3. f[e - 1] \in Nat /\ DigitValue(t[e]) \in Nat /\ \A k \in D(n) : f[k] \in Nat
    BY <2>1, <2>2, DigitNat
  <2>4. \A k \in D(n) : f[k] = IF k < from THEN 0 ELSE 10 * f[k - 1] + DigitValue(t[k])
    BY <2>1
  <2> DEFINE g == next(f)
  <2>5. ASSUME NEW k \in D(n + 1)
        PROVE  /\ g[k] = IF k < from THEN 0 ELSE 10 * g[k - 1] + DigitValue(t[k])
               /\ g[k] \in Nat
    <3> HIDE DEF D, e
    <3>0. g[k] = IF k = e THEN 10 * f[e - 1] + DigitValue(t[e]) ELSE f[k]
      OBVIOUS
    <3>1. CASE k = e
      <4>1. g[e - 1] = f[e - 1]
        <5>1. e - 1 # e
          BY DEF e
        <5> QED
          BY <2>2, <5>1
      <4> QED
        BY <2>2, <2>3, <3>0, <3>1, <4>1
    <3>2. CASE k # e /\ ~(k < from)
      <4>1. g[k - 1] = f[k - 1]
        BY <2>2, <3>2
      <4> QED
        BY <2>2, <2>3, <2>4, <3>0, <3>2, <4>1
    <3>3. CASE k # e /\ k < from
      BY <2>2, <2>3, <2>4, <3>0, <3>3
    <3> QED
      BY <3>1, <3>2, <3>3
  <2>6. Good(g, n + 1)
    <3>1. Eq(g, n + 1)
      <4>1. g = [k \in D(n + 1) |-> g[k]]
        OBVIOUS
      <4> HIDE DEF g, D
      <4> QED
        BY <2>5, <4>1
    <3> HIDE DEF g, D, Eq
    <3> QED
      BY <2>5, <3>1
  <2> HIDE DEF Good, g
  <2> QED
    BY <2>6
<1>3. Nat \subseteq S
  <2> HIDE DEF S
  <2> QED
    BY <1>1, <1>2, SetInduction
<1> DEFINE m == to - (from - 1)
<1>4. m \in Nat /\ from - 1 + m = to /\ from - 1 + m <= to
  OBVIOUS
<1> HIDE DEF m
<1>5. PICK f : Good(f, m)
  <2> HIDE DEF Good
  <2> QED
    BY <1>3, <1>4
<1>6. Number(t, from, to) = (CHOOSE g : Eq(g, m))[to]
  BY <1>4 DEF Number
<1> DEFINE h == CHOOSE g : Eq(g, m)
<1>7. Eq(h, m)
  <2>1. \E g : Eq(g, m)
    BY <1>5
  <2> HIDE DEF Eq
  <2> QED
    BY <2>1
<1> HIDE DEF h
\* Two such functions are equal, as they are below every place.
<1>8. ASSUME NEW n \in Nat, from - 1 + n <= to
      PROVE  h[from - 1 + n] = f[from - 1 + n]
  <2> DEFINE T == {k \in Nat : from - 1 + k <= to => h[from - 1 + k] = f[from - 1 + k]}
  <2>0. /\ \A k \in D(m) : h[k] = IF k < from THEN 0 ELSE 10 * h[k - 1] + DigitValue(t[k])
        /\ \A k \in D(m) : f[k] = IF k < from THEN 0 ELSE 10 * f[k - 1] + DigitValue(t[k])
    <3> HIDE DEF D
    <3> QED
      BY <1>5, <1>7
  <2>1. 0 \in T
    <3>1. from - 1 \in D(m) /\ from - 1 < from
      BY <1>4
    <3> HIDE DEF D
    <3> QED
      BY <2>0, <3>1
  <2>2. ASSUME NEW k \in Nat, k \in T PROVE k + 1 \in T
    <3> SUFFICES ASSUME from - 1 + (k + 1) <= to
                 PROVE  h[from - 1 + (k + 1)] = f[from - 1 + (k + 1)]
      OBVIOUS
    <3> DEFINE j == from - 1 + (k + 1)
    <3>1. j \in D(m) /\ ~(j < from) /\ j - 1 = from - 1 + k /\ from - 1 + k <= to
      BY <1>4
    <3>2. h[j - 1] = f[j - 1]
      BY <2>2, <3>1
    <3> HIDE DEF j, D
    <3>3. h[j] = f[j]
      BY <2>0, <3>1, <3>2
    <3> QED
      BY <3>3 DEF j
  <2>3. Nat \subseteq T
    <3> HIDE DEF T
    <3> QED
      BY <2>1, <2>2, SetInduction
  <2> QED
    BY <1>8, <2>3
<1>9. h[to] = f[to]
  BY <1>4, <1>8
<1>10. to \in D(m)
  BY <1>4
<1>11. f[to] \in Nat
  BY <1>5, <1>10
<1> QED
  BY <1>6, <1>9, <1>11 DEF h

-----------------------------------------------------------------------------
(* What is left of a file *)

LEMMA DigitsAre == DigitSet = {"0", "1", "2", "3", "4", "5", "6", "7", "8", "9"}
  BY DEF DigitSet, Digits

LEMMA CommandsAre ==
    /\ Commands = {">", "<", "+", "-", ".", ",", "[", "]", "=",
                   "0", "1", "2", "3", "4", "5", "6", "7", "8", "9"}
    /\ Moves = {">", "<", "+", "-"}
  BY DigitsAre DEF Commands, Moves

Commented(text, k) == \E j \in 1..k : text[j] = "#" /\ \A m \in j..k : text[m] # "newline"

\* l is what is left of the first k characters of text, for each k.
Leaves(text, l) ==
    /\ l \in [0..Len(text) -> Seq(Commands)]
    /\ l[0] = <<>>
    /\ \A k \in 1..Len(text) :
          l[k] = IF Commented(text, k) \/ text[k] \notin Commands THEN l[k - 1]
                 ELSE Append(l[k - 1], text[k])

LEMMA HasLeaves ==
    ASSUME NEW text \in Seq(Characters)
    PROVE  \E l : Leaves(text, l)
<1> DEFINE Cut(k) == Commented(text, k) \/ text[k] \notin Commands
           Part(n, l) == /\ l \in [0..n -> Seq(Commands)] /\ l[0] = <<>>
                         /\ \A k \in 1..n : l[k] = IF Cut(k) THEN l[k - 1] ELSE Append(l[k - 1], text[k])
           S == {n \in Nat : \E l : Part(n, l)}
<1> HIDE DEF Cut
<1>1. 0 \in S
  <2>1. Part(0, [k \in 0..0 |-> <<>>])
    OBVIOUS
  <2> HIDE DEF Part
  <2> QED
    BY <2>1
<1>2. ASSUME NEW n \in Nat, n \in S PROVE n + 1 \in S
  <2>1. PICK l : Part(n, l)
    BY <1>2
  <2> DEFINE last == IF Cut(n + 1) THEN l[n] ELSE Append(l[n], text[n + 1])
             q == [k \in 0..(n + 1) |-> IF k = n + 1 THEN last ELSE l[k]]
  <2>2. last \in Seq(Commands)
    <3>1. l[n] \in Seq(Commands)
      BY <2>1
    <3>2. ~Cut(n + 1) => text[n + 1] \in Commands
      BY DEF Cut
    <3> QED
      BY <3>1, <3>2
  <2>3. Part(n + 1, q)
    <3>1. q[n + 1] = last /\ q[n] = l[n] /\ q[0] = <<>>
      BY <2>1
    <3>2. \A k \in 0..n : q[k] = l[k]
      OBVIOUS
    <3>3. q \in [0..(n + 1) -> Seq(Commands)]
      BY <2>1, <2>2
    <3>4. ASSUME NEW k \in 1..(n + 1)
          PROVE  q[k] = IF Cut(k) THEN q[k - 1] ELSE Append(q[k - 1], text[k])
      <4>1. CASE k = n + 1
        BY <3>1, <4>1
      <4>2. CASE k # n + 1
        <5>1. k \in 1..n /\ k \in 0..n /\ k - 1 \in 0..n
          BY <4>2
        <5> HIDE DEF q
        <5> QED
          BY <2>1, <3>2, <5>1
      <4> QED
        BY <4>1, <4>2
    <3> HIDE DEF q
    <3> QED
      BY <3>1, <3>3, <3>4
  <2> HIDE DEF Part, q
  <2> QED
    BY <2>3
<1>3. Nat \subseteq S
  <2> HIDE DEF S
  <2> QED
    BY <1>1, <1>2, SetInduction
<1>4. PICK l : Part(Len(text), l)
  <2> HIDE DEF Part
  <2> QED
    BY <1>3
<1> QED
  BY <1>4 DEF Leaves, Cut

LEMMA CommandsOfIs ==
    ASSUME NEW text \in Seq(Characters), NEW l, Leaves(text, l)
    PROVE  CommandsOf(text) = l[Len(text)]
<1> DEFINE D == 0..Len(text)
           Cut(k) == Commented(text, k) \/ text[k] \notin Commands
           Eq(f) == f = [k \in D |-> IF k = 0 THEN <<>> ELSE IF Cut(k) THEN f[k - 1]
                                     ELSE Append(f[k - 1], text[k])]
           h == CHOOSE f : Eq(f)
<1>1. CommandsOf(text) = h[Len(text)]
  BY DEF CommandsOf, Commented
<1> HIDE DEF Cut
<1>2. Eq(l)
  <2>1. l = [k \in D |-> l[k]]
    BY DEF Leaves
  <2>2. ASSUME NEW k \in D
        PROVE  l[k] = IF k = 0 THEN <<>> ELSE IF Cut(k) THEN l[k - 1] ELSE Append(l[k - 1], text[k])
    <3>1. k = 0 \/ k \in 1..Len(text)
      OBVIOUS
    <3> QED
      BY <3>1 DEF Leaves, Cut
  <2> HIDE DEF D
  <2> QED
    BY <2>1, <2>2
<1>3. Eq(h)
  <2> HIDE DEF Eq
  <2> QED
    BY <1>2
<1> HIDE DEF h
<1> DEFINE S == {n \in Nat : n <= Len(text) => h[n] = l[n]}
<1>4. /\ \A k \in D : h[k] = IF k = 0 THEN <<>> ELSE IF Cut(k) THEN h[k - 1] ELSE Append(h[k - 1], text[k])
      /\ \A k \in D : l[k] = IF k = 0 THEN <<>> ELSE IF Cut(k) THEN l[k - 1] ELSE Append(l[k - 1], text[k])
  <2> HIDE DEF D
  <2> QED
    BY <1>2, <1>3
<1>5. 0 \in S
  BY <1>4
<1>6. ASSUME NEW n \in Nat, n \in S PROVE n + 1 \in S
  <2> SUFFICES ASSUME n + 1 <= Len(text) PROVE h[n + 1] = l[n + 1]
    OBVIOUS
  <2>1. n + 1 \in D /\ n + 1 # 0 /\ n + 1 - 1 = n /\ h[n] = l[n]
    BY <1>6
  <2> HIDE DEF D
  <2> QED
    BY <1>4, <2>1
<1>7. Nat \subseteq S
  <2> HIDE DEF S
  <2> QED
    BY <1>5, <1>6, SetInduction
<1> QED
  BY <1>1, <1>7

-----------------------------------------------------------------------------
(* Where operations begin *)

\* RunEnd and until of a text that is not raw.
EndOf(t, from, chars) ==
    LET ends == {k \in (from + 1)..Len(t) : t[k] \notin chars}
    IN  IF ends = {} THEN Len(t) + 1 ELSE CHOOSE k \in ends : \A j \in ends : k <= j
After(t, from) ==
    CASE t[from] \in Moves -> EndOf(t, from, {t[from]})
      [] t[from] = "=" -> EndOf(t, from, DigitSet)
      [] OTHER -> from + 1

LEMMA UntilIs == \A from : until(from) = After(raw, from)
  BY DEF until, RunEnd, After, EndOf

LEMMA EndOfIs ==
    ASSUME NEW t \in Seq(Commands), NEW from \in 1..Len(t), NEW chars
    PROVE  /\ EndOf(t, from, chars) \in (from + 1)..(Len(t) + 1)
           /\ \A k \in (from + 1)..(EndOf(t, from, chars) - 1) : t[k] \in chars
           /\ EndOf(t, from, chars) <= Len(t) => t[EndOf(t, from, chars)] \notin chars
<1> DEFINE ends == {k \in (from + 1)..Len(t) : t[k] \notin chars}
           e == EndOf(t, from, chars)
<1>1. CASE ends = {}
  <2>1. e = Len(t) + 1
    BY <1>1 DEF EndOf
  <2>2. \A k \in (from + 1)..Len(t) : t[k] \in chars
    BY <1>1
  <2> HIDE DEF e
  <2> QED
    BY <2>1, <2>2 DEF e
<1>2. CASE ends # {}
  <2>1. \E k \in ends : \A j \in ends : k <= j
    <3>1. ends \subseteq Nat
      OBVIOUS
    <3> HIDE DEF ends
    <3> QED
      BY <1>2, <3>1, LeastNat
  <2>2. e = CHOOSE k \in ends : \A j \in ends : k <= j
    BY <1>2 DEF EndOf
  <2>3. e \in ends /\ \A j \in ends : e <= j
    <3> HIDE DEF ends, e
    <3> QED
      BY <2>1, <2>2
  <2>4. \A k \in (from + 1)..(e - 1) : t[k] \in chars
    <3> HIDE DEF e
    <3> QED
      BY <2>3
  <2> HIDE DEF e
  <2> QED
    BY <2>3, <2>4 DEF e
<1> QED
  BY <1>1, <1>2

OpStart(t, k) == /\ k \in 1..Len(t) /\ t[k] \notin DigitSet
                 /\ t[k] \in Moves => k = 1 \/ t[k - 1] # t[k]
Starts(t, n) == {k \in 1..(n - 1) : OpStart(t, k)}

\* What belongs to the operation that begins at from.
LEMMA AfterIs ==
    ASSUME NEW t \in Seq(Commands), NEW from \in 1..Len(t)
    PROVE  /\ After(t, from) \in (from + 1)..(Len(t) + 1)
           /\ t[from] \in Moves =>
                 /\ \A k \in (from + 1)..(After(t, from) - 1) : t[k] = t[from]
                 /\ After(t, from) <= Len(t) => t[After(t, from)] # t[from]
           /\ t[from] = "=" =>
                 /\ \A k \in (from + 1)..(After(t, from) - 1) : t[k] \in DigitSet
                 /\ After(t, from) <= Len(t) => t[After(t, from)] \notin DigitSet
           /\ t[from] \notin Moves \cup {"="} => After(t, from) = from + 1
<1>1. CASE t[from] \in Moves
  <2>1. After(t, from) = EndOf(t, from, {t[from]}) /\ t[from] # "="
    BY <1>1 DEF After, Moves
  <2> HIDE DEF After
  <2> QED
    BY <1>1, <2>1, EndOfIs
<1>2. CASE t[from] = "="
  <2>1. After(t, from) = EndOf(t, from, DigitSet) /\ t[from] \notin Moves
    BY <1>2 DEF After, Moves
  <2> QED
    BY <1>2, <2>1, EndOfIs
<1>3. CASE t[from] \notin Moves \cup {"="}
  <2>1. After(t, from) = from + 1
    BY <1>3 DEF After
  <2> QED
    BY <1>3, <2>1
<1> QED
  BY <1>1, <1>2, <1>3

\* Without stray digits a digit stands behind "=" or behind another digit.
LEMMA NoStrayDigit ==
    ASSUME NEW t \in Seq(Commands), ~Stray(t), NEW k \in 1..Len(t), t[k] \in DigitSet
    PROVE  k > 1 /\ t[k - 1] \in DigitSet \cup {"="}
<1>1. PICK j \in 1..k : t[j] = "=" /\ \A m \in j..k : t[m] \in DigitSet \cup {"="}
  BY DEF Stray
<1>2. "=" \notin DigitSet
  BY DigitsAre
<1>3. j # k /\ k - 1 \in j..k
  BY <1>1, <1>2
<1> QED
  BY <1>1, <1>3

LEMMA FirstStarts ==
    ASSUME NEW t \in Seq(Commands), ~Stray(t), Len(t) >= 1
    PROVE  OpStart(t, 1)
<1>1. 1 \in 1..Len(t)
  OBVIOUS
<1>2. t[1] \notin DigitSet
  BY <1>1, NoStrayDigit
<1> QED
  BY <1>1, <1>2 DEF OpStart

\* Behind an operation the next one begins, and none within it.
LEMMA AfterStarts ==
    ASSUME NEW t \in Seq(Commands), ~Stray(t), NEW from, OpStart(t, from)
    PROVE  /\ After(t, from) = Len(t) + 1 \/ OpStart(t, After(t, from))
           /\ \A k \in (from + 1)..(After(t, from) - 1) : ~OpStart(t, k)
<1> DEFINE e == After(t, from)
<1>1. from \in 1..Len(t) /\ t[from] \notin DigitSet /\ t[from] \in Commands
  BY DEF OpStart
<1>2. e \in (from + 1)..(Len(t) + 1)
  BY <1>1, AfterIs
<1>3. ASSUME e <= Len(t) PROVE OpStart(t, e)
  <2>1. e \in 1..Len(t) /\ e - 1 \in from..(e - 1) /\ e # 1 /\ e - 1 \in 1..Len(t)
    BY <1>1, <1>2, <1>3
  <2>2. CASE t[from] \in Moves
    <3>1. t[e] # t[from] /\ t[e - 1] = t[from]
      BY <1>1, <1>3, <2>1, <2>2, AfterIs
    <3>2. t[e] \notin DigitSet
      <4>1. t[e - 1] \notin DigitSet \cup {"="}
        BY <2>2, <3>1, CommandsAre, DigitsAre
      <4> QED
        BY <2>1, <4>1, NoStrayDigit
    <3> HIDE DEF e
    <3> QED
      BY <2>1, <3>1, <3>2 DEF OpStart
  <2>3. CASE t[from] = "="
    <3>1. t[e] \notin DigitSet /\ t[e - 1] \notin Moves
      <4>1. t[e] \notin DigitSet /\ (e - 1 = from \/ t[e - 1] \in DigitSet)
        BY <1>1, <1>3, <2>1, <2>3, AfterIs
      <4> QED
        BY <2>3, <4>1, CommandsAre, DigitsAre
    <3> HIDE DEF e
    <3> QED
      BY <2>1, <3>1 DEF OpStart
  <2>4. CASE t[from] \notin Moves \cup {"="}
    <3>1. e = from + 1
      BY <1>1, <2>4, AfterIs
    <3>2. t[e] \notin DigitSet
      BY <1>1, <2>1, <2>4, <3>1, NoStrayDigit
    <3> HIDE DEF e
    <3> QED
      BY <2>1, <2>4, <3>1, <3>2 DEF OpStart
  <2> QED
    BY <2>2, <2>3, <2>4
<1>4. ASSUME NEW k \in (from + 1)..(e - 1) PROVE ~OpStart(t, k)
  <2>1. t[from] \in Moves => t[k] = t[from] /\ t[k - 1] = t[from] /\ k # 1
    BY <1>1, <1>2, AfterIs
  <2>2. t[from] = "=" => t[k] \in DigitSet
    BY <1>1, AfterIs
  <2>3. t[from] \in Moves \cup {"="}
    BY <1>1, AfterIs
  <2> HIDE DEF e
  <2> QED
    BY <2>1, <2>2, <2>3 DEF OpStart
<1>5. e <= Len(t) \/ e = Len(t) + 1
  BY <1>2
<1> QED
  BY <1>3, <1>4, <1>5

\* How many operations begin in front of a place.
LEMMA StartsFinite ==
    ASSUME NEW t \in Seq(Commands), NEW n \in Nat
    PROVE  IsFiniteSet(Starts(t, n)) /\ Cardinality(Starts(t, n)) \in Nat
<1>1. IsFiniteSet(1..(n - 1))
  BY FS_Interval
<1>2. Starts(t, n) \in SUBSET (1..(n - 1))
  BY DEF Starts
<1> QED
  BY <1>1, <1>2, FS_Subset, FS_CardinalityType

LEMMA StartsAfter ==
    ASSUME NEW t \in Seq(Commands), ~Stray(t), NEW from, OpStart(t, from)
    PROVE  /\ Starts(t, After(t, from)) = Starts(t, from) \cup {from}
           /\ Cardinality(Starts(t, After(t, from))) = Cardinality(Starts(t, from)) + 1
           /\ Cardinality(Starts(t, from)) + 1 <= Cardinality(Starts(t, Len(t) + 1))
<1> DEFINE e == After(t, from)
<1>1. from \in 1..Len(t) /\ e \in (from + 1)..(Len(t) + 1)
  BY AfterIs DEF OpStart
<1>2. \A k \in (from + 1)..(e - 1) : ~OpStart(t, k)
  BY AfterStarts
<1> HIDE DEF e
<1>3. Starts(t, e) = Starts(t, from) \cup {from}
  BY <1>1, <1>2 DEF Starts
<1>4. from \notin Starts(t, from)
  BY <1>1 DEF Starts
<1>5. IsFiniteSet(Starts(t, from)) /\ Cardinality(Starts(t, from)) \in Nat
  BY <1>1, StartsFinite
<1>6. Cardinality(Starts(t, e)) = Cardinality(Starts(t, from)) + 1
  BY <1>3, <1>4, <1>5, FS_AddElement
<1>7. Starts(t, e) \in SUBSET Starts(t, Len(t) + 1)
  BY <1>1 DEF Starts
<1>8. IsFiniteSet(Starts(t, Len(t) + 1))
  BY StartsFinite
<1>9. Cardinality(Starts(t, e)) <= Cardinality(Starts(t, Len(t) + 1))
  BY <1>7, <1>8, FS_Subset
<1> QED
  BY <1>3, <1>6, <1>9 DEF e

-----------------------------------------------------------------------------
(* Types, of programs with stray digits as well *)

Bytes == 0..(Byte - 1)

TypeInv ==
    /\ source \in Seq(Characters) /\ compiled \in Seq(Characters)
    /\ process \in 1..3
    /\ phase \in {"Read", "Count", "Fill", "Run", "Compile", "Done", "Error", "Crash", "Exhausted"}
    /\ raw \in Seq(Commands)
    /\ i \in Nat \ {0} /\ programSize \in Nat
    /\ index \in Nat \ {0} /\ stack \in Seq(Nat \ {0})
    /\ phase \in {"Fill", "Run", "Compile", "Done", "Exhausted"} =>
          /\ program \in [1..programSize -> Commands \cup {"junk"}]
          /\ meta \in [1..programSize -> Nat]
          /\ place \in [1..programSize -> Nat]
    /\ tape \in Seq(Bytes) /\ Len(tape) \in InitialSize..MemorySize
    /\ pos \in 0..(Len(tape) - 1)
    /\ typed \in Seq(Bytes) /\ input \in Seq(Bytes)
    /\ output \in Seq(Bytes) /\ ranOutput \in Seq(Bytes)

LEMMA ByteIs ==
    ASSUME NEW v \in Int
    PROVE  v % Byte \in Bytes
  BY SizeAssumption DEF Bytes

LEMMA NewTape ==
    /\ [p \in 1..InitialSize |-> 0] \in Seq(Bytes)
    /\ Len([p \in 1..InitialSize |-> 0]) \in InitialSize..MemorySize
    /\ 0 \in 0..(Len([p \in 1..InitialSize |-> 0]) - 1)
  BY SizeAssumption DEF Bytes

LEMMA InitTypes == Init => TypeInv
<1> SUFFICES ASSUME Init PROVE TypeInv
  OBVIOUS
<1>1. source \in Seq(Characters) /\ typed \in Seq(Bytes) /\ input = typed
  BY TextAssumption DEF Init, Bytes
<1>2. /\ process = 1 /\ compiled = <<>> /\ ranOutput = <<>> /\ phase = "Read" /\ raw = <<>>
      /\ inComment = FALSE /\ i = 1 /\ programSize = 0 /\ index = 1 /\ stack = <<>> /\ output = <<>>
      /\ tape = [p \in 1..InitialSize |-> 0] /\ pos = 0
  BY DEF Init, Fresh
<1>3. /\ tape \in Seq(Bytes) /\ Len(tape) \in InitialSize..MemorySize
      /\ pos \in 0..(Len(tape) - 1)
  BY <1>2, NewTape
<1>4. /\ compiled \in Seq(Characters) /\ raw \in Seq(Commands) /\ stack \in Seq(Nat \ {0})
      /\ output \in Seq(Bytes) /\ ranOutput \in Seq(Bytes)
  BY <1>2
<1>5. process \in 1..3 /\ i \in Nat \ {0} /\ programSize \in Nat /\ index \in Nat \ {0}
  BY <1>2
<1> QED
  BY <1>1, <1>2, <1>3, <1>4, <1>5 DEF TypeInv

LEMMA RawIsText ==
    ASSUME NEW t \in Seq(Commands)
    PROVE  t \in Seq(Characters)
  BY TextAssumption, SeqMonotonic

\* The number of an operation.
LEMMA MetaNat ==
    ASSUME TypeInv, NEW from \in 1..Len(raw)
    PROVE  metaOf(from) \in Nat
<1> DEFINE e == After(raw, from)
<1>1. until(from) = e /\ e \in (from + 1)..(Len(raw) + 1)
  BY UntilIs, AfterIs DEF TypeInv
<1>2. CASE raw[from] = "="
  <2>1. metaOf(from) = Number(raw, from + 1, e - 1)
    BY <1>1, <1>2 DEF metaOf
  <2>2. \A k \in (from + 1)..(e - 1) : raw[k] \in DigitSet
    BY <1>2, AfterIs DEF TypeInv
  <2>3. raw \in Seq(Characters)
    BY RawIsText DEF TypeInv
  <2> HIDE DEF e
  <2> QED
    BY <1>1, <2>1, <2>2, <2>3, NumberNat
<1>3. CASE raw[from] # "="
  BY <1>1, <1>3 DEF metaOf
<1> QED
  BY <1>2, <1>3

\* A tape is long enough after it has doubled.
LEMMA DoubledIs ==
    ASSUME TypeInv, NEW to \in Nat
    PROVE  Doubled(to) \in Nat /\ Doubled(to) > to /\ Doubled(to) >= Len(tape)
<1> DEFINE D == 0..to
           Eq(f) == f = [k \in D |-> IF k = 0 THEN Len(tape) ELSE 2 * f[k - 1]]
           h == CHOOSE f : Eq(f)
<1>1. Len(tape) \in Nat /\ Len(tape) >= 1
  BY SizeAssumption DEF TypeInv
<1>2. \E f : Eq(f)
  <2> DEFINE Part(n, f) == f = [k \in 0..n |-> IF k = 0 THEN Len(tape) ELSE 2 * f[k - 1]]
             S == {n \in Nat : \E f : Part(n, f)}
  <2>1. 0 \in S
    <3>1. Part(0, [k \in 0..0 |-> Len(tape)])
      OBVIOUS
    <3> HIDE DEF Part
    <3> QED
      BY <3>1
  <2>2. ASSUME NEW n \in Nat, n \in S PROVE n + 1 \in S
    <3>1. PICK f : Part(n, f)
      BY <2>2
    <3> DEFINE g == [k \in 0..(n + 1) |-> IF k = n + 1 THEN 2 * f[n] ELSE f[k]]
    <3>2. ASSUME NEW k \in 0..(n + 1) PROVE g[k] = IF k = 0 THEN Len(tape) ELSE 2 * g[k - 1]
      <4>1. CASE k = n + 1
        <5>1. g[k] = 2 * f[n] /\ k - 1 = n /\ g[n] = f[n]
          BY <4>1
        <5> HIDE DEF g
        <5> QED
          BY <4>1, <5>1
      <4>2. CASE k # n + 1
        <5>1. k \in 0..n /\ g[k] = f[k]
          BY <4>2
        <5>2. k # 0 => k - 1 \in 0..n /\ g[k - 1] = f[k - 1]
          BY <4>2
        <5>3. f[k] = IF k = 0 THEN Len(tape) ELSE 2 * f[k - 1]
          BY <3>1, <5>1
        <5> HIDE DEF g
        <5> QED
          BY <5>1, <5>2, <5>3
      <4> QED
        BY <4>1, <4>2
    <3>3. Part(n + 1, g)
      <4>1. g = [k \in 0..(n + 1) |-> g[k]]
        OBVIOUS
      <4> HIDE DEF g
      <4> QED
        BY <3>2, <4>1
    <3> HIDE DEF Part, g
    <3> QED
      BY <3>3
  <2>3. Nat \subseteq S
    <3> HIDE DEF S
    <3> QED
      BY <2>1, <2>2, SetInduction
  <2>4. to \in S
    <3> HIDE DEF S
    <3> QED
      BY <2>3
  <2> QED
    BY <2>4
<1>3. Eq(h)
  <2> HIDE DEF Eq
  <2> QED
    BY <1>2
<1> DEFINE enough == {n \in {h[k] : k \in D} : n > to}
<1>4. Doubled(to) = CHOOSE n \in enough : \A m \in enough : n <= m
  BY DEF Doubled
<1> HIDE DEF h
<1>5. \A k \in D : h[k] = IF k = 0 THEN Len(tape) ELSE 2 * h[k - 1]
  <2> HIDE DEF D
  <2> QED
    BY <1>3
<1> DEFINE T == {n \in Nat : n <= to => h[n] \in Nat /\ h[n] >= Len(tape) /\ h[n] > n}
<1>6. 0 \in T
  BY <1>1, <1>5
<1>7. ASSUME NEW n \in Nat, n \in T PROVE n + 1 \in T
  <2> SUFFICES ASSUME n + 1 <= to PROVE h[n + 1] \in Nat /\ h[n + 1] >= Len(tape) /\ h[n + 1] > n + 1
    OBVIOUS
  <2>1. n + 1 \in D /\ n + 1 # 0 /\ n + 1 - 1 = n /\ h[n] \in Nat /\ h[n] >= Len(tape) /\ h[n] > n
    BY <1>7
  <2>2. h[n + 1] = 2 * h[n]
    BY <1>5, <2>1
  <2> QED
    BY <1>1, <2>1, <2>2
<1>8. Nat \subseteq T
  <2> HIDE DEF T
  <2> QED
    BY <1>6, <1>7, SetInduction
<1>9. \A k \in D : h[k] \in Nat /\ h[k] >= Len(tape)
  BY <1>8
<1>10. to \in D /\ h[to] > to
  BY <1>8
<1>11. enough \subseteq Nat /\ enough # {}
  <2> HIDE DEF D
  <2> QED
    BY <1>9, <1>10
<1>12. \E n \in enough : \A m \in enough : n <= m
  <2> HIDE DEF enough
  <2> QED
    BY <1>11, LeastNat
<1>13. Doubled(to) \in enough
  <2> HIDE DEF enough
  <2> QED
    BY <1>4, <1>12
<1> QED
  <2> HIDE DEF D
  <2> QED
    BY <1>9, <1>13

LEMMA EnsuredIs ==
    ASSUME TypeInv, NEW to \in Nat, Doubled(to) <= MemorySize
    PROVE  /\ Ensured(to) \in Seq(Bytes)
           /\ Len(Ensured(to)) = Doubled(to)
           /\ \A p \in 1..Len(tape) : Ensured(to)[p] = tape[p]
           /\ \A p \in (Len(tape) + 1)..Doubled(to) : Ensured(to)[p] = 0
<1> DEFINE d == Doubled(to)
           more == [p \in 1..(d - Len(tape)) |-> 0]
<1>1. d \in Nat /\ d >= Len(tape) /\ Len(tape) \in Nat /\ tape \in Seq(Bytes)
  BY DoubledIs DEF TypeInv
<1> HIDE DEF d
<1>2. more \in Seq(Bytes) /\ Len(more) = d - Len(tape)
  BY <1>1, SizeAssumption DEF Bytes
<1>3. \A p \in 1..(d - Len(tape)) : more[p] = 0
  OBVIOUS
<1>4. Ensured(to) = tape \o more
  BY DEF Ensured, d
<1> HIDE DEF more
<1>5. Ensured(to) \in Seq(Bytes) /\ Len(Ensured(to)) = d
  BY <1>1, <1>2, <1>4, ConcatProperties
<1>6. /\ \A p \in 1..Len(tape) : Ensured(to)[p] = tape[p]
      /\ \A p \in (Len(tape) + 1)..d : Ensured(to)[p] = more[p - Len(tape)]
  BY <1>1, <1>2, <1>4
<1>7. \A p \in (Len(tape) + 1)..d : p - Len(tape) \in 1..(d - Len(tape))
  BY <1>1
<1> QED
  BY <1>3, <1>5, <1>6, <1>7 DEF d

LEMMA TimesType ==
    ASSUME NEW c \in Characters, NEW n \in Nat
    PROVE  Times(c, n) \in Seq(Characters)
  BY DEF Times

LEMMA TranslationType ==
    ASSUME TypeInv, phase = "Compile", NEW k \in 1..programSize
    PROVE  translation(k) \in Seq(Characters)
<1>1. program[k] \in Commands \cup {"junk"} /\ meta[k] \in Int
  BY DEF TypeInv
<1> DEFINE n == meta[k] % Byte
<1>7. n \in Nat
  BY <1>1, ByteIs DEF Bytes
<1>2. Moves \subseteq Characters /\ {"[", "]", ".", ",", "-", "+"} \subseteq Characters
  BY TextAssumption, CommandsAre
<1>3. CASE program[k] \in Moves
  <2>1. translation(k) = Times(program[k], n)
    BY <1>3, CommandsAre DEF translation
  <2> HIDE DEF n
  <2> QED
    BY <1>7, <1>2, <1>3, <2>1, TimesType
<1>4. CASE program[k] \in {".", ",", "[", "]"}
  <2>1. translation(k) = <<program[k]>>
    BY <1>4, CommandsAre DEF translation
  <2>2. program[k] \in Characters
    BY <1>2, <1>4
  <2> QED
    BY <2>1, <2>2
<1>5. CASE program[k] = "="
  <2>1. translation(k) = <<"[", "-", "]">> \o Times("+", n)
    BY <1>5, CommandsAre DEF translation
  <2> HIDE DEF n
  <2>2. Times("+", n) \in Seq(Characters)
    BY <1>7, <1>2, TimesType
  <2>3. <<"[", "-", "]">> \in Seq(Characters)
    <3> DEFINE A == "["
               B == "-"
               C == "]"
    <3>1. A \in Characters /\ B \in Characters /\ C \in Characters
      BY <1>2
    <3> HIDE DEF A, B, C
    <3>2. <<A, B, C>> \in Seq(Characters)
      BY <3>1
    <3> QED
      BY <3>2 DEF A, B, C
  <2> QED
    BY <2>1, <2>2, <2>3, ConcatProperties
<1>6. CASE program[k] \notin Moves \cup {".", ",", "[", "]", "="}
  <2>1. translation(k) = <<>>
    BY <1>6 DEF translation
  <2> QED
    BY <2>1
<1> QED
  BY <1>3, <1>4, <1>5, <1>6

LEMMA FillTypes ==
    ASSUME TypeInv, Fill
    PROVE  TypeInv'
<1>1. /\ phase = "Fill" /\ i <= Len(raw)
      /\ index' = index + 1 /\ i' = until(i) /\ phase' \in {"Fill", "Crash"}
      /\ UNCHANGED <<reading, programSize, running, files>>
  BY DEF Fill
<1>2. /\ program \in [1..programSize -> Commands \cup {"junk"}]
      /\ meta \in [1..programSize -> Nat]
      /\ place \in [1..programSize -> Nat]
  BY <1>1 DEF TypeInv
<1>3. stack \in Seq(Nat \ {0}) /\ index \in Nat \ {0} /\ i \in Nat \ {0} /\ raw \in Seq(Commands)
  BY DEF TypeInv
<1>4. i \in 1..Len(raw)
  BY <1>1, <1>3
<1>5. raw[i] \in Commands
  BY <1>3, <1>4
<1>6. metaOf(i) \in Nat
  BY <1>4, MetaNat
<1>7. until(i) \in Nat \ {0}
  <2>1. until(i) = After(raw, i) /\ After(raw, i) \in (i + 1)..(Len(raw) + 1)
    BY <1>3, <1>4, UntilIs, AfterIs
  <2> QED
    BY <1>3, <2>1
<1>8. index + 1 \in Nat \ {0} /\ index \in Nat /\ i \in Nat
  BY <1>3
<1>9. /\ program' \in [1..programSize -> Commands \cup {"junk"}]
      /\ meta' \in [1..programSize -> Nat]
      /\ place' \in [1..programSize -> Nat]
      /\ stack' \in Seq(Nat \ {0})
  <2>0. /\ \A c \in Commands : Stored(program, index, c) \in [1..programSize -> Commands \cup {"junk"}]
        /\ Stored(place, index, i) \in [1..programSize -> Nat]
        /\ \A v \in Nat : Stored(meta, index, v) \in [1..programSize -> Nat]
    BY <1>2, <1>8 DEF Stored
  <2>1. CASE raw[i] = "[" /\ FillOpen
    <3>1. "[" \in Commands
      BY CommandsAre
    <3>2. Append(stack, index) \in Seq(Nat \ {0})
      BY <1>3
    <3> QED
      BY <1>2, <2>0, <2>1, <3>1, <3>2 DEF FillOpen
  <2>2. CASE raw[i] = "]" /\ FillClose
    <3>1. "]" \in Commands
      BY CommandsAre
    <3>2. stack # <<>> /\ Last(stack) = stack[Len(stack)] /\ Front(stack) = SubSeq(stack, 1, Len(stack) - 1)
      BY <2>2 DEF FillClose, Last, Front
    <3>3. Len(stack) \in Nat \ {0}
      BY <1>3, <3>2, EmptySeq
    <3>4. Last(stack) \in Nat /\ Front(stack) \in Seq(Nat \ {0})
      BY <1>3, <3>2, <3>3, SubSeqProperties
    <3>5. Stored(meta, index, Last(stack)) \in [1..programSize -> Nat]
      BY <2>0, <3>4
    <3> DEFINE m == Stored(meta, index, Last(stack))
    <3>6. Stored(m, Last(stack), index) \in [1..programSize -> Nat]
      <4> HIDE DEF m
      <4>1. m \in [1..programSize -> Nat]
        BY <3>5 DEF m
      <4> QED
        BY <1>8, <4>1 DEF Stored
    <3>7. /\ program' = Stored(program, index, "]") /\ place' = Stored(place, index, i)
          /\ stack' = Front(stack) /\ meta' = Stored(m, Last(stack), index)
      BY <2>2 DEF FillClose
    <3> HIDE DEF m
    <3> QED
      BY <2>0, <3>1, <3>4, <3>6, <3>7
  <2>3. CASE Fills(raw[i], meta) /\ UNCHANGED stack
    BY <1>3, <1>5, <1>6, <2>0, <2>3 DEF Fills
  <2>4. CASE FillStray
    BY <1>2, <1>3, <2>4 DEF FillStray
  <2> QED
    BY <2>1, <2>2, <2>3, <2>4 DEF Fill
<1> QED
  BY <1>1, <1>7, <1>8, <1>9 DEF TypeInv, reading, running, files

LEMMA ReadTypes ==
    ASSUME TypeInv, ReadChar \/ ReadEnd \/ Count \/ Allocate \/ Unmatched \/ Parsed
    PROVE  TypeInv'
<1>1. CASE ReadChar
  <2>1. raw' \in Seq(Commands)
    BY <1>1 DEF TypeInv, ReadChar
  <2>2. i' \in Nat \ {0} /\ phase = "Read" /\ UNCHANGED <<source, process, phase, parsing, running, files>>
    BY <1>1 DEF TypeInv, ReadChar
  <2> QED
    BY <2>1, <2>2 DEF TypeInv, parsing, running, files
<1>2. CASE ReadEnd
  <2>1. i' \in Nat \ {0} /\ phase' = "Count" /\ UNCHANGED <<reading, parsing, running, files>>
    BY <1>2 DEF ReadEnd
  <2> QED
    BY <2>1 DEF TypeInv, reading, parsing, running, files
<1>3. CASE Count
  <2>1. i \in 1..Len(raw)
    BY <1>3 DEF Count, TypeInv
  <2>2. until(i) \in Nat \ {0}
    BY <2>1, UntilIs, AfterIs DEF TypeInv
  <2>3. /\ i' = until(i) /\ programSize' \in Nat /\ phase = "Count"
        /\ UNCHANGED <<reading, phase, index, stack, program, meta, place, running, files>>
    BY <1>3 DEF Count, TypeInv
  <2> QED
    BY <2>2, <2>3 DEF TypeInv, reading, running, files
<1>4. CASE Allocate
  <2>1. /\ program' \in [1..programSize -> Commands \cup {"junk"}]
        /\ meta' \in [1..programSize -> Nat]
        /\ place' \in [1..programSize -> Nat]
    BY <1>4 DEF Allocate
  <2>2. i' \in Nat \ {0} /\ phase' = "Fill" /\ UNCHANGED <<reading, programSize, index, stack, running, files>>
    BY <1>4 DEF Allocate
  <2> QED
    BY <2>1, <2>2 DEF TypeInv, reading, running, files
<1>5. CASE Unmatched
  BY <1>5 DEF Unmatched, TypeInv, reading, parsing, running, files
<1>6. CASE Parsed
  <2>1. i' \in Nat \ {0} /\ phase = "Fill" /\ phase' \in {"Compile", "Run"} /\ UNCHANGED <<reading, parsing, running, files>>
    BY <1>6 DEF Parsed
  <2> QED
    BY <2>1 DEF TypeInv, reading, parsing, running, files
<1> QED
  BY <1>1, <1>2, <1>3, <1>4, <1>5, <1>6

LEMMA PutType ==
    ASSUME TypeInv, NEW v \in Int, Put(v)
    PROVE  tape' \in Seq(Bytes) /\ Len(tape') = Len(tape)
<1>1. pos + 1 \in 1..Len(tape) /\ v % Byte \in Bytes
  BY ByteIs DEF TypeInv
<1> QED
  BY <1>1, ExceptSeq DEF Put, TypeInv

\* The parts of a state that a running process changes.
LEMMA RunTyped ==
    ASSUME TypeInv
    PROVE  /\ i \in Nat \ {0} /\ tape \in Seq(Bytes) /\ Len(tape) \in InitialSize..MemorySize
           /\ pos \in 0..(Len(tape) - 1) /\ Len(tape) \in Nat
           /\ input \in Seq(Bytes) /\ output \in Seq(Bytes)
           /\ compiled \in Seq(Characters)
  BY DEF TypeInv

LEMMA RunFrame ==
    ASSUME TypeInv, phase \in {"Run", "Compile"},
           phase' \in {"Run", "Compile", "Done", "Exhausted", "Crash"},
           UNCHANGED <<reading, parsing, typed, ranOutput>>,
           i' \in Nat \ {0}, tape' \in Seq(Bytes), Len(tape') \in InitialSize..MemorySize,
           pos' \in 0..(Len(tape') - 1), input' \in Seq(Bytes), output' \in Seq(Bytes),
           compiled' \in Seq(Characters)
    PROVE  TypeInv'
<1>1. /\ UNCHANGED <<source, process, raw, programSize, index, stack, program, meta, place, typed, ranOutput>>
  BY DEF reading, parsing
<1>2. /\ source \in Seq(Characters) /\ process \in 1..3 /\ raw \in Seq(Commands)
      /\ programSize \in Nat /\ index \in Nat \ {0} /\ stack \in Seq(Nat \ {0})
      /\ typed \in Seq(Bytes) /\ ranOutput \in Seq(Bytes)
      /\ program \in [1..programSize -> Commands \cup {"junk"}]
      /\ meta \in [1..programSize -> Nat] /\ place \in [1..programSize -> Nat]
  BY DEF TypeInv
<1> QED
  BY <1>1, <1>2 DEF TypeInv

LEMMA RunTypes ==
    ASSUME TypeInv,
           \/ Tape_Right \/ Tape_Left \/ Tape_Change \/ Tape_Get \/ Tape_Set \/ Loop
           \/ Junk \/ RunEnds
    PROVE  TypeInv'
<1>0. /\ \A c : At(c) => phase = "Run" /\ i \in 1..programSize /\ meta[i] \in Nat
      /\ pos + 1 \in 1..Len(tape) /\ tape[pos + 1] \in Bytes /\ Len(tape) \in Nat
  BY DEF At, TypeInv
<1>1. CASE Tape_Right
  <2>1. phase = "Run" /\ meta[i] \in Nat /\ UNCHANGED <<reading, parsing, input, output, files>>
    BY <1>0, <1>1 DEF Tape_Right
  <2>2. CASE Doubled(pos + meta[i]) <= MemorySize
    <3> DEFINE to == pos + meta[i]
    <3>1. /\ pos' = to /\ tape' = Ensured(to) /\ i' = i + 1 /\ phase' = phase
      BY <1>1, <2>2 DEF Tape_Right, Advance
    <3>2. to \in Nat
      BY <2>1, RunTyped
    <3>3. /\ Ensured(to) \in Seq(Bytes) /\ Len(Ensured(to)) = Doubled(to)
          /\ Doubled(to) \in Nat /\ Doubled(to) > to /\ Doubled(to) >= Len(tape)
      BY <2>2, <3>2, EnsuredIs, DoubledIs
    <3> HIDE DEF to
    <3>4. /\ tape' \in Seq(Bytes) /\ Len(tape') \in InitialSize..MemorySize
          /\ pos' \in 0..(Len(tape') - 1)
      <4>1. Doubled(to) <= MemorySize /\ tape' = Ensured(to) /\ pos' = to
        BY <2>2, <3>1 DEF to
      <4>2. Len(tape) \in InitialSize..MemorySize
        BY RunTyped
      <4> QED
        BY <3>2, <3>3, <4>1, <4>2, SizeAssumption
    <3>5. i' \in Nat \ {0}
      BY <3>1, RunTyped
    <3>6. phase' = "Run"
      BY <2>1, <3>1
    <3> HIDE DEF to
    <3> QED
      BY <2>1, <3>4, <3>5, <3>6, RunTyped, RunFrame DEF files
  <2>3. CASE ~(Doubled(pos + meta[i]) <= MemorySize)
    <3>1. phase' = "Exhausted" /\ UNCHANGED <<pos, tape, i>>
      BY <1>1, <2>3 DEF Tape_Right
    <3> QED
      BY <2>1, <3>1, RunTyped, RunFrame DEF files
  <2> QED
    BY <2>2, <2>3
<1>2. CASE Tape_Left
  <2>1. /\ phase = "Run" /\ meta[i] \in Nat /\ i' = i + 1
        /\ pos' = IF meta[i] > pos THEN 0 ELSE pos - meta[i]
        /\ UNCHANGED <<reading, phase, parsing, tape, input, output, files>>
    BY <1>0, <1>2 DEF Tape_Left, Advance
  <2>2. pos' \in 0..(Len(tape) - 1)
    <3>1. pos \in 0..(Len(tape) - 1) /\ Len(tape) \in Nat /\ meta[i] \in Nat
      BY <2>1, RunTyped
    <3> QED
      BY <2>1, <3>1
  <2>3. i' \in Nat \ {0} /\ tape' = tape
    BY <2>1, RunTyped
  <2> QED
    BY <2>1, <2>2, <2>3, RunTyped, RunFrame DEF files
<1>3. CASE Tape_Change
  <2>1. /\ phase = "Run" /\ meta[i] \in Nat /\ i' = i + 1
        /\ UNCHANGED <<reading, phase, parsing, pos, input, output, files>>
    BY <1>0, <1>3 DEF Tape_Change, Advance
  <2> DEFINE n == meta[i] % Byte
             old == tape[pos + 1]
  <2>2. n \in Int /\ old \in Int
    <3>1. meta[i] \in Int /\ old \in Bytes
      BY <1>0, <2>1
    <3> QED
      BY <3>1, ByteIs, SizeAssumption DEF Bytes
  <2>3. \E v \in Int : Put(v)
    <3>1. Put(old + n) \/ Put(old - n) \/ Put(n)
      BY <1>3 DEF Tape_Change
    <3> HIDE DEF n, old
    <3>2. old + n \in Int /\ old - n \in Int
      BY <2>2
    <3> QED
      BY <2>2, <3>1, <3>2
  <2>4. tape' \in Seq(Bytes) /\ Len(tape') = Len(tape)
    BY <2>3, PutType
  <2>5. i' \in Nat \ {0}
    BY <2>1, RunTyped
  <2> QED
    BY <2>1, <2>4, <2>5, RunTyped, RunFrame DEF files
<1>4. CASE Tape_Get
  <2>1. /\ phase = "Run" /\ i' = i + 1 /\ output' = Append(output, tape[pos + 1])
        /\ UNCHANGED <<reading, phase, parsing, tape, pos, input, files>>
    BY <1>0, <1>4 DEF Tape_Get, Advance
  <2>2. output' \in Seq(Bytes) /\ i' \in Nat \ {0}
    BY <1>0, <2>1, RunTyped
  <2> QED
    BY <2>1, <2>2, RunTyped, RunFrame DEF files
<1>5. CASE Tape_Set
  <2>1. /\ phase = "Run" /\ i' = i + 1
        /\ UNCHANGED <<reading, phase, parsing, pos, output, files>>
    BY <1>0, <1>5 DEF Tape_Set, Advance
  <2>2. (\E v \in Int : Put(v)) /\ input' \in Seq(Bytes)
    <3>1. CASE input = <<>>
      <4>1. Put(-1) /\ UNCHANGED input
        BY <1>5, <3>1 DEF Tape_Set
      <4>2. -1 \in Int
        OBVIOUS
      <4>3. \E v \in Int : Put(v)
        BY <4>1, <4>2
      <4> QED
        BY <4>1, <4>3 DEF TypeInv
    <3>2. CASE input # <<>>
      <4>1. Put(Head(input)) /\ input' = Tail(input)
        BY <1>5, <3>2 DEF Tape_Set
      <4>0. input \in Seq(Bytes)
        BY DEF TypeInv
      <4>3. Head(input) \in Bytes /\ Tail(input) \in Seq(Bytes)
        BY <3>2, <4>0, HeadTailProperties
      <4>2. Head(input) \in Int /\ Tail(input) \in Seq(Bytes)
        BY <4>3, SizeAssumption DEF Bytes
      <4> QED
        BY <4>1, <4>2
    <3> QED
      BY <3>1, <3>2
  <2>3. tape' \in Seq(Bytes) /\ Len(tape') = Len(tape) /\ i' \in Nat \ {0}
    BY <2>1, <2>2, PutType, RunTyped
  <2> QED
    BY <2>1, <2>2, <2>3, RunTyped, RunFrame DEF files
<1>6. CASE Loop
  <2>1. /\ phase = "Run" /\ i \in Nat \ {0} /\ meta[i] \in Nat
        /\ UNCHANGED <<reading, phase, parsing, running, files>>
    BY <1>0, <1>6, RunTyped DEF Loop
  <2>2. i' \in Nat \ {0}
    BY <1>6, <2>1 DEF Loop
  <2> QED
    BY <2>1, <2>2, RunTyped, RunFrame DEF running, files
<1>7. CASE Junk
  <2>1. phase = "Run" /\ i' = i + 1 /\ phase' \in {"Run", "Crash"} /\ UNCHANGED <<reading, parsing, running, files>>
    BY <1>0, <1>7 DEF Junk, Advance
  <2>2. i' \in Nat \ {0}
    BY <2>1, RunTyped
  <2> QED
    BY <2>1, <2>2, RunTyped, RunFrame DEF running, files
<1>8. CASE RunEnds
  <2>1. phase = "Run" /\ phase' = "Done" /\ UNCHANGED <<reading, i, parsing, running, files>>
    BY <1>8 DEF RunEnds
  <2> QED
    BY <2>1, RunTyped, RunFrame DEF running, files
<1> QED
  BY <1>1, <1>2, <1>3, <1>4, <1>5, <1>6, <1>7, <1>8

LEMMA OtherTypes ==
    ASSUME TypeInv, Compile \/ Compiled \/ NextProcess \/ UNCHANGED vars
    PROVE  TypeInv'
<1>1. CASE Compile
  <2>1. /\ phase = "Compile" /\ i' = i + 1 /\ i \in 1..programSize
        /\ UNCHANGED <<reading, phase, parsing, running, typed, ranOutput>>
    BY <1>1 DEF Compile, Advance, TypeInv
  <2>2. compiled' \in Seq(Characters) /\ i' \in Nat \ {0}
    BY <1>1, <2>1, TranslationType, ConcatProperties, RunTyped DEF Compile
  <2> QED
    BY <2>1, <2>2, RunTyped, RunFrame DEF running
<1>2. CASE Compiled
  <2>1. phase = "Compile" /\ phase' = "Done" /\ UNCHANGED <<reading, i, parsing, running, files>>
    BY <1>2 DEF Compiled
  <2> QED
    BY <2>1, RunTyped, RunFrame DEF running, files
<1>3. CASE NextProcess
  <2>1. /\ phase' = "Read" /\ process' \in 1..3
        /\ source' \in Seq(Characters) /\ ranOutput' \in Seq(Bytes) /\ input' \in Seq(Bytes)
    BY <1>3 DEF NextProcess, TypeInv
  <2>2. raw' \in Seq(Commands) /\ stack' \in Seq(Nat \ {0}) /\ output' \in Seq(Bytes)
    BY <1>3 DEF NextProcess
  <2>3. i' \in Nat \ {0} /\ programSize' \in Nat /\ index' \in Nat \ {0}
    BY <1>3 DEF NextProcess
  <2>4. tape' = [p \in 1..InitialSize |-> 0] /\ pos' = 0 /\ UNCHANGED <<typed, compiled, faithful>>
    BY <1>3 DEF NextProcess
  <2>5. tape' \in Seq(Bytes) /\ Len(tape') \in InitialSize..MemorySize /\ pos' \in 0..(Len(tape') - 1)
    BY <2>4, NewTape
  <2> QED
    BY <2>1, <2>2, <2>3, <2>4, <2>5 DEF TypeInv
<1>4. CASE UNCHANGED vars
  BY <1>4 DEF TypeInv, vars, reading, parsing, running, files
<1> QED
  BY <1>1, <1>2, <1>3, <1>4

LEMMA NextTypes ==
    ASSUME TypeInv, [Next]_vars
    PROVE  TypeInv'
  BY FillTypes, ReadTypes, RunTypes, OtherTypes DEF Next, Over

-----------------------------------------------------------------------------
(* What the passes of main.c have done *)

Num(t, from) ==
    IF t[from] = "=" THEN Number(t, from + 1, After(t, from) - 1) ELSE After(t, from) - from

\* The operations in front of place n, which begins one or is the end.
Filled(n) ==
    /\ programSize = Cardinality(Starts(raw, Len(raw) + 1))
    /\ index = Cardinality(Starts(raw, n)) + 1
    /\ \A k \in 1..(index - 1) :
          /\ OpStart(raw, place[k]) /\ place[k] < n
          /\ program[k] = raw[place[k]]
          /\ After(raw, place[k]) = (IF k + 1 < index THEN place[k + 1] ELSE n)
          /\ program[k] \notin {"[", "]"} => meta[k] = Num(raw, place[k])
          /\ \A j \in 1..(k - 1) : place[j] < place[k]
    /\ \A s \in Starts(raw, n) : \E k \in 1..(index - 1) : place[k] = s

\* A pair of operations knows each other.
Pair(open, close) ==
    /\ open \in 1..(close - 1) /\ close \in 1..(index - 1)
    /\ program[open] = "[" /\ program[close] = "]"
    /\ meta[open] = close /\ meta[close] = open
    /\ Matches(raw, place[open], place[close])

\* The stack has the brackets that are open at n, in which n lies as deep as
\* the stack is high; p is how deep each place lies.
Stacked(n, p) ==
    /\ p[n - 1] = Len(stack)
    /\ \A q \in 0..(n - 1) : p[q] >= 0
    /\ \A m \in 1..Len(stack) :
          /\ stack[m] \in 1..(index - 1) /\ program[stack[m]] = "["
          /\ p[place[stack[m]] - 1] = m - 1
          /\ \A q \in place[stack[m]]..(n - 1) : p[q] >= m
    /\ \A k \in 1..(index - 1) :
          /\ program[k] = "[" => (\E m \in 1..Len(stack) : stack[m] = k) \/ \E c : Pair(k, c)
          /\ program[k] = "]" => \E o : Pair(o, k) /\ \A m \in 1..Len(stack) : stack[m] # o

Gathered(n) == Filled(n) /\ \A p : Sums(raw, p) => Stacked(n, p)

ReadInv ==
    Plain =>
      /\ phase = "Read" =>
            /\ i \in 1..(Len(source) + 1)
            /\ \A l : Leaves(source, l) => raw = l[i - 1]
            /\ inComment <=> Commented(source, i - 1)
      /\ phase # "Read" => raw = CommandsOf(source)

ParseInv ==
    /\ phase \in {"Read", "Count"} => index = 1 /\ stack = <<>>
    /\ phase = "Read" => programSize = 0
    /\ phase = "Run" => process # 2
    /\ phase = "Compile" => process = 2
    /\ Plain =>
         /\ phase \in {"Count", "Fill"} => i = Len(raw) + 1 \/ OpStart(raw, i)
         /\ phase = "Count" => programSize = Cardinality(Starts(raw, i))
         /\ phase = "Fill" => Gathered(i)
         /\ phase \in {"Run", "Compile", "Done", "Exhausted"} => stack = <<>> /\ Gathered(Len(raw) + 1)
         /\ phase = "Error" => ~Balanced(raw)
         /\ phase # "Crash"

-----------------------------------------------------------------------------
(* Reading *)

LEMMA CommentedNext ==
    ASSUME NEW t, NEW k \in Nat \ {0}
    PROVE  Commented(t, k) <=> IF Commented(t, k - 1) THEN t[k] # "newline" ELSE t[k] = "#"
<1>1. ASSUME Commented(t, k)
      PROVE  IF Commented(t, k - 1) THEN t[k] # "newline" ELSE t[k] = "#"
  <2>1. PICK j \in 1..k : t[j] = "#" /\ \A m \in j..k : t[m] # "newline"
    BY <1>1 DEF Commented
  <2>2. t[k] # "newline"
    BY <2>1
  <2>3. CASE j = k
    BY <2>1, <2>2, <2>3
  <2>4. CASE j # k
    <3>1. j \in 1..(k - 1) /\ \A m \in j..(k - 1) : m \in j..k
      BY <2>4
    <3>2. Commented(t, k - 1)
      BY <2>1, <3>1 DEF Commented
    <3> QED
      BY <2>2, <3>2
  <2> QED
    BY <2>3, <2>4
<1>2. ASSUME Commented(t, k - 1), t[k] # "newline"
      PROVE  Commented(t, k)
  <2>1. PICK j \in 1..(k - 1) : t[j] = "#" /\ \A m \in j..(k - 1) : t[m] # "newline"
    BY <1>2 DEF Commented
  <2>2. j \in 1..k /\ \A m \in j..k : m = k \/ m \in j..(k - 1)
    OBVIOUS
  <2> QED
    BY <1>2, <2>1, <2>2 DEF Commented
<1>3. ASSUME t[k] = "#"
      PROVE  Commented(t, k)
  <2>1. k \in 1..k /\ \A m \in k..k : m = k
    OBVIOUS
  <2>2. t[k] # "newline"
    BY <1>3
  <2> QED
    BY <1>3, <2>1, <2>2 DEF Commented
<1> QED
  BY <1>1, <1>2, <1>3

LEMMA SamePlain ==
    ASSUME source' = source
    PROVE  Plain' <=> Plain
  BY DEF Plain

LEMMA ReadSteps ==
    ASSUME TypeInv, ReadInv, Next \/ UNCHANGED vars
    PROVE  ReadInv'
<1>1. CASE ReadChar
  <2>1. /\ phase = "Read" /\ phase' = phase /\ source' = source /\ i' = i + 1
        /\ i <= Len(source) /\ i \in Nat \ {0} /\ i' - 1 = i /\ Len(source) \in Nat
    <3>1. phase = "Read" /\ phase' = phase /\ source' = source /\ i' = i + 1 /\ i <= Len(source)
      BY <1>1 DEF ReadChar, More
    <3>2. i \in Nat \ {0} /\ Len(source) \in Nat
      BY DEF TypeInv
    <3> QED
      BY <3>1, <3>2
  <2> SUFFICES ASSUME Plain
               PROVE  /\ i' \in 1..(Len(source) + 1)
                      /\ \A l : Leaves(source, l) => raw' = l[i]
                      /\ inComment' <=> Commented(source, i)
    BY <2>1, SamePlain DEF ReadInv
  <2> DEFINE c == source[i]
  <2>2. /\ inComment' = (IF inComment THEN c # "newline" ELSE c = "#")
        /\ raw' = (IF ~inComment /\ c \in Commands THEN Append(raw, c) ELSE raw)
    BY <1>1 DEF ReadChar
  <2> HIDE DEF c
  <2>3. inComment <=> Commented(source, i - 1)
    BY <2>1 DEF ReadInv
  <2>4. Commented(source, i) <=> IF Commented(source, i - 1) THEN c # "newline" ELSE c = "#"
    BY <2>1, CommentedNext DEF c
  <2>5. inComment' <=> Commented(source, i)
    BY <2>2, <2>3, <2>4
  <2>6. c \in Commands => c # "newline" /\ c # "#"
    BY CommandsAre
  <2>7. ASSUME NEW l, Leaves(source, l)
        PROVE  raw' = l[i]
    <3>1. raw = l[i - 1]
      BY <2>1, <2>7 DEF ReadInv
    <3>2. i \in 1..Len(source)
      BY <2>1
    <3>3. l[i] = IF Commented(source, i) \/ c \notin Commands THEN l[i - 1] ELSE Append(l[i - 1], c)
      BY <2>7, <3>2 DEF Leaves, c
    <3> QED
      BY <2>2, <2>3, <2>4, <2>6, <3>1, <3>3
  <2>8. i' \in 1..(Len(source) + 1)
    BY <2>1
  <2> QED
    BY <2>5, <2>7, <2>8
<1>2. CASE ReadEnd
  <2>1. phase = "Read" /\ phase' = "Count" /\ source' = source /\ raw' = raw /\ ~More
    BY <1>2 DEF ReadEnd, reading
  <2> SUFFICES ASSUME Plain
               PROVE  raw = CommandsOf(source)
    BY <2>1, SamePlain DEF ReadInv
  <2>2. i \in 1..(Len(source) + 1) /\ \A l : Leaves(source, l) => raw = l[i - 1]
    BY <2>1 DEF ReadInv
  <2>3. source \in Seq(Characters)
    BY DEF TypeInv
  <2>4. i = Len(source) + 1
    <3>1. Len(source) \in Nat
      BY <2>3
    <3>2. i <= Len(source) => i \in DOMAIN source
      BY <2>2, <2>3, <3>1
    <3>3. ~(i <= Len(source))
      BY <2>1, <3>2 DEF Plain, More
    <3> QED
      BY <2>2, <3>1, <3>3
  <2>5. PICK l : Leaves(source, l)
    BY <2>3, HasLeaves
  <2>6. raw = l[Len(source)]
    <3>1. i - 1 = Len(source)
      BY <2>3, <2>4
    <3> QED
      BY <2>2, <2>5, <3>1
  <2> QED
    BY <2>3, <2>5, <2>6, CommandsOfIs
<1>3. CASE NextProcess
  <2>1. phase' = "Read" /\ raw' = <<>> /\ inComment' = FALSE /\ i' = 1
    BY <1>3 DEF NextProcess
  <2>2. source' \in Seq(Characters)
    BY <1>3 DEF NextProcess, TypeInv
  <2>3. \A l : Leaves(source', l) => <<>> = l[0]
    BY DEF Leaves
  <2>4. ~Commented(source', 0)
    BY DEF Commented
  <2>5. 1 \in 1..(Len(source') + 1) /\ 1 - 1 = 0
    BY <2>2
  <2> QED
    BY <2>1, <2>3, <2>4, <2>5 DEF ReadInv
<1>4. CASE /\ phase # "Read" /\ phase' # "Read" /\ source' = source /\ raw' = raw
  BY <1>4, SamePlain DEF ReadInv
<1>5. CASE UNCHANGED vars
  BY <1>5, SamePlain DEF ReadInv, vars, reading
<1>6. CASE \/ Count \/ Allocate \/ Fill \/ Unmatched \/ Parsed
           \/ Tape_Right \/ Tape_Left \/ Tape_Change \/ Tape_Get \/ Tape_Set \/ Loop \/ Junk \/ RunEnds
           \/ Compile \/ Compiled
  <2>1. phase # "Read" /\ source' = source /\ raw' = raw
    BY <1>6 DEF Count, Allocate, Fill, Unmatched, Parsed, Tape_Right, Tape_Left, Tape_Change,
                Tape_Get, Tape_Set, Loop, Junk, RunEnds, Compile, Compiled, At, reading
  <2>2. phase' # "Read"
    BY <1>6 DEF Count, Allocate, Fill, Unmatched, Parsed, Tape_Right, Tape_Left, Tape_Change,
                Tape_Get, Tape_Set, Loop, Junk, RunEnds, Compile, Compiled, At, reading
  <2> QED
    BY <1>4, <2>1, <2>2
<1> QED
  BY <1>1, <1>2, <1>3, <1>5, <1>6 DEF Next, Over

LEMMA InitReads ==
    ASSUME TypeInv, Init
    PROVE  ReadInv /\ ParseInv
<1>1. /\ phase = "Read" /\ raw = <<>> /\ inComment = FALSE /\ i = 1
      /\ programSize = 0 /\ index = 1 /\ stack = <<>>
  BY DEF Init, Fresh
<1>2. \A l : Leaves(source, l) => <<>> = l[0]
  BY DEF Leaves
<1>3. ~Commented(source, 0)
  BY DEF Commented
<1>4. 1 \in 1..(Len(source) + 1) /\ 1 - 1 = 0
  BY DEF TypeInv
<1>5. ReadInv
  BY <1>1, <1>2, <1>3, <1>4 DEF ReadInv
<1>6. ParseInv
  BY <1>1 DEF ParseInv
<1> QED
  BY <1>5, <1>6

LEMMA PlainRaw ==
    ASSUME TypeInv, ReadInv, Plain, phase # "Read"
    PROVE  /\ raw = CommandsOf(source) /\ ~Stray(raw)
           /\ raw \in Seq(Commands) /\ raw \in Seq(Characters) /\ Len(raw) \in Nat
<1>1. raw \in Seq(Commands)
  BY DEF TypeInv
<1>2. raw = CommandsOf(source)
  BY DEF ReadInv
<1>3. ~Stray(raw)
  BY <1>2 DEF Plain
<1>4. raw \in Seq(Characters) /\ Len(raw) \in Nat
  BY <1>1, RawIsText
<1> QED
  BY <1>1, <1>2, <1>3, <1>4

-----------------------------------------------------------------------------
(* Counting and filling *)

LEMMA MatchesIs ==
    ASSUME NEW t \in Seq(Characters), NEW p, Sums(t, p),
           NEW o \in 1..Len(t), NEW c \in (o + 1)..Len(t)
    PROVE  Matches(t, o, c) <=> /\ t[o] = "[" /\ t[c] = "]" /\ p[c] = p[o - 1]
                                /\ \A q \in o..(c - 1) : p[q] > p[o - 1]
<1>1. \A q \in o..c : /\ Depth(t, o, q) = p[q] - p[o - 1]
                      /\ p[q] \in Int /\ p[o - 1] \in Int
  <2> SUFFICES ASSUME NEW q \in o..c
               PROVE  Depth(t, o, q) = p[q] - p[o - 1] /\ p[q] \in Int /\ p[o - 1] \in Int
    OBVIOUS
  <2>1. q \in o..Len(t) /\ q \in 0..Len(t) /\ o - 1 \in 0..Len(t)
    OBVIOUS
  <2> QED
    BY <2>1, DepthIs DEF Sums
<1>2. o < c /\ c \in o..c /\ \A q \in o..(c - 1) : q \in o..c
  OBVIOUS
<1> QED
  BY <1>1, <1>2 DEF Matches

LEMMA Counts ==
    ASSUME TypeInv, ReadInv, ParseInv, Plain, Count
    PROVE  /\ i' = Len(raw) + 1 \/ OpStart(raw, i')
           /\ programSize' = Cardinality(Starts(raw, i'))
<1>1. /\ phase = "Count" /\ i <= Len(raw) /\ i' = until(i)
      /\ programSize' = programSize + (IF raw[i] \in DigitSet THEN 0 ELSE 1)
  BY DEF Count
<1>2. raw \in Seq(Commands) /\ ~Stray(raw) /\ Len(raw) \in Nat
  BY <1>1, PlainRaw
<1>3. OpStart(raw, i) /\ programSize = Cardinality(Starts(raw, i))
  <2>1. i # Len(raw) + 1
    BY <1>1, <1>2 DEF TypeInv
  <2> QED
    BY <1>1, <2>1 DEF ParseInv
<1>4. i' = After(raw, i)
  BY <1>1, UntilIs
<1>5. programSize' = programSize + 1
  BY <1>1, <1>3 DEF OpStart
<1> QED
  BY <1>2, <1>3, <1>4, <1>5, AfterStarts, StartsAfter

\* What Fill writes in a program without stray digits.
LEMMA Filling ==
    ASSUME TypeInv, ReadInv, ParseInv, Plain, Fill
    PROVE  /\ raw \in Seq(Commands) /\ ~Stray(raw) /\ raw \in Seq(Characters)
           /\ OpStart(raw, i) /\ i \in 1..Len(raw) /\ raw[i] \in Commands \ DigitSet
           /\ i' = After(raw, i) /\ i' \in (i + 1)..(Len(raw) + 1)
           /\ i' = Len(raw) + 1 \/ OpStart(raw, i')
           /\ phase' = "Fill" /\ Filled(i) /\ \A p : Sums(raw, p) => Stacked(i, p)
           /\ index \in 1..programSize /\ programSize \in Nat /\ index' = index + 1
           /\ UNCHANGED <<source, raw, programSize>>
           /\ place'[index] = i /\ program'[index] = raw[i]
           /\ \A k \in 1..(index - 1) : place'[k] = place[k] /\ program'[k] = program[k]
           /\ raw[i] \notin {"[", "]"} =>
                 /\ stack' = stack /\ meta'[index] = Num(raw, i)
                 /\ \A k \in 1..(index - 1) : meta'[k] = meta[k]
           /\ raw[i] = "[" => stack' = Append(stack, index) /\ meta' = meta
           /\ raw[i] = "]" => /\ stack # <<>> /\ stack' = Front(stack)
                              /\ Last(stack) \in 1..(index - 1) =>
                                   /\ meta'[index] = Last(stack) /\ meta'[Last(stack)] = index
                                   /\ \A k \in 1..(index - 1) : k # Last(stack) => meta'[k] = meta[k]
<1>1. /\ phase = "Fill" /\ i <= Len(raw) /\ i' = until(i) /\ index' = index + 1
      /\ UNCHANGED <<source, raw, programSize>>
  BY DEF Fill, reading
<1>2. raw \in Seq(Commands) /\ ~Stray(raw) /\ Len(raw) \in Nat /\ raw \in Seq(Characters)
  BY <1>1, PlainRaw
<1>3. OpStart(raw, i) /\ Filled(i) /\ \A p : Sums(raw, p) => Stacked(i, p)
  <2>1. i # Len(raw) + 1
    BY <1>1, <1>2 DEF TypeInv
  <2> QED
    BY <1>1, <2>1 DEF ParseInv, Gathered
<1>4. i \in 1..Len(raw) /\ raw[i] \notin DigitSet /\ raw[i] \in Commands
  BY <1>2, <1>3 DEF OpStart
<1>5. i' = After(raw, i) /\ After(raw, i) \in (i + 1)..(Len(raw) + 1)
  BY <1>1, <1>2, <1>4, UntilIs, AfterIs
<1>6. i' = Len(raw) + 1 \/ OpStart(raw, i')
  BY <1>2, <1>3, <1>5, AfterStarts
<1>7. index \in 1..programSize /\ programSize \in Nat
  <2>1. Cardinality(Starts(raw, i)) \in Nat /\ Cardinality(Starts(raw, i)) + 1 <= Cardinality(Starts(raw, Len(raw) + 1))
    BY <1>2, <1>3, <1>4, StartsFinite, StartsAfter
  <2>2. programSize \in Nat
    BY DEF TypeInv
  <2> QED
    BY <1>3, <2>1, <2>2 DEF Filled
<1>8. phase' = "Fill"
  <2>1. ~Beyond
    BY <1>7 DEF Beyond
  <2> QED
    BY <2>1 DEF Fill
<1>9. /\ program \in [1..programSize -> Commands \cup {"junk"}]
      /\ meta \in [1..programSize -> Nat]
      /\ place \in [1..programSize -> Nat]
  BY <1>1 DEF TypeInv
<1>10. \A k \in 1..(index - 1) : k \in 1..programSize /\ k # index
  BY <1>7
<1>11. /\ \A v : /\ Stored(place, index, v)[index] = v
                 /\ \A k \in 1..(index - 1) : Stored(place, index, v)[k] = place[k]
       /\ \A v : /\ Stored(program, index, v)[index] = v
                 /\ \A k \in 1..(index - 1) : Stored(program, index, v)[k] = program[k]
       /\ \A v : /\ Stored(meta, index, v)[index] = v
                 /\ \A k \in 1..(index - 1) : Stored(meta, index, v)[k] = meta[k]
  BY <1>7, <1>9, <1>10 DEF Stored
<1>12. CASE raw[i] = "[" /\ FillOpen
  <2>1. /\ program' = Stored(program, index, "[") /\ place' = Stored(place, index, i)
        /\ stack' = Append(stack, index) /\ meta' = meta
    BY <1>12 DEF FillOpen
  <2> QED
    BY <1>1, <1>2, <1>3, <1>4, <1>5, <1>6, <1>7, <1>8, <1>11, <1>12, <2>1
<1>13. CASE raw[i] = "]" /\ FillClose
  <2> DEFINE o == Last(stack)
             m == Stored(meta, index, o)
  <2>1. /\ program' = Stored(program, index, "]") /\ place' = Stored(place, index, i)
        /\ stack' = Front(stack) /\ stack # <<>> /\ meta' = Stored(m, o, index)
    BY <1>13 DEF FillClose
  <2>2. ASSUME o \in 1..(index - 1)
        PROVE  /\ meta'[index] = o /\ meta'[o] = index
               /\ \A k \in 1..(index - 1) : k # o => meta'[k] = meta[k]
    <3> HIDE DEF o
    <3>1. m[index] = o /\ (\A k \in 1..(index - 1) : m[k] = meta[k]) /\ DOMAIN m = 1..programSize
      BY <1>9, <1>11 DEF Stored
    <3>2. o \in 1..programSize /\ o # index
      BY <1>10, <2>2
    <3> HIDE DEF m
    <3>3. meta' = [m EXCEPT ![o] = index]
      BY <2>1, <3>1, <3>2 DEF Stored
    <3> QED
      BY <1>7, <1>10, <3>1, <3>2, <3>3
  <2> QED
    BY <1>1, <1>2, <1>3, <1>4, <1>5, <1>6, <1>7, <1>8, <1>11, <1>13, <2>1, <2>2
<1>14. CASE raw[i] \in {".", ","} \cup Moves \cup {"="} /\ Fills(raw[i], meta) /\ UNCHANGED stack
  <2>1. /\ program' = Stored(program, index, raw[i]) /\ place' = Stored(place, index, i)
        /\ meta' = Stored(meta, index, metaOf(i)) /\ stack' = stack
    BY <1>14 DEF Fills
  <2>2. metaOf(i) = Num(raw, i)
    BY UntilIs DEF metaOf, Num
  <2>3. raw[i] \notin {"[", "]"}
    BY <1>14, CommandsAre
  <2> QED
    BY <1>1, <1>2, <1>3, <1>4, <1>5, <1>6, <1>7, <1>8, <1>11, <2>1, <2>2, <2>3
<1>15. ~FillStray
  BY <1>4 DEF FillStray
<1> QED
  BY <1>12, <1>13, <1>14, <1>15 DEF Fill

LEMMA FilledNext ==
    ASSUME TypeInv, ReadInv, ParseInv, Plain, Fill
    PROVE  Filled(i)'
<1>1. /\ raw \in Seq(Commands) /\ ~Stray(raw) /\ OpStart(raw, i) /\ i \in 1..Len(raw)
      /\ i' = After(raw, i) /\ i' \in (i + 1)..(Len(raw) + 1) /\ Filled(i)
      /\ index \in 1..programSize /\ programSize \in Nat /\ index' = index + 1
      /\ UNCHANGED <<source, raw, programSize>>
      /\ place'[index] = i /\ program'[index] = raw[i]
      /\ \A k \in 1..(index - 1) : place'[k] = place[k] /\ program'[k] = program[k]
      /\ raw[i] \notin {"[", "]"} =>
            meta'[index] = Num(raw, i) /\ \A k \in 1..(index - 1) : meta'[k] = meta[k]
  BY Filling
<1>2. /\ Starts(raw, i') = Starts(raw, i) \cup {i}
      /\ Cardinality(Starts(raw, i')) = Cardinality(Starts(raw, i)) + 1
  BY <1>1, StartsAfter
<1>3. programSize = Cardinality(Starts(raw, Len(raw) + 1)) /\ index = Cardinality(Starts(raw, i)) + 1
  BY <1>1 DEF Filled
<1>4. \A k \in 1..(index - 1) :
          /\ OpStart(raw, place[k]) /\ place[k] < i
          /\ program[k] = raw[place[k]]
          /\ After(raw, place[k]) = (IF k + 1 < index THEN place[k + 1] ELSE i)
          /\ program[k] \notin {"[", "]"} => meta[k] = Num(raw, place[k])
          /\ \A j \in 1..(k - 1) : place[j] < place[k]
  BY <1>1 DEF Filled
<1>5. \A s \in Starts(raw, i) : \E k \in 1..(index - 1) : place[k] = s
  BY <1>1 DEF Filled
<1>6. \A k \in 1..(index - 1) : place[k] \in Nat /\ k \in Nat /\ index \in Nat /\ i \in Nat
  BY <1>1, <1>4 DEF OpStart
\* Numbers of brackets change only.
<1>7. ASSUME NEW k \in 1..(index - 1), program[k] \notin {"[", "]"}
      PROVE  meta'[k] = meta[k]
  <2>1. CASE raw[i] = "["
    BY <2>1, Filling
  <2>2. CASE raw[i] = "]"
    <3>1. stack # <<>> /\ stack \in Seq(Nat \ {0})
      BY <2>2, Filling DEF TypeInv
    <3>2. Len(stack) \in 1..Len(stack)
      BY <3>1, EmptySeq
    <3>3. PICK p : Sums(raw, p)
      BY <1>1, RawIsText, HasSums
    <3>4. stack[Len(stack)] \in 1..(index - 1) /\ program[stack[Len(stack)]] = "["
      BY <3>2, <3>3, Filling DEF Stacked
    <3>5. Last(stack) = stack[Len(stack)]
      BY DEF Last
    <3>6. k # Last(stack)
      BY <1>7, <3>4, <3>5
    <3> QED
      BY <2>2, <3>4, <3>5, <3>6, Filling
  <2> QED
    BY <1>1, <2>1, <2>2
<1>8. ASSUME NEW k \in 1..(index' - 1)
      PROVE  /\ OpStart(raw, place'[k]) /\ place'[k] < i'
             /\ program'[k] = raw[place'[k]]
             /\ After(raw, place'[k]) = (IF k + 1 < index' THEN place'[k + 1] ELSE i')
             /\ program'[k] \notin {"[", "]"} => meta'[k] = Num(raw, place'[k])
             /\ \A j \in 1..(k - 1) : place'[j] < place'[k]
  <2>1. CASE k = index
    <3>1. OpStart(raw, place'[k]) /\ place'[k] < i' /\ program'[k] = raw[place'[k]]
      BY <1>1, <2>1
    <3>2. After(raw, place'[k]) = (IF k + 1 < index' THEN place'[k + 1] ELSE i')
      BY <1>1, <2>1
    <3>3. program'[k] \notin {"[", "]"} => meta'[k] = Num(raw, place'[k])
      BY <1>1, <2>1
    <3>4. \A j \in 1..(k - 1) : place'[j] < place'[k]
      BY <1>1, <1>4, <2>1
    <3> QED
      BY <3>1, <3>2, <3>3, <3>4
  <2>2. CASE k # index
    <3>1. k \in 1..(index - 1) /\ \A j \in 1..(k - 1) : j \in 1..(index - 1)
      BY <1>1, <2>2
    <3>2. place'[k] = place[k] /\ program'[k] = program[k]
      BY <1>1, <3>1
    <3>3. OpStart(raw, place'[k]) /\ program'[k] = raw[place'[k]] /\ place'[k] < i
      BY <1>4, <3>1, <3>2
    <3>4. place'[k] < i'
      BY <1>1, <1>6, <3>1, <3>2, <3>3
    <3>5. After(raw, place'[k]) = (IF k + 1 < index' THEN place'[k + 1] ELSE i')
      <4>1. After(raw, place'[k]) = (IF k + 1 < index THEN place[k + 1] ELSE i)
        BY <1>4, <3>1, <3>2
      <4>2. k + 1 < index' /\ (k + 1 < index => k + 1 \in 1..(index - 1)) /\ (~(k + 1 < index) => k + 1 = index)
        BY <1>1, <3>1
      <4> QED
        BY <1>1, <4>1, <4>2
    <3>6. program'[k] \notin {"[", "]"} => meta'[k] = Num(raw, place'[k])
      BY <1>4, <1>7, <3>1, <3>2
    <3>7. \A j \in 1..(k - 1) : place'[j] < place'[k]
      BY <1>1, <1>4, <3>1, <3>2
    <3> QED
      BY <3>2, <3>3, <3>4, <3>5, <3>6, <3>7
  <2> QED
    BY <2>1, <2>2
<1>9. ASSUME NEW s \in Starts(raw, i')
      PROVE  \E k \in 1..(index' - 1) : place'[k] = s
  <2>1. CASE s = i
    <3>1. index \in 1..(index' - 1) /\ place'[index] = s
      BY <1>1, <2>1
    <3> QED
      BY <3>1
  <2>2. CASE s \in Starts(raw, i)
    <3>1. PICK k \in 1..(index - 1) : place[k] = s
      BY <1>5, <2>2
    <3>2. k \in 1..(index' - 1) /\ place'[k] = s
      BY <1>1, <3>1
    <3> QED
      BY <3>2
  <2> QED
    BY <1>2, <2>1, <2>2
<1>10. index' = Cardinality(Starts(raw, i')) + 1 /\ programSize' = Cardinality(Starts(raw, Len(raw) + 1))
  BY <1>1, <1>2, <1>3
<1>11. raw' = raw
  BY <1>1
<1> QED
  BY <1>8, <1>9, <1>10, <1>11 DEF Filled

\* A pair whose numbers stay is a pair still.
LEMMA PairKept ==
    ASSUME TypeInv, ReadInv, ParseInv, Plain, Fill, NEW o, NEW c, Pair(o, c),
           meta'[o] = meta[o], meta'[c] = meta[c]
    PROVE  Pair(o, c)'
<1>1. /\ index \in 1..programSize /\ programSize \in Nat /\ index' = index + 1 /\ raw' = raw
      /\ \A k \in 1..(index - 1) : place'[k] = place[k] /\ program'[k] = program[k]
  BY Filling
<1>2. o \in 1..(c - 1) /\ c \in 1..(index - 1) /\ o \in 1..(index - 1) /\ c \in 1..(index' - 1)
  BY <1>1 DEF Pair
<1>3. /\ program[o] = "[" /\ program[c] = "]" /\ meta[o] = c /\ meta[c] = o
      /\ Matches(raw, place[o], place[c])
  BY DEF Pair
<1>4. /\ o \in 1..(c - 1) /\ c \in 1..(index' - 1)
      /\ program'[o] = "[" /\ program'[c] = "]" /\ meta'[o] = c /\ meta'[c] = o
      /\ Matches(raw', place'[o], place'[c])
  BY <1>1, <1>2, <1>3
<1> QED
  BY <1>4 DEF Pair

LEMMA TwoParts ==
    ASSUME NEW a \in Nat, NEW b \in Nat, NEW c \in Nat, NEW q \in a..(c - 1)
    PROVE  q \in a..(b - 1) \/ q \in b..(c - 1)
  OBVIOUS

LEMMA StackedNext ==
    ASSUME TypeInv, ReadInv, ParseInv, Plain, Fill, NEW p, Sums(raw, p)
    PROVE  Stacked(i, p)'
<1>1. /\ raw \in Seq(Commands) /\ raw \in Seq(Characters) /\ i \in 1..Len(raw) /\ Len(raw) \in Nat
      /\ i' = After(raw, i) /\ i' \in (i + 1)..(Len(raw) + 1)
      /\ index \in 1..programSize /\ programSize \in Nat /\ index' = index + 1
      /\ place'[index] = i /\ program'[index] = raw[i] /\ index \in Nat /\ index' - 1 = index
      /\ \A k \in 1..(index - 1) : place'[k] = place[k] /\ program'[k] = program[k]
  BY Filling
<1>2. /\ p[i - 1] = Len(stack)
      /\ \A q \in 0..(i - 1) : p[q] >= 0
      /\ \A m \in 1..Len(stack) :
            /\ stack[m] \in 1..(index - 1) /\ program[stack[m]] = "["
            /\ p[place[stack[m]] - 1] = m - 1
            /\ \A q \in place[stack[m]]..(i - 1) : p[q] >= m
      /\ \A k \in 1..(index - 1) :
            /\ program[k] = "[" => (\E m \in 1..Len(stack) : stack[m] = k) \/ \E c : Pair(k, c)
            /\ program[k] = "]" => \E o : Pair(o, k) /\ \A m \in 1..Len(stack) : stack[m] # o
  <2>1. Stacked(i, p)
    BY Filling
  <2> QED
    BY <2>1 DEF Stacked
<1>3. \A q \in 0..Len(raw) : p[q] \in Int
  BY DEF Sums
<1>4. stack \in Seq(Nat \ {0}) /\ Len(stack) \in Nat
  BY DEF TypeInv
<1>5. \A k \in 1..(index - 1) : /\ place[k] \in 1..(i - 1)
                                /\ place'[k] = place[k]
                                /\ k \in 1..(index' - 1)
  <2> SUFFICES ASSUME NEW k \in 1..(index - 1)
               PROVE  place[k] \in 1..(i - 1) /\ place'[k] = place[k] /\ k \in 1..(index' - 1)
    OBVIOUS
  <2>1. place[k] \in 1..Len(raw) /\ place[k] < i
    BY Filling DEF Filled, OpStart
  <2> QED
    BY <1>1, <2>1
<1>6. CASE raw[i] \notin {"[", "]"}
  <2>1. /\ stack' = stack /\ \A k \in 1..(index - 1) : meta'[k] = meta[k]
    BY <1>6, Filling
  <2>2. \A k \in i..(i' - 1) : p[k] = Len(stack)
    <3>1. i' - 1 \in i..Len(raw)
      BY <1>1
    <3>2. ASSUME NEW k \in i..(i' - 1) PROVE raw[k] \notin {"[", "]"}
      <4>1. CASE k = i
        BY <1>6, <4>1
      <4>2. CASE k # i
        <5>1. k \in (i + 1)..(After(raw, i) - 1)
          BY <1>1, <4>2
        <5>2. raw[i] \in Moves => raw[k] = raw[i]
          BY <1>1, <5>1, AfterIs
        <5>3. raw[i] = "=" => raw[k] \in DigitSet
          BY <1>1, <5>1, AfterIs
        <5>4. raw[i] \in Moves \cup {"="}
          BY <1>1, <5>1, AfterIs
        <5> QED
          BY <1>6, <5>2, <5>3, <5>4, DigitsAre
      <4> QED
        BY <4>1, <4>2
    <3>3. \A k \in i..(i' - 1) : p[k] = p[i - 1]
      <4> DEFINE b == i' - 1
      <4> HIDE DEF b
      <4>1. b \in i..Len(raw) /\ \A k \in i..b : raw[k] \notin {"[", "]"}
        BY <3>1, <3>2 DEF b
      <4>2. \A k \in i..b : p[k] = p[i - 1]
        BY <1>1, <4>1, FlatRow
      <4> QED
        BY <4>2 DEF b
    <3> QED
      BY <1>2, <3>3
  <2>3. p[i' - 1] = Len(stack') /\ \A q \in 0..(i' - 1) : p[q] >= 0
    <3>1. i' - 1 \in i..(i' - 1) /\ \A q \in 0..(i' - 1) : q \in 0..(i - 1) \/ q \in i..(i' - 1)
      BY <1>1
    <3> QED
      BY <1>2, <1>4, <2>1, <2>2, <3>1
  <2>4. ASSUME NEW m \in 1..Len(stack')
        PROVE  /\ stack'[m] \in 1..(index' - 1) /\ program'[stack'[m]] = "["
               /\ p[place'[stack'[m]] - 1] = m - 1
               /\ \A q \in place'[stack'[m]]..(i' - 1) : p[q] >= m
    <3>1. m \in 1..Len(stack) /\ stack'[m] = stack[m] /\ stack[m] \in 1..(index - 1)
      BY <1>2, <2>1
    <3>2. /\ stack'[m] \in 1..(index' - 1) /\ program'[stack'[m]] = "["
          /\ p[place'[stack'[m]] - 1] = m - 1
      BY <1>1, <1>2, <1>5, <3>1
    <3>3. ASSUME NEW q \in place'[stack'[m]]..(i' - 1)
          PROVE  p[q] >= m
      <4>1. PICK a \in 1..(i - 1) : a = place[stack[m]] /\ a = place'[stack'[m]]
        BY <1>5, <3>1
      <4>2. q \in a..(i - 1) \/ q \in i..(i' - 1)
        <5>1. q \in a..(i' - 1)
          BY <4>1
        <5>2. i \in Nat /\ i' \in Nat
          <6>1. i \in 1..Len(raw) /\ i' \in (i + 1)..(Len(raw) + 1) /\ Len(raw) \in Nat
            BY <1>1, Zenon
          <6> QED
            BY <6>1
        <5>3. a \in Nat
          BY <4>1, <5>2
        <5> QED
          BY <5>1, <5>2, <5>3, TwoParts, Zenon
      <4>3. q \in place[stack[m]]..(i - 1) \/ q \in i..(i' - 1)
        BY <4>1, <4>2, Zenon
      <4> QED
        BY <1>2, <1>4, <2>2, <3>1, <4>3
    <3> QED
      BY <3>2, <3>3
  <2>5. ASSUME NEW o, NEW c, Pair(o, c) PROVE Pair(o, c)'
    <3>1. o \in 1..(index - 1) /\ c \in 1..(index - 1)
      BY <1>1, <2>5 DEF Pair
    <3> QED
      BY <2>1, <2>5, <3>1, PairKept
  <2>6. ASSUME NEW k \in 1..(index' - 1)
        PROVE  /\ program'[k] = "[" => (\E m \in 1..Len(stack') : stack'[m] = k) \/ \E c : Pair(k, c)'
               /\ program'[k] = "]" => \E o : Pair(o, k)' /\ \A m \in 1..Len(stack') : stack'[m] # o
    <3>1. CASE k = index
      BY <1>1, <1>6, <3>1
    <3>2. CASE k \in 1..(index - 1)
      <4>1. program'[k] = program[k]
        BY <1>1, <3>2
      <4>2. program[k] = "[" => (\E m \in 1..Len(stack') : stack'[m] = k) \/ \E c : Pair(k, c)'
        BY <1>2, <2>1, <2>5, <3>2
      <4>3. program[k] = "]" => \E o : Pair(o, k)' /\ \A m \in 1..Len(stack') : stack'[m] # o
        BY <1>2, <2>1, <2>5, <3>2
      <4> QED
        BY <4>1, <4>2, <4>3
    <3> QED
      BY <1>1, <3>1, <3>2
  <2> QED
    BY <2>3, <2>4, <2>6 DEF Stacked
<1>7. CASE raw[i] = "["
  <2>1. stack' = Append(stack, index) /\ meta' = meta /\ i' = i + 1
    <3>1. raw[i] \notin Moves \cup {"="}
      BY <1>7, CommandsAre
    <3> QED
      BY <1>1, <1>7, <3>1, Filling, AfterIs
  <2>2. p[i] = Len(stack) + 1
    <3>1. p[i] = p[i - 1] + Weight(raw[i])
      BY <1>1 DEF Sums
    <3>2. Weight(raw[i]) = 1
      BY <1>7 DEF Weight
    <3> QED
      BY <1>2, <3>1, <3>2
  <2>3. /\ Len(stack') = Len(stack) + 1 /\ stack'[Len(stack) + 1] = index
        /\ \A m \in 1..Len(stack) : stack'[m] = stack[m]
    <3>1. index \in Nat \ {0}
      BY DEF TypeInv
    <3> QED
      BY <1>4, <2>1, <3>1, AppendProperties
  <2>4. p[i' - 1] = Len(stack') /\ \A q \in 0..(i' - 1) : p[q] >= 0
    <3>1. i' - 1 = i /\ \A q \in 0..(i' - 1) : q \in 0..(i - 1) \/ q = i
      BY <1>1, <2>1
    <3> QED
      BY <1>2, <1>4, <2>2, <2>3, <3>1
  <2>5. ASSUME NEW m \in 1..Len(stack')
        PROVE  /\ stack'[m] \in 1..(index' - 1) /\ program'[stack'[m]] = "["
               /\ p[place'[stack'[m]] - 1] = m - 1
               /\ \A q \in place'[stack'[m]]..(i' - 1) : p[q] >= m
    <3>1. CASE m = Len(stack) + 1
      BY <1>1, <1>2, <1>4, <1>7, <2>1, <2>2, <2>3, <3>1
    <3>2. CASE m # Len(stack) + 1
      <4>1. m \in 1..Len(stack) /\ stack'[m] = stack[m] /\ stack[m] \in 1..(index - 1)
        BY <1>2, <1>4, <2>3, <3>2
      <4>2. /\ stack'[m] \in 1..(index' - 1) /\ program'[stack'[m]] = "["
            /\ p[place'[stack'[m]] - 1] = m - 1
        BY <1>1, <1>2, <1>5, <4>1
      <4>3. ASSUME NEW q \in place'[stack'[m]]..(i' - 1)
            PROVE  p[q] >= m
        <5>1. PICK a \in 1..(i - 1) : a = place[stack[m]] /\ a = place'[stack'[m]]
          BY <1>5, <4>1
        <5>2. q \in a..(i - 1) \/ q = i
          <6>1. q \in a..(i' - 1)
            BY <5>1
          <6>2. i \in Nat /\ i' = i + 1
            BY <1>1, <2>1
          <6> QED
            BY <6>1, <6>2
        <5>3. q \in place[stack[m]]..(i - 1) \/ q = i
          BY <5>1, <5>2, Zenon
        <5> QED
          BY <1>2, <1>4, <2>2, <4>1, <5>3
      <4> QED
        BY <4>2, <4>3
    <3> QED
      BY <3>1, <3>2
  <2>6. ASSUME NEW o, NEW c, Pair(o, c) PROVE Pair(o, c)' /\ o # index
    <3>1. o \in 1..(index - 1)
      BY <1>1, <2>6 DEF Pair
    <3> QED
      BY <1>1, <2>1, <2>6, <3>1, PairKept
  <2>7. ASSUME NEW k \in 1..(index' - 1)
        PROVE  /\ program'[k] = "[" => (\E m \in 1..Len(stack') : stack'[m] = k) \/ \E c : Pair(k, c)'
               /\ program'[k] = "]" => \E o : Pair(o, k)' /\ \A m \in 1..Len(stack') : stack'[m] # o
    <3>1. CASE k = index
      BY <1>1, <1>4, <1>7, <2>3, <3>1
    <3>2. CASE k \in 1..(index - 1)
      <4>1. program'[k] = program[k]
        BY <1>1, <3>2
      <4>2. program[k] = "[" => (\E m \in 1..Len(stack') : stack'[m] = k) \/ \E c : Pair(k, c)'
        <5>1. \A m \in 1..Len(stack) : m \in 1..Len(stack')
          BY <1>4, <2>3
        <5> QED
          BY <1>2, <2>3, <2>6, <3>2, <5>1
      <4>3. program[k] = "]" => \E o : Pair(o, k)' /\ \A m \in 1..Len(stack') : stack'[m] # o
        <5>1. \A m \in 1..Len(stack') : m \in 1..Len(stack) \/ m = Len(stack) + 1
          BY <1>4, <2>3
        <5> QED
          BY <1>2, <2>3, <2>6, <3>2, <5>1
      <4> QED
        BY <4>1, <4>2, <4>3
    <3> QED
      BY <1>1, <3>1, <3>2
  <2> QED
    BY <2>4, <2>5, <2>7 DEF Stacked
<1>8. CASE raw[i] = "]"
  <2> DEFINE h == Len(stack)
  <2>13. PICK o : o = stack[h]
    OBVIOUS
  <2>14. PICK x : x = index
    OBVIOUS
  <2>0. i' = i + 1
    <3>1. raw[i] \notin Moves \cup {"="}
      BY <1>8, CommandsAre
    <3> QED
      BY <1>1, <3>1, AfterIs
  <2>1. stack # <<>> /\ stack' = Front(stack) /\ Last(stack) = o
    BY <1>8, <2>13, Filling DEF Last
  <2>2. h \in Nat \ {0} /\ h \in 1..h
    BY <1>4, <2>1, EmptySeq
  <2>3. /\ o \in 1..(index - 1) /\ program[o] = "[" /\ p[place[o] - 1] = h - 1
        /\ \A q \in place[o]..(i - 1) : p[q] >= h
    BY <1>2, <2>2, <2>13
  <2>4. /\ meta'[index] = o /\ meta'[o] = index
        /\ \A k \in 1..(index - 1) : k # o => meta'[k] = meta[k]
    BY <1>8, <2>1, <2>3, Filling
  <2>5. Len(stack') = h - 1 /\ \A m \in 1..(h - 1) : stack'[m] = stack[m]
    <3>1. stack' = SubSeq(stack, 1, h - 1)
      BY <2>1 DEF Front
    <3>2. 1 \in Int /\ h - 1 \in Int /\ \A k \in 1..(h - 1) : stack[k] \in Nat
      BY <1>4, <2>2
    <3> DEFINE b == h - 1
    <3> HIDE DEF b
    <3>3. /\ Len(SubSeq(stack, 1, b)) = (IF 1 <= b THEN b - 1 + 1 ELSE 0)
          /\ \A k \in 1..(b - 1 + 1) : SubSeq(stack, 1, b)[k] = stack[1 + k - 1]
      BY <3>2, SubSeqProperties DEF b
    <3>4. \A k \in 1..b : k \in 1..(b - 1 + 1) /\ 1 + k - 1 = k
      BY <3>2 DEF b
    <3>5. Len(SubSeq(stack, 1, b)) = b
      <4>1. b \in Nat
        BY <2>2 DEF b
      <4>2. CASE b = 0
        BY <3>3, <4>2
      <4>3. CASE b # 0
        <5>1. 1 <= b /\ b - 1 + 1 = b
          BY <4>1, <4>3
        <5> QED
          BY <3>3, <5>1
      <4> QED
        BY <4>2, <4>3
    <3>6. \A k \in 1..b : SubSeq(stack, 1, b)[k] = stack[k]
      BY <3>3, <3>4
    <3> QED
      BY <3>1, <3>5, <3>6 DEF b
  <2>6. p[i] = h - 1
    <3>1. p[i] = p[i - 1] + Weight(raw[i])
      BY <1>1 DEF Sums
    <3>2. Weight(raw[i]) = -1
      BY <1>8 DEF Weight
    <3> QED
      BY <1>2, <2>2, <3>1, <3>2
  <2>7. p[i' - 1] = Len(stack') /\ \A q \in 0..(i' - 1) : p[q] >= 0
    <3>1. i' - 1 = i /\ \A q \in 0..(i' - 1) : q \in 0..(i - 1) \/ q = i
      BY <1>1, <2>0
    <3> QED
      BY <1>2, <2>2, <2>5, <2>6, <3>1
  <2>8. ASSUME NEW m \in 1..(h - 1)
        PROVE  /\ m \in 1..h /\ stack[m] \in 1..(index - 1) /\ stack[m] # o
    <3>1. m \in 1..h /\ stack[m] \in 1..(index - 1) /\ p[place[stack[m]] - 1] = m - 1 /\ m # h /\ m \in Nat
      BY <1>2, <2>2
    <3> QED
      BY <2>2, <2>3, <3>1
  <2>9. ASSUME NEW m \in 1..Len(stack')
        PROVE  /\ stack'[m] \in 1..(index' - 1) /\ program'[stack'[m]] = "["
               /\ p[place'[stack'[m]] - 1] = m - 1
               /\ \A q \in place'[stack'[m]]..(i' - 1) : p[q] >= m
    <3>1. m \in 1..(h - 1) /\ stack'[m] = stack[m] /\ stack[m] \in 1..(index - 1) /\ m \in 1..h
      BY <2>5, <2>8
    <3>2. /\ stack'[m] \in 1..(index' - 1) /\ program'[stack'[m]] = "["
          /\ p[place'[stack'[m]] - 1] = m - 1
      BY <1>1, <1>2, <1>5, <3>1
    <3>3. ASSUME NEW q \in place'[stack'[m]]..(i' - 1)
          PROVE  p[q] >= m
      <4>2. /\ place'[stack'[m]] = place[stack[m]] /\ place[stack[m]] \in Nat
            /\ i' - 1 = i /\ i \in Nat
        BY <1>1, <1>5, <2>0, <3>1
      <4>1. q \in place[stack[m]]..(i - 1) \/ q = i
        BY <4>2
      <4> QED
        BY <1>2, <2>2, <2>6, <3>1, <4>1
    <3> QED
      BY <3>2, <3>3
  <2>10. Pair(o, x)'
    <3>1. place[o] \in 1..(i - 1) /\ place'[o] = place[o] /\ program'[o] = "["
      BY <1>1, <1>5, <2>3
    <3>2. raw[place[o]] = "["
      BY <2>3, Filling DEF Filled
    <3>3. Matches(raw, place[o], i)
      <4>0. PICK a : a = place[o]
        OBVIOUS
      <4>1. a \in 1..Len(raw) /\ i \in (a + 1)..Len(raw)
        BY <1>1, <3>1, <4>0
      <4>2. \A q \in a..(i - 1) : p[q] > p[a - 1]
        <5>1. \A q \in a..(i - 1) : q \in 0..Len(raw) /\ p[q] \in Int
          BY <1>1, <1>3, <4>1
        <5>2. p[a - 1] = h - 1 /\ \A q \in a..(i - 1) : p[q] >= h
          BY <2>3, <4>0
        <5> QED
          BY <2>2, <5>1, <5>2
      <4>3. raw[a] = "[" /\ raw[i] = "]" /\ p[i] = p[a - 1]
        BY <1>8, <2>3, <2>6, <3>2, <4>0
      <4>4. raw \in Seq(Characters)
        BY <1>1
      <4>5. Matches(raw, a, i)
        BY <4>1, <4>2, <4>3, <4>4, MatchesIs
      <4> QED
        BY <4>0, <4>5
    <3>4. /\ o \in 1..(x - 1) /\ x \in 1..(index' - 1) /\ program'[x] = "]"
          /\ raw' = raw /\ place'[x] = i
      BY <1>1, <1>8, <2>3, <2>14, Filling
    <3>5. Matches(raw', place'[o], place'[x])
      BY <3>1, <3>3, <3>4
    <3>6. meta'[x] = o /\ meta'[o] = x
      BY <2>4, <2>14
    <3> QED
      BY <3>1, <3>4, <3>5, <3>6 DEF Pair
  <2>11. ASSUME NEW a, NEW c, Pair(a, c), a # o PROVE Pair(a, c)'
    <3>1. a \in 1..(index - 1) /\ c \in 1..(index - 1) /\ program[c] = "]"
      BY <1>1, <2>11 DEF Pair
    <3> QED
      BY <2>3, <2>4, <2>11, <3>1, PairKept
  <2>12. ASSUME NEW k \in 1..(index' - 1)
        PROVE  /\ program'[k] = "[" => (\E m \in 1..Len(stack') : stack'[m] = k) \/ \E c : Pair(k, c)'
               /\ program'[k] = "]" => \E a : Pair(a, k)' /\ \A m \in 1..Len(stack') : stack'[m] # a
    <3>1. CASE k = index
      <4>1. program'[k] = "]"
        BY <1>1, <1>8, <3>1
      <4>2. \A m \in 1..Len(stack') : stack'[m] # o
        BY <2>5, <2>8
      <4> QED
        BY <2>10, <2>14, <3>1, <4>1, <4>2
    <3>2. CASE k \in 1..(index - 1)
      <4>1. program'[k] = program[k]
        BY <1>1, <3>2
      <4>2. program[k] = "[" => (\E m \in 1..Len(stack') : stack'[m] = k) \/ \E c : Pair(k, c)'
        <5>1. CASE k = o
          BY <2>10, <5>1
        <5>2. ASSUME k # o, NEW m \in 1..Len(stack), stack[m] = k
              PROVE  m \in 1..Len(stack') /\ stack'[m] = k
          <6>1. m # h
            BY <2>13, <5>2
          <6>2. m \in 1..(h - 1)
            BY <2>2, <6>1
          <6> QED
            BY <2>5, <5>2, <6>2
        <5> QED
          BY <1>2, <2>11, <3>2, <5>1, <5>2
      <4>3. ASSUME program[k] = "]"
            PROVE  \E a : Pair(a, k)' /\ \A m \in 1..Len(stack') : stack'[m] # a
        <5>1. PICK a : Pair(a, k) /\ \A m \in 1..Len(stack) : stack[m] # a
          BY <1>2, <3>2, <4>3
        <5>2. a # o
          BY <2>2, <2>13, <5>1
        <5>3. \A m \in 1..Len(stack') : stack'[m] # a
          BY <2>5, <2>8, <5>1
        <5> QED
          BY <2>11, <5>1, <5>2, <5>3
      <4> QED
        BY <4>1, <4>2, <4>3
    <3> QED
      BY <1>1, <3>1, <3>2
  <2> QED
    BY <2>7, <2>9, <2>12 DEF Stacked
<1> QED
  BY <1>6, <1>7, <1>8

LEMMA FillSteps ==
    ASSUME TypeInv, ReadInv, ParseInv, Fill
    PROVE  ParseInv'
<1>1. source' = source /\ phase' \in {"Fill", "Crash"}
  BY DEF Fill, reading
<1>2. CASE ~Plain
  BY <1>1, <1>2, SamePlain DEF ParseInv
<1>3. CASE Plain
  <2>1. phase' = "Fill" /\ (i' = Len(raw) + 1 \/ OpStart(raw, i')) /\ raw' = raw
    BY <1>3, Filling
  <2>2. Filled(i)'
    BY <1>3, FilledNext
  <2>3. \A p : Sums(raw', p) => Stacked(i, p)'
    BY <1>3, <2>1, StackedNext
  <2>4. Gathered(i)'
    BY <2>2, <2>3 DEF Gathered
  <2> QED
    BY <2>1, <2>4 DEF ParseInv
<1> QED
  BY <1>2, <1>3

\* In an empty text nothing is open.
LEMMA NothingGathered ==
    ASSUME index' = 1, stack' = <<>>, programSize' = Cardinality(Starts(raw', Len(raw') + 1))
    PROVE  Gathered(1)'
<1>1. Starts(raw', 1) = {}
  BY DEF Starts
<1>2. Cardinality(Starts(raw', 1)) = 0
  BY <1>1, FS_EmptySet, Zenon
<1>3. Filled(1)'
  <2>1. 1..(index' - 1) = {}
    OBVIOUS
  <2>2. index' = Cardinality(Starts(raw', 1)) + 1
    BY <1>2
  <2>3. \A k : k \notin 1..(index' - 1)
    BY <2>1
  <2>4. \A s : s \notin Starts(raw', 1)
    BY <1>1
  <2> HIDE <1>1
  <2> QED
    BY <2>2, <2>3, <2>4 DEF Filled
<1>4. ASSUME NEW p, Sums(raw', p)
      PROVE  Stacked(1, p)'
  <2>1. p[0] = 0 /\ 1 - 1 = 0 /\ Len(stack') = 0 /\ 1..(index' - 1) = {}
    BY <1>4 DEF Sums
  <2> QED
    BY <2>1 DEF Stacked
<1> QED
  BY <1>3, <1>4 DEF Gathered

LEMMA GatheredSame ==
    ASSUME NEW n, Gathered(n), UNCHANGED <<raw, programSize, index, stack, program, meta, place>>
    PROVE  Gathered(n)'
<1>1. Filled(n)'
  BY DEF Gathered, Filled
<1>2. ASSUME NEW p, Sums(raw, p)
      PROVE  Stacked(n, p)'
  <2>1. Stacked(n, p)
    BY <1>2 DEF Gathered
  <2>2. \A o, c : Pair(o, c)' <=> Pair(o, c)
    BY DEF Pair
  <2> QED
    BY <2>1, <2>2 DEF Stacked
<1>3. \A p : Sums(raw', p) => Stacked(n, p)'
  BY <1>2
<1> QED
  BY <1>1, <1>3 DEF Gathered

\* main.c refuses what has no meaning.
LEMMA Refuses ==
    ASSUME TypeInv, ReadInv, ParseInv, Plain, Unmatched
    PROVE  ~Balanced(raw)
<1>1. /\ phase = "Fill"
      /\ \/ i <= Len(raw) /\ raw[i] = "]" /\ stack = <<>>
         \/ i > Len(raw) /\ stack # <<>>
  BY DEF Unmatched
<1>2. raw \in Seq(Characters) /\ Len(raw) \in Nat /\ i \in Nat \ {0}
  BY <1>1, PlainRaw DEF TypeInv
<1>3. PICK p : Sums(raw, p)
  BY <1>2, HasSums
<1>4. i = Len(raw) + 1 \/ i \in 1..Len(raw)
  BY <1>1, <1>2 DEF ParseInv, OpStart
<1>5. /\ p[i - 1] = Len(stack)
      /\ \A q \in 0..(i - 1) : p[q] >= 0
      /\ \A m \in 1..Len(stack) :
            /\ stack[m] \in 1..(index - 1) /\ program[stack[m]] = "["
            /\ p[place[stack[m]] - 1] = m - 1
            /\ \A q \in place[stack[m]]..(i - 1) : p[q] >= m
  BY <1>1, <1>3 DEF ParseInv, Gathered, Stacked
<1> SUFFICES ASSUME Balanced(raw) PROVE FALSE
  OBVIOUS
<1>6. CASE i <= Len(raw) /\ raw[i] = "]" /\ stack = <<>>
  <2>1. i \in 1..Len(raw)
    BY <1>2, <1>6
  <2>2. PICK j \in 1..Len(raw) : Matches(raw, j, i)
    BY <1>6, <2>1 DEF Balanced
  <2>3. i \in (j + 1)..Len(raw)
    BY <2>1, <2>2 DEF Matches
  <2>4. p[i] = p[j - 1]
    BY <1>2, <1>3, <2>2, <2>3, MatchesIs
  <2>5. p[i] = p[i - 1] + Weight(raw[i]) /\ Weight(raw[i]) = -1
    BY <1>3, <1>6, <2>1 DEF Sums, Weight
  <2>6. p[i - 1] = 0
    BY <1>5, <1>6
  <2>7. p[j - 1] >= 0
    <3>1. j - 1 \in 0..(i - 1)
      BY <2>3
    <3> QED
      BY <1>5, <3>1
  <2> QED
    BY <2>4, <2>5, <2>6, <2>7
<1>7. CASE i > Len(raw) /\ stack # <<>>
  <2>1. i = Len(raw) + 1
    BY <1>2, <1>4, <1>7
  <2>2. 1 \in 1..Len(stack)
    BY <1>7, EmptySeq DEF TypeInv
  <2>3. PICK k, a : k = stack[1] /\ a = place[k]
    OBVIOUS
  <2>4. /\ k \in 1..(index - 1) /\ program[k] = "[" /\ p[a - 1] = 0
        /\ \A q \in a..(i - 1) : p[q] >= 1
    BY <1>5, <2>2, <2>3
  <2>5. a \in 1..Len(raw) /\ raw[a] = "["
    BY <1>1, <2>3, <2>4 DEF ParseInv, Gathered, Filled, OpStart
  <2>6. PICK j \in 1..Len(raw) : Matches(raw, a, j)
    BY <2>5 DEF Balanced
  <2>7. j \in (a + 1)..Len(raw)
    BY <2>5, <2>6 DEF Matches
  <2>8. p[j] = p[a - 1]
    BY <1>2, <1>3, <2>5, <2>6, <2>7, MatchesIs
  <2>9. j \in a..(i - 1)
    BY <1>2, <2>1, <2>5, <2>7
  <2> QED
    BY <2>4, <2>8, <2>9
<1> QED
  BY <1>1, <1>6, <1>7

LEMMA ParseSteps ==
    ASSUME TypeInv, ReadInv, ParseInv, ReadInv', TypeInv', Next \/ UNCHANGED vars
    PROVE  ParseInv'
<1>1. CASE ReadChar
  <2>1. /\ phase = "Read" /\ phase' = "Read"
        /\ UNCHANGED <<programSize, index, stack>>
    BY <1>1 DEF ReadChar, parsing
  <2> QED
    BY <2>1 DEF ParseInv
<1>2. CASE ReadEnd
  <2>1. /\ phase = "Read" /\ phase' = "Count" /\ i' = 1 /\ UNCHANGED <<programSize, index, stack>>
    BY <1>2 DEF ReadEnd, parsing
  <2>2. programSize' = 0 /\ index' = 1 /\ stack' = <<>>
    BY <2>1 DEF ParseInv
  <2>3. Starts(raw', 1) = {}
    BY DEF Starts
  <2>4. Cardinality({}) = 0
    BY FS_EmptySet
  <2>5. ASSUME Plain' PROVE 1 = Len(raw') + 1 \/ OpStart(raw', 1)
    <3>1. raw' \in Seq(Commands) /\ ~Stray(raw')
      <4>1. raw' = CommandsOf(source')
        BY <2>1, <2>5 DEF ReadInv
      <4> QED
        BY <2>5, <4>1 DEF Plain, TypeInv
    <3>2. Len(raw') = 0 \/ Len(raw') >= 1
      BY <3>1
    <3> QED
      BY <3>1, <3>2, FirstStarts
  <2> QED
    BY <2>1, <2>2, <2>3, <2>4, <2>5 DEF ParseInv
<1>3. CASE Count
  <2>1. /\ phase = "Count" /\ phase' = "Count" /\ UNCHANGED <<source, raw, index, stack>>
    BY <1>3 DEF Count, reading
  <2>2. ASSUME Plain
        PROVE  (i' = Len(raw) + 1 \/ OpStart(raw, i')) /\ programSize' = Cardinality(Starts(raw, i'))
    BY <1>3, <2>2, Counts
  <2> QED
    BY <2>1, <2>2, SamePlain DEF ParseInv
<1>4. CASE Allocate
  <2>1. /\ phase = "Count" /\ phase' = "Fill" /\ i' = 1 /\ i > Len(raw)
        /\ UNCHANGED <<source, raw, programSize, index, stack>>
    BY <1>4 DEF Allocate, reading
  <2>2. ASSUME Plain
        PROVE  (1 = Len(raw) + 1 \/ OpStart(raw, 1)) /\ Gathered(1)'
    <3>1. raw \in Seq(Commands) /\ ~Stray(raw) /\ Len(raw) \in Nat
      BY <2>1, <2>2, PlainRaw
    <3>2. i = Len(raw) + 1
      BY <2>1, <2>2, <3>1 DEF ParseInv, OpStart
    <3>3. programSize' = Cardinality(Starts(raw', Len(raw') + 1)) /\ index' = 1 /\ stack' = <<>>
      BY <2>1, <2>2, <3>2 DEF ParseInv
    <3>4. Gathered(1)'
      BY <3>3, NothingGathered
    <3>5. Len(raw) = 0 \/ Len(raw) >= 1
      BY <3>1
    <3> QED
      BY <3>1, <3>4, <3>5, FirstStarts
  <2>3. Gathered(1)' => Gathered(i)'
    BY <2>1
  <2> QED
    BY <2>1, <2>2, <2>3, SamePlain DEF ParseInv
<1>5. CASE Fill
  BY <1>5, FillSteps
<1>6. CASE Unmatched
  <2>1. phase' = "Error" /\ UNCHANGED <<source, raw>>
    BY <1>6 DEF Unmatched, reading
  <2> QED
    BY <1>6, <2>1, Refuses, SamePlain DEF ParseInv
<1>7. CASE Parsed
  <2>1. /\ phase = "Fill" /\ i > Len(raw) /\ stack = <<>>
        /\ phase' = (IF process = 2 THEN "Compile" ELSE "Run")
        /\ UNCHANGED <<source, process, raw, programSize, index, stack, program, meta, place>>
    BY <1>7 DEF Parsed, reading, parsing
  <2>2. ASSUME Plain
        PROVE  Gathered(Len(raw) + 1)'
    <3>1. Len(raw) \in Nat
      BY <2>1, <2>2, PlainRaw
    <3>2. i = Len(raw) + 1 /\ Gathered(i)
      BY <2>1, <2>2, <3>1 DEF ParseInv, OpStart
    <3>3. PICK n : n = Len(raw) + 1
      OBVIOUS
    <3>4. Gathered(n)'
      BY <2>1, <3>2, <3>3, GatheredSame
    <3>5. n = Len(raw') + 1
      BY <2>1, <3>3
    <3> QED
      BY <3>4, <3>5
  <2> QED
    BY <2>1, <2>2, SamePlain DEF ParseInv
<1>8. CASE /\ phase \in {"Run", "Compile"} /\ phase' \in {phase, "Done", "Exhausted"}
           /\ UNCHANGED <<source, process, raw, programSize, index, stack, program, meta, place>>
  <2>2. ASSUME Plain
        PROVE  Gathered(Len(raw) + 1)'
    <3>3. PICK n : n = Len(raw) + 1
      OBVIOUS
    <3>4. Gathered(n)
      BY <1>8, <2>2, <3>3 DEF ParseInv
    <3>5. Gathered(n)' /\ n = Len(raw') + 1
      BY <1>8, <3>3, <3>4, GatheredSame
    <3> QED
      BY <3>5
  <2> QED
    BY <1>8, <2>2, SamePlain DEF ParseInv
<1>9. CASE \/ Tape_Right \/ Tape_Left \/ Tape_Change \/ Tape_Get \/ Tape_Set \/ Loop \/ RunEnds
           \/ Compile \/ Compiled
  <2>1. /\ phase \in {"Run", "Compile"} /\ phase' \in {phase, "Done", "Exhausted"}
        /\ UNCHANGED <<source, process, raw, programSize, index, stack, program, meta, place>>
    BY <1>9 DEF Tape_Right, Tape_Left, Tape_Change, Tape_Get, Tape_Set, Loop, RunEnds,
                Compile, Compiled, At, reading, parsing
  <2> QED
    BY <1>8, <2>1
\* Of a plain program every slot was written.
<1>10. CASE Junk
  <2>1. /\ phase = "Run" /\ phase' \in {"Run", "Crash"} /\ i <= programSize /\ program[i] = "junk"
        /\ UNCHANGED <<source, process, raw, programSize, index, stack, program, meta, place>>
    BY <1>10 DEF Junk, At, reading, parsing
  <2>2. ~Plain
    <3> SUFFICES ASSUME Plain PROVE FALSE
      OBVIOUS
    <3>1. Filled(Len(raw) + 1)
      BY <2>1 DEF ParseInv, Gathered
    <3>2. index = programSize + 1 /\ programSize \in Nat /\ i \in Nat \ {0}
      BY <3>1 DEF Filled, TypeInv
    <3>3. i \in 1..(index - 1)
      BY <2>1, <3>2
    <3>4. OpStart(raw, place[i]) /\ program[i] = raw[place[i]]
      BY <3>1, <3>3 DEF Filled
    <3>5. program[i] \in Commands
      <4>1. place[i] \in 1..Len(raw) /\ raw \in Seq(Commands)
        BY <3>4 DEF OpStart, TypeInv
      <4> QED
        BY <3>4, <4>1
    <3> QED
      BY <2>1, <3>5, CommandsAre
  <2> QED
    BY <2>1, <2>2, SamePlain DEF ParseInv
<1>11. CASE NextProcess
  <2>1. phase' = "Read" /\ programSize' = 0 /\ index' = 1 /\ stack' = <<>>
    BY <1>11 DEF NextProcess
  <2> QED
    BY <2>1 DEF ParseInv
<1>12. CASE UNCHANGED vars
  <2>1. UNCHANGED <<source, process, phase, i, raw, programSize, index, stack, program, meta, place>>
    BY <1>12 DEF vars, reading, parsing
  <2>2. ASSUME NEW n, Gathered(n) PROVE Gathered(n)'
    BY <2>1, <2>2, GatheredSame
  <2>3. PICK n, e : n = i /\ e = Len(raw) + 1
    OBVIOUS
  <2>4. n = i' /\ e = Len(raw') + 1
    BY <2>1, <2>3
  <2>5. Gathered(i) => Gathered(i)'
    BY <2>2, <2>3, <2>4
  <2>6. Gathered(Len(raw) + 1) => Gathered(Len(raw) + 1)'
    BY <2>2, <2>3, <2>4
  <2> QED
    BY <2>1, <2>5, <2>6, SamePlain DEF ParseInv
<1> QED
  BY <1>1, <1>2, <1>3, <1>4, <1>5, <1>6, <1>7, <1>9, <1>10, <1>11, <1>12 DEF Next, Over

\* What is known of a plain program when it has been read.
LEMMA Understood ==
    ASSUME TypeInv, ReadInv, ParseInv, Plain, phase \in {"Run", "Compile", "Done", "Exhausted"}
    PROVE  /\ programSize \in Nat /\ index = programSize + 1
           /\ \A k \in 1..programSize :
                 /\ place[k] \in 1..Len(raw) /\ OpStart(raw, place[k]) /\ program[k] = raw[place[k]]
                 /\ After(raw, place[k]) = (IF k + 1 <= programSize THEN place[k + 1] ELSE Len(raw) + 1)
                 /\ program[k] \notin {"[", "]"} => meta[k] = Num(raw, place[k])
                 /\ \A j \in 1..(k - 1) : place[j] < place[k]
                 /\ program[k] = "[" => \E c : Pair(k, c)
                 /\ program[k] = "]" => \E o : Pair(o, k)
           /\ \A s : OpStart(raw, s) => \E k \in 1..programSize : place[k] = s
<1>1. raw \in Seq(Characters) /\ Len(raw) \in Nat /\ programSize \in Nat
  BY PlainRaw DEF TypeInv
<1>2. stack = <<>> /\ Filled(Len(raw) + 1) /\ \A p : Sums(raw, p) => Stacked(Len(raw) + 1, p)
  BY DEF ParseInv, Gathered
<1>3. PICK p : Sums(raw, p)
  BY <1>1, HasSums
<1>4. index = programSize + 1 /\ index - 1 = programSize
  BY <1>1, <1>2 DEF Filled
<1>5. ASSUME NEW k \in 1..programSize
      PROVE  /\ place[k] \in 1..Len(raw) /\ OpStart(raw, place[k]) /\ program[k] = raw[place[k]]
             /\ After(raw, place[k]) = (IF k + 1 <= programSize THEN place[k + 1] ELSE Len(raw) + 1)
             /\ program[k] \notin {"[", "]"} => meta[k] = Num(raw, place[k])
             /\ \A j \in 1..(k - 1) : place[j] < place[k]
  <2>1. k \in 1..(index - 1)
    BY <1>4, <1>5
  <2>2. /\ OpStart(raw, place[k]) /\ program[k] = raw[place[k]]
        /\ After(raw, place[k]) = (IF k + 1 < index THEN place[k + 1] ELSE Len(raw) + 1)
        /\ program[k] \notin {"[", "]"} => meta[k] = Num(raw, place[k])
        /\ \A j \in 1..(k - 1) : place[j] < place[k]
    BY <1>2, <2>1 DEF Filled
  <2>3. k + 1 < index <=> k + 1 <= programSize
    BY <1>1, <1>4
  <2>4. place[k] \in 1..Len(raw)
    BY <2>2 DEF OpStart
  <2> QED
    BY <2>2, <2>3, <2>4
<1>6. ASSUME NEW k \in 1..programSize
      PROVE  /\ program[k] = "[" => \E c : Pair(k, c)
             /\ program[k] = "]" => \E o : Pair(o, k)
  <2>1. /\ program[k] = "[" => (\E m \in 1..Len(stack) : stack[m] = k) \/ \E c : Pair(k, c)
        /\ program[k] = "]" => \E o : Pair(o, k)
    BY <1>2, <1>3, <1>4, <1>6 DEF Stacked
  <2>2. 1..Len(stack) = {}
    BY <1>2
  <2> QED
    BY <2>1, <2>2
<1>7. ASSUME NEW s, OpStart(raw, s)
      PROVE  \E k \in 1..programSize : place[k] = s
  <2>1. s \in Starts(raw, Len(raw) + 1)
    BY <1>1, <1>7 DEF Starts, OpStart
  <2> QED
    BY <1>2, <1>4, <2>1 DEF Filled
<1> QED
  BY <1>1, <1>4, <1>5, <1>6, <1>7

LEMMA UnderstoodBalanced ==
    ASSUME TypeInv, ReadInv, ParseInv, Plain, phase \in {"Run", "Compile", "Done", "Exhausted"}
    PROVE  Balanced(raw)
<1> SUFFICES ASSUME NEW s \in 1..Len(raw)
             PROVE  /\ raw[s] = "[" => \E j \in 1..Len(raw) : Matches(raw, s, j)
                    /\ raw[s] = "]" => \E j \in 1..Len(raw) : Matches(raw, j, s)
  BY DEF Balanced
<1> SUFFICES ASSUME raw[s] \in {"[", "]"}
             PROVE  /\ raw[s] = "[" => \E j \in 1..Len(raw) : Matches(raw, s, j)
                    /\ raw[s] = "]" => \E j \in 1..Len(raw) : Matches(raw, j, s)
  OBVIOUS
<1>1. OpStart(raw, s)
  BY CommandsAre, DigitsAre DEF OpStart
<1>2. PICK k \in 1..programSize : place[k] = s
  BY <1>1, Understood
<1>3. program[k] = raw[s] /\ index - 1 = programSize /\ \A j \in 1..programSize : place[j] \in 1..Len(raw)
  BY <1>2, Understood
<1>4. CASE raw[s] = "["
  <2>1. PICK c : Pair(k, c)
    BY <1>2, <1>3, <1>4, Understood
  <2>2. place[c] \in 1..Len(raw) /\ Matches(raw, s, place[c])
    BY <1>2, <1>3, <2>1 DEF Pair
  <2> QED
    BY <1>4, <2>2
<1>5. CASE raw[s] = "]"
  <2>1. PICK o : Pair(o, k)
    BY <1>2, <1>3, <1>5, Understood
  <2>2. o \in 1..programSize
    BY <1>3, <2>1, Understood DEF Pair
  <2>3. place[o] \in 1..Len(raw) /\ Matches(raw, place[o], s)
    BY <1>2, <1>3, <2>1, <2>2 DEF Pair
  <2> QED
    BY <1>5, <2>3
<1> QED
  BY <1>4, <1>5

Inv == TypeInv /\ ReadInv /\ ParseInv

LEMMA InvHolds == Spec => []Inv
<1>1. Init => Inv
  BY InitTypes, InitReads DEF Inv
<1>2. Inv /\ [Next]_vars => Inv'
  <2> SUFFICES ASSUME Inv, [Next]_vars PROVE Inv'
    OBVIOUS
  <2>1. TypeInv /\ ReadInv /\ ParseInv /\ (Next \/ UNCHANGED vars)
    BY DEF Inv
  <2>2. TypeInv' /\ ReadInv'
    BY <2>1, NextTypes, ReadSteps
  <2>3. ParseInv'
    BY <2>1, <2>2, ParseSteps
  <2> QED
    BY <2>2, <2>3 DEF Inv
<1> QED
  BY <1>1, <1>2, PTL DEF Spec

LEMMA ReadExactly ==
    ASSUME Inv
    PROVE  ReadExact
<1> SUFFICES ASSUME Plain
             PROVE  phase # "Crash" /\ RefusesOnlyUnbalanced /\ OperationsFilled
  BY DEF ReadExact
<1>1. TypeInv /\ ReadInv /\ ParseInv
  BY DEF Inv
<1>2. phase # "Crash"
  BY <1>1 DEF ParseInv
<1>3. ASSUME phase = "Error" PROVE ~Balanced(CommandsOf(source))
  BY <1>1, <1>3, PlainRaw DEF ParseInv
<1>4. ASSUME phase \in {"Run", "Compile"} PROVE Balanced(CommandsOf(source))
  BY <1>1, <1>4, PlainRaw, UnderstoodBalanced
<1>5. ASSUME phase \in {"Run", "Compile"}, NEW k \in 1..programSize
      PROVE  /\ program[k] \in Commands \ DigitSet
             /\ program[k] = "[" =>
                   (meta[k] \in (k + 1)..programSize /\ program[meta[k]] = "]" /\ meta[meta[k]] = k)
  <2>1. raw \in Seq(Commands)
    BY <1>1 DEF TypeInv
  <2>2. place[k] \in 1..Len(raw) /\ OpStart(raw, place[k]) /\ program[k] = raw[place[k]]
    BY <1>1, <1>5, Understood
  <2>3. program[k] \in Commands \ DigitSet
    BY <2>1, <2>2 DEF OpStart
  <2>4. ASSUME program[k] = "["
        PROVE  meta[k] \in (k + 1)..programSize /\ program[meta[k]] = "]" /\ meta[meta[k]] = k
    <3>1. PICK c : Pair(k, c)
      BY <1>1, <1>5, <2>4, Understood
    <3>2. index - 1 = programSize /\ programSize \in Nat
      BY <1>1, <1>5, Understood
    <3>3. k \in 1..(c - 1) /\ c \in 1..programSize /\ program[c] = "]" /\ meta[k] = c /\ meta[c] = k
      BY <3>1, <3>2 DEF Pair
    <3> QED
      BY <3>2, <3>3
  <2> QED
    BY <2>3, <2>4
<1>6. phase \in {"Run", "Compile"} => index = programSize + 1
  BY <1>1, Understood
<1> QED
  BY <1>2, <1>3, <1>4, <1>5, <1>6 DEF RefusesOnlyUnbalanced, OperationsFilled

\* Of every program of any length without stray digits (main.c:137-239): it is
\* refused if and only if its brackets do not match; otherwise the second pass
\* fills exactly the slots that the first one counted, none behind the end of an
\* array, and the brackets in them know each other.
THEOREM ReadsExactly == Spec => []ReadExact
<1>1. Inv => ReadExact
  BY ReadExactly
<1> QED
  BY <1>1, InvHolds, PTL

-----------------------------------------------------------------------------
(* The machine: what its variables are *)

mText == IF Plain THEN CommandsOf(source) ELSE <<"0">>
mIp == IF Plain /\ phase \in {"Run", "Done", "Exhausted"} /\ process # 2
       THEN IF i <= programSize THEN place[i] ELSE Len(raw) + 1
       ELSE 1
mCell == [p \in 0..(MemorySize - 1) |-> IF p < Len(tape) THEN tape[p + 1] ELSE 0]

LEMMA ModUnique ==
    ASSUME NEW q \in Int, NEW r \in Int, NEW k \in Int, NEW m \in Int, NEW b \in Nat,
           r >= 0, r < b, m >= 0, m < b, b * q + r = b * k + m
    PROVE  r = m
<1>1. CASE q = k
  BY <1>1
<1>2. CASE q > k
  <2>1. PICK d \in Nat : d = q - k - 1
    BY <1>2
  <2>2. q = k + d + 1
    BY <2>1
  <2>3. b * q = b * k + b * d + b
    BY <2>1, <2>2
  <2>4. b * d \in Nat /\ b * k \in Int
    BY <2>1
  <2> QED
    BY <2>3, <2>4
<1>3. CASE q < k
  <2>1. PICK d \in Nat : d = k - q - 1
    BY <1>3
  <2>2. k = q + d + 1
    BY <2>1
  <2>3. b * k = b * q + b * d + b
    BY <2>1, <2>2
  <2>4. b * d \in Nat /\ b * q \in Int
    BY <2>1
  <2> QED
    BY <2>3, <2>4
<1> QED
  BY <1>1, <1>2, <1>3

\* Numbers that differ by a multiple of the width are the same value of a cell.
LEMMA ModSame ==
    ASSUME NEW x \in Int, NEW y \in Int, NEW k \in Int, x = y + Byte * k
    PROVE  x % Byte = y % Byte
<1>1. PICK q, r : q = x \div Byte /\ r = x % Byte
  OBVIOUS
<1>2. PICK h, m : h = y \div Byte /\ m = y % Byte
  OBVIOUS
<1>3. /\ q \in Int /\ r \in Int /\ r >= 0 /\ r < Byte /\ x = Byte * q + r
      /\ Byte \in Nat
  BY <1>1, SizeAssumption
<1>4. /\ h \in Int /\ m \in Int /\ m >= 0 /\ m < Byte /\ y = Byte * h + m
  BY <1>2, SizeAssumption
<1>5. Byte * q + r = Byte * (h + k) + m
  <2>1. Byte * (h + k) = Byte * h + Byte * k
    BY <1>3, <1>4
  <2>2. Byte * h \in Int /\ Byte * k \in Int /\ Byte * q \in Int
    BY <1>3, <1>4
  <2> QED
    BY <1>3, <1>4, <2>1, <2>2
<1>6. h + k \in Int
  BY <1>4
<1> QED
  BY <1>1, <1>2, <1>3, <1>4, <1>5, <1>6, ModUnique

LEMMA ModOf ==
    ASSUME NEW n \in Int
    PROVE  /\ n % Byte \in Int
           /\ \E k \in Int : n = (n % Byte) + Byte * k
<1>1. n % Byte \in Int /\ n \div Byte \in Int /\ n = Byte * (n \div Byte) + (n % Byte)
  BY SizeAssumption
<1>2. Byte * (n \div Byte) \in Int
  BY <1>1, SizeAssumption
<1>3. n = (n % Byte) + Byte * (n \div Byte)
  BY <1>1, <1>2
<1> QED
  BY <1>1, <1>3

LEMMA ModArithmetic ==
    ASSUME NEW x \in Int, NEW n \in Int
    PROVE  /\ (x + (n % Byte)) % Byte = (x + n) % Byte
           /\ (x - (n % Byte)) % Byte = (x - n) % Byte
           /\ (n % Byte) % Byte = n % Byte
           /\ (-1) % Byte = (Byte - 1) % Byte
<1>1. PICK m, k : m = n % Byte /\ m \in Int /\ k \in Int /\ n = m + Byte * k
  BY ModOf
<1>2. Byte * k \in Int /\ -k \in Int /\ Byte * (-k) \in Int /\ Byte * (-k) = -(Byte * k) /\ Byte \in Nat
  BY <1>1, SizeAssumption
<1>3. x + n = (x + m) + Byte * k /\ x - n = (x - m) + Byte * (-k)
  BY <1>1, <1>2
<1>4. x + n \in Int /\ x - n \in Int /\ x + m \in Int /\ x - m \in Int
  BY <1>1
<1>5. (x + n) % Byte = (x + m) % Byte
  BY <1>1, <1>3, <1>4, ModSame
<1>6. (x - n) % Byte = (x - m) % Byte
  BY <1>2, <1>3, <1>4, ModSame
<1>7. n % Byte = m % Byte
  BY <1>1, ModSame
<1>8. (Byte - 1) % Byte = (-1) % Byte
  <2>1. Byte - 1 = -1 + Byte * 1 /\ Byte - 1 \in Int /\ -1 \in Int /\ 1 \in Int
    BY <1>2
  <2> QED
    BY <2>1, ModSame
<1> QED
  BY <1>1, <1>5, <1>6, <1>7, <1>8

\* The cell at the head, and what a change of it is to the machine.
LEMMA CellAt ==
    ASSUME TypeInv
    PROVE  /\ pos \in 0..(MemorySize - 1) /\ pos + 1 \in 1..Len(tape) /\ mCell[pos] = tape[pos + 1]
           /\ tape[pos + 1] \in Int
<1>1. /\ pos \in 0..(Len(tape) - 1) /\ Len(tape) \in InitialSize..MemorySize /\ tape \in Seq(Bytes)
      /\ InitialSize \in Nat /\ MemorySize \in Nat
  BY SizeAssumption, RunTyped
<1>2. pos \in 0..(MemorySize - 1) /\ pos + 1 \in 1..Len(tape) /\ pos < Len(tape)
  BY <1>1
<1>3. tape[pos + 1] \in Int
  BY <1>1, <1>2, SizeAssumption DEF Bytes
<1>4. mCell[pos] = tape[pos + 1]
  BY <1>2 DEF mCell
<1> QED
  BY <1>2, <1>3, <1>4

LEMMA CellPut ==
    ASSUME TypeInv, NEW v, Put(v)
    PROVE  mCell' = [mCell EXCEPT ![pos] = v % Byte]
<1>1. /\ pos \in 0..(Len(tape) - 1) /\ tape \in Seq(Bytes) /\ Len(tape) \in Nat
      /\ pos \in 0..(MemorySize - 1) /\ pos + 1 \in 1..Len(tape)
  BY CellAt, RunTyped
<1> DEFINE w == v % Byte
<1> HIDE DEF w
<1>2. tape' = [tape EXCEPT ![pos + 1] = w]
  BY DEF Put, w
<1>3. Len(tape') = Len(tape)
  <2>1. DOMAIN tape = 1..Len(tape) /\ DOMAIN tape' = DOMAIN tape
    BY <1>1, <1>2
  <2>2. tape' = [k \in 1..Len(tape) |-> tape'[k]]
    BY <1>2, <2>1
  <2>3. Len([k \in 1..Len(tape) |-> tape'[k]]) = Len(tape)
    BY <1>1
  <2> QED
    BY <2>2, <2>3
<1>4. ASSUME NEW p \in 0..(MemorySize - 1)
      PROVE  (IF p < Len(tape') THEN tape'[p + 1] ELSE 0) = (IF p = pos THEN w ELSE mCell[p])
  <2>1. mCell[p] = IF p < Len(tape) THEN tape[p + 1] ELSE 0
    BY <1>4 DEF mCell
  <2>2. CASE p < Len(tape)
    <3>1. p + 1 \in 1..Len(tape) /\ (p + 1 = pos + 1 <=> p = pos)
      BY <1>1, <1>4, <2>2
    <3>2. tape'[p + 1] = IF p + 1 = pos + 1 THEN w ELSE tape[p + 1]
      BY <1>1, <1>2, <3>1
    <3> QED
      BY <1>3, <2>1, <2>2, <3>1, <3>2
  <2>3. CASE ~(p < Len(tape))
    <3>1. p # pos
      BY <1>1, <1>4, <2>3
    <3> QED
      BY <1>3, <2>1, <2>3, <3>1
  <2> QED
    BY <2>2, <2>3
<1>5. mCell' = [p \in 0..(MemorySize - 1) |-> IF p < Len(tape') THEN tape'[p + 1] ELSE 0]
  BY DEF mCell
<1>6. mCell' = [p \in 0..(MemorySize - 1) |-> IF p = pos THEN w ELSE mCell[p]]
  BY <1>4, <1>5
<1>7. [mCell EXCEPT ![pos] = w] = [p \in 0..(MemorySize - 1) |-> IF p = pos THEN w ELSE mCell[p]]
  <2>1. DOMAIN mCell = 0..(MemorySize - 1)
    BY DEF mCell
  <2> QED
    BY <1>1, <2>1
<1> QED
  BY <1>6, <1>7 DEF w

\* A longer tape has the same cells.
LEMMA CellEnsured ==
    ASSUME TypeInv, NEW to \in Nat, Doubled(to) <= MemorySize, tape' = Ensured(to)
    PROVE  mCell' = mCell
<1>1. /\ Len(tape') = Doubled(to) /\ Doubled(to) \in Nat /\ Doubled(to) >= Len(tape)
      /\ \A p \in 1..Len(tape) : tape'[p] = tape[p]
      /\ \A p \in (Len(tape) + 1)..Doubled(to) : tape'[p] = 0
      /\ Len(tape) \in Nat
  <2>1. Doubled(to) \in Nat /\ Doubled(to) >= Len(tape)
    BY DoubledIs
  <2>2. /\ Len(tape') = Doubled(to)
        /\ \A p \in 1..Len(tape) : tape'[p] = tape[p]
        /\ \A p \in (Len(tape) + 1)..Doubled(to) : tape'[p] = 0
    BY EnsuredIs
  <2>3. Len(tape) \in Nat
    BY DEF TypeInv
  <2> QED
    BY <2>1, <2>2, <2>3
<1>2. ASSUME NEW p \in 0..(MemorySize - 1)
      PROVE  (IF p < Len(tape') THEN tape'[p + 1] ELSE 0) = (IF p < Len(tape) THEN tape[p + 1] ELSE 0)
  <2>1. CASE p < Len(tape)
    <3>1. p + 1 \in 1..Len(tape) /\ p < Len(tape')
      BY <1>1, <1>2, <2>1
    <3> QED
      BY <1>1, <2>1, <3>1
  <2>2. CASE ~(p < Len(tape)) /\ p < Len(tape')
    <3>1. p + 1 \in (Len(tape) + 1)..Doubled(to)
      BY <1>1, <1>2, <2>2
    <3> QED
      BY <1>1, <2>2, <3>1
  <2>3. CASE ~(p < Len(tape)) /\ ~(p < Len(tape'))
    BY <2>3
  <2> QED
    BY <2>1, <2>2, <2>3
<1> QED
  BY <1>2 DEF mCell

\* Where the machine stands before an operation and after it.
LEMMA AtOperation ==
    ASSUME Inv, Plain, NEW c, At(c)
    PROVE  /\ TypeInv /\ ReadInv /\ ParseInv /\ phase = "Run" /\ process # 2
           /\ raw \in Seq(Commands) /\ mText = raw
           /\ i \in 1..programSize /\ mIp = place[i] /\ mIp \in 1..Len(raw) /\ raw[mIp] = c
           /\ After(raw, mIp) \in (mIp + 1)..(Len(raw) + 1)
           /\ program[i] = c
           /\ c \notin {"[", "]"} => meta[i] = Num(raw, mIp)
<1>1. TypeInv /\ ReadInv /\ ParseInv
  BY DEF Inv
<1>2. phase = "Run" /\ i <= programSize /\ program[i] = c /\ process # 2
  BY <1>1 DEF At, ParseInv
<1>3. raw \in Seq(Commands) /\ mText = raw
  BY <1>1, <1>2, PlainRaw DEF mText
<1>4. i \in 1..programSize
  BY <1>1, <1>2 DEF TypeInv
<1>5. mIp = place[i]
  BY <1>2 DEF mIp
<1>6. /\ place[i] \in 1..Len(raw) /\ program[i] = raw[place[i]]
      /\ c \notin {"[", "]"} => meta[i] = Num(raw, place[i])
  BY <1>1, <1>2, <1>4, Understood
<1>7. After(raw, mIp) \in (mIp + 1)..(Len(raw) + 1)
  BY <1>3, <1>5, <1>6, AfterIs
<1> QED
  BY <1>1, <1>2, <1>3, <1>4, <1>5, <1>6, <1>7

LEMMA IpNext ==
    ASSUME Inv, Plain, phase = "Run", NEW j \in 1..programSize, i' = j + 1,
           phase' = phase, UNCHANGED <<source, process, raw, programSize, place>>
    PROVE  mIp' = After(raw, place[j]) /\ mText' = mText
<1>1. TypeInv /\ ReadInv /\ ParseInv /\ process # 2
  BY DEF Inv, ParseInv
<1>2. Plain' /\ mText' = mText
  BY SamePlain DEF mText
<1>3. mIp' = IF j + 1 <= programSize THEN place[j + 1] ELSE Len(raw) + 1
  BY <1>1, <1>2 DEF mIp
<1>4. After(raw, place[j]) = IF j + 1 <= programSize THEN place[j + 1] ELSE Len(raw) + 1
  BY <1>1, Understood
<1> QED
  BY <1>2, <1>3, <1>4

\* A row of moves, which Num counts.
LEMMA RowOf ==
    ASSUME NEW t \in Seq(Commands), NEW from \in 1..Len(t), t[from] \in Moves
    PROVE  LET n == Num(t, from) IN
           /\ n \in 1..Len(t) /\ from + n = After(t, from) /\ from + n - 1 <= Len(t)
           /\ \A k \in 0..(n - 1) : t[from + k] = t[from]
<1> DEFINE e == After(t, from)
<1>1. /\ e \in (from + 1)..(Len(t) + 1)
      /\ \A k \in (from + 1)..(e - 1) : t[k] = t[from]
  BY AfterIs
<1>2. Num(t, from) = e - from
  BY CommandsAre DEF Num
<1> HIDE DEF e
<1>3. ASSUME NEW k \in 0..(e - from - 1)
      PROVE  t[from + k] = t[from]
  <2>1. from + k = from \/ from + k \in (from + 1)..(e - 1)
    BY <1>1
  <2> QED
    BY <1>1, <2>1
<1>4. e - from \in 1..Len(t) /\ from + (e - from) = e /\ from + (e - from) - 1 <= Len(t)
  BY <1>1
<1> QED
  BY <1>2, <1>3, <1>4 DEF e

-----------------------------------------------------------------------------
(* The machine: what its steps are *)

mVars == <<mText, mIp, mCell, pos, input, output>>
mRow(c) == {n \in 1..Len(mText) : mIp + n - 1 <= Len(mText) /\ \A k \in 0..(n - 1) : mText[mIp + k] = c}
mPut(v) == mCell' = [mCell EXCEPT ![pos] = v % Byte]
mAt(c) == mIp <= Len(mText) /\ mText[mIp] = c

\* The machine reads texts as lbf does.
LEMMA MachineText ==
    /\ Machine!DigitSet = DigitSet
    /\ \A t, from, to : Machine!Number(t, from, to) = Number(t, from, to)
    /\ \A t, open, close : Machine!Matches(t, open, close) <=> Matches(t, open, close)
    /\ \A t : Machine!Stray(t) <=> Stray(t)
<1>1. Machine!DigitSet = DigitSet
  BY DEF Machine!DigitSet, Machine!Digits, DigitSet, Digits
<1>2. \A c : Machine!DigitValue(c) = DigitValue(c)
  BY DEF Machine!DigitValue, Machine!Digits, DigitValue, Digits
<1>3. \A t, from, to : Machine!Number(t, from, to) = Number(t, from, to)
  BY DEF Machine!Number, Machine!DigitValue, Machine!Digits, Number, DigitValue, Digits
<1>4. \A t, from, k : Machine!Depth(t, from, k) = Depth(t, from, k)
  BY DEF Machine!Depth, Depth
<1>5. \A t, open, close : Machine!Matches(t, open, close) <=> Matches(t, open, close)
  BY <1>4 DEF Machine!Matches, Matches
<1>6. \A t : Machine!Stray(t) <=> Stray(t)
  BY <1>1 DEF Machine!Stray, Stray
<1> QED
  BY <1>1, <1>3, <1>5, <1>6

LEMMA MachineIs ==
    /\ Machine!Right <=> \E n \in mRow(">") :
          pos' = pos + n /\ mIp' = mIp + n /\ UNCHANGED <<mText, mCell, input, output>>
    /\ Machine!Left <=> \E n \in mRow("<") :
          /\ pos' = IF n > pos THEN 0 ELSE pos - n
          /\ mIp' = mIp + n
          /\ UNCHANGED <<mText, mCell, input, output>>
    /\ Machine!Increase <=> \E n \in mRow("+") :
          mPut(mCell[pos] + n) /\ mIp' = mIp + n /\ UNCHANGED <<mText, pos, input, output>>
    /\ Machine!Decrease <=> \E n \in mRow("-") :
          mPut(mCell[pos] - n) /\ mIp' = mIp + n /\ UNCHANGED <<mText, pos, input, output>>
    /\ Machine!Set <=>
          /\ mAt("=")
          /\ \E n \in mIp..Len(mText) :
              /\ \A k \in (mIp + 1)..n : mText[k] \in DigitSet
              /\ n < Len(mText) => mText[n + 1] \notin DigitSet
              /\ mPut(Number(mText, mIp + 1, n))
              /\ mIp' = n + 1
          /\ UNCHANGED <<mText, pos, input, output>>
    /\ Machine!Write <=>
          /\ mAt(".")
          /\ output' = Append(output, mCell[pos])
          /\ mIp' = mIp + 1
          /\ UNCHANGED <<mText, mCell, pos, input>>
    /\ Machine!Read <=>
          /\ mAt(",")
          /\ mPut(IF input = <<>> THEN Byte - 1 ELSE Head(input))
          /\ input' = IF input = <<>> THEN <<>> ELSE Tail(input)
          /\ mIp' = mIp + 1
          /\ UNCHANGED <<mText, pos, output>>
    /\ Machine!Open <=>
          /\ mAt("[")
          /\ IF mCell[pos] # 0 THEN mIp' = mIp + 1
             ELSE \E k \in 1..Len(mText) : Matches(mText, mIp, k) /\ mIp' = k + 1
          /\ UNCHANGED <<mText, mCell, pos, input, output>>
    /\ Machine!Close <=>
          /\ mAt("]")
          /\ IF mCell[pos] = 0 THEN mIp' = mIp + 1
             ELSE \E k \in 1..Len(mText) : Matches(mText, k, mIp) /\ mIp' = k + 1
          /\ UNCHANGED <<mText, mCell, pos, input, output>>
    /\ Machine!Restart <=> /\ mIp' = 1 /\ mCell' = [p \in 0..(MemorySize - 1) |-> 0]
                           /\ pos' = 0 /\ output' = <<>>
    /\ Machine!Unspecified <=> Stray(mText) /\ mText' = mText
    /\ UNCHANGED Machine!vars <=> UNCHANGED mVars
    /\ Machine!Started <=> /\ mIp = 1 /\ mCell = [p \in 0..(MemorySize - 1) |-> 0]
                           /\ pos = 0 /\ output = <<>>
<1>1. Machine!Right <=> \E n \in mRow(">") :
        pos' = pos + n /\ mIp' = mIp + n /\ UNCHANGED <<mText, mCell, input, output>>
  BY DEF Machine!Right, Machine!Row, mRow, mText, mIp, mCell
<1>2. Machine!Left <=> \E n \in mRow("<") :
        /\ pos' = IF n > pos THEN 0 ELSE pos - n
        /\ mIp' = mIp + n
        /\ UNCHANGED <<mText, mCell, input, output>>
  BY DEF Machine!Left, Machine!Row, mRow, mText, mIp, mCell
<1>3. Machine!Increase <=> \E n \in mRow("+") :
        mPut(mCell[pos] + n) /\ mIp' = mIp + n /\ UNCHANGED <<mText, pos, input, output>>
  BY DEF Machine!Increase, Machine!Row, Machine!Put, mRow, mPut, mText, mIp, mCell
<1>4. Machine!Decrease <=> \E n \in mRow("-") :
        mPut(mCell[pos] - n) /\ mIp' = mIp + n /\ UNCHANGED <<mText, pos, input, output>>
  BY DEF Machine!Decrease, Machine!Row, Machine!Put, mRow, mPut, mText, mIp, mCell
<1>5. Machine!Set <=>
        /\ mAt("=")
        /\ \E n \in mIp..Len(mText) :
            /\ \A k \in (mIp + 1)..n : mText[k] \in DigitSet
            /\ n < Len(mText) => mText[n + 1] \notin DigitSet
            /\ mPut(Number(mText, mIp + 1, n))
            /\ mIp' = n + 1
        /\ UNCHANGED <<mText, pos, input, output>>
  BY MachineText DEF Machine!Set, Machine!At, Machine!Put, mAt, mPut, mText, mIp, mCell
<1>6. Machine!Write <=>
        /\ mAt(".")
        /\ output' = Append(output, mCell[pos])
        /\ mIp' = mIp + 1
        /\ UNCHANGED <<mText, mCell, pos, input>>
  BY DEF Machine!Write, Machine!At, mAt, mText, mIp, mCell
<1>7. Machine!Read <=>
        /\ mAt(",")
        /\ mPut(IF input = <<>> THEN Byte - 1 ELSE Head(input))
        /\ input' = IF input = <<>> THEN <<>> ELSE Tail(input)
        /\ mIp' = mIp + 1
        /\ UNCHANGED <<mText, pos, output>>
  BY DEF Machine!Read, Machine!At, Machine!Put, mAt, mPut, mText, mIp, mCell
<1>8. Machine!Open <=>
        /\ mAt("[")
        /\ IF mCell[pos] # 0 THEN mIp' = mIp + 1
           ELSE \E k \in 1..Len(mText) : Matches(mText, mIp, k) /\ mIp' = k + 1
        /\ UNCHANGED <<mText, mCell, pos, input, output>>
  BY MachineText DEF Machine!Open, Machine!At, mAt, mText, mIp, mCell
<1>9. Machine!Close <=>
        /\ mAt("]")
        /\ IF mCell[pos] = 0 THEN mIp' = mIp + 1
           ELSE \E k \in 1..Len(mText) : Matches(mText, k, mIp) /\ mIp' = k + 1
        /\ UNCHANGED <<mText, mCell, pos, input, output>>
  BY MachineText DEF Machine!Close, Machine!At, mAt, mText, mIp, mCell
<1>10. Machine!Restart <=> /\ mIp' = 1 /\ mCell' = [p \in 0..(MemorySize - 1) |-> 0]
                         /\ pos' = 0 /\ output' = <<>>
  BY DEF Machine!Restart, Machine!Started, mText, mIp, mCell
<1>11. Machine!Unspecified <=> Stray(mText) /\ mText' = mText
  BY MachineText DEF Machine!Unspecified, mText, mIp, mCell
<1>12. UNCHANGED Machine!vars <=> UNCHANGED mVars
  BY DEF Machine!vars, mVars, mText, mIp, mCell
<1>13. Machine!Started <=> /\ mIp = 1 /\ mCell = [p \in 0..(MemorySize - 1) |-> 0]
                         /\ pos = 0 /\ output = <<>>
  BY DEF Machine!Started, mText, mIp, mCell
<1> QED
  BY <1>1, <1>2, <1>3, <1>4, <1>5, <1>6, <1>7, <1>8, <1>9, <1>10, <1>11, <1>12, <1>13

-----------------------------------------------------------------------------
(* The machine: what the steps of a process are to it *)

LEMMA CellSame ==
    ASSUME tape' = tape
    PROVE  mCell' = mCell
  BY DEF mCell

LEMMA IpSame ==
    ASSUME phase \in {"Run", "Done", "Exhausted"}, phase' \in {"Run", "Done", "Exhausted"},
           UNCHANGED <<source, process, raw, i, programSize, place>>
    PROVE  mIp' = mIp /\ mText' = mText
  BY SamePlain DEF mIp, mText

\* The number of a row of moves is how many of them the machine may take.
LEMMA RowTaken ==
    ASSUME Inv, Plain, NEW c \in Moves, At(c)
    PROVE  meta[i] \in mRow(c) /\ meta[i] \in Nat /\ mIp + meta[i] = After(raw, mIp)
<1>1. /\ raw \in Seq(Commands) /\ mText = raw /\ mIp \in 1..Len(raw) /\ raw[mIp] = c
      /\ c \notin {"[", "]"} => meta[i] = Num(raw, mIp)
  BY AtOperation
<1>2. c \notin {"[", "]"}
  BY CommandsAre
<1>3. PICK n : n = Num(raw, mIp)
  OBVIOUS
<1>4. /\ n \in 1..Len(raw) /\ mIp + n = After(raw, mIp) /\ mIp + n - 1 <= Len(raw)
      /\ \A k \in 0..(n - 1) : raw[mIp + k] = c
  BY <1>1, <1>3, RowOf
<1>5. n \in mRow(c)
  BY <1>1, <1>4 DEF mRow
<1> QED
  BY <1>1, <1>2, <1>3, <1>4, <1>5

LEMMA RightSteps ==
    ASSUME Inv, Plain, Tape_Right
    PROVE  Machine!Right \/ UNCHANGED mVars
<1>1. /\ At(">") /\ UNCHANGED <<source, process, raw, programSize, place, input, output>>
  BY DEF Tape_Right, reading, parsing
<1>2. /\ TypeInv /\ phase = "Run" /\ i \in 1..programSize /\ mIp = place[i]
  BY <1>1, AtOperation
<1>3. meta[i] \in mRow(">") /\ meta[i] \in Nat /\ mIp + meta[i] = After(raw, mIp)
  BY <1>1, RowTaken, CommandsAre
<1>4. CASE Doubled(pos + meta[i]) <= MemorySize
  <2>1. /\ pos' = pos + meta[i] /\ tape' = Ensured(pos + meta[i])
        /\ i' = i + 1 /\ phase' = phase
    BY <1>4 DEF Tape_Right, Advance
  <2>2. pos + meta[i] \in Nat
    BY <1>2, <1>3, RunTyped
  <2>3. mCell' = mCell
    BY <1>2, <1>4, <2>1, <2>2, CellEnsured
  <2>4. mIp' = After(raw, place[i]) /\ mText' = mText
    BY <1>1, <1>2, <2>1, IpNext
  <2>5. mIp' = mIp + meta[i]
    BY <1>2, <1>3, <2>4
  <2> QED
    BY <1>1, <1>3, <2>1, <2>3, <2>4, <2>5, MachineIs
<1>5. CASE ~(Doubled(pos + meta[i]) <= MemorySize)
  <2>1. phase' = "Exhausted" /\ UNCHANGED <<pos, tape, i>>
    BY <1>5 DEF Tape_Right
  <2>2. mIp' = mIp /\ mText' = mText /\ mCell' = mCell
    BY <1>1, <1>2, <2>1, IpSame, CellSame
  <2> QED
    BY <1>1, <2>1, <2>2 DEF mVars
<1> QED
  BY <1>4, <1>5

LEMMA LeftSteps ==
    ASSUME Inv, Plain, Tape_Left
    PROVE  Machine!Left
<1>1. /\ At("<") /\ i' = i + 1 /\ pos' = (IF meta[i] > pos THEN 0 ELSE pos - meta[i])
      /\ UNCHANGED <<source, process, phase, raw, programSize, place, tape, input, output>>
  BY DEF Tape_Left, Advance, reading, parsing
<1>2. /\ phase = "Run" /\ i \in 1..programSize /\ mIp = place[i]
  BY <1>1, AtOperation
<1>3. meta[i] \in mRow("<") /\ mIp + meta[i] = After(raw, mIp)
  BY <1>1, RowTaken, CommandsAre
<1>4. mIp' = After(raw, place[i]) /\ mText' = mText
  BY <1>1, <1>2, IpNext
<1>5. mCell' = mCell
  BY <1>1, CellSame
<1>6. mIp' = mIp + meta[i]
  BY <1>2, <1>3, <1>4
<1> QED
  BY <1>1, <1>3, <1>4, <1>5, <1>6, MachineIs

LEMMA ChangeSteps ==
    ASSUME Inv, Plain, Tape_Change
    PROVE  Machine!Increase \/ Machine!Decrease \/ Machine!Set
<1>1. /\ phase = "Run" /\ i' = i + 1
      /\ UNCHANGED <<source, process, phase, raw, programSize, place, pos, input, output>>
      /\ TypeInv
  BY DEF Tape_Change, At, Advance, reading, parsing, Inv
<1>2. tape[pos + 1] \in Int /\ mCell[pos] = tape[pos + 1]
  BY <1>1, CellAt
<1>3. CASE At("+") /\ Put(tape[pos + 1] + (meta[i] % Byte))
  <2>1. i \in 1..programSize /\ mIp = place[i]
    BY <1>3, AtOperation
  <2>2. meta[i] \in mRow("+") /\ meta[i] \in Nat /\ mIp + meta[i] = After(raw, mIp)
    BY <1>3, RowTaken, CommandsAre
  <2>3. mIp' = mIp + meta[i] /\ mText' = mText
    BY <1>1, <2>1, <2>2, IpNext
  <2>4. mCell' = [mCell EXCEPT ![pos] = (tape[pos + 1] + (meta[i] % Byte)) % Byte]
    BY <1>1, <1>3, CellPut
  <2>5. (tape[pos + 1] + (meta[i] % Byte)) % Byte = (mCell[pos] + meta[i]) % Byte
    <3>1. PICK x \in Int, n \in Int : x = tape[pos + 1] /\ n = meta[i] /\ x = mCell[pos]
      BY <1>2, <2>2
    <3>2. (x + (n % Byte)) % Byte = (x + n) % Byte
      BY ModArithmetic
    <3> QED
      BY <3>1, <3>2, Zenon
  <2>6. mPut(mCell[pos] + meta[i])
    BY <2>4, <2>5 DEF mPut
  <2> QED
    BY <1>1, <2>2, <2>3, <2>6, MachineIs
<1>4. CASE At("-") /\ Put(tape[pos + 1] - (meta[i] % Byte))
  <2>1. i \in 1..programSize /\ mIp = place[i]
    BY <1>4, AtOperation
  <2>2. meta[i] \in mRow("-") /\ meta[i] \in Nat /\ mIp + meta[i] = After(raw, mIp)
    BY <1>4, RowTaken, CommandsAre
  <2>3. mIp' = mIp + meta[i] /\ mText' = mText
    BY <1>1, <2>1, <2>2, IpNext
  <2>4. mCell' = [mCell EXCEPT ![pos] = (tape[pos + 1] - (meta[i] % Byte)) % Byte]
    BY <1>1, <1>4, CellPut
  <2>5. (tape[pos + 1] - (meta[i] % Byte)) % Byte = (mCell[pos] - meta[i]) % Byte
    <3>1. PICK x \in Int, n \in Int : x = tape[pos + 1] /\ n = meta[i] /\ x = mCell[pos]
      BY <1>2, <2>2
    <3>2. (x - (n % Byte)) % Byte = (x - n) % Byte
      BY ModArithmetic
    <3> QED
      BY <3>1, <3>2, Zenon
  <2>6. mPut(mCell[pos] - meta[i])
    BY <2>4, <2>5 DEF mPut
  <2> QED
    BY <1>1, <2>2, <2>3, <2>6, MachineIs
<1>5. CASE At("=") /\ Put(meta[i] % Byte)
  <2>1. /\ i \in 1..programSize /\ mIp = place[i] /\ mIp \in 1..Len(raw) /\ raw[mIp] = "="
        /\ mText = raw /\ raw \in Seq(Commands) /\ meta[i] = Num(raw, mIp)
        /\ After(raw, mIp) \in (mIp + 1)..(Len(raw) + 1)
    BY <1>5, AtOperation
  <2>2. PICK e : e = After(raw, mIp)
    OBVIOUS
  <2>3. /\ \A k \in (mIp + 1)..(e - 1) : raw[k] \in DigitSet
        /\ e <= Len(raw) => raw[e] \notin DigitSet
    BY <2>1, <2>2, AfterIs
  <2>4. meta[i] = Number(mText, mIp + 1, e - 1) /\ meta[i] \in Nat
    <3>1. meta[i] = Number(mText, mIp + 1, e - 1)
      BY <2>1, <2>2 DEF Num
    <3>2. meta[i] \in Nat
      BY <1>1, <2>1 DEF TypeInv
    <3> QED
      BY <3>1, <3>2
  <2>5. mIp' = e /\ mText' = mText
    BY <1>1, <2>1, <2>2, IpNext
  <2>6. mPut(Number(mText, mIp + 1, e - 1))
    <3>1. mCell' = [mCell EXCEPT ![pos] = (meta[i] % Byte) % Byte]
      BY <1>1, <1>5, CellPut
    <3>2. (meta[i] % Byte) % Byte = meta[i] % Byte
      BY <2>4, ModArithmetic
    <3> QED
      BY <2>4, <3>1, <3>2 DEF mPut
  <2>7. PICK n : n = e - 1
    OBVIOUS
  <2>8. /\ n \in mIp..Len(mText) /\ n + 1 = e
        /\ \A k \in (mIp + 1)..n : mText[k] \in DigitSet
        /\ n < Len(mText) => mText[n + 1] \notin DigitSet
    BY <2>1, <2>2, <2>3, <2>7
  <2>9. mPut(Number(mText, mIp + 1, n)) /\ mIp' = n + 1
    BY <2>5, <2>6, <2>7, <2>8
  <2>10. mAt("=")
    BY <2>1 DEF mAt
  <2> QED
    BY <1>1, <2>5, <2>8, <2>9, <2>10, MachineIs
<1> QED
  BY <1>3, <1>4, <1>5 DEF Tape_Change

\* These commands are operations of their own.
Single == {".", ",", "[", "]"}

LEMMA OneCommand ==
    ASSUME Inv, Plain, NEW c \in Single, At(c)
    PROVE  mAt(c) /\ mIp = place[i] /\ After(raw, place[i]) = mIp + 1
<1>1. /\ raw \in Seq(Commands) /\ mText = raw /\ mIp \in 1..Len(raw) /\ raw[mIp] = c
      /\ mIp = place[i]
  BY AtOperation
<1>2. c \notin Moves \cup {"="}
  BY CommandsAre DEF Single
<1>3. After(raw, mIp) = mIp + 1
  BY <1>1, <1>2, AfterIs
<1>4. mIp <= Len(raw)
  BY <1>1
<1>5. mAt(c)
  BY <1>1, <1>4, Zenon DEF mAt
<1> QED
  BY <1>1, <1>3, <1>5, Zenon

LEMMA GetSteps ==
    ASSUME Inv, Plain, Tape_Get
    PROVE  Machine!Write
<1>1. /\ At(".") /\ i' = i + 1 /\ output' = Append(output, tape[pos + 1])
      /\ UNCHANGED <<source, process, phase, raw, programSize, place, tape, pos, input>>
  BY DEF Tape_Get, Advance, reading, parsing
<1>2. TypeInv /\ phase = "Run" /\ i \in 1..programSize
  BY <1>1, AtOperation
<1>3. mAt(".") /\ After(raw, place[i]) = mIp + 1
  BY <1>1, OneCommand DEF Single
<1>4. mIp' = mIp + 1 /\ mText' = mText
  BY <1>1, <1>2, <1>3, IpNext
<1>5. mCell[pos] = tape[pos + 1] /\ mCell' = mCell
  BY <1>1, <1>2, CellAt, CellSame
<1> QED
  BY <1>1, <1>3, <1>4, <1>5, MachineIs

LEMMA SetSteps ==
    ASSUME Inv, Plain, Tape_Set
    PROVE  Machine!Read
<1>1. /\ At(",") /\ i' = i + 1
      /\ IF input = <<>> THEN Put(-1) /\ input' = input ELSE Put(Head(input)) /\ input' = Tail(input)
      /\ UNCHANGED <<source, process, phase, raw, programSize, place, pos, output>>
  BY DEF Tape_Set, Advance, reading, parsing
<1>2. TypeInv /\ phase = "Run" /\ i \in 1..programSize
  BY <1>1, AtOperation
<1>3. mAt(",") /\ After(raw, place[i]) = mIp + 1
  BY <1>1, OneCommand DEF Single
<1>4. mIp' = mIp + 1 /\ mText' = mText
  BY <1>1, <1>2, <1>3, IpNext
<1>5. CASE input = <<>>
  <2>1. Put(-1) /\ input' = <<>>
    BY <1>1, <1>5
  <2>2. mCell' = [mCell EXCEPT ![pos] = (-1) % Byte]
    BY <1>2, <2>1, CellPut
  <2>3. (-1) % Byte = (Byte - 1) % Byte
    <3>1. PICK x : x \in Int
      BY <1>2, CellAt
    <3> QED
      BY <3>1, ModArithmetic
  <2>4. mPut(Byte - 1)
    BY <2>2, <2>3 DEF mPut
  <2> QED
    BY <1>1, <1>3, <1>4, <1>5, <2>1, <2>4, MachineIs
<1>6. CASE input # <<>>
  <2>1. Put(Head(input)) /\ input' = Tail(input)
    BY <1>1, <1>6
  <2>2. mPut(Head(input))
    BY <1>2, <2>1, CellPut DEF mPut
  <2> QED
    BY <1>1, <1>3, <1>4, <1>6, <2>1, <2>2, MachineIs
<1> QED
  BY <1>5, <1>6

\* A jump leads behind the bracket that belongs to the one it starts from.
LEMMA JumpsOver ==
    ASSUME Inv, Plain, phase = "Run", NEW k \in 1..programSize, NEW j \in 1..programSize,
           Pair(k, j) \/ Pair(j, k)
    PROVE  After(raw, place[j]) = place[j] + 1 /\ place[j] \in 1..Len(raw)
<1>1. TypeInv /\ ReadInv /\ ParseInv /\ raw \in Seq(Commands)
  BY DEF Inv, TypeInv
<1>2. place[j] \in 1..Len(raw) /\ program[j] = raw[place[j]]
  BY <1>1, Understood
<1>3. program[j] \in {"[", "]"}
  BY DEF Pair
<1>4. raw[place[j]] \notin Moves \cup {"="}
  BY <1>2, <1>3, CommandsAre
<1> QED
  BY <1>1, <1>2, <1>4, AfterIs

LEMMA LoopSteps ==
    ASSUME Inv, Plain, Loop
    PROVE  Machine!Open \/ Machine!Close
<1>1. /\ phase = "Run" /\ TypeInv /\ ReadInv /\ ParseInv
      /\ UNCHANGED <<source, process, phase, raw, programSize, place, tape, pos, input, output>>
  BY DEF Loop, At, reading, parsing, running, Inv
<1>2. mCell[pos] = tape[pos + 1] /\ mCell' = mCell
  BY <1>1, CellAt, CellSame
<1>3. index - 1 = programSize /\ programSize \in Nat
  BY <1>1, Understood
<1>4. CASE At("[") /\ i' = (IF tape[pos + 1] = 0 THEN meta[i] ELSE i) + 1
  <2>1. i \in 1..programSize /\ program[i] = "[" /\ mText = raw
    BY <1>4, AtOperation
  <2>2. mAt("[") /\ mIp = place[i] /\ After(raw, place[i]) = mIp + 1
    BY <1>4, OneCommand DEF Single
  <2>3. CASE tape[pos + 1] # 0
    <3>1. mIp' = mIp + 1 /\ mText' = mText
      BY <1>1, <1>4, <2>1, <2>2, <2>3, IpNext
    <3> QED
      BY <1>1, <1>2, <2>2, <2>3, <3>1, MachineIs
  <2>4. CASE tape[pos + 1] = 0
    <3>1. PICK c : Pair(i, c)
      BY <1>1, <2>1, Understood
    <3>2. c \in 1..programSize /\ meta[i] = c /\ Matches(raw, mIp, place[c])
      BY <1>3, <2>2, <3>1 DEF Pair
    <3>3. After(raw, place[c]) = place[c] + 1 /\ place[c] \in 1..Len(raw)
      BY <1>1, <2>1, <3>1, <3>2, JumpsOver
    <3>4. i' = c + 1
      BY <1>4, <2>4, <3>2
    <3>5. mIp' = place[c] + 1 /\ mText' = mText
      BY <1>1, <3>2, <3>3, <3>4, IpNext
    <3> QED
      BY <1>1, <1>2, <2>1, <2>2, <2>4, <3>2, <3>3, <3>5, MachineIs
  <2> QED
    BY <2>3, <2>4
<1>5. CASE At("]") /\ i' = (IF tape[pos + 1] # 0 THEN meta[i] ELSE i) + 1
  <2>1. i \in 1..programSize /\ program[i] = "]" /\ mText = raw
    BY <1>5, AtOperation
  <2>2. mAt("]") /\ mIp = place[i] /\ After(raw, place[i]) = mIp + 1
    BY <1>5, OneCommand DEF Single
  <2>3. CASE tape[pos + 1] = 0
    <3>1. mIp' = mIp + 1 /\ mText' = mText
      BY <1>1, <1>5, <2>1, <2>2, <2>3, IpNext
    <3> QED
      BY <1>1, <1>2, <2>2, <2>3, <3>1, MachineIs
  <2>4. CASE tape[pos + 1] # 0
    <3>1. PICK o : Pair(o, i)
      BY <1>1, <2>1, Understood
    <3>2. o \in 1..programSize /\ meta[i] = o /\ Matches(raw, place[o], mIp)
      BY <1>3, <2>1, <2>2, <3>1 DEF Pair
    <3>3. After(raw, place[o]) = place[o] + 1 /\ place[o] \in 1..Len(raw)
      BY <1>1, <2>1, <3>1, <3>2, JumpsOver
    <3>4. i' = o + 1
      BY <1>5, <2>4, <3>2
    <3>5. mIp' = place[o] + 1 /\ mText' = mText
      BY <1>1, <3>2, <3>3, <3>4, IpNext
    <3> QED
      BY <1>1, <1>2, <2>1, <2>2, <2>4, <3>2, <3>3, <3>5, MachineIs
  <2> QED
    BY <2>3, <2>4
<1> QED
  BY <1>4, <1>5 DEF Loop

\* Of a plain program every slot was written.
LEMMA NoJunk ==
    ASSUME Inv, Plain
    PROVE  ~Junk
<1> SUFFICES ASSUME Junk PROVE FALSE
  OBVIOUS
<1>1. At("junk")
  BY DEF Junk
<1>2. raw \in Seq(Commands) /\ mIp \in 1..Len(raw) /\ raw[mIp] = "junk"
  BY <1>1, AtOperation
<1>3. PICK k : k = mIp
  OBVIOUS
<1>4. raw[k] \in Commands /\ raw[k] = "junk"
  BY <1>2, <1>3
<1> QED
  BY <1>4, CommandsAre

\* A program that is run begins with its first command.
LEMMA ParsedStarts ==
    ASSUME Inv, Plain, Parsed
    PROVE  mIp' = 1 /\ mIp = 1 /\ mText' = mText
<1>1. /\ phase = "Fill" /\ i > Len(raw) /\ i' = 1 /\ phase' = (IF process = 2 THEN "Compile" ELSE "Run")
      /\ UNCHANGED <<source, process, raw, programSize, place>>
      /\ TypeInv /\ ReadInv /\ ParseInv
  BY DEF Parsed, reading, parsing, Inv
<1>2. mIp = 1 /\ Plain' /\ mText' = mText
  BY <1>1, SamePlain DEF mIp, mText
<1>3. mIp' = IF process # 2 THEN IF 1 <= programSize THEN place[1] ELSE Len(raw) + 1 ELSE 1
  BY <1>1, <1>2 DEF mIp
<1>4. raw \in Seq(Commands) /\ ~Stray(raw) /\ Len(raw) \in Nat
  BY <1>1, PlainRaw
<1>5. PICK n : n = Len(raw) + 1
  OBVIOUS
<1>6. Filled(n)
  <2>1. i = n
    BY <1>1, <1>4, <1>5 DEF ParseInv, OpStart
  <2> QED
    BY <1>1, <2>1 DEF ParseInv, Gathered
<1>7. programSize = index - 1 /\ programSize \in Nat
  <2>1. programSize = Cardinality(Starts(raw, n)) /\ index = Cardinality(Starts(raw, n)) + 1
    BY <1>5, <1>6 DEF Filled
  <2>2. programSize \in Nat
    BY <1>1 DEF TypeInv
  <2> QED
    BY <2>1, <2>2
<1>8. CASE Len(raw) = 0
  <2>1. ~(1 <= programSize)
    <3> SUFFICES ASSUME 1 <= programSize PROVE FALSE
      OBVIOUS
    <3>1. OpStart(raw, place[1])
      BY <1>6, <1>7 DEF Filled
    <3> QED
      BY <1>8, <3>1 DEF OpStart
  <2> QED
    BY <1>2, <1>3, <1>8, <2>1
<1>9. CASE Len(raw) # 0
  <2>1. OpStart(raw, 1)
    BY <1>4, <1>9, FirstStarts
  <2>2. 1 \in Starts(raw, n)
    BY <1>4, <1>5, <1>9, <2>1 DEF Starts
  <2>3. PICK k \in 1..programSize : place[k] = 1
    BY <1>6, <1>7, <2>2 DEF Filled
  <2>4. k = 1
    <3>1. \A j \in 1..(k - 1) : place[j] < place[k]
      BY <1>6, <1>7, <2>3 DEF Filled
    <3>2. ASSUME k # 1 PROVE FALSE
      <4>1. 1 \in 1..(k - 1) /\ 1 \in 1..programSize
        BY <1>7, <3>2
      <4>2. place[1] < 1 /\ place[1] \in 1..Len(raw)
        <5>1. OpStart(raw, place[1])
          BY <1>6, <1>7, <4>1 DEF Filled
        <5> QED
          BY <2>3, <3>1, <4>1, <5>1 DEF OpStart
      <4> QED
        BY <1>4, <4>2
    <3> QED
      BY <3>2
  <2>5. 1 <= programSize /\ place[1] = 1
    BY <1>7, <2>3, <2>4
  <2> QED
    BY <1>2, <1>3, <2>5
<1> QED
  BY <1>8, <1>9

\* Reading, parsing and translating change nothing of the machine.
LEMMA QuietSteps ==
    ASSUME Inv, Plain,
           \/ ReadChar \/ ReadEnd \/ Count \/ Allocate \/ Fill \/ Unmatched \/ Parsed
           \/ RunEnds \/ Compile \/ Compiled \/ UNCHANGED vars
    PROVE  UNCHANGED mVars
<1>1. /\ TypeInv /\ ReadInv /\ ParseInv
  BY DEF Inv
<1>2. UNCHANGED <<source, process, tape, pos, input, output>>
  BY DEF ReadChar, ReadEnd, Count, Allocate, Fill, Unmatched, Parsed, RunEnds, Compile, Compiled,
         vars, reading, running
<1>3. mText' = mText /\ mCell' = mCell
  BY <1>2, SamePlain, CellSame DEF mText
<1>4. mIp' = mIp
  <2>1. CASE ReadChar \/ ReadEnd \/ Count \/ Allocate \/ Fill \/ Unmatched
    <3>1. phase \in {"Read", "Count", "Fill"} /\ phase' \in {"Read", "Count", "Fill", "Crash", "Error"}
      BY <2>1 DEF ReadChar, ReadEnd, Count, Allocate, Fill, Unmatched
    <3> QED
      BY <3>1 DEF mIp
  <2>2. CASE Parsed
    BY <2>2, ParsedStarts
  <2>3. CASE RunEnds
    <3>1. phase = "Run" /\ phase' = "Done" /\ UNCHANGED <<source, process, raw, i, programSize, place>>
      BY <2>3 DEF RunEnds, reading, parsing
    <3> QED
      BY <3>1, IpSame
  <2>4. CASE Compile \/ Compiled
    <3>1. phase = "Compile" /\ process = 2
      BY <1>1, <2>4 DEF Compile, Compiled, ParseInv
    <3> QED
      BY <1>2, <3>1 DEF mIp
  <2>5. CASE UNCHANGED vars
    <3>1. UNCHANGED <<source, process, phase, raw, i, programSize, place>>
      BY <2>5 DEF vars, reading, parsing
    <3> QED
      BY <3>1, SamePlain DEF mIp
  <2> QED
    BY <2>1, <2>2, <2>3, <2>4, <2>5
<1> QED
  BY <1>2, <1>3, <1>4 DEF mVars

LEMMA NewCells ==
    /\ tape = [p \in 1..InitialSize |-> 0] => mCell = [p \in 0..(MemorySize - 1) |-> 0]
    /\ tape' = [p \in 1..InitialSize |-> 0] => mCell' = [p \in 0..(MemorySize - 1) |-> 0]
<1>1. ASSUME NEW t, t = [p \in 1..InitialSize |-> 0], NEW p \in 0..(MemorySize - 1)
      PROVE  (IF p < Len(t) THEN t[p + 1] ELSE 0) = 0
  <2>1. Len(t) = InitialSize
    BY <1>1, SizeAssumption
  <2>2. p < Len(t) => p + 1 \in 1..InitialSize
    BY <1>1, <2>1, SizeAssumption
  <2> QED
    BY <1>1, <2>2
<1> QED
  BY <1>1 DEF mCell

LEMMA RestartSteps ==
    ASSUME NextProcess
    PROVE  Machine!Restart
<1>1. phase' = "Read" /\ tape' = [p \in 1..InitialSize |-> 0] /\ pos' = 0 /\ output' = <<>>
  BY DEF NextProcess
<1>2. mIp' = 1
  BY <1>1 DEF mIp
<1>3. mCell' = [p \in 0..(MemorySize - 1) |-> 0]
  BY <1>1, NewCells
<1> QED
  BY <1>1, <1>2, <1>3, MachineIs

\* Nothing is promised of a text with stray digits.
LEMMA StrayText ==
    ASSUME ~Plain, source' = source
    PROVE  Machine!Unspecified
<1>1. mText = <<"0">> /\ mText' = mText
  BY SamePlain DEF mText
<1>2. "0" \in DigitSet /\ "0" # "="
  BY DigitsAre
<1>3. PICK t : t = <<"0">>
  OBVIOUS
<1>4. Len(t) = 1 /\ t[1] = "0"
  BY <1>3
<1>5. Stray(t)
  <2>1. 1 \in 1..Len(t) /\ t[1] \in DigitSet /\ \A j \in 1..1 : t[j] # "="
    BY <1>2, <1>4
  <2> QED
    BY <2>1 DEF Stray
<1> QED
  BY <1>1, <1>3, <1>5, MachineIs

LEMMA MachineSteps ==
    ASSUME Inv, [Next]_vars
    PROVE  [Machine!Next]_(Machine!vars)
<1>1. CASE NextProcess
  BY <1>1, RestartSteps DEF Machine!Next
<1>2. CASE ~NextProcess /\ ~Plain
  <2>1. source' = source
    BY <1>2 DEF Next, ReadChar, ReadEnd, Count, Allocate, Fill, Unmatched, Parsed, Tape_Right,
                Tape_Left, Tape_Change, Tape_Get, Tape_Set, Loop, Junk, RunEnds, Compile, Compiled,
                Over, vars, reading
  <2> QED
    BY <1>2, <2>1, StrayText DEF Machine!Next
<1>3. CASE ~NextProcess /\ Plain
  <2>1. CASE \/ ReadChar \/ ReadEnd \/ Count \/ Allocate \/ Fill \/ Unmatched \/ Parsed
             \/ RunEnds \/ Compile \/ Compiled \/ UNCHANGED vars
    BY <1>3, <2>1, QuietSteps, MachineIs
  <2>2. CASE Tape_Right
    BY <1>3, <2>2, RightSteps, MachineIs DEF Machine!Next
  <2>3. CASE Tape_Left
    BY <1>3, <2>3, LeftSteps DEF Machine!Next
  <2>4. CASE Tape_Change
    BY <1>3, <2>4, ChangeSteps DEF Machine!Next
  <2>5. CASE Tape_Get
    BY <1>3, <2>5, GetSteps DEF Machine!Next
  <2>6. CASE Tape_Set
    BY <1>3, <2>6, SetSteps DEF Machine!Next
  <2>7. CASE Loop
    BY <1>3, <2>7, LoopSteps DEF Machine!Next
  <2> QED
    BY <1>3, <2>1, <2>2, <2>3, <2>4, <2>5, <2>6, <2>7, NoJunk DEF Next, Over
<1> QED
  BY <1>1, <1>2, <1>3

LEMMA MachineStarts ==
    ASSUME Init
    PROVE  Machine!Started
<1>1. phase = "Read" /\ tape = [p \in 1..InitialSize |-> 0] /\ pos = 0 /\ output = <<>>
  BY DEF Init, Fresh
<1>2. mIp = 1
  BY <1>1 DEF mIp
<1>3. mCell = [p \in 0..(MemorySize - 1) |-> 0]
  BY <1>1, NewCells
<1> QED
  BY <1>1, <1>2, <1>3, MachineIs

\* Of every program of any length without stray digits, and on every input, each
\* operation that interpret executes does what the machine does that walks over
\* the text command by command: counting moves and digits together
\* (main.c:202-224), cutting their number to a byte (interpreter.c:16-24), jumping
\* by slots (interpreter.c:21-22) and a tape that is doubled when it is too short
\* (tape.c:24-36) change nothing of what the program means.
THEOREM RunsAsMachine == Spec => ImplementsMachine
<1>1. Init => Machine!Started
  BY MachineStarts
<1>2. Inv /\ [Next]_vars => [Machine!Next]_(Machine!vars)
  BY MachineSteps
<1> QED
  BY <1>1, <1>2, InvHolds, PTL DEF Spec, Machine!Spec, ImplementsMachine
=============================================================================

--------------------------- MODULE FatFiles_proofs ---------------------------
(***************************************************************************)
(* What lfs keeps about the clusters of a volume, for every size of volume  *)
(* and cluster, every set of paths and every host file, up to where a search *)
(* for free clusters leaves a table that is full (fat.c:481).               *)
(***************************************************************************)
EXTENDS FatFiles, Induction, FiniteSetTheorems

-----------------------------------------------------------------------------
(* The chains, while no process has been killed.  S gives each path its     *)
(* clusters in order; the last Len(op.clusters) of the path a command       *)
(* extends are not linked yet, and of the path a command removes those      *)
(* before the k-th are free already.                                       *)

Busy(p) == p = op.path
Linked(S, p) == Len(S[p]) - (IF Busy(p) THEN Len(op.clusters) ELSE 0)
First(S, p) == IF S[p] = <<>> THEN 0 ELSE S[p][1]
Owner(S, c) == \E p \in Paths : \E i \in 1 .. Len(S[p]) : S[p][i] = c

\* Every cluster has one place in one chain, and the root's has none.
Apart(S) ==
    /\ S \in [Paths -> Seq((2 .. TableLast) \ RootClusters)]
    /\ \A p, q \in Paths : \A i \in 1 .. Len(S[p]), j \in 1 .. Len(S[q]) :
          S[p][i] = S[q][j] => p = q /\ i = j

\* What the table holds for the i-th cluster of p.
After(S, k, p, i) ==
    IF (Busy(p) /\ i < k) \/ i > Linked(S, p) THEN 0
    ELSE IF i = Len(S[p]) \/ (i = Linked(S, p) /\ pc = "walk") THEN EOC
    ELSE S[p][i + 1]

Ends(table) == \A c \in {0, 1} : table[c] \in {Reserved, EOC}

InTable(S, k) ==
    /\ Ends(fat)
    /\ \A p \in Paths : \A i \in 1 .. Len(S[p]) : fat[S[p][i]] = After(S, k, p, i)
    /\ \A c \in 2 .. TableLast :
          ~Owner(S, c) => fat[c] = IF c \in RootClusters THEN EOC ELSE 0

\* The image's table may be behind, but never leads from one path to another.
OnImage(S) ==
    /\ Ends(stable)
    /\ \A p \in Paths : \A i \in 1 .. Len(S[p]) :
          \/ stable[S[p][i]] \in {0, EOC}
          \/ \E j \in 1 .. Len(S[p]) : stable[S[p][i]] = S[p][j]
    /\ session = "insert" => \A c \in 2 .. TableLast : fat[c] = 0 => stable[c] = 0
    /\ session = "closed" => stable = fat

\* An entry on the image has the first cluster and the size of its chain,
\* unless the command has yet to set it.
Named(S) ==
    \A p \in Paths :
        IF entry[p].live
        THEN LET late == Busy(p) /\ pc \in {"link", "setentry"}
             IN  /\ entry[p].first = First(S, p) \/ (late /\ entry[p].first = 0)
                 /\ p \in Files /\ ~late =>
                       Clusters(entry[p].size) =
                           IF pc = "walk" THEN Linked(S, p) ELSE Len(S[p])
                 /\ p \in Dirs => entry[p].size = 0
        ELSE S[p] = <<>>

\* What the command knows of the chain it works on.
Working(S, k) ==
    /\ pc # "idle" => entry[op.path].live
    /\ pc \in {"write", "walk", "link", "setentry", "data"} =>
          LET n == Len(S[op.path])
              linked == Linked(S, op.path)
          IN  /\ op.first = First(S, op.path)
              /\ op.path \in Files => op.size = entry[op.path].size
              /\ pc \in {"write", "data"} => Clusters(op.size) = n
              /\ pc = "walk" => Clusters(op.size) = linked
              /\ pc \in {"walk", "link", "setentry"} => Clusters(Target) = n
              /\ linked >= 0
              /\ \A i \in 1 .. Len(op.clusters) : op.clusters[i] = S[op.path][linked + i]
              /\ pc = "walk" => \E i \in 1 .. linked : op.cursor = S[op.path][i]
    /\ IF pc = "free"
       THEN /\ k \in 1 .. Len(S[op.path]) + 1
            /\ IF k <= Len(S[op.path]) THEN op.cursor = S[op.path][k]
               ELSE op.cursor \in {0, EOC}
       ELSE k = 1

\* The count of free clusters takes off those that are not linked yet.
InUse == {c \in 2 .. TableLast : fat[c] # 0}
Counted ==
    /\ Version = 32 =>
          \E wraps \in Int :
             freeCount + Cardinality(InUse) + Len(op.clusters)
                = VolumeLast - 1 + wraps * CountMod
    /\ session \in {"closed", "closing"} => fsInfo = freeCount

Chained(S, k) ==
    Apart(S) /\ InTable(S, k) /\ OnImage(S) /\ Named(S) /\ Working(S, k) /\ Counted

ChainInv == ~crashed => \E S, k : Chained(S, k)

-----------------------------------------------------------------------------
(* The operators of the model. *)

\* Skipping one cluster more reads the table once more.
LEMMA SkipRule ==
    ASSUME NEW T, NEW first
    PROVE  /\ Skip(T, first, 0) = first
           /\ \A n \in Nat : Skip(T, first, n + 1) = ReadFAT(T, Skip(T, first, n))
<1> DEFINE Following(n, at) ==
              [k \in 0 .. n |-> IF k = 0 THEN first ELSE ReadFAT(T, at[k - 1])]
           Walked == {n \in Nat : \E at : at = Following(n, at)}
           at(n) == CHOOSE at : at = Following(n, at)
<1>1. Nat \subseteq Walked
  <2>1. 0 \in Walked
    <3> DEFINE g == [k \in 0 .. 0 |-> first]
    <3>1. g = Following(0, g)
      OBVIOUS
    <3> QED
      BY <3>1
  <2>2. ASSUME NEW n \in Nat, n \in Walked PROVE n + 1 \in Walked
    <3>1. PICK g : g = Following(n, g)
      BY <2>2
    <3> DEFINE h == [k \in 0 .. n + 1 |-> IF k <= n THEN g[k] ELSE ReadFAT(T, g[n])]
    <3>2. ASSUME NEW k \in 0 .. n + 1
          PROVE  h[k] = IF k = 0 THEN first ELSE ReadFAT(T, h[k - 1])
      <4>1. CASE k = 0
        BY <3>1, <4>1
      <4>2. CASE k \in 1 .. n
        BY <3>1, <4>2
      <4>3. CASE k = n + 1
        BY <4>3
      <4> QED
        BY <4>1, <4>2, <4>3
    <3>3. h = Following(n + 1, h)
      BY <3>2
    <3> HIDE DEF h, Following
    <3> QED
      BY <3>3
  <2> HIDE DEF Walked
  <2> QED
    BY <2>1, <2>2, SetInduction
<1>2. ASSUME NEW n \in Nat PROVE at(n) = Following(n, at(n))
  <2>1. \E g : g = Following(n, g)
    <3> HIDE DEF Following
    <3> QED
      BY <1>1
  <2> HIDE DEF Following
  <2> QED
    BY <2>1
<1>3. ASSUME NEW n \in Nat PROVE Skip(T, first, n) = at(n)[n]
  BY DEF Skip
<1> HIDE DEF Walked, at
<1>4. ASSUME NEW n \in Nat
      PROVE  \A k \in 0 .. n : at(n)[k] = at(n + 1)[k]
  <2> DEFINE Same == {k \in Nat : k <= n => at(n)[k] = at(n + 1)[k]}
  <2>1. 0 \in Same
    BY <1>2
  <2>2. ASSUME NEW k \in Nat, k \in Same, k + 1 <= n
        PROVE  at(n)[k + 1] = at(n + 1)[k + 1]
    <3>1. k + 1 \in 0 .. n /\ k + 1 \in 0 .. n + 1 /\ k + 1 # 0 /\ (k + 1) - 1 = k
      BY <2>2
    <3>2. at(n)[k + 1] = ReadFAT(T, at(n)[k])
      <4>1. at(n)[k + 1] = Following(n, at(n))[k + 1]
        BY <1>2
      <4> QED
        BY <3>1, <4>1
    <3>3. at(n + 1)[k + 1] = ReadFAT(T, at(n + 1)[k])
      <4>1. n + 1 \in Nat /\ at(n + 1) = Following(n + 1, at(n + 1))
        <5> HIDE DEF Following
        <5> QED
          BY <1>2
      <4> QED
        BY <3>1, <4>1
    <3> QED
      BY <2>2, <3>2, <3>3
  <2>3. \A k \in Nat : k \in Same => k + 1 \in Same
    BY <2>2
  <2> HIDE DEF Same
  <2>4. Nat \subseteq Same
    BY <2>1, <2>3, SetInduction
  <2> QED
    BY <2>4 DEF Same
<1>5. Skip(T, first, 0) = first
  BY <1>2, <1>3
<1>6. ASSUME NEW n \in Nat
      PROVE  Skip(T, first, n + 1) = ReadFAT(T, Skip(T, first, n))
  <2>1. at(n + 1)[n + 1] = Following(n + 1, at(n + 1))[n + 1]
    BY <1>2
  <2>2. at(n + 1)[n + 1] = ReadFAT(T, at(n + 1)[n])
    BY <2>1
  <2> QED
    BY <1>3, <1>4, <2>2
<1> QED
  BY <1>5, <1>6

\* The lowest free cluster, and what is free behind it.
LEMMA LowestFree ==
    ASSUME NEW from \in Nat, FreeFrom(from) # {}
    PROVE  LET c == CHOOSE c \in FreeFrom(from) : \A d \in FreeFrom(from) : c <= d
           IN  /\ c \in FreeFrom(from)
               /\ FreeFrom(c + 1) = FreeFrom(from) \ {c}
               /\ Cardinality(FreeFrom(c + 1)) = Cardinality(FreeFrom(from)) - 1
<1> DEFINE c == CHOOSE c \in FreeFrom(from) : \A d \in FreeFrom(from) : c <= d
<1>1. FreeFrom(from) \subseteq Nat
  BY VolumeAssumption DEF FreeFrom
<1>2. \E d \in FreeFrom(from) : \A e \in FreeFrom(from) : d <= e
  BY <1>1, LeastNat
<1>3. c \in FreeFrom(from) /\ \A d \in FreeFrom(from) : c <= d
  BY <1>2
<1> HIDE DEF c
<1>4. FreeFrom(c + 1) = FreeFrom(from) \ {c}
  BY <1>3, VolumeAssumption DEF FreeFrom
<1>5. IsFiniteSet(FreeFrom(from))
  <2>1. IsFiniteSet(0 .. TableLast)
    BY FS_Interval, VolumeAssumption
  <2>2. FreeFrom(from) \in SUBSET (0 .. TableLast)
    BY VolumeAssumption DEF FreeFrom
  <2> QED
    BY <2>1, <2>2, FS_Subset
<1>6. Cardinality(FreeFrom(from) \ {c}) = Cardinality(FreeFrom(from)) - 1
  BY <1>3, <1>5, FS_RemoveElement
<1>7. Cardinality(FreeFrom(c + 1)) = Cardinality(FreeFrom(from)) - 1
  BY <1>4, <1>6
<1> QED
  BY <1>3, <1>4, <1>7 DEF c

\* What FAT_FindFreeClusters finds: the lowest free cluster first, and each
\* time the lowest behind the one before.
LEMMA FreeClustersRule ==
    ASSUME NEW count \in Nat
    PROVE  FreeClusters(count) =
             [i \in 1 .. count |->
                LET from == IF i = 1 THEN 0 ELSE FreeClusters(count)[i - 1] + 1
                IN  CHOOSE c \in FreeFrom(from) : \A d \in FreeFrom(from) : c <= d]
<1> DEFINE Lowest(from) == CHOOSE c \in FreeFrom(from) : \A d \in FreeFrom(from) : c <= d
           Following(n, g) == [i \in 1 .. n |-> Lowest(IF i = 1 THEN 0 ELSE g[i - 1] + 1)]
           Found == {n \in Nat : \E g : g = Following(n, g)}
<1> HIDE DEF Lowest
<1>1. 0 \in Found
  <2> DEFINE g == [i \in 1 .. 0 |-> i]
  <2>1. g = Following(0, g)
    OBVIOUS
  <2> HIDE DEF g, Following
  <2> QED
    BY <2>1
<1>2. ASSUME NEW n \in Nat, n \in Found PROVE n + 1 \in Found
  <2>1. PICK g : g = Following(n, g)
    BY <1>2
  <2> DEFINE h == [i \in 1 .. n + 1 |->
                     IF i <= n THEN g[i] ELSE Lowest(IF i = 1 THEN 0 ELSE g[i - 1] + 1)]
  <2>2. ASSUME NEW i \in 1 .. n + 1
        PROVE  h[i] = Lowest(IF i = 1 THEN 0 ELSE h[i - 1] + 1)
    <3>1. CASE i = 1
      BY <2>1, <3>1
    <3>2. CASE i # 1
      <4>1. i - 1 \in 1 .. n /\ h[i - 1] = g[i - 1]
        BY <3>2
      <4>2. CASE i <= n
        BY <2>1, <4>1, <4>2
      <4>3. CASE i = n + 1
        BY <4>1, <4>3
      <4> QED
        BY <4>2, <4>3
    <3> QED
      BY <3>1, <3>2
  <2>3. h = Following(n + 1, h)
    BY <2>2
  <2> HIDE DEF h, Following
  <2> QED
    BY <2>3
<1>3. count \in Found
  <2> HIDE DEF Found
  <2> QED
    BY <1>1, <1>2, SetInduction
<1>4. \E g : g = Following(count, g)
  <2> HIDE DEF Following
  <2> QED
    BY <1>3
<1> DEFINE chosen == CHOOSE g : g = Following(count, g)
<1>5. chosen = Following(count, chosen)
  <2> HIDE DEF Following
  <2> QED
    BY <1>4
<1>6. FreeClusters(count) = chosen
  BY DEF FreeClusters, Lowest
<1> HIDE DEF chosen
<1> QED
  BY <1>5, <1>6 DEF Lowest

LEMMA FunctionIsSeq ==
    ASSUME NEW n \in Nat, NEW T, NEW f \in [1 .. n -> T]
    PROVE  /\ f \in Seq(T) /\ Len(f) = n
           /\ \A i \in 1 .. n : f[i] \in T
  OBVIOUS

LEMMA SeqElements ==
    ASSUME NEW T, NEW s \in Seq(T)
    PROVE  /\ Len(s) \in Nat /\ DOMAIN s = 1 .. Len(s)
           /\ \A i \in 1 .. Len(s) : s[i] \in T
  OBVIOUS

LEMMA HeadAndTail ==
    ASSUME NEW T, NEW s \in Seq(T), s # <<>>
    PROVE  /\ Len(s) \in Nat \ {0} /\ s[1] \in T /\ Head(s) = s[1]
           /\ Tail(s) \in Seq(T) /\ Len(Tail(s)) = Len(s) - 1
           /\ \A i \in 1 .. Len(s) - 1 : Tail(s)[i] = s[i + 1]
           /\ Tail(s) = <<>> <=> Len(s) = 1
<1>1. Len(s) \in Nat \ {0} /\ s \in [1 .. Len(s) -> T]
  OBVIOUS
<1>2. Head(s) = s[1] /\ s[1] \in T
  BY <1>1
<1>3. Tail(s) \in Seq(T) /\ Len(Tail(s)) = Len(s) - 1
      /\ \A i \in 1 .. Len(s) - 1 : Tail(s)[i] = s[i + 1]
  BY <1>1
<1>4. Tail(s) = <<>> <=> Len(s) = 1
  BY <1>1, <1>3
<1> QED
  BY <1>1, <1>2, <1>3, <1>4

LEMMA Joined ==
    ASSUME NEW T, NEW s \in Seq(T), NEW t \in Seq(T)
    PROVE  /\ s \o t \in Seq(T) /\ Len(s \o t) = Len(s) + Len(t)
           /\ \A i \in 1 .. Len(s) : (s \o t)[i] = s[i]
           /\ \A i \in 1 .. Len(t) : (s \o t)[Len(s) + i] = t[i]
  OBVIOUS

\* As many as are asked for, all free, and none twice.
LEMMA FreeClustersFound ==
    ASSUME NEW count \in Nat, count <= Cardinality(FreeFrom(0))
    PROVE  /\ FreeClusters(count) \in Seq(0 .. TableLast)
           /\ Len(FreeClusters(count)) = count
           /\ \A i \in 1 .. count : FreeClusters(count)[i] \in FreeFrom(0)
           /\ \A i, j \in 1 .. count : i < j => FreeClusters(count)[i] < FreeClusters(count)[j]
<1> DEFINE g == FreeClusters(count)
           Lowest(from) == CHOOSE c \in FreeFrom(from) : \A d \in FreeFrom(from) : c <= d
           Right(i) == /\ g[i] \in FreeFrom(0)
                       /\ Cardinality(FreeFrom(g[i] + 1)) = Cardinality(FreeFrom(0)) - i
                       /\ \A j \in 1 .. i - 1 : g[j] < g[i]
           Good == {n \in Nat : \A i \in 1 .. count : i <= n => Right(i)}
<1>1. g = [i \in 1 .. count |-> Lowest(IF i = 1 THEN 0 ELSE g[i - 1] + 1)]
  BY FreeClustersRule
<1>2. \A from \in Nat : FreeFrom(from) \subseteq FreeFrom(0)
                        /\ FreeFrom(from) \subseteq from .. TableLast
  BY VolumeAssumption DEF FreeFrom
<1>3. \A from \in Nat : FreeFrom(from) # {} =>
         /\ Lowest(from) \in FreeFrom(from)
         /\ Cardinality(FreeFrom(Lowest(from) + 1)) = Cardinality(FreeFrom(from)) - 1
  BY LowestFree
<1>4. \A from \in Nat : FreeFrom(from) = {} => Cardinality(FreeFrom(from)) = 0
  BY FS_EmptySet
<1>5. Cardinality(FreeFrom(0)) \in Nat
  <2>1. IsFiniteSet(0 .. TableLast)
    BY FS_Interval, VolumeAssumption
  <2>2. FreeFrom(0) \in SUBSET (0 .. TableLast)
    BY VolumeAssumption DEF FreeFrom
  <2> QED
    BY <2>1, <2>2, FS_Subset, FS_CardinalityType
<1> HIDE DEF g, Lowest
<1>6. \A i \in 1 .. count : g[i] = Lowest(IF i = 1 THEN 0 ELSE g[i - 1] + 1)
  BY <1>1
<1>7. 0 \in Good
  OBVIOUS
<1>8. ASSUME NEW n \in Nat, n \in Good PROVE n + 1 \in Good
  <2> SUFFICES ASSUME n + 1 \in 1 .. count PROVE Right(n + 1)
    BY <1>8
  <2> DEFINE from == IF n + 1 = 1 THEN 0 ELSE g[n] + 1
  <2>1. /\ from \in Nat
        /\ Cardinality(FreeFrom(from)) = Cardinality(FreeFrom(0)) - n
        /\ \A j \in 1 .. n : g[j] < from
    <3>1. CASE n = 0
      BY <3>1, <1>5
    <3>2. CASE n # 0
      <4>1. n \in 1 .. count /\ Right(n)
        BY <1>8, <3>2
      <4>2. g[n] \in Nat /\ from = g[n] + 1
        BY <3>2, <4>1, <1>2
      <4>3. ASSUME NEW j \in 1 .. n PROVE g[j] < g[n] + 1
        <5>1. CASE j = n
          BY <4>2, <5>1
        <5>2. CASE j # n
          <6>1. j \in 1 .. n - 1 /\ j \in 1 .. count /\ j <= n
            BY <4>1, <5>2
          <6>2. Right(j)
            BY <1>8, <6>1
          <6>3. g[j] \in Nat /\ g[j] < g[n]
            BY <4>1, <6>1, <6>2, <1>2
          <6> QED
            BY <4>2, <6>3
        <5> QED
          BY <5>1, <5>2
      <4> QED
        BY <4>1, <4>2, <4>3
    <3> QED
      BY <3>1, <3>2
  <2>2. g[n + 1] = Lowest(from)
    BY <1>6
  <2>3. FreeFrom(from) # {}
    BY <1>4, <1>5, <2>1
  <2>4. /\ g[n + 1] \in FreeFrom(from)
        /\ Cardinality(FreeFrom(g[n + 1] + 1)) = Cardinality(FreeFrom(from)) - 1
    BY <1>3, <2>1, <2>2, <2>3
  <2>5. g[n + 1] \in FreeFrom(0) /\ g[n + 1] \in Nat /\ from <= g[n + 1]
    BY <1>2, <2>1, <2>4
  <2>6. ASSUME NEW j \in 1 .. n PROVE g[j] < g[n + 1]
    <3>1. j \in 1 .. count /\ j <= n
      OBVIOUS
    <3>2. Right(j)
      BY <1>8, <3>1
    <3>3. g[j] \in Nat
      BY <3>2, <1>2
    <3> QED
      BY <2>1, <2>5, <3>3
  <2> QED
    BY <1>5, <2>1, <2>4, <2>5, <2>6
<1>9. Nat \subseteq Good
  <2> HIDE DEF Good
  <2> QED
    BY <1>7, <1>8, SetInduction
<1>10. \A i \in 1 .. count : Right(i)
  BY <1>9
<1>11. g \in [1 .. count -> FreeFrom(0)]
  BY <1>1, <1>10
<1>12. FreeFrom(0) \subseteq 0 .. TableLast
  BY DEF FreeFrom
<1>13. g \in Seq(0 .. TableLast) /\ Len(g) = count
  <2>1. g \in [1 .. count -> 0 .. TableLast]
    BY <1>11, <1>12
  <2> QED
    BY <2>1, FunctionIsSeq
<1> QED
  BY <1>10, <1>11, <1>13 DEF g

LEMMA FirstFreeCluster ==
    ASSUME NEW count \in Nat \ {0}
    PROVE  FreeClusters(count)[1] = FreeClusters(1)[1]
<1> DEFINE Lowest(from) == CHOOSE c \in FreeFrom(from) : \A d \in FreeFrom(from) : c <= d
<1>1. ASSUME NEW n \in Nat \ {0} PROVE FreeClusters(n)[1] = Lowest(0)
  <2>1. FreeClusters(n) = [i \in 1 .. n |->
                             Lowest(IF i = 1 THEN 0 ELSE FreeClusters(n)[i - 1] + 1)]
    BY FreeClustersRule
  <2> HIDE DEF Lowest
  <2>2. 1 \in 1 .. n
    OBVIOUS
  <2> QED
    BY <2>1, <2>2
<1> HIDE DEF Lowest
<1> QED
  BY <1>1

LEMMA ClustersType ==
    ASSUME NEW size \in Nat
    PROVE  Clusters(size) \in Nat
<1>1. size + ClusterSize - 1 \in Nat
  BY VolumeAssumption
<1> QED
  BY <1>1, VolumeAssumption DEF Clusters

\* A larger file has no fewer clusters, and only an empty one has none.
LEMMA ClustersGrow ==
    ASSUME NEW m \in Nat, NEW n \in Nat, m <= n
    PROVE  Clusters(m) <= Clusters(n)
<1> DEFINE a == m + ClusterSize - 1
           b == n + ClusterSize - 1
<1>1. a \in Nat /\ b \in Nat /\ a <= b
  BY VolumeAssumption
<1> HIDE DEF a, b
<1>2. /\ a \div ClusterSize \in Nat /\ b \div ClusterSize \in Nat
      /\ ClusterSize * (a \div ClusterSize) <= a
      /\ b < ClusterSize * (b \div ClusterSize) + ClusterSize
  BY <1>1, VolumeAssumption
<1>3. \A x, y \in Nat : ClusterSize * x < ClusterSize * y + ClusterSize => x <= y
  <2> SUFFICES ASSUME NEW x \in Nat, NEW y \in Nat, y + 1 <= x
               PROVE  ClusterSize * y + ClusterSize <= ClusterSize * x
    BY VolumeAssumption
  <2>1. PICK d \in Nat : x = y + 1 + d
    <3>1. x - (y + 1) \in Nat
      OBVIOUS
    <3> QED
      BY <3>1
  <2>2. ClusterSize * x = ClusterSize * y + ClusterSize + ClusterSize * d
    BY <2>1, VolumeAssumption
  <2>3. ClusterSize * d \in Nat
    BY VolumeAssumption
  <2> QED
    BY <2>2, <2>3, VolumeAssumption
<1>4. ClusterSize * (a \div ClusterSize) < ClusterSize * (b \div ClusterSize) + ClusterSize
  BY <1>1, <1>2, VolumeAssumption
<1>5. a \div ClusterSize <= b \div ClusterSize
  BY <1>2, <1>3, <1>4
<1> QED
  BY <1>5 DEF Clusters, a, b

LEMMA NoClusters ==
    ASSUME NEW size \in Nat
    PROVE  Clusters(size) = 0 <=> size = 0
<1>1. CASE size = 0
  <2>1. (ClusterSize - 1) \div ClusterSize = 0
    BY VolumeAssumption
  <2> QED
    BY <1>1, <2>1, VolumeAssumption DEF Clusters
<1>2. CASE size > 0
  <2>1. Clusters(1) <= Clusters(size)
    BY <1>2, ClustersGrow
  <2>2. 1 + ClusterSize - 1 = ClusterSize /\ ClusterSize \div ClusterSize = 1
    BY VolumeAssumption
  <2>3. Clusters(1) = 1
    BY <2>2 DEF Clusters
  <2> QED
    BY <1>2, <2>1, <2>3, ClustersType
<1> QED
  BY <1>1, <1>2

-----------------------------------------------------------------------------
(* Types.  The command and its step fit each other, and a file that is     *)
(* written has units left.                                                 *)

Extending == {"write", "walk", "link", "setentry", "data"}

OpFields == {"path", "host", "pos", "first", "size", "clusters", "cursor", "grow", "old"}

OpType ==
    /\ op = [x \in OpFields |-> op[x]]
    /\ op.path \in Paths \cup {Nobody}
    /\ op.host \in Hosts \cup {<<>>, Absent}
    /\ op.pos \in Nat /\ op.size \in Nat /\ op.grow \in Nat
    /\ op.first \in 0 .. TableLast
    /\ op.cursor \in 0 .. BeyondLast
    /\ op.clusters \in Seq(0 .. TableLast)
    /\ kept = [f \in Files |-> kept[f]]
    /\ crashed \in BOOLEAN

OpOK ==
    /\ pc = "idle" => op = NoOp
    /\ pc # "idle" => op.path \in Paths
    /\ pc \in Extending \cup {"overrun"} => session = "insert"
    /\ pc = "free" => session = "remove"
    /\ pc = "overrun" <=> outcome = "overrun"
    /\ pc \in Extending /\ op.path \in Files =>
          /\ op.host \in Hosts
          /\ IF pc = "write" THEN op.pos <= Len(op.host) ELSE op.pos < Len(op.host)
    /\ pc = "data" => op.path \in Files
    /\ pc \in {"walk", "link"} <=> op.clusters # <<>>

TypeInv == TypeOK /\ OpType /\ OpOK

LEMMA HostUnits ==
    ASSUME NEW host \in Hosts
    PROVE  /\ host \in Seq(Units)
           /\ Len(host) \in Nat
           /\ \A i \in 1 .. Len(host) : host[i] \in Units
  BY CommandAssumption

LEMMA InitTypeInv == Init => TypeInv
<1> SUFFICES ASSUME Init PROVE TypeInv
  OBVIOUS
<1> USE DEF Init
<1>1. EmptyFAT \in [0 .. TableLast -> Value]
  BY VolumeAssumption DEF EmptyFAT, Value, Reserved, EOC
<1>2. Zero \in Units
  BY DEF Units
<1>3. Cardinality(FreeOnVolume(EmptyFAT)) \in 0 .. CountMod - 1
  <2>1. IsFiniteSet(2 .. VolumeLast) /\ Cardinality(2 .. VolumeLast) = VolumeLast - 1
    BY FS_Interval, VolumeAssumption
  <2>2. FreeOnVolume(EmptyFAT) \in SUBSET (2 .. VolumeLast)
    BY DEF FreeOnVolume
  <2>3. IsFiniteSet(FreeOnVolume(EmptyFAT)) /\ Cardinality(FreeOnVolume(EmptyFAT)) <= VolumeLast - 1
    BY <2>1, <2>2, FS_Subset
  <2>4. Cardinality(FreeOnVolume(EmptyFAT)) \in Nat
    BY <2>3, FS_CardinalityType
  <2> QED
    BY <2>3, <2>4, VolumeAssumption
<1>4. TypeOK
  BY <1>1, <1>2, <1>3, VolumeAssumption
  DEF TypeOK, NoEntry, NoOp, EmptyFAT, Reserved, EOC, BeyondLast
<1>5. OpType
  <2>1. kept = [f \in Files |-> kept[f]] /\ crashed \in BOOLEAN /\ op = NoOp
    OBVIOUS
  <2> QED
    BY ONLY <2>1, VolumeAssumption DEF OpType, NoOp, OpFields, EOC, Reserved, BeyondLast
<1>6. OpOK
  BY DEF OpOK, NoOp, Extending
<1> QED
  BY <1>4, <1>5, <1>6 DEF TypeInv

\* What the steps read and write of the table.
LEMMA TableTypes ==
    ASSUME TypeInv
    PROVE  /\ \A c \in 0 .. BeyondLast : ReadFAT(fat, c) \in 0 .. BeyondLast
           /\ \A c \in 0 .. BeyondLast, v \in Value : Written(c, v) \in [0 .. TableLast -> Value]
           /\ Save => stable' \in [0 .. TableLast -> Value]
           /\ 0 .. TableLast \subseteq Value
           /\ ChainEnd \in Value
           /\ 0 .. EOC \subseteq 0 .. BeyondLast
<1>1. /\ TableLast \in Nat /\ Value = 0 .. TableLast + 2
      /\ EOC = TableLast + 2 /\ BeyondLast = TableLast + 3
  BY VolumeAssumption DEF Value, EOC, Reserved, BeyondLast
<1>2. fat \in [0 .. TableLast -> Value] /\ stable \in [0 .. TableLast -> Value]
  BY DEF TypeInv, TypeOK
<1>3. \A c \in 0 .. BeyondLast : ReadFAT(fat, c) \in 0 .. BeyondLast
  BY <1>1, <1>2 DEF ReadFAT
<1>4. \A c \in 0 .. BeyondLast, v \in Value : Written(c, v) \in [0 .. TableLast -> Value]
  BY <1>2 DEF Written
<1>5. Save => stable' \in [0 .. TableLast -> Value]
  BY <1>2 DEF Save
<1>6. 0 .. TableLast \subseteq Value /\ ChainEnd \in Value /\ 0 .. EOC \subseteq 0 .. BeyondLast
  BY <1>1 DEF ChainEnd
<1> QED
  BY <1>3, <1>4, <1>5, <1>6

\* A command that ends leaves no operation behind.
LEMMA FinishType ==
    ASSUME TypeInv, NEW result, result \in {"none", "ok", "error"}, Finish(result),
           UNCHANGED <<fat, entry, data, freeCount, fsInfo, session, crashed, kept>>,
           stable' \in [0 .. TableLast -> Value]
    PROVE  TypeInv'
<1>1. OpType'
  BY VolumeAssumption DEF OpType, Finish, TypeInv, NoOp, OpFields, EOC, Reserved, BeyondLast
<1>2. OpOK'
  BY DEF OpOK, Finish, NoOp, Extending
<1>3. TypeOK'
  <2>1. NoOp.path = Nobody /\ NoOp.first = 0 /\ NoOp.cursor = 0 /\ NoOp.clusters = <<>>
    BY DEF NoOp
  <2> QED
    BY <2>1, VolumeAssumption
    DEF TypeInv, TypeOK, Finish, EOC, Reserved, BeyondLast
<1> QED
  BY <1>1, <1>2, <1>3 DEF TypeInv

LEMMA SessionType ==
    ASSUME TypeInv,
           \/ \E command \in {"insert", "remove"} : Open(command)
           \/ CloseInfo \/ CloseTable \/ Crash
    PROVE  TypeInv'
<1>1. ASSUME NEW command \in {"insert", "remove"}, Open(command) PROVE TypeInv'
  BY <1>1 DEF TypeInv, TypeOK, OpType, OpOK, Open, disks, Extending, NoOp
<1>2. CASE CloseInfo
  BY <1>2 DEF TypeInv, TypeOK, OpType, OpOK, CloseInfo, disks, Extending, NoOp
<1>3. CASE CloseTable
  BY <1>3 DEF TypeInv, TypeOK, OpType, OpOK, CloseTable, disks, Extending, NoOp
<1>4. CASE Crash
  <2>1. OpType'
    BY <1>4, VolumeAssumption
    DEF OpType, Crash, TypeInv, disks, NoOp, OpFields, EOC, Reserved, BeyondLast
  <2>2. OpOK'
    BY <1>4 DEF TypeInv, OpOK, Crash, NoOp, Extending
  <2>3. TypeOK'
    <3>1. NoOp.path = Nobody /\ NoOp.first = 0 /\ NoOp.cursor = 0 /\ NoOp.clusters = <<>>
      BY DEF NoOp
    <3> QED
      BY <1>4, <3>1, VolumeAssumption
      DEF TypeInv, TypeOK, Crash, disks, EOC, Reserved, BeyondLast
  <2> QED
    BY <2>1, <2>2, <2>3 DEF TypeInv
<1> QED
  BY <1>1, <1>2, <1>3, <1>4

LEMMA NewEntry ==
    LET new == [NoEntry EXCEPT !.live = TRUE]
    IN  /\ new.live /\ new.first = 0 /\ new.size = 0
        /\ new \in [live : BOOLEAN, first : 0 .. TableLast, size : Nat]
<1>1. 0 \in 0 .. TableLast
  BY VolumeAssumption
<1>2. NoEntry \in [live : BOOLEAN, first : 0 .. TableLast, size : Nat]
  BY <1>1 DEF NoEntry
<1>3. [NoEntry EXCEPT !.live = TRUE] \in [live : BOOLEAN, first : 0 .. TableLast, size : Nat]
  BY <1>2
<1>4. /\ [NoEntry EXCEPT !.live = TRUE].live
      /\ [NoEntry EXCEPT !.live = TRUE].first = NoEntry.first
      /\ [NoEntry EXCEPT !.live = TRUE].size = NoEntry.size
  BY <1>2
<1>5. NoEntry.first = 0 /\ NoEntry.size = 0
  BY DEF NoEntry
<1> QED
  BY <1>3, <1>4, <1>5

LEMMA BeginInsertType ==
    ASSUME TypeInv, NEW f \in Files, NEW host \in Hosts, BeginInsert(f, host)
    PROVE  TypeInv'
<1>1. f \in Paths /\ Len(host) \in Nat
  BY HostUnits DEF Paths
<1>2. entry' \in [Paths -> [live : BOOLEAN, first : 0 .. TableLast, size : Nat]]
  <2>1. [NoEntry EXCEPT !.live = TRUE] \in [live : BOOLEAN, first : 0 .. TableLast, size : Nat]
    BY NewEntry
  <2> QED
    BY <2>1, <1>1 DEF BeginInsert, TypeInv, TypeOK
<1>3. /\ op'.path = f /\ op'.host = host /\ op'.pos = 0 /\ op'.first = entry'[f].first
      /\ op'.size = entry'[f].size /\ op'.clusters = <<>> /\ op'.cursor = 0 /\ op'.grow = 0
      /\ op' = [x \in OpFields |-> op'[x]]
  <2>1. NoOp = [x \in OpFields |-> NoOp[x]]
    BY DEF NoOp, OpFields
  <2>2. NoOp.pos = 0 /\ NoOp.clusters = <<>> /\ NoOp.cursor = 0 /\ NoOp.grow = 0
    BY DEF NoOp
  <2>3. op' = [NoOp EXCEPT !.path = f, !.host = host, !.first = entry'[f].first,
                           !.size = entry'[f].size, !.old = Extracted(fat, entry', data, f)]
    BY DEF BeginInsert
  <2> QED
    BY ONLY <2>1, <2>2, <2>3 DEF OpFields
<1>4. entry'[f].first \in 0 .. TableLast /\ entry'[f].size \in Nat
  BY <1>1, <1>2
<1>5. 0 \in 0 .. BeyondLast
  BY VolumeAssumption DEF EOC, Reserved, BeyondLast
<1>6. OpType'
  <2>1. crashed' \in BOOLEAN /\ kept' = [g \in Files |-> kept'[g]]
    BY DEF BeginInsert, TypeInv, OpType
  <2> QED
    BY <1>1, <1>3, <1>4, <1>5, <2>1 DEF OpType
<1>7. OpOK'
  BY <1>1, <1>3 DEF OpOK, Extending, BeginInsert
<1>8. TypeOK'
  BY <1>1, <1>2, <1>3, <1>4, <1>5 DEF TypeInv, TypeOK, BeginInsert
<1> QED
  BY <1>6, <1>7, <1>8 DEF TypeInv

LEMMA BeginDirectoryType ==
    ASSUME TypeInv, NEW d \in Dirs, NEW size \in DirSizes, BeginDirectory(d, size)
    PROVE  TypeInv'
<1>1. d \in Paths /\ d \notin Files /\ size \in Nat
  BY CommandAssumption DEF Paths
<1>2. entry' \in [Paths -> [live : BOOLEAN, first : 0 .. TableLast, size : Nat]]
  <2>1. [NoEntry EXCEPT !.live = TRUE] \in [live : BOOLEAN, first : 0 .. TableLast, size : Nat]
    BY NewEntry
  <2> QED
    BY <2>1, <1>1 DEF BeginDirectory, TypeInv, TypeOK
<1>3. /\ op'.path = d /\ op'.host = <<>> /\ op'.pos = 1 /\ op'.first = 0 /\ op'.size = 0
      /\ op'.clusters = <<>> /\ op'.cursor = 0 /\ op'.grow = size
      /\ op' = [x \in OpFields |-> op'[x]]
  BY DEF BeginDirectory, NoOp, OpFields
<1>4. 0 \in 0 .. BeyondLast /\ 0 \in 0 .. TableLast
  BY VolumeAssumption DEF EOC, Reserved, BeyondLast
<1>5. OpType'
  <2>1. crashed' \in BOOLEAN /\ kept' = [g \in Files |-> kept'[g]]
    BY DEF BeginDirectory, TypeInv, OpType
  <2> QED
    BY <1>1, <1>3, <1>4, <2>1 DEF OpType
<1>6. OpOK'
  BY <1>1, <1>3 DEF TypeInv, OpOK, Extending, BeginDirectory
<1>7. TypeOK'
  BY <1>1, <1>2, <1>3, <1>4 DEF TypeInv, TypeOK, BeginDirectory
<1> QED
  BY <1>5, <1>6, <1>7 DEF TypeInv

LEMMA BeginRemoveType ==
    ASSUME TypeInv, NEW f \in Paths, BeginRemove(f)
    PROVE  TypeInv'
<1>1. entry[f].first \in 0 .. BeyondLast /\ 0 \in 0 .. TableLast
  BY VolumeAssumption DEF TypeInv, TypeOK, EOC, Reserved, BeyondLast
<1>2. /\ op'.path = f /\ op'.host = Absent /\ op'.pos = 0 /\ op'.first = 0 /\ op'.size = 0
      /\ op'.clusters = <<>> /\ op'.cursor = entry[f].first /\ op'.grow = 0
      /\ op' = [x \in OpFields |-> op'[x]]
  BY DEF BeginRemove, NoOp, OpFields
<1>3. OpType'
  <2>1. crashed' \in BOOLEAN /\ kept' = [g \in Files |-> kept'[g]]
    BY DEF BeginRemove, TypeInv, OpType
  <2> QED
    BY <1>1, <1>2, <2>1 DEF OpType
<1>4. OpOK'
  BY <1>2 DEF TypeInv, OpOK, Extending, BeginRemove
<1>5. TypeOK'
  BY <1>1, <1>2 DEF TypeInv, TypeOK, BeginRemove, disks
<1> QED
  BY <1>3, <1>4, <1>5 DEF TypeInv

\* A step writes for a path, and there is a next unit of the file.
LEMMA TargetType ==
    ASSUME TypeInv, pc \in Extending
    PROVE  /\ op.path \in Paths
           /\ op.path \in Files <=> ~IsDirectory
           /\ op.path \in Files => op.host \in Hosts /\ Len(op.host) \in Nat
           /\ Target \in Nat
<1>1. op.path \in Paths /\ (op.path \in Files => op.host \in Hosts) /\ op.pos \in Nat
  BY DEF TypeInv, OpOK, OpType, Extending
<1>2. op.path \in Files <=> ~IsDirectory
  BY <1>1, CommandAssumption DEF Paths, IsDirectory
<1> QED
  BY <1>1, <1>2, HostUnits DEF Target

LEMMA EndType ==
    ASSUME TypeInv, InsertDone \/ ReserveFails \/ Unname
    PROVE  TypeInv'
<1>1. CASE InsertDone
  <2>1. stable' \in [0 .. TableLast -> Value]
    BY <1>1, TableTypes DEF InsertDone
  <2> QED
    BY <1>1, <2>1, FinishType DEF InsertDone
<1>2. CASE ReserveFails
  <2>1. stable' \in [0 .. TableLast -> Value]
    BY <1>2, TableTypes DEF ReserveFails
  <2>2. (IF IsDirectory THEN outcome ELSE "error") \in {"none", "ok", "error"}
    BY <1>2 DEF ReserveFails, TableFull, TypeInv, TypeOK, OpOK
  <2> QED
    BY <1>2, <2>1, <2>2, FinishType DEF ReserveFails
<1>3. CASE Unname
  <2> USE <1>3 DEF Unname
  <2>1. entry' \in [Paths -> [live : BOOLEAN, first : 0 .. TableLast, size : Nat]]
    <3>1. op.path \in Paths
      BY DEF TypeInv, OpOK
    <3> QED
      BY <3>1 DEF TypeInv, TypeOK
  <2>2. outcome' \in {"none", "ok", "error"} /\ op' = NoOp /\ pc' = "idle"
    BY DEF TypeInv, TypeOK, OpOK, Finish
  <2>3. OpType'
    BY <2>2, VolumeAssumption DEF OpType, TypeInv, NoOp, OpFields, EOC, Reserved, BeyondLast
  <2>4. OpOK'
    BY <2>2 DEF OpOK, NoOp, Extending
  <2>5. NoOp.path = Nobody /\ NoOp.first = 0 /\ NoOp.cursor = 0 /\ NoOp.clusters = <<>>
    BY DEF NoOp
  <2>6. 0 \in 0 .. BeyondLast /\ 0 \in 0 .. TableLast
    BY VolumeAssumption DEF EOC, Reserved, BeyondLast
  <2>7. TypeOK'
    BY <2>1, <2>2, <2>5, <2>6 DEF TypeInv, TypeOK
  <2> QED
    BY <2>3, <2>4, <2>7 DEF TypeInv
<1> QED
  BY <1>1, <1>2, <1>3

\* A search that leaves the table leaves the command as it is.
LEMMA OverrunType ==
    ASSUME TypeInv, Overrun
    PROVE  TypeInv'
<1>1. /\ pc = "write" /\ pc' = "overrun" /\ outcome' = "overrun" /\ op' = op
      /\ UNCHANGED <<fat, entry, data, freeCount, fsInfo, session, crashed, kept>>
  BY DEF Overrun, TableFull
<1>2. stable' \in [0 .. TableLast -> Value]
  BY TableTypes DEF Overrun
<1>3. OpOK'
  BY <1>1 DEF TypeInv, OpOK, Extending
<1>4. OpType'
  BY <1>1 DEF TypeInv, OpType
<1>5. TypeOK'
  BY <1>1, <1>2 DEF TypeInv, TypeOK
<1> QED
  BY <1>3, <1>4, <1>5 DEF TypeInv

LEMMA OverwriteType ==
    ASSUME TypeInv, Overwrite
    PROVE  TypeInv'
<1>1. pc = "write" /\ pc' = "data" /\ op' = op /\ ~IsDirectory /\ op.pos # Len(op.host)
      /\ UNCHANGED <<fat, disks, freeCount, session, outcome, crashed, kept>>
  BY DEF Overwrite, EndOfHost
<1>2. op.path \in Files /\ op.host \in Hosts /\ Len(op.host) \in Nat
  BY <1>1, TargetType DEF Extending
<1>3. OpOK'
  BY <1>1, <1>2 DEF TypeInv, OpType, OpOK, Extending
<1> QED
  BY <1>1, <1>3 DEF TypeInv, TypeOK, OpType, disks

\* How many clusters FAT_ReserveSpace asks for.
LEMMA NeededType ==
    ASSUME TypeInv, pc = "write", Target > op.size
    PROVE  /\ NeededClusters \in Nat
           /\ Clusters(Target) = Clusters(op.size) + NeededClusters
           /\ Clusters(op.size) \in Nat
           /\ op.size = 0 => NeededClusters # 0
<1>1. Target \in Nat /\ op.size \in Nat
  BY TargetType DEF TypeInv, OpType, Extending
<1>2. Clusters(Target) \in Nat /\ Clusters(op.size) \in Nat
      /\ Clusters(op.size) <= Clusters(Target)
  BY <1>1, ClustersType, ClustersGrow
<1>3. op.size = 0 => Clusters(op.size) = 0 /\ Clusters(Target) # 0
  BY <1>1, NoClusters
<1> QED
  BY <1>2, <1>3 DEF NeededClusters

LEMMA ReserveType ==
    ASSUME TypeInv, Reserve
    PROVE  TypeInv'
<1> USE DEF Reserve
<1> DEFINE n == NeededClusters
<1>1. n \in Nat
  BY NeededType
<1>2. n <= Cardinality(FreeFrom(0)) /\ FreeFrom(0) \subseteq 0 .. TableLast
  BY DEF FreeFrom
<1>3. FreeClusters(n) \in Seq(0 .. TableLast) /\ Len(FreeClusters(n)) = n
      /\ (n # 0 => FreeClusters(n)[1] \in 0 .. TableLast)
  BY <1>1, <1>2, FreeClustersFound
<1>4. n # 0 => FreeClusters(1)[1] \in 0 .. TableLast
  BY <1>1, <1>3, FirstFreeCluster
<1>5. FreeClusters(n) # <<>> <=> n # 0
  BY <1>3
<1>6. op.path \in Files => op.host \in Hosts /\ Len(op.host) \in Nat
                           /\ op.pos \in Nat /\ op.pos < Len(op.host)
  <2>1. op.path \in Files => op.pos <= Len(op.host) /\ op.pos # Len(op.host) /\ op.pos \in Nat
    BY TargetType DEF TypeInv, OpOK, OpType, Extending, EndOfHost
  <2> QED
    BY <2>1, TargetType DEF Extending
<1> HIDE DEF n
<1>7. op.first \in 0 .. TableLast /\ op.first \in 0 .. BeyondLast
  BY VolumeAssumption DEF TypeInv, OpType, EOC, Reserved, BeyondLast
<1>8. /\ op' = [op EXCEPT !.clusters = FreeClusters(n),
                          !.first = IF n > 0 /\ op.first = 0 THEN FreeClusters(1)[1]
                                    ELSE op.first,
                          !.cursor = op.first]
      /\ pc' = IF n = 0 THEN "setentry" ELSE IF op.first = 0 THEN "link" ELSE "walk"
  BY DEF n
<1>9. /\ op'.path = op.path /\ op'.host = op.host /\ op'.pos = op.pos /\ op'.size = op.size
      /\ op'.grow = op.grow /\ op'.clusters = FreeClusters(n) /\ op'.cursor = op.first
      /\ op'.first \in 0 .. TableLast
      /\ op' = [x \in OpFields |-> op'[x]]
  <2>1. op = [x \in OpFields |-> op[x]]
    BY DEF TypeInv, OpType
  <2>2. op' = [op EXCEPT !.clusters = FreeClusters(n),
                         !.first = IF n > 0 /\ op.first = 0 THEN FreeClusters(1)[1]
                                   ELSE op.first,
                         !.cursor = op.first]
    BY <1>8
  <2>3. op'.first = IF n > 0 /\ op.first = 0 THEN FreeClusters(1)[1] ELSE op.first
    BY ONLY <2>1, <2>2 DEF OpFields
  <2>4. op'.first \in 0 .. TableLast
    BY <1>1, <1>4, <1>7, <2>3
  <2> QED
    BY ONLY <2>1, <2>2, <2>4 DEF OpFields
<1>10. OpType'
  <2>1. crashed' = crashed /\ kept' = kept
    OBVIOUS
  <2> QED
    BY <1>3, <1>7, <1>9, <2>1 DEF TypeInv, OpType
<1>11. OpOK'
  <2>1. session' = session /\ outcome' = outcome /\ pc = "write"
    OBVIOUS
  <2> QED
    BY ONLY TypeInv, <1>5, <1>6, <1>8, <1>9, <2>1 DEF TypeInv, OpOK, Extending
<1>12. TypeOK'
  <2>1. freeCount' \in 0 .. CountMod - 1
    <3>1. freeCount + CountMod - n \in Int
      BY <1>1, VolumeAssumption DEF TypeInv, TypeOK
    <3>2. (freeCount + CountMod - n) % CountMod \in 0 .. CountMod - 1
      BY <3>1, VolumeAssumption
    <3> QED
      BY <3>2 DEF n, TypeInv, TypeOK
  <2>2. stable' \in [0 .. TableLast -> Value]
    <3>1. stable' = stable \/ Save
      BY <1>1 DEF n
    <3> QED
      BY <3>1, TableTypes DEF TypeInv, TypeOK
  <2>3. pc' \in {"idle", "write", "walk", "link", "setentry", "data", "free"}
    BY <1>8
  <2>4. \A i \in DOMAIN op'.clusters : op'.clusters[i] \in 0 .. TableLast
    <3>1. op'.clusters \in Seq(0 .. TableLast)
      BY ONLY <1>3, <1>9
    <3> QED
      BY ONLY <3>1, SeqElements
  <2>5. /\ fat' = fat /\ entry' = entry /\ data' = data /\ fsInfo' = fsInfo
        /\ session' = session /\ outcome' = outcome
    OBVIOUS
  <2> QED
    BY ONLY TypeInv, <1>7, <1>9, <2>1, <2>2, <2>3, <2>4, <2>5 DEF TypeInv, TypeOK
<1> QED
  BY <1>10, <1>11, <1>12 DEF TypeInv

LEMMA WalkType ==
    ASSUME TypeInv, Walk \/ LinkToLast
    PROVE  TypeInv'
<1>1. op = [x \in OpFields |-> op[x]] /\ op.cursor \in 0 .. BeyondLast
  BY DEF TypeInv, OpType
<1>2. stable' \in [0 .. TableLast -> Value]
  BY TableTypes DEF Walk, LinkToLast
<1>3. CASE Walk
  <2>1. op' = [op EXCEPT !.cursor = ReadFAT(fat, op.cursor)]
    BY <1>3 DEF Walk
  <2>2. op'.cursor \in 0 .. BeyondLast
    <3>1. op'.cursor = ReadFAT(fat, op.cursor)
      BY ONLY <1>1, <2>1 DEF OpFields
    <3> QED
      BY <1>1, <3>1, TableTypes
  <2>3. /\ op'.path = op.path /\ op'.host = op.host /\ op'.pos = op.pos /\ op'.size = op.size
        /\ op'.grow = op.grow /\ op'.clusters = op.clusters /\ op'.first = op.first
        /\ op' = [x \in OpFields |-> op'[x]]
    BY ONLY <1>1, <2>1 DEF OpFields
  <2>4. UNCHANGED <<fat, entry, data, freeCount, fsInfo, session, pc, outcome, crashed, kept>>
        /\ pc = "walk"
    BY <1>3 DEF Walk
  <2>5. TypeOK'
    BY ONLY TypeInv, <1>2, <2>2, <2>3, <2>4 DEF TypeInv, TypeOK
  <2>6. OpType'
    BY ONLY TypeInv, <2>2, <2>3, <2>4 DEF TypeInv, OpType
  <2>7. OpOK'
    BY ONLY TypeInv, <2>3, <2>4 DEF TypeInv, OpOK, Extending
  <2> QED
    BY <2>5, <2>6, <2>7 DEF TypeInv
<1>4. CASE LinkToLast
  <2>1. UNCHANGED <<entry, data, freeCount, fsInfo, session, op, outcome, crashed, kept>>
        /\ pc = "walk" /\ pc' = "link"
    BY <1>4 DEF LinkToLast
  <2>2. fat' \in [0 .. TableLast -> Value]
    <3>1. op.clusters # <<>> /\ op.clusters \in Seq(0 .. TableLast)
      BY <2>1 DEF TypeInv, OpOK, OpType
    <3>2. op.clusters[1] \in 0 .. TableLast
      BY ONLY <3>1, HeadAndTail
    <3> QED
      BY <1>1, <1>4, <3>2, TableTypes DEF LinkToLast
  <2>3. TypeOK'
    BY ONLY TypeInv, <1>2, <2>1, <2>2 DEF TypeInv, TypeOK
  <2>4. OpType' /\ OpOK'
    BY ONLY TypeInv, <2>1 DEF TypeInv, OpType, OpOK, Extending
  <2> QED
    BY <2>3, <2>4 DEF TypeInv
<1> QED
  BY <1>3, <1>4

LEMMA LinkType ==
    ASSUME TypeInv, Link
    PROVE  TypeInv'
<1>1. op = [x \in OpFields |-> op[x]] /\ op.clusters \in Seq(0 .. TableLast) /\ op.clusters # <<>>
  BY DEF TypeInv, OpType, OpOK, Link
<1> DEFINE c == Head(op.clusters)
           rest == Tail(op.clusters)
<1>2. c \in 0 .. TableLast /\ rest \in Seq(0 .. TableLast)
      /\ (rest # <<>> => Head(rest) \in 0 .. TableLast)
  <2>1. c = op.clusters[1] /\ c \in 0 .. TableLast /\ rest \in Seq(0 .. TableLast)
    BY ONLY <1>1, HeadAndTail
  <2>2. rest # <<>> => Head(rest) \in 0 .. TableLast
    <3> HIDE DEF rest
    <3> QED
      BY ONLY <2>1, HeadAndTail
  <2> QED
    BY <2>1, <2>2
<1>3. /\ fat' = Written(c, IF rest = <<>> THEN ChainEnd ELSE Head(rest))
      /\ data' = IF IsDirectory /\ c \in DOMAIN data
                 THEN [data EXCEPT ![c] = [u \in 0 .. ClusterSize - 1 |-> Zero]] ELSE data
      /\ op' = [op EXCEPT !.clusters = rest, !.cursor = 0]
      /\ pc = "link" /\ pc' = IF rest = <<>> THEN "setentry" ELSE "link"
      /\ UNCHANGED <<entry, freeCount, fsInfo, session, outcome, crashed, kept>>
  BY DEF Link
<1> HIDE DEF c, rest
<1>4. fat' \in [0 .. TableLast -> Value] /\ stable' \in [0 .. TableLast -> Value]
  <2>1. (IF rest = <<>> THEN ChainEnd ELSE Head(rest)) \in Value
    BY <1>2, TableTypes
  <2>2. c \in 0 .. BeyondLast
    BY <1>2, VolumeAssumption DEF EOC, Reserved, BeyondLast
  <2> QED
    BY <1>3, <2>1, <2>2, TableTypes DEF Link
<1>5. data' \in [2 .. VolumeLast -> [0 .. ClusterSize - 1 -> Units]]
  <2>1. [u \in 0 .. ClusterSize - 1 |-> Zero] \in [0 .. ClusterSize - 1 -> Units]
    BY DEF Units
  <2> QED
    BY <1>3, <2>1 DEF TypeInv, TypeOK
<1>6. /\ op'.path = op.path /\ op'.host = op.host /\ op'.pos = op.pos /\ op'.size = op.size
      /\ op'.grow = op.grow /\ op'.clusters = rest /\ op'.cursor = 0 /\ op'.first = op.first
      /\ op' = [x \in OpFields |-> op'[x]]
  BY ONLY <1>1, <1>3 DEF OpFields
<1>7. 0 \in 0 .. BeyondLast
  BY VolumeAssumption DEF EOC, Reserved, BeyondLast
<1>8. TypeOK'
  <2>1. \A i \in DOMAIN op'.clusters : op'.clusters[i] \in 0 .. TableLast
    BY ONLY <1>2, <1>6, SeqElements
  <2> QED
    BY ONLY TypeInv, <1>3, <1>4, <1>5, <1>6, <1>7, <2>1 DEF TypeInv, TypeOK
<1>9. OpType'
  BY ONLY TypeInv, <1>2, <1>3, <1>6, <1>7 DEF TypeInv, OpType
<1>10. OpOK'
  BY ONLY TypeInv, <1>3, <1>6 DEF TypeInv, OpOK, Extending
<1> QED
  BY <1>8, <1>9, <1>10 DEF TypeInv

LEMMA SetEntryType ==
    ASSUME TypeInv, SetEntry
    PROVE  TypeInv'
<1>1. op = [x \in OpFields |-> op[x]] /\ op.grow \in Nat /\ op.first \in 0 .. TableLast
  BY DEF TypeInv, OpType
<1>2. /\ pc = "setentry" /\ op.path \in Paths /\ Target \in Nat
      /\ op.path \in Files <=> ~IsDirectory
      /\ UNCHANGED <<fat, stable, data, freeCount, fsInfo, session, outcome, crashed, kept>>
  BY TargetType DEF SetEntry, Extending
<1>3. entry' \in [Paths -> [live : BOOLEAN, first : 0 .. TableLast, size : Nat]]
  <2>1. entry' = [entry EXCEPT ![op.path].first = op.first,
                               ![op.path].size = IF IsDirectory THEN @ ELSE Target]
    BY DEF SetEntry
  <2> QED
    BY <1>1, <1>2, <2>1 DEF TypeInv, TypeOK
<1>4. 0 \in 0 .. BeyondLast
  BY VolumeAssumption DEF EOC, Reserved, BeyondLast
<1>5. CASE ~IsDirectory
  <2>1. op' = [op EXCEPT !.size = Target, !.cursor = 0] /\ pc' = "data"
    BY <1>5 DEF SetEntry
  <2>2. /\ op'.path = op.path /\ op'.host = op.host /\ op'.pos = op.pos /\ op'.size = Target
        /\ op'.grow = op.grow /\ op'.clusters = op.clusters /\ op'.cursor = 0
        /\ op'.first = op.first /\ op' = [x \in OpFields |-> op'[x]]
    BY ONLY <1>1, <2>1 DEF OpFields
  <2>3. TypeOK'
    BY ONLY TypeInv, <1>2, <1>3, <1>4, <2>1, <2>2 DEF TypeInv, TypeOK
  <2>4. OpType'
    BY ONLY TypeInv, <1>2, <1>4, <2>2 DEF TypeInv, OpType
  <2>5. OpOK'
    BY ONLY TypeInv, <1>2, <1>5, <2>1, <2>2 DEF TypeInv, OpOK, Extending
  <2> QED
    BY <2>3, <2>4, <2>5 DEF TypeInv
<1>6. CASE IsDirectory /\ op.grow > Target
  <2>1. op' = [op EXCEPT !.size = Target, !.pos = op.grow, !.cursor = 0] /\ pc' = "write"
    BY <1>6 DEF SetEntry
  <2>2. /\ op'.path = op.path /\ op'.host = op.host /\ op'.pos = op.grow /\ op'.size = Target
        /\ op'.grow = op.grow /\ op'.clusters = op.clusters /\ op'.cursor = 0
        /\ op'.first = op.first /\ op' = [x \in OpFields |-> op'[x]]
    BY ONLY <1>1, <2>1 DEF OpFields
  <2>3. TypeOK'
    BY ONLY TypeInv, <1>2, <1>3, <1>4, <2>1, <2>2 DEF TypeInv, TypeOK
  <2>4. OpType'
    BY ONLY TypeInv, <1>1, <1>2, <1>4, <2>2 DEF TypeInv, OpType
  <2>5. OpOK'
    BY ONLY TypeInv, <1>2, <1>6, <2>1, <2>2 DEF TypeInv, OpOK, Extending
  <2> QED
    BY <2>3, <2>4, <2>5 DEF TypeInv
<1>7. CASE IsDirectory /\ ~(op.grow > Target)
  <2>1. op' = NoOp /\ pc' = "idle"
    BY <1>7 DEF SetEntry
  <2>2. OpType'
    <3>1. kept' = [f \in Files |-> kept'[f]] /\ crashed' \in BOOLEAN
      BY <1>2 DEF TypeInv, OpType
    <3> QED
      BY ONLY <2>1, <3>1, VolumeAssumption
      DEF OpType, NoOp, OpFields, EOC, Reserved, BeyondLast
  <2>3. OpOK'
    BY ONLY TypeInv, <1>2, <2>1 DEF TypeInv, OpOK, NoOp, Extending
  <2>4. NoOp.path = Nobody /\ NoOp.first = 0 /\ NoOp.cursor = 0 /\ NoOp.clusters = <<>>
    BY DEF NoOp
  <2>5. TypeOK'
    BY ONLY TypeInv, <1>2, <1>3, <1>4, <2>1, <2>4, VolumeAssumption DEF TypeInv, TypeOK
  <2> QED
    BY <2>2, <2>3, <2>5 DEF TypeInv
<1> QED
  BY <1>5, <1>6, <1>7

LEMMA WriteDataType ==
    ASSUME TypeInv, WriteData
    PROVE  TypeInv'
<1>1. op = [x \in OpFields |-> op[x]] /\ op.pos \in Nat
  BY DEF TypeInv, OpType
<1>2. /\ pc = "data" /\ op.path \in Files /\ op.path \in Paths
      /\ op.host \in Hosts /\ op.pos < Len(op.host) /\ Len(op.host) \in Nat
      /\ UNCHANGED <<fat, entry, freeCount, fsInfo, session, crashed, kept>>
  BY TargetType DEF WriteData, TypeInv, OpOK, Extending
<1>3. stable' \in [0 .. TableLast -> Value]
  BY TableTypes DEF WriteData
<1> DEFINE c == ClusterOf(fat, op.first, op.pos)
<1>4. CASE c # 0
  <2>1. /\ data' = [data EXCEPT ![c][op.pos % ClusterSize] = op.host[op.pos + 1]]
        /\ op' = [op EXCEPT !.pos = @ + 1]
        /\ pc' = "write" /\ UNCHANGED outcome
    BY <1>4 DEF WriteData
  <2>2. c \in 2 .. VolumeLast
    BY <1>4 DEF ClusterOf
  <2>3. op.pos % ClusterSize \in 0 .. ClusterSize - 1
    BY <1>1, VolumeAssumption
  <2>4. op.host[op.pos + 1] \in Units
    BY <1>1, <1>2, HostUnits
  <2> HIDE DEF c
  <2>5. data' \in [2 .. VolumeLast -> [0 .. ClusterSize - 1 -> Units]]
    BY <2>1, <2>2, <2>3, <2>4 DEF TypeInv, TypeOK
  <2>6. /\ op'.path = op.path /\ op'.host = op.host /\ op'.pos = op.pos + 1
        /\ op'.size = op.size /\ op'.grow = op.grow /\ op'.clusters = op.clusters
        /\ op'.cursor = op.cursor /\ op'.first = op.first
        /\ op' = [x \in OpFields |-> op'[x]]
    BY ONLY <1>1, <2>1 DEF OpFields
  <2>7. TypeOK'
    BY ONLY TypeInv, <1>2, <1>3, <2>1, <2>5, <2>6 DEF TypeInv, TypeOK
  <2>8. OpType'
    BY ONLY TypeInv, <1>1, <1>2, <2>6 DEF TypeInv, OpType
  <2>9. OpOK'
    BY ONLY TypeInv, <1>1, <1>2, <2>1, <2>6 DEF TypeInv, OpOK, Extending
  <2> QED
    BY <2>7, <2>8, <2>9 DEF TypeInv
<1>5. CASE c = 0
  <2>1. Finish("error") /\ data' = data
    BY <1>5 DEF WriteData
  <2> QED
    BY <1>2, <1>3, <2>1, FinishType
<1> QED
  BY <1>4, <1>5

LEMMA FreeType ==
    ASSUME TypeInv, Free
    PROVE  TypeInv'
<1>1. op = [x \in OpFields |-> op[x]] /\ op.cursor \in 0 .. BeyondLast
  BY DEF TypeInv, OpType
<1>2. /\ fat' = Written(op.cursor, 0)
      /\ op' = [op EXCEPT !.cursor = ReadFAT(fat, op.cursor)]
      /\ UNCHANGED <<entry, data, fsInfo, session, pc, outcome, crashed, kept>>
      /\ pc = "free"
  BY DEF Free
<1>3. fat' \in [0 .. TableLast -> Value] /\ stable' \in [0 .. TableLast -> Value]
  <2>1. 0 \in Value
    BY TableTypes, VolumeAssumption
  <2> QED
    BY <1>1, <1>2, <2>1, TableTypes DEF Free
<1>4. freeCount' \in 0 .. CountMod - 1
  <2>1. freeCount + 1 \in Int
    BY VolumeAssumption DEF TypeInv, TypeOK
  <2>2. (freeCount + 1) % CountMod \in 0 .. CountMod - 1
    BY <2>1, VolumeAssumption
  <2> QED
    BY <2>2 DEF Free, TypeInv, TypeOK
<1>5. /\ op'.path = op.path /\ op'.host = op.host /\ op'.pos = op.pos /\ op'.size = op.size
      /\ op'.grow = op.grow /\ op'.clusters = op.clusters /\ op'.first = op.first
      /\ op'.cursor = ReadFAT(fat, op.cursor) /\ op' = [x \in OpFields |-> op'[x]]
  BY ONLY <1>1, <1>2 DEF OpFields
<1>6. op'.cursor \in 0 .. BeyondLast
  BY <1>1, <1>5, TableTypes
<1>7. TypeOK'
  BY ONLY TypeInv, <1>2, <1>3, <1>4, <1>5, <1>6 DEF TypeInv, TypeOK
<1>8. OpType'
  BY ONLY TypeInv, <1>2, <1>5, <1>6 DEF TypeInv, OpType
<1>9. OpOK'
  BY ONLY TypeInv, <1>2, <1>5 DEF TypeInv, OpOK, Extending
<1> QED
  BY <1>7, <1>8, <1>9 DEF TypeInv

LEMMA NextTypeInv ==
    TypeInv /\ [Next]_vars => TypeInv'
<1>1. ASSUME TypeInv, UNCHANGED vars PROVE TypeInv'
  BY <1>1 DEF TypeInv, TypeOK, OpType, OpOK, vars
<1>2. ASSUME TypeInv, Next PROVE TypeInv'
  BY <1>2, SessionType, BeginInsertType, BeginDirectoryType, BeginRemoveType, EndType,
     OverwriteType, ReserveType, WalkType, LinkType, SetEntryType, WriteDataType, FreeType,
     OverrunType, <1>1
  DEF Next, CleanNext, Step, StaysOverrun
<1> QED
  BY <1>1, <1>2

\* The tables, the entries, the data and the count keep their types, whatever
\* commands run and wherever they are killed: no value that no cluster and no
\* mark has ever gets into the FAT (file.c:53-209, fat.c:457-506).
THEOREM Typing == Spec => []TypeOK
<1>1. Spec => []TypeInv
  BY InitTypeInv, NextTypeInv, PTL DEF Spec
<1>2. TypeInv => TypeOK
  BY DEF TypeInv
<1> QED
  BY <1>1, <1>2, PTL

-----------------------------------------------------------------------------
(* The chains begin empty, and steps that change no table keep them. *)

LEMMA ChainTypes ==
    ASSUME NEW S, Apart(S)
    PROVE  /\ \A p \in Paths : Len(S[p]) \in Nat /\ S[p] \in Seq((2 .. TableLast) \ RootClusters)
           /\ \A p \in Paths : \A i \in 1 .. Len(S[p]) :
                 S[p][i] \in 2 .. TableLast /\ S[p][i] \notin RootClusters
<1>1. \A p \in Paths : S[p] \in Seq((2 .. TableLast) \ RootClusters)
  BY DEF Apart
<1>2. ASSUME NEW p \in Paths, NEW i \in 1 .. Len(S[p])
      PROVE  S[p][i] \in (2 .. TableLast) \ RootClusters
  BY <1>1, SeqElements
<1>3. \A p \in Paths : Len(S[p]) \in Nat
  BY <1>1, SeqElements
<1> QED
  BY <1>1, <1>2, <1>3

LEMMA InitChain == Init => ChainInv
<1> SUFFICES ASSUME Init PROVE ChainInv
  OBVIOUS
<1> DEFINE S == [p \in Paths |-> <<>>]
<1>1. Apart(S)
  BY DEF Apart
<1>2. \A p \in Paths : Len(S[p]) = 0 /\ S[p] = <<>>
  OBVIOUS
<1>3. \A c \in 2 .. TableLast : fat[c] = IF c \in RootClusters THEN EOC ELSE 0
  BY VolumeAssumption DEF Init, EmptyFAT
<1>4. Ends(fat) /\ Ends(stable)
  BY VolumeAssumption DEF Init, EmptyFAT, Ends
<1> HIDE DEF S
<1>5. InTable(S, 1)
  BY <1>2, <1>3, <1>4 DEF InTable, Owner
<1>6. OnImage(S)
  BY <1>2, <1>4 DEF OnImage, Init
<1>7. Named(S) /\ Working(S, 1)
  BY <1>2 DEF Named, Working, Init, NoEntry
<1>8. Counted
  <2>1. op.clusters = <<>> /\ fsInfo = freeCount
    BY DEF Init, NoOp
  <2>2. ASSUME Version = 32
        PROVE  freeCount + Cardinality(InUse) = VolumeLast - 1
    <3>1. RootClusters = {2}
      BY <2>2 DEF RootClusters
    <3>2. InUse = {2}
      BY <1>3, <3>1, VolumeAssumption DEF InUse, EOC, Reserved
    <3>3. FreeOnVolume(EmptyFAT) = 3 .. VolumeLast
      <4>1. \A c \in 2 .. VolumeLast : EmptyFAT[c] = IF c = 2 THEN EOC ELSE 0
        BY <3>1, VolumeAssumption DEF EmptyFAT
      <4> QED
        BY <4>1, VolumeAssumption DEF FreeOnVolume, EOC, Reserved
    <3>4. Cardinality(3 .. VolumeLast) = VolumeLast - 2
      BY FS_Interval, VolumeAssumption
    <3>5. Cardinality(InUse) = 1
      BY <3>2, FS_Singleton
    <3>6. freeCount = VolumeLast - 2
      BY <3>3, <3>4 DEF Init
    <3> QED
      BY <3>5, <3>6, VolumeAssumption
  <2>3. Len(op.clusters) = 0
    BY <2>1
  <2>4. Version = 32 => freeCount + Cardinality(InUse) + Len(op.clusters)
                           = VolumeLast - 1 + 0 * CountMod
    <3>1. 0 * CountMod = 0
      BY VolumeAssumption
    <3> QED
      BY <2>2, <2>3, <3>1, VolumeAssumption
  <2> QED
    BY <2>1, <2>4 DEF Counted
<1> QED
  BY <1>1, <1>5, <1>6, <1>7, <1>8 DEF ChainInv, Chained

\* The table leads from a cluster of a path to another of its own.
LEMMA TableInChain ==
    ASSUME NEW S, NEW k, Apart(S), InTable(S, k),
           NEW p \in Paths, NEW i \in 1 .. Len(S[p])
    PROVE  \/ fat[S[p][i]] \in {0, EOC}
           \/ \E j \in 1 .. Len(S[p]) : fat[S[p][i]] = S[p][j]
<1>1. fat[S[p][i]] = After(S, k, p, i) /\ Len(S[p]) \in Nat
  BY ChainTypes DEF InTable
<1>2. After(S, k, p, i) \in {0, EOC} \/ (i # Len(S[p]) /\ After(S, k, p, i) = S[p][i + 1])
  BY DEF After
<1>3. i # Len(S[p]) => i + 1 \in 1 .. Len(S[p])
  BY <1>1
<1> QED
  BY <1>1, <1>2, <1>3

LEMMA SaveKeeps ==
    ASSUME NEW S, NEW k, Apart(S), InTable(S, k), OnImage(S),
           stable' \in {stable, fat}, session' = session, session # "closed",
           session = "insert" => \A c \in 2 .. TableLast : fat'[c] = 0 => fat[c] = 0
    PROVE  OnImage(S)'
<1>1. Ends(stable)'
  BY DEF Ends, InTable, OnImage
<1>2. ASSUME NEW p \in Paths, NEW i \in 1 .. Len(S[p])
      PROVE  \/ stable'[S[p][i]] \in {0, EOC}
             \/ \E j \in 1 .. Len(S[p]) : stable'[S[p][i]] = S[p][j]
  BY TableInChain DEF OnImage
<1>3. session' = "insert" => \A c \in 2 .. TableLast : fat'[c] = 0 => stable'[c] = 0
  BY DEF OnImage
<1> QED
  BY <1>1, <1>2, <1>3 DEF OnImage

LEMMA QuietTable ==
    ASSUME NEW S, Apart(S), InTable(S, 1), fat' = fat,
           op.clusters = <<>>, op'.clusters = <<>>
    PROVE  InTable(S, 1)'
<1>1. ASSUME NEW p \in Paths, NEW i \in 1 .. Len(S[p])
      PROVE  After(S, 1, p, i)' = After(S, 1, p, i)
  <2>1. Len(S[p]) \in Nat
    BY ChainTypes
  <2>2. Linked(S, p) = Len(S[p]) /\ Linked(S, p)' = Len(S[p])
    BY <2>1 DEF Linked
  <2> QED
    BY <2>1, <2>2 DEF After
<1> QED
  BY <1>1 DEF InTable, Ends, Owner

Quiet == {"idle", "write", "data", "free"}

LEMMA QuietNames ==
    ASSUME NEW S, Named(S), entry' = entry, pc \in Quiet, pc' \in Quiet
    PROVE  Named(S)'
  BY DEF Named, Quiet

LEMMA QuietCount ==
    ASSUME Counted, fat' = fat, freeCount' = freeCount,
           Len(op'.clusters) = Len(op.clusters),
           session' \in {"closed", "closing"} => fsInfo' = freeCount
    PROVE  Counted'
  BY DEF Counted, InUse

LEMMA IdleChain ==
    ASSUME TypeInv, NEW S, NEW k, Chained(S, k), pc \notin {"walk", "link", "free"}
    PROVE  k = 1 /\ op.clusters = <<>> /\ (pc = "idle" => op = NoOp)
  BY DEF TypeInv, OpOK, Chained, Working

\* Without kills, the count read at the start of a session is the count kept
\* at the end of the last one.
LEMMA SessionChain ==
    ASSUME TypeInv, NEW S, NEW k, Chained(S, k),
           \/ \E command \in {"insert", "remove"} : Open(command)
           \/ CloseInfo \/ CloseTable
    PROVE  Chained(S, 1)'
<1>1. pc = "idle" /\ pc' = "idle" /\ UNCHANGED <<fat, entry, op>>
  <2>1. session \in {"closed", "closing"} => pc = "idle"
    BY DEF TypeInv, TypeOK, OpOK, Extending
  <2> QED
    BY <2>1 DEF Open, CloseInfo, CloseTable, disks
<1>2. k = 1 /\ op.clusters = <<>> /\ op'.clusters = <<>>
  BY <1>1, IdleChain
<1>3. Apart(S)' /\ InTable(S, 1)'
  BY <1>1, <1>2, QuietTable DEF Chained, Apart, RootClusters
<1>4. OnImage(S)'
  <2>1. CASE \E command \in {"insert", "remove"} : Open(command)
    <3>1. stable = fat /\ stable' = stable /\ fat' = fat /\ session' # "closed"
      BY <2>1 DEF Open, disks, Chained, OnImage
    <3> QED
      BY <3>1 DEF Chained, OnImage, Ends
  <2>2. CASE CloseInfo
    BY <2>2 DEF CloseInfo, Chained, OnImage, Ends
  <2>3. CASE CloseTable
    <3>1. stable' = fat /\ fat' = fat /\ session' = "closed"
      BY <2>3 DEF CloseTable
    <3>2. \A p \in Paths : \A i \in 1 .. Len(S[p]) :
            \/ fat[S[p][i]] \in {0, EOC}
            \/ \E j \in 1 .. Len(S[p]) : fat[S[p][i]] = S[p][j]
      BY TableInChain DEF Chained
    <3> QED
      BY <3>1, <3>2 DEF Chained, InTable, OnImage, Ends
  <2> QED
    BY <2>1, <2>2, <2>3
<1>5. Named(S)'
  BY <1>1, QuietNames DEF Chained, Quiet
<1>6. Working(S, 1)'
  BY <1>1 DEF Working
<1>7. Counted'
  <2>1. /\ freeCount' = freeCount
        /\ session' \in {"closed", "closing"} => fsInfo' = freeCount
    <3>1. session \in {"closed", "closing"} => fsInfo = freeCount
      BY DEF Chained, Counted
    <3> QED
      BY <3>1 DEF Open, CloseInfo, CloseTable, disks
  <2> QED
    BY <1>1, <2>1, QuietCount DEF Chained
<1> QED
  BY <1>3, <1>4, <1>5, <1>6, <1>7 DEF Chained

LEMMA BeginInsertChain ==
    ASSUME TypeInv, NEW S, NEW k, Chained(S, k),
           NEW f \in Files, NEW host \in Hosts, BeginInsert(f, host)
    PROVE  Chained(S, 1)'
<1>1. /\ pc = "idle" /\ pc' = "write" /\ session = "insert"
      /\ UNCHANGED <<fat, stable, data, freeCount, fsInfo, session, crashed>>
      /\ f \in Paths /\ op = NoOp
  BY IdleChain DEF BeginInsert, Paths
<1>2. k = 1 /\ op.clusters = <<>> /\ NoOp.path = Nobody
  BY <1>1, IdleChain DEF NoOp
<1>3. /\ op'.path = f /\ op'.clusters = <<>>
      /\ op'.first = entry'[f].first /\ op'.size = entry'[f].size
  BY DEF BeginInsert, NoOp
<1>4. /\ \A p \in Paths : p # f => entry'[p] = entry[p]
      /\ IF entry[f].live THEN entry'[f] = entry[f]
         ELSE entry'[f].live /\ entry'[f].first = 0 /\ entry'[f].size = 0
  <2>1. entry' = [entry EXCEPT ![f] = IF entry[f].live THEN entry[f]
                                      ELSE [NoEntry EXCEPT !.live = TRUE]]
    BY DEF BeginInsert
  <2>2. DOMAIN entry = Paths
    BY DEF TypeInv, TypeOK
  <2> QED
    BY <1>1, <2>1, <2>2, NewEntry
<1>5. Clusters(0) = 0
  BY NoClusters
<1>6. Apart(S)' /\ InTable(S, 1)'
  BY <1>1, <1>2, <1>3, QuietTable DEF Chained, Apart, RootClusters
<1>7. OnImage(S)'
  BY <1>1 DEF Chained, OnImage, Ends
<1>8. f \notin Dirs
  BY CommandAssumption
<1>9. Len(<<>>) = 0
  OBVIOUS
<1>10. ASSUME NEW p \in Paths, entry'[p].live
       PROVE  /\ entry'[p].first = First(S, p)
              /\ p \in Files => Clusters(entry'[p].size) = Len(S[p])
              /\ p \in Dirs => entry'[p].size = 0
  <2>1. CASE entry[p].live
    <3>1. entry'[p] = entry[p]
      BY <1>4, <2>1
    <3> QED
      BY <1>1, <2>1, <3>1 DEF Chained, Named
  <2>2. CASE ~entry[p].live
    <3>1. p = f /\ S[p] = <<>>
      BY <1>4, <1>10, <2>2 DEF Chained, Named
    <3> QED
      BY <1>4, <1>5, <1>8, <1>9, <2>2, <3>1 DEF First
  <2> QED
    BY <2>1, <2>2
<1>11. Named(S)'
  <2>1. \A p \in Paths : ~entry'[p].live => S[p] = <<>>
    BY <1>1, <1>4 DEF Chained, Named
  <2> QED
    BY <1>1, <1>10, <2>1 DEF Named, First
<1>12. Working(S, 1)'
  <2>1. entry'[f].live
    BY <1>4
  <2>2. Len(S[f]) \in Nat /\ Len(op'.clusters) = 0
    BY <1>1, <1>3, ChainTypes DEF Chained
  <2>3. Linked(S, f)' = Len(S[f])
    BY <1>3, <2>2 DEF Linked
  <2> QED
    BY <1>1, <1>3, <1>10, <2>1, <2>2, <2>3 DEF Working, First
<1>13. Counted'
  BY <1>1, <1>2, <1>3, QuietCount DEF Chained
<1> QED
  BY <1>6, <1>7, <1>11, <1>12, <1>13 DEF Chained

LEMMA BeginDirectoryChain ==
    ASSUME TypeInv, NEW S, NEW k, Chained(S, k),
           NEW d \in Dirs, NEW size \in DirSizes, BeginDirectory(d, size)
    PROVE  Chained(S, 1)'
<1>1. /\ pc = "idle" /\ pc' = "write" /\ session = "insert" /\ ~entry[d].live
      /\ UNCHANGED <<fat, stable, data, freeCount, fsInfo, session, crashed>>
      /\ d \in Paths /\ d \notin Files /\ op = NoOp
  BY IdleChain, CommandAssumption DEF BeginDirectory, Paths
<1>2. k = 1 /\ op.clusters = <<>> /\ NoOp.path = Nobody
  BY <1>1, IdleChain DEF NoOp
<1>3. op'.path = d /\ op'.clusters = <<>> /\ op'.first = 0 /\ op'.size = 0
  BY DEF BeginDirectory, NoOp
<1>4. /\ \A p \in Paths : p # d => entry'[p] = entry[p]
      /\ entry'[d].live /\ entry'[d].first = 0 /\ entry'[d].size = 0
  <2>1. entry' = [entry EXCEPT ![d] = [NoEntry EXCEPT !.live = TRUE]]
    BY DEF BeginDirectory
  <2>2. DOMAIN entry = Paths
    BY DEF TypeInv, TypeOK
  <2> QED
    BY <1>1, <2>1, <2>2, NewEntry
<1>5. S[d] = <<>> /\ Len(S[d]) = 0 /\ Clusters(0) = 0
  BY <1>1, NoClusters DEF Chained, Named
<1>6. Apart(S)' /\ InTable(S, 1)'
  BY <1>1, <1>2, <1>3, QuietTable DEF Chained, Apart, RootClusters
<1>7. OnImage(S)'
  BY <1>1 DEF Chained, OnImage, Ends
<1>8. Named(S)'
  BY <1>1, <1>4, <1>5 DEF Chained, Named, First
<1>9. Working(S, 1)'
  <2>1. Linked(S, d)' = 0
    BY <1>3, <1>5 DEF Linked
  <2> QED
    BY <1>1, <1>3, <1>4, <1>5, <2>1 DEF Working, First
<1>10. Counted'
  BY <1>1, <1>2, <1>3, QuietCount DEF Chained
<1> QED
  BY <1>6, <1>7, <1>8, <1>9, <1>10 DEF Chained

LEMMA BeginRemoveChain ==
    ASSUME TypeInv, NEW S, NEW k, Chained(S, k), NEW f \in Paths, BeginRemove(f)
    PROVE  Chained(S, 1)'
<1>1. /\ pc = "idle" /\ pc' = "free" /\ session = "remove" /\ entry[f].live
      /\ UNCHANGED <<fat, stable, entry, data, fsInfo, freeCount, session, crashed>>
      /\ op = NoOp
  BY IdleChain DEF BeginRemove, disks
<1>2. k = 1 /\ op.clusters = <<>> /\ NoOp.path = Nobody
  BY <1>1, IdleChain DEF NoOp
<1>3. op'.path = f /\ op'.clusters = <<>> /\ op'.cursor = entry[f].first
  BY DEF BeginRemove, NoOp
<1>4. entry[f].first = First(S, f)
  BY <1>1 DEF Chained, Named
<1>5. Apart(S)' /\ InTable(S, 1)'
  BY <1>1, <1>2, <1>3, QuietTable DEF Chained, Apart, RootClusters
<1>6. OnImage(S)'
  BY <1>1 DEF Chained, OnImage, Ends
<1>7. Named(S)'
  BY <1>1, QuietNames DEF Chained, Quiet
<1>8. Working(S, 1)'
  <2>1. S[f] \in Seq((2 .. TableLast) \ RootClusters) /\ Len(S[f]) \in Nat
    BY ChainTypes DEF Chained
  <2>2. IF S[f] = <<>> THEN Len(S[f]) = 0 ELSE Len(S[f]) >= 1
    BY <2>1
  <2> QED
    BY <1>1, <1>3, <1>4, <2>1, <2>2 DEF Working, First
<1>9. Counted'
  BY <1>1, <1>2, <1>3, QuietCount DEF Chained
<1> QED
  BY <1>5, <1>6, <1>7, <1>8, <1>9 DEF Chained

LEMMA FinishChain ==
    ASSUME TypeInv, NEW S, NEW k, Chained(S, k), pc \in {"write", "data"}, NEW result,
           Finish(result), stable' \in {stable, fat},
           UNCHANGED <<fat, entry, freeCount, fsInfo, session>>
    PROVE  Chained(S, 1)'
<1>1. k = 1 /\ op.clusters = <<>> /\ op'.clusters = <<>> /\ pc' = "idle"
  BY IdleChain DEF Finish, NoOp
<1>2. session = "insert"
  BY DEF TypeInv, OpOK, Extending
<1>3. Apart(S)' /\ InTable(S, 1)'
  BY <1>1, QuietTable DEF Chained, Apart, RootClusters
<1>4. OnImage(S)'
  BY <1>2, SaveKeeps DEF Chained
<1>5. Named(S)'
  BY <1>1, QuietNames DEF Chained, Quiet
<1>6. Working(S, 1)'
  BY <1>1 DEF Working
<1>7. Counted'
  BY <1>1, <1>2, QuietCount DEF Chained
<1> QED
  BY <1>3, <1>4, <1>5, <1>6, <1>7 DEF Chained

LEMMA OverrunChain ==
    ASSUME TypeInv, NEW S, NEW k, Chained(S, k), Overrun
    PROVE  Chained(S, 1)'
<1>1. /\ pc = "write" /\ pc' = "overrun" /\ stable' \in {stable, fat}
      /\ UNCHANGED <<fat, entry, freeCount, fsInfo, session, op>>
  BY DEF Overrun, TableFull, Save
<1>2. k = 1 /\ op.clusters = <<>> /\ session = "insert" /\ op.path \in Paths
  BY <1>1, IdleChain DEF TypeInv, OpOK, Extending
<1>3. Apart(S)' /\ InTable(S, 1)'
  <2>1. \A q, j : After(S, 1, q, j)' = After(S, 1, q, j)
    BY <1>1 DEF After, Busy, Linked
  <2> QED
    BY <1>1, <1>2, <2>1 DEF Chained, Apart, InTable, Ends, Owner, RootClusters
<1>4. OnImage(S)'
  BY <1>1, <1>2, SaveKeeps DEF Chained
<1>5. Named(S)'
  BY <1>1 DEF Chained, Named, Busy, First
<1>6. Working(S, 1)'
  BY <1>1, <1>2 DEF Chained, Working
<1>7. Counted'
  BY <1>1, <1>2, QuietCount DEF Chained
<1> QED
  BY <1>3, <1>4, <1>5, <1>6, <1>7 DEF Chained

\* Between units, the chain has the clusters its size needs.
LEMMA FileChain ==
    ASSUME TypeInv, NEW S, NEW k, Chained(S, k),
           pc \in {"write", "data"}, pc' \in {"write", "data"},
           op'.path = op.path, op'.first = op.first, op'.size = op.size,
           op'.clusters = op.clusters, stable' \in {stable, fat},
           UNCHANGED <<fat, entry, freeCount, fsInfo, session>>
    PROVE  Chained(S, 1)'
<1>1. k = 1 /\ op.clusters = <<>> /\ op'.clusters = <<>>
  BY IdleChain
<1>2. session = "insert" /\ op.path \in Paths
  BY DEF TypeInv, OpOK, Extending
<1>3. Apart(S)' /\ InTable(S, 1)'
  BY <1>1, QuietTable DEF Chained, Apart, RootClusters
<1>4. OnImage(S)'
  BY <1>2, SaveKeeps DEF Chained
<1>5. Named(S)'
  BY <1>1, QuietNames DEF Chained, Quiet
<1>6. Working(S, 1)'
  <2>1. Linked(S, op.path)' = Linked(S, op.path)
    BY DEF Linked, Busy
  <2> QED
    BY <1>1, <2>1 DEF Chained, Working
<1>7. Counted'
  BY <1>1, <1>2, QuietCount DEF Chained
<1> QED
  BY <1>3, <1>4, <1>5, <1>6, <1>7 DEF Chained

LEMMA UnitChain ==
    ASSUME TypeInv, NEW S, NEW k, Chained(S, k),
           InsertDone \/ ReserveFails \/ Overwrite \/ WriteData
    PROVE  Chained(S, 1)'
<1>1. CASE InsertDone \/ ReserveFails
  <2>1. PICK result : Finish(result)
    BY <1>1 DEF InsertDone, ReserveFails, TableFull
  <2>2. pc = "write" /\ stable' \in {stable, fat}
        /\ UNCHANGED <<fat, entry, freeCount, fsInfo, session>>
    BY <1>1 DEF InsertDone, ReserveFails, TableFull, Save
  <2> QED
    BY <2>1, <2>2, FinishChain
<1>2. CASE Overwrite
  <2>1. pc = "write" /\ pc' = "data" /\ stable' = stable
        /\ UNCHANGED <<fat, entry, freeCount, fsInfo, session, op>>
    BY <1>2 DEF Overwrite, disks
  <2> QED
    BY <2>1, FileChain
<1>3. CASE WriteData
  <2>1. pc = "data" /\ stable' \in {stable, fat}
        /\ UNCHANGED <<fat, entry, freeCount, fsInfo, session>>
    BY <1>3 DEF WriteData, Save
  <2>2. CASE ClusterOf(fat, op.first, op.pos) # 0
    <3>1. op' = [op EXCEPT !.pos = @ + 1] /\ pc' = "write"
      BY <1>3, <2>2 DEF WriteData
    <3>2. op = [x \in OpFields |-> op[x]]
      BY DEF TypeInv, OpType
    <3>3. op'.path = op.path /\ op'.first = op.first /\ op'.size = op.size
          /\ op'.clusters = op.clusters
      BY ONLY <3>1, <3>2 DEF OpFields
    <3> QED
      BY <2>1, <3>1, <3>3, FileChain
  <2>3. CASE ClusterOf(fat, op.first, op.pos) = 0
    <3>1. Finish("error")
      BY <1>3, <2>3 DEF WriteData
    <3> QED
      BY <2>1, <3>1, FinishChain
  <2> QED
    BY <2>2, <2>3
<1> QED
  BY <1>1, <1>2, <1>3

-----------------------------------------------------------------------------
(* Removing a path: its clusters become free in the order of the chain. *)

LEMMA InUseType ==
    /\ IsFiniteSet(InUse) /\ Cardinality(InUse) \in Nat
    /\ IsFiniteSet(InUse') /\ Cardinality(InUse') \in Nat
<1>1. IsFiniteSet(2 .. TableLast)
  BY FS_Interval, VolumeAssumption
<1>2. InUse \in SUBSET (2 .. TableLast) /\ InUse' \in SUBSET (2 .. TableLast)
  BY DEF InUse
<1> QED
  BY <1>1, <1>2, FS_Subset, FS_CardinalityType

\* The free count wraps as a machine word does.
LEMMA Wrapped ==
    ASSUME NEW x \in Int
    PROVE  \E w \in Int : x % CountMod = x + w * CountMod
<1>1. CountMod \in Nat \ {0}
  BY VolumeAssumption
<1>2. x \div CountMod \in Int /\ x % CountMod \in Int
      /\ x = CountMod * (x \div CountMod) + (x % CountMod)
  BY <1>1
<1> DEFINE q == x \div CountMod
<1> HIDE DEF q
<1>3. q \in Int /\ x % CountMod \in Int /\ x = CountMod * q + (x % CountMod)
  BY <1>2 DEF q
<1>4. -q \in Int /\ x % CountMod = x + (-q) * CountMod
  <2> DEFINE r == x % CountMod
  <2> HIDE DEF r
  <2>1. r \in Int /\ x = CountMod * q + r
    BY <1>3 DEF r
  <2>2. r = x + (-q) * CountMod
    BY <1>1, <1>3, <2>1
  <2> QED
    BY <1>3, <2>2 DEF r
<1> QED
  BY <1>4

\* Counting goes on when what the count gains and what is in use or pending
\* loses are the same.
LEMMA CountStep ==
    ASSUME TypeInv, Counted, NEW gain \in Int,
           Version = 32 => freeCount' = (freeCount + CountMod + gain) % CountMod
                           \/ freeCount' = (freeCount + gain) % CountMod,
           Cardinality(InUse') + Len(op'.clusters) + gain
              = Cardinality(InUse) + Len(op.clusters),
           Len(op'.clusters) \in Nat, Len(op.clusters) \in Nat,
           session' \notin {"closed", "closing"}
    PROVE  Counted'
<1> SUFFICES ASSUME Version = 32
             PROVE  \E wraps \in Int :
                      freeCount' + Cardinality(InUse') + Len(op'.clusters)
                         = VolumeLast - 1 + wraps * CountMod
  BY DEF Counted
<1> DEFINE used == Cardinality(InUse)
           usedNext == Cardinality(InUse')
           left == Len(op.clusters)
           leftNext == Len(op'.clusters)
<1>1. used \in Nat /\ usedNext \in Nat /\ left \in Nat /\ leftNext \in Nat
      /\ usedNext + leftNext + gain = used + left /\ freeCount \in Int
      /\ CountMod \in Int /\ VolumeLast \in Int
  BY InUseType, VolumeAssumption DEF TypeInv, TypeOK
<1>2. PICK wraps \in Int : freeCount + used + left = VolumeLast - 1 + wraps * CountMod
  BY DEF Counted
<1> HIDE DEF used, usedNext, left, leftNext
<1>3. PICK w \in Int : freeCount' = freeCount + gain + w * CountMod
  <2>1. CASE freeCount' = (freeCount + gain) % CountMod
    <3>1. freeCount + gain \in Int
      BY <1>1
    <3>2. PICK w \in Int : (freeCount + gain) % CountMod = freeCount + gain + w * CountMod
      BY ONLY <3>1, Wrapped
    <3> QED
      BY <2>1, <3>2
  <2>2. CASE freeCount' = (freeCount + CountMod + gain) % CountMod
    <3>1. freeCount + CountMod + gain \in Int
      BY <1>1
    <3>2. PICK w \in Int : (freeCount + CountMod + gain) % CountMod
                               = freeCount + CountMod + gain + w * CountMod
      BY ONLY <3>1, Wrapped
    <3>3. freeCount' = freeCount + gain + (w + 1) * CountMod /\ w + 1 \in Int
      BY <1>1, <2>2, <3>2
    <3> QED
      BY <3>3
  <2> QED
    BY <2>1, <2>2
<1>4. freeCount' + usedNext + leftNext = VolumeLast - 1 + (wraps + w) * CountMod
  <2>1. freeCount' + usedNext + leftNext = freeCount + used + left + w * CountMod
    BY <1>1, <1>3
  <2>2. (wraps + w) * CountMod = wraps * CountMod + w * CountMod
    BY <1>1
  <2> QED
    BY <1>1, <1>2, <2>1, <2>2
<1> QED
  BY <1>4 DEF usedNext, leftNext

LEMMA FreeChain ==
    ASSUME TypeInv, NEW S, NEW k, Chained(S, k), Free
    PROVE  Chained(S, k + 1)'
<1> DEFINE p == op.path
           c == S[p][k]
<1>1. /\ pc = "free" /\ session = "remove" /\ p \in Paths /\ op.clusters = <<>>
      /\ op = [x \in OpFields |-> op[x]]
      /\ UNCHANGED <<entry, data, fsInfo, session, pc, outcome, crashed, kept>>
  BY DEF Free, TypeInv, OpOK, OpType
<1>2. /\ Len(S[p]) \in Nat /\ k \in 1 .. Len(S[p]) + 1
      /\ k <= Len(S[p]) => op.cursor = c
      /\ k > Len(S[p]) => op.cursor \in {0, EOC}
  BY <1>1, ChainTypes DEF Chained, Working
<1>3. k \in 1 .. Len(S[p]) /\ op.cursor = c
  <2>1. ~IsAllocated(0) /\ ~IsAllocated(EOC)
    BY VolumeAssumption DEF IsAllocated, EOC, Reserved, BeyondLast
  <2>2. k <= Len(S[p])
    BY <1>2, <2>1 DEF Free
  <2> QED
    BY <1>2, <2>2
<1>4. c \in 2 .. TableLast /\ c \notin RootClusters
  BY <1>1, <1>3, ChainTypes DEF Chained
<1>5. /\ op'.path = op.path /\ op'.clusters = op.clusters /\ op'.cursor = fat[c]
      /\ fat' = [fat EXCEPT ![c] = 0]
  <2>1. ReadFAT(fat, op.cursor) = fat[c] /\ Written(op.cursor, 0) = [fat EXCEPT ![c] = 0]
    BY <1>3, <1>4, VolumeAssumption DEF ReadFAT, Written
  <2>2. op' = [op EXCEPT !.cursor = ReadFAT(fat, op.cursor)] /\ fat' = Written(op.cursor, 0)
    BY DEF Free
  <2>3. op'.path = op.path /\ op'.clusters = op.clusters /\ op'.cursor = ReadFAT(fat, op.cursor)
    BY ONLY <1>1, <2>2 DEF OpFields
  <2> QED
    BY <2>1, <2>2, <2>3
<1>6. /\ fat' \in [0 .. TableLast -> Value] /\ fat'[c] = 0
      /\ \A d \in 0 .. TableLast : d # c => fat'[d] = fat[d]
  <2>1. fat \in [0 .. TableLast -> Value] /\ 0 \in Value
    BY VolumeAssumption DEF TypeInv, TypeOK, Value, EOC, Reserved
  <2> QED
    BY <1>4, <1>5, <2>1
<1>7. fat[c] = After(S, k, p, k)
  BY <1>1, <1>3 DEF Chained, InTable
<1>8. Linked(S, p) = Len(S[p]) /\ Linked(S, p)' = Len(S[p])
  <2>1. Len(op.clusters) = 0 /\ Len(op'.clusters) = 0
    BY <1>1, <1>5
  <2> QED
    BY <1>2, <1>5, <2>1 DEF Linked
<1>9. fat[c] = IF k = Len(S[p]) THEN EOC ELSE S[p][k + 1]
  BY <1>1, <1>2, <1>3, <1>7, <1>8 DEF After
<1>10. Apart(S)'
  BY DEF Chained, Apart, RootClusters
<1>11. InTable(S, k + 1)'
  <2>1. Ends(fat)'
    BY <1>4, <1>6, VolumeAssumption DEF Chained, InTable, Ends
  <2>2. ASSUME NEW q \in Paths, NEW i \in 1 .. Len(S[q])
        PROVE  fat'[S[q][i]] = After(S, k + 1, q, i)'
    <3>1. S[q][i] \in 0 .. TableLast /\ Len(S[q]) \in Nat
      BY ChainTypes DEF Chained
    <3>2. fat[S[q][i]] = After(S, k, q, i)
      BY DEF Chained, InTable
    <3>3. Linked(S, q)' = Linked(S, q)
      BY <1>1, <1>5 DEF Linked, Busy
    <3>4. CASE q = p /\ i = k
      BY <1>3, <1>5, <1>6, <3>4 DEF After, Busy
    <3>5. CASE ~(q = p /\ i = k)
      <4>1. S[q][i] # c
        BY <1>1, <1>3, <3>5 DEF Chained, Apart
      <4>2. fat'[S[q][i]] = fat[S[q][i]]
        BY <1>6, <3>1, <4>1
      <4>3. After(S, k + 1, q, i)' = After(S, k, q, i)
        <5>1. (q = p /\ i < k + 1) <=> (q = p /\ i < k)
          BY <1>3, <3>1, <3>5
        <5> QED
          BY <1>1, <1>5, <3>3, <5>1 DEF After, Busy
      <4> QED
        BY <3>2, <4>2, <4>3
    <3> QED
      BY <3>4, <3>5
  <2>3. ASSUME NEW d \in 2 .. TableLast, ~Owner(S, d)
        PROVE  fat'[d] = IF d \in RootClusters THEN EOC ELSE 0
    <3>1. d # c
      BY <1>1, <1>3, <2>3 DEF Owner
    <3> QED
      BY <1>6, <2>3, <3>1 DEF Chained, InTable
  <2> QED
    BY <2>1, <2>2, <2>3 DEF InTable, RootClusters, Owner
<1>12. OnImage(S)'
  <2>1. stable' \in {stable, fat} /\ session' = session /\ session # "closed"
        /\ session # "insert"
    BY <1>1 DEF Free, Save
  <2> QED
    BY <2>1, SaveKeeps DEF Chained
<1>13. Named(S)'
  BY <1>1, QuietNames DEF Chained, Quiet
<1>14. Working(S, k + 1)'
  <2>1. entry'[op'.path].live
    BY <1>1, <1>5 DEF Chained, Working
  <2>2. k + 1 \in 1 .. Len(S[p]) + 1
    BY <1>3
  <2>3. IF k + 1 <= Len(S[p]) THEN op'.cursor = S[p][k + 1] ELSE op'.cursor \in {0, EOC}
    BY <1>2, <1>3, <1>5, <1>9
  <2> QED
    BY <1>1, <1>5, <2>1, <2>2, <2>3 DEF Working
<1>15. Counted'
  <2>1. InUse' = InUse \ {c} /\ c \in InUse
    <3>1. fat[c] # 0
      <4>1. k # Len(S[p]) => S[p][k + 1] \in 2 .. TableLast
        <5>1. k # Len(S[p]) => k + 1 \in 1 .. Len(S[p])
          BY <1>2, <1>3
        <5> QED
          BY <1>1, <5>1, ChainTypes DEF Chained
      <4> QED
        BY <1>9, <4>1, VolumeAssumption DEF EOC, Reserved
    <3> QED
      BY <1>4, <1>6, <3>1 DEF InUse
  <2>2. Cardinality(InUse') = Cardinality(InUse) - 1
    BY <2>1, InUseType, FS_RemoveElement
  <2>3. Len(op.clusters) = 0 /\ Len(op'.clusters) = 0
    BY <1>1, <1>5
  <2>4. Version = 32 => freeCount' = (freeCount + 1) % CountMod
    BY DEF Free
  <2>5. Cardinality(InUse') + Len(op'.clusters) + 1 = Cardinality(InUse) + Len(op.clusters)
    BY <2>2, <2>3, InUseType
  <2> QED
    BY <1>1, <2>3, <2>4, <2>5, CountStep DEF Chained
<1> QED
  BY <1>10, <1>11, <1>12, <1>13, <1>14, <1>15 DEF Chained

\* When the walk is over, nothing of the path's chain is left.
LEMMA UnnameChain ==
    ASSUME TypeInv, NEW S, NEW k, Chained(S, k), Unname,
           NEW T, T = [S EXCEPT ![op.path] = <<>>]
    PROVE  Chained(T, 1)'
<1> DEFINE p == op.path
<1>1. /\ pc = "free" /\ pc' = "idle" /\ session = "remove" /\ p \in Paths
      /\ op.clusters = <<>> /\ op' = NoOp
      /\ entry' = [entry EXCEPT ![p].live = FALSE]
      /\ UNCHANGED <<fat, stable, data, freeCount, fsInfo, session, crashed>>
  BY DEF Unname, TypeInv, OpOK, OpType, Finish
<1>2. /\ Len(S[p]) \in Nat /\ k \in 1 .. Len(S[p]) + 1
      /\ k <= Len(S[p]) => op.cursor = S[p][k]
  BY <1>1, ChainTypes DEF Chained, Working
<1>3. k = Len(S[p]) + 1
  <2>1. ASSUME k <= Len(S[p]) PROVE FALSE
    <3>1. op.cursor \in 2 .. TableLast
      BY <1>1, <1>2, <2>1, ChainTypes DEF Chained
    <3> QED
      BY <3>1 DEF Unname, IsAllocated
  <2> QED
    BY <1>2, <2>1
<1>4. \A i \in 1 .. Len(S[p]) : fat[S[p][i]] = 0
  BY <1>1, <1>2, <1>3 DEF Chained, InTable, After, Busy
<1>5. /\ op'.clusters = <<>> /\ op'.path = Nobody /\ Nobody \notin Paths
      /\ Len(op.clusters) = 0 /\ Len(op'.clusters) = 0
  BY <1>1, CommandAssumption DEF NoOp
<1>6. /\ T[p] = <<>> /\ Len(T[p]) = 0
      /\ \A q \in Paths : q # p => T[q] = S[q]
      /\ T \in [Paths -> Seq((2 .. TableLast) \ RootClusters)]
  <2>1. S \in [Paths -> Seq((2 .. TableLast) \ RootClusters)]
    BY DEF Chained, Apart
  <2> QED
    BY <1>1, <2>1
<1>7. \A q \in Paths : \A i : i \in 1 .. Len(T[q]) => q # p /\ i \in 1 .. Len(S[q]) /\ T[q][i] = S[q][i]
  BY <1>6
<1>8. Apart(T)'
  BY <1>6, <1>7 DEF Chained, Apart, RootClusters
<1>9. InTable(T, 1)'
  <2>1. ASSUME NEW q \in Paths, NEW i \in 1 .. Len(T[q])
        PROVE  fat'[T[q][i]] = After(T, 1, q, i)'
    <3>1. q # p /\ i \in 1 .. Len(S[q]) /\ T[q] = S[q] /\ Len(S[q]) \in Nat
      BY <1>6, <1>7, ChainTypes DEF Chained
    <3>2. fat[S[q][i]] = After(S, k, q, i)
      BY <3>1 DEF Chained, InTable
    <3>3. Linked(T, q)' = Len(S[q]) /\ Linked(S, q) = Len(S[q])
      BY <1>5, <3>1 DEF Linked
    <3> QED
      BY <1>1, <1>5, <3>1, <3>2, <3>3 DEF After, Busy
  <2>2. ASSUME NEW d \in 2 .. TableLast, ~Owner(T, d)
        PROVE  fat[d] = IF d \in RootClusters THEN EOC ELSE 0
    <3>1. CASE \E i \in 1 .. Len(S[p]) : S[p][i] = d
      <4>1. d \notin RootClusters
        BY <1>1, <3>1, ChainTypes DEF Chained
      <4> QED
        BY <1>4, <3>1, <4>1
    <3>2. CASE ~\E i \in 1 .. Len(S[p]) : S[p][i] = d
      <4>1. ~Owner(S, d)
        BY <1>6, <2>2, <3>2 DEF Owner
      <4> QED
        BY <4>1 DEF Chained, InTable
    <3> QED
      BY <3>1, <3>2
  <2> QED
    BY <1>1, <2>1, <2>2 DEF Chained, InTable, Ends, Owner, RootClusters
<1>10. OnImage(T)'
  <2>1. ASSUME NEW q \in Paths, NEW i \in 1 .. Len(T[q])
        PROVE  \/ stable[T[q][i]] \in {0, EOC}
               \/ \E j \in 1 .. Len(T[q]) : stable[T[q][i]] = T[q][j]
    <3>1. q # p /\ i \in 1 .. Len(S[q]) /\ T[q] = S[q]
      BY <1>6, <1>7
    <3> QED
      BY <3>1 DEF Chained, OnImage
  <2> QED
    BY <1>1, <2>1 DEF Chained, OnImage, Ends
<1>11. Named(T)'
  <2>1. ~entry'[p].live /\ \A q \in Paths : q # p => entry'[q] = entry[q]
    <3>1. entry \in [Paths -> [live : BOOLEAN, first : 0 .. TableLast, size : Nat]]
      BY DEF TypeInv, TypeOK
    <3> QED
      BY <1>1, <3>1
  <2>2. ASSUME NEW q \in Paths, q # p, entry[q].live
        PROVE  /\ entry[q].first = First(T, q)
               /\ q \in Files => Clusters(entry[q].size) = Len(T[q])
               /\ q \in Dirs => entry[q].size = 0
    BY <1>1, <1>6, <2>2 DEF Chained, Named, First
  <2>3. ASSUME NEW q \in Paths, ~entry'[q].live PROVE T[q] = <<>>
    BY <1>1, <1>6, <2>1, <2>3 DEF Chained, Named
  <2> QED
    BY <1>1, <2>1, <2>2, <2>3 DEF Named, First
<1>12. Working(T, 1)'
  BY <1>1 DEF Working
<1>13. Counted'
  BY <1>1, <1>5, QuietCount DEF Chained
<1> QED
  BY <1>8, <1>9, <1>10, <1>11, <1>12, <1>13 DEF Chained

-----------------------------------------------------------------------------
(* Extending a path: FAT_ReserveSpace. *)

LEMMA ReservedStep ==
    ASSUME TypeInv, Reserve, pc = "write"
    PROVE  LET n == NeededClusters
           IN  /\ n \in Nat /\ Clusters(Target) = Clusters(op.size) + n
               /\ FreeClusters(n) \in Seq(0 .. TableLast) /\ Len(FreeClusters(n)) = n
               /\ \A i \in 1 .. n : FreeClusters(n)[i] \in FreeFrom(0)
               /\ \A i, j \in 1 .. n : i < j => FreeClusters(n)[i] < FreeClusters(n)[j]
               /\ op'.path = op.path /\ op'.pos = op.pos /\ op'.size = op.size
               /\ op'.clusters = FreeClusters(n) /\ op'.cursor = op.first
               /\ op'.first = IF n > 0 /\ op.first = 0 THEN FreeClusters(n)[1] ELSE op.first
               /\ pc' = IF n = 0 THEN "setentry" ELSE IF op.first = 0 THEN "link" ELSE "walk"
               /\ Target' = Target
<1> DEFINE n == NeededClusters
<1>1. n \in Nat /\ Clusters(Target) = Clusters(op.size) + n /\ n <= Cardinality(FreeFrom(0))
  BY NeededType DEF Reserve
<1>2. op = [x \in OpFields |-> op[x]]
  BY DEF TypeInv, OpType
<1>3. /\ op' = [op EXCEPT !.clusters = FreeClusters(n),
                          !.first = IF n > 0 /\ op.first = 0 THEN FreeClusters(1)[1]
                                    ELSE op.first,
                          !.cursor = op.first]
      /\ pc' = IF n = 0 THEN "setentry" ELSE IF op.first = 0 THEN "link" ELSE "walk"
  BY DEF Reserve
<1> HIDE DEF n
<1>4. /\ op'.path = op.path /\ op'.pos = op.pos /\ op'.size = op.size
      /\ op'.clusters = FreeClusters(n) /\ op'.cursor = op.first
      /\ op'.first = IF n > 0 /\ op.first = 0 THEN FreeClusters(1)[1] ELSE op.first
  BY ONLY <1>2, <1>3 DEF OpFields
<1>5. n > 0 => FreeClusters(n)[1] = FreeClusters(1)[1]
  BY <1>1, FirstFreeCluster
<1>6. /\ FreeClusters(n) \in Seq(0 .. TableLast) /\ Len(FreeClusters(n)) = n
      /\ \A i \in 1 .. n : FreeClusters(n)[i] \in FreeFrom(0)
      /\ \A i, j \in 1 .. n : i < j => FreeClusters(n)[i] < FreeClusters(n)[j]
  BY <1>1, FreeClustersFound
<1>7. Target' = Target
  BY <1>4 DEF Target, IsDirectory
<1>8. op'.first = IF n > 0 /\ op.first = 0 THEN FreeClusters(n)[1] ELSE op.first
  BY <1>4, <1>5
<1> QED
  BY <1>1, <1>3, <1>4, <1>6, <1>7, <1>8 DEF n

\* Between two units every cluster of a path is in use.
LEMMA OwnedInUse ==
    ASSUME TypeInv, NEW S, Apart(S), InTable(S, 1), op.clusters = <<>>
    PROVE  /\ \A c \in FreeFrom(0) : c \in 2 .. TableLast /\ c \notin RootClusters /\ fat[c] = 0
           /\ \A c \in FreeFrom(0) : ~Owner(S, c)
<1>1. ASSUME NEW c \in FreeFrom(0)
      PROVE  c \in 2 .. TableLast /\ c \notin RootClusters /\ fat[c] = 0
  <2>1. c \in 0 .. TableLast /\ fat[c] = 0
    BY <1>1 DEF FreeFrom
  <2>2. c \in 2 .. TableLast
    BY <2>1, VolumeAssumption DEF InTable, Ends, Reserved, EOC
  <2>3. ASSUME c \in RootClusters PROVE FALSE
    <3>1. ~Owner(S, c)
      BY <2>3, ChainTypes DEF Owner
    <3> QED
      BY <2>1, <2>2, <2>3, <3>1, VolumeAssumption DEF InTable, Reserved, EOC
  <2> QED
    BY <2>1, <2>2, <2>3
<1>2. ASSUME NEW p \in Paths, NEW i \in 1 .. Len(S[p]), fat[S[p][i]] = 0 PROVE FALSE
  <2>1. Len(S[p]) \in Nat /\ Len(op.clusters) = 0
    BY ChainTypes
  <2>2. Linked(S, p) = Len(S[p])
    BY <2>1 DEF Linked
  <2>3. fat[S[p][i]] = IF i = Len(S[p]) THEN EOC ELSE S[p][i + 1]
    BY <2>1, <2>2 DEF InTable, After
  <2>4. i # Len(S[p]) => S[p][i + 1] \in 2 .. TableLast
    <3>1. i # Len(S[p]) => i + 1 \in 1 .. Len(S[p])
      BY <2>1
    <3> QED
      BY <3>1, ChainTypes
  <2> QED
    BY <1>2, <2>3, <2>4, VolumeAssumption DEF EOC, Reserved
<1> QED
  BY <1>1, <1>2 DEF Owner

\* Clusters nobody has, in the order of the search, and a chain they extend.
Fresh(S, F) ==
    /\ F \in Seq((2 .. TableLast) \ RootClusters)
    /\ \A i \in 1 .. Len(F) : ~Owner(S, F[i])
    /\ \A i, j \in 1 .. Len(F) : i < j => F[i] < F[j]
Extended(S, T, p, F) ==
    /\ \A q \in Paths : q # p => T[q] = S[q]
    /\ Len(T[p]) = Len(S[p]) + Len(F)
    /\ \A i \in 1 .. Len(S[p]) : T[p][i] = S[p][i]
    /\ \A i \in 1 .. Len(F) : T[p][Len(S[p]) + i] = F[i]

LEMMA ReserveApart ==
    ASSUME NEW S, Apart(S), NEW p \in Paths, NEW F, Fresh(S, F),
           NEW T, T = [S EXCEPT ![p] = S[p] \o F]
    PROVE  Apart(T) /\ Extended(S, T, p, F)
<1> DEFINE C == (2 .. TableLast) \ RootClusters
           m == Len(S[p])
<1>1. S \in [Paths -> Seq(C)] /\ S[p] \in Seq(C) /\ m \in Nat /\ Len(F) \in Nat
  BY SeqElements DEF Apart, Fresh
<1>2. /\ S[p] \o F \in Seq(C) /\ Len(S[p] \o F) = m + Len(F)
      /\ \A i \in 1 .. m : (S[p] \o F)[i] = S[p][i]
      /\ \A i \in 1 .. Len(F) : (S[p] \o F)[m + i] = F[i]
  <2>1. F \in Seq(C)
    BY DEF Fresh
  <2> HIDE DEF C
  <2> QED
    BY <1>1, <2>1, Joined
<1>3. T[p] = S[p] \o F /\ \A q \in Paths : q # p => T[q] = S[q]
  BY <1>1
<1>4. T \in [Paths -> Seq(C)]
  <2> HIDE DEF C
  <2> QED
    BY <1>1, <1>2
<1>5. \A i \in 1 .. Len(F) : F[i] \in 2 .. TableLast
  BY SeqElements DEF Fresh
<1>6. ASSUME NEW x \in 1 .. Len(F), NEW y \in 1 .. Len(F), F[x] = F[y] PROVE x = y
  <2>1. F[x] \in Nat /\ ~(F[x] < F[y]) /\ ~(F[y] < F[x])
    BY <1>5, <1>6 DEF Fresh
  <2> QED
    BY <1>1, <2>1 DEF Fresh
<1>7. ASSUME NEW q \in Paths, NEW i \in 1 .. Len(S[q]), NEW j \in 1 .. Len(F)
      PROVE  S[q][i] # F[j]
  BY DEF Fresh, Owner
<1>8. ASSUME NEW i \in 1 .. Len(T[p])
      PROVE  \/ i \in 1 .. m /\ T[p][i] = S[p][i]
             \/ i - m \in 1 .. Len(F) /\ T[p][i] = F[i - m] /\ i > m
  <2>1. CASE i <= m
    BY <1>1, <1>2, <1>3, <2>1
  <2>2. CASE i > m
    <3>1. i - m \in 1 .. Len(F) /\ i = m + (i - m)
      BY <1>1, <1>2, <1>3, <2>2
    <3> QED
      BY <1>2, <1>3, <2>2, <3>1
  <2> QED
    BY <1>1, <2>1, <2>2
<1>9. ASSUME NEW q \in Paths, NEW r \in Paths,
             NEW i \in 1 .. Len(T[q]), NEW j \in 1 .. Len(T[r]), T[q][i] = T[r][j]
      PROVE  q = r /\ i = j
  <2>1. CASE q = p /\ r = p
    <3>1. CASE i > m /\ j > m
      <4>1. i - m \in 1 .. Len(F) /\ j - m \in 1 .. Len(F) /\ F[i - m] = F[j - m]
        BY <1>1, <1>8, <1>9, <2>1, <3>1
      <4>2. i - m = j - m
        BY <1>6, <4>1
      <4> QED
        BY <1>1, <2>1, <4>1, <4>2
    <3>2. CASE ~(i > m /\ j > m)
      <4>1. i \in 1 .. m /\ j \in 1 .. m /\ S[p][i] = S[p][j]
        BY <1>1, <1>7, <1>8, <1>9, <2>1, <3>2
      <4> QED
        BY <2>1, <4>1 DEF Apart
    <3> QED
      BY <3>1, <3>2
  <2>2. CASE q = p /\ r # p
    <3>1. j \in 1 .. Len(S[r]) /\ T[r][j] = S[r][j]
      BY <1>3, <2>2
    <3>2. i \in 1 .. m /\ T[p][i] = S[p][i]
      BY <1>7, <1>8, <1>9, <2>2, <3>1
    <3> QED
      BY <1>9, <2>2, <3>1, <3>2 DEF Apart
  <2>3. CASE q # p /\ r = p
    <3>1. i \in 1 .. Len(S[q]) /\ T[q][i] = S[q][i]
      BY <1>3, <2>3
    <3>2. j \in 1 .. m /\ T[p][j] = S[p][j]
      BY <1>7, <1>8, <1>9, <2>3, <3>1
    <3> QED
      BY <1>9, <2>3, <3>1, <3>2 DEF Apart
  <2>4. CASE q # p /\ r # p
    BY <1>3, <1>9, <2>4 DEF Apart
  <2> QED
    BY <2>1, <2>2, <2>3, <2>4
<1>10. Apart(T)
  BY <1>4, <1>9 DEF Apart
<1> QED
  BY <1>2, <1>3, <1>10 DEF Extended

LEMMA ReserveChain ==
    ASSUME TypeInv, NEW S, NEW k, Chained(S, k), Reserve,
           NEW T, T = [S EXCEPT ![op.path] = S[op.path] \o FreeClusters(NeededClusters)]
    PROVE  Chained(T, 1)'
<1>1. PICK p, F, n, m :
        p = op.path /\ F = FreeClusters(NeededClusters) /\ n = NeededClusters /\ m = Len(S[p])
  OBVIOUS
<1>2. /\ pc = "write" /\ session = "insert" /\ p \in Paths /\ k = 1
      /\ op.clusters = <<>> /\ Len(op.clusters) = 0 /\ m \in Nat
      /\ UNCHANGED <<fat, entry, data, fsInfo, session, outcome, crashed, kept>>
  <2>1. pc = "write" /\ UNCHANGED <<fat, entry, data, fsInfo, session, outcome, crashed, kept>>
    BY DEF Reserve
  <2>2. k = 1 /\ op.clusters = <<>>
    BY <2>1, IdleChain
  <2>3. session = "insert" /\ p \in Paths
    BY <1>1, <2>1 DEF TypeInv, OpOK, Extending
  <2>4. m \in Nat
    BY <1>1, <2>3, ChainTypes DEF Chained
  <2> QED
    BY <2>1, <2>2, <2>3, <2>4
<1>3. /\ n \in Nat /\ Clusters(Target) = Clusters(op.size) + n
      /\ F \in Seq(0 .. TableLast) /\ Len(F) = n
      /\ \A i \in 1 .. n : F[i] \in FreeFrom(0)
      /\ \A i, j \in 1 .. n : i < j => F[i] < F[j]
      /\ op'.path = p /\ op'.size = op.size /\ op'.clusters = F /\ op'.cursor = op.first
      /\ op'.first = IF n > 0 /\ op.first = 0 THEN F[1] ELSE op.first
      /\ pc' = IF n = 0 THEN "setentry" ELSE IF op.first = 0 THEN "link" ELSE "walk"
      /\ Target' = Target
  BY <1>1, <1>2, ReservedStep
<1>4. \A i \in 1 .. n : /\ F[i] \in 2 .. TableLast /\ F[i] \notin RootClusters
                        /\ fat[F[i]] = 0 /\ ~Owner(S, F[i])
  BY <1>2, <1>3, OwnedInUse DEF Chained
<1>5. F \in Seq((2 .. TableLast) \ RootClusters)
  BY <1>3, <1>4
<1>6. /\ Apart(T)
      /\ \A q \in Paths : q # p => T[q] = S[q]
      /\ Len(T[p]) = m + n
      /\ \A i \in 1 .. m : T[p][i] = S[p][i]
      /\ \A i \in 1 .. n : T[p][m + i] = F[i]
  <2>1. T = [S EXCEPT ![p] = S[p] \o F] /\ Apart(S) /\ Len(F) = n /\ m = Len(S[p])
    BY <1>1, <1>3 DEF Chained
  <2>2. Fresh(S, F)
    BY <1>3, <1>4, <1>5, <2>1 DEF Fresh
  <2>3. Apart(T) /\ Extended(S, T, p, F)
    BY <1>2, <2>1, <2>2, ReserveApart
  <2> QED
    BY <2>1, <2>3 DEF Extended
<1>7. \A i \in 1 .. Len(T[p]) :
         \/ i \in 1 .. m /\ T[p][i] = S[p][i]
         \/ i > m /\ i - m \in 1 .. n /\ T[p][i] = F[i - m]
  <2> SUFFICES ASSUME NEW i \in 1 .. Len(T[p]), i > m
               PROVE  i - m \in 1 .. n /\ T[p][i] = F[i - m]
    BY <1>2, <1>3, <1>6
  <2>1. i - m \in 1 .. n /\ m + (i - m) = i
    BY <1>2, <1>3, <1>6
  <2> QED
    BY <1>6, <2>1
<1>8. /\ op.first = First(S, p) /\ Clusters(op.size) = m
      /\ op.path \in Files => op.size = entry[op.path].size
      /\ entry[p].live
  BY <1>1, <1>2 DEF Chained, Working
<1>9. /\ m = 0 <=> op.first = 0
      /\ m # 0 => op.first = S[p][1] /\ T[p][1] = S[p][1]
  <2>1. m = 0 <=> S[p] = <<>>
    <3>1. S[p] \in Seq((2 .. TableLast) \ RootClusters)
      BY <1>2, ChainTypes DEF Chained
    <3> QED
      BY <1>1, <3>1
  <2>2. m # 0 => 1 \in 1 .. m /\ S[p][1] \in 2 .. TableLast
    <3>1. m # 0 => 1 \in 1 .. m
      BY <1>2
    <3> QED
      BY <1>1, <1>2, <3>1, ChainTypes DEF Chained
  <2> QED
    BY <1>6, <1>8, <2>1, <2>2 DEF First
<1>10. op'.first = First(T, p)
  <2>1. CASE m = 0 /\ n = 0
    <3>1. T[p] = <<>>
      <4>1. T[p] \in Seq((2 .. TableLast) \ RootClusters)
        BY <1>2, <1>6, ChainTypes
      <4> QED
        BY <1>6, <2>1, <4>1
    <3> QED
      BY <1>3, <1>9, <2>1, <3>1 DEF First
  <2>2. CASE m # 0 \/ n # 0
    <3>1. T[p] # <<>>
      BY <1>2, <1>3, <1>6, <2>2
    <3>2. m = 0 => T[p][1] = F[1]
      <4>1. m = 0 => 1 \in 1 .. n /\ m + 1 = 1
        BY <1>2, <1>3, <2>2
      <4> QED
        BY <1>6, <4>1
    <3> QED
      BY <1>2, <1>3, <1>9, <2>2, <3>1, <3>2 DEF First
  <2> QED
    BY <2>1, <2>2
<1>11. /\ Linked(T, p)' = m
       /\ \A q \in Paths : q # p => Linked(T, q)' = Len(S[q]) /\ Linked(S, q) = Len(S[q])
       /\ Linked(S, p) = m
  <2>1. /\ op.path = p /\ op'.path = p /\ Len(op.clusters) = 0 /\ Len(op'.clusters) = n
        /\ Len(T[p]) = m + n /\ Len(S[p]) = m /\ n \in Nat /\ m \in Nat
    BY <1>1, <1>2, <1>3, <1>6
  <2>2. Linked(T, p)' = m /\ Linked(S, p) = m
    BY ONLY <2>1 DEF Linked, Busy
  <2>3. ASSUME NEW q \in Paths, q # p
        PROVE  Linked(T, q)' = Len(S[q]) /\ Linked(S, q) = Len(S[q])
    <3>1. T[q] = S[q] /\ Len(S[q]) \in Nat
      BY <1>6, <2>3, ChainTypes DEF Chained
    <3> QED
      BY ONLY <2>1, <2>3, <3>1 DEF Linked, Busy
  <2> QED
    BY <2>2, <2>3
<1>12. Apart(T)'
  BY <1>6 DEF Apart, RootClusters
<1>13. InTable(T, 1)'
  <2>1. ASSUME NEW q \in Paths, NEW i \in 1 .. Len(T[q])
        PROVE  fat[T[q][i]] = After(T, 1, q, i)'
    <3>1. CASE q # p
      <4>1. T[q] = S[q] /\ i \in 1 .. Len(S[q]) /\ fat[S[q][i]] = After(S, 1, q, i)
            /\ Len(S[q]) \in Nat
        BY <1>2, <1>6, <3>1, ChainTypes DEF Chained, InTable
      <4> QED
        BY <1>1, <1>2, <1>3, <1>11, <3>1, <4>1 DEF After, Busy
    <3>2. CASE q = p /\ i > m
      <4>1. i - m \in 1 .. n /\ T[p][i] = F[i - m]
        BY <1>2, <1>7, <3>2
      <4>2. fat[T[p][i]] = 0
        BY <1>4, <4>1
      <4> QED
        BY <1>11, <3>2, <4>2 DEF After
    <3>3. CASE q = p /\ i <= m
      <4>1. i \in 1 .. m /\ T[p][i] = S[p][i]
        <5>1. i \in 1 .. m
          BY <1>2, <3>3
        <5> QED
          BY <1>6, <5>1
      <4>2. fat[S[p][i]] = IF i = m THEN EOC ELSE S[p][i + 1]
        <5>1. fat[S[p][i]] = After(S, 1, p, i)
          BY <1>1, <1>2, <4>1 DEF Chained, InTable
        <5> QED
          BY <1>1, <1>2, <1>11, <4>1, <5>1 DEF After
      <4>3. i # m => T[p][i + 1] = S[p][i + 1]
        <5>1. i # m => i + 1 \in 1 .. m
          BY <1>2, <4>1
        <5> QED
          BY <1>6, <5>1
      <4>4. m # 0 /\ (n = 0 \/ pc' = "walk")
        BY <1>2, <1>3, <1>9, <4>1
      <4>5. i = m => i = Len(T[p]) \/ pc' = "walk"
        BY <1>2, <1>3, <1>6, <4>4
      <4>6. i # m => i # Len(T[p])
        BY <1>2, <1>3, <1>6, <4>1
      <4>7. ~(i < 1) /\ ~(i > m)
        BY <1>2, <4>1
      <4>8. i = m => After(T, 1, p, i)' = EOC
        BY <1>11, <4>5, <4>7 DEF After
      <4>9. i # m => After(T, 1, p, i)' = T[p][i + 1]
        BY <1>11, <4>6, <4>7 DEF After
      <4> QED
        BY <3>3, <4>1, <4>2, <4>3, <4>8, <4>9
    <3> QED
      BY <1>2, <3>1, <3>2, <3>3
  <2>2. ASSUME NEW d \in 2 .. TableLast, ~Owner(T, d)
        PROVE  fat[d] = IF d \in RootClusters THEN EOC ELSE 0
    <3>1. ~Owner(S, d)
      <4> SUFFICES ASSUME NEW q \in Paths, NEW i \in 1 .. Len(S[q]), S[q][i] = d
                   PROVE  i \in 1 .. Len(T[q]) /\ T[q][i] = d
        BY <2>2 DEF Owner
      <4>1. CASE q = p
        BY <1>1, <1>2, <1>3, <1>6, <4>1
      <4>2. CASE q # p
        BY <1>6, <4>2
      <4> QED
        BY <4>1, <4>2
    <3> QED
      BY <3>1 DEF Chained, InTable
  <2> QED
    BY <1>2, <2>1, <2>2 DEF Chained, InTable, Ends, Owner, RootClusters
<1>14. OnImage(T)'
  <2>1. stable' \in {stable, fat}
    BY <1>1, <1>3 DEF Reserve, Save
  <2>2. OnImage(S)'
    BY <1>2, <2>1, SaveKeeps DEF Chained
  <2>3. \A c \in 2 .. TableLast : fat[c] = 0 => stable'[c] = 0
    BY <1>2, <2>1 DEF Chained, OnImage
  <2>4. ASSUME NEW q \in Paths, NEW i \in 1 .. Len(T[q])
        PROVE  \/ stable'[T[q][i]] \in {0, EOC}
               \/ \E j \in 1 .. Len(T[q]) : stable'[T[q][i]] = T[q][j]
    <3>1. CASE q # p
      <4>1. T[q] = S[q]
        BY <1>6, <3>1
      <4>2. \A x \in 1 .. Len(S[q]) :
               \/ stable'[S[q][x]] \in {0, EOC}
               \/ \E j \in 1 .. Len(S[q]) : stable'[S[q][x]] = S[q][j]
        BY <2>2 DEF OnImage
      <4> QED
        BY <4>1, <4>2
    <3>2. CASE q = p /\ i > m
      <4>1. i - m \in 1 .. n /\ T[p][i] = F[i - m]
        BY <1>2, <1>7, <3>2
      <4>2. stable'[F[i - m]] = 0
        BY <1>4, <2>3, <4>1
      <4> QED
        BY <3>2, <4>1, <4>2
    <3>3. CASE q = p /\ i <= m
      <4>1. i \in 1 .. m /\ T[p][i] = S[p][i]
        <5>1. i \in 1 .. m
          BY <1>2, <3>3
        <5> QED
          BY <1>6, <5>1
      <4>2. \/ stable'[S[p][i]] \in {0, EOC}
            \/ \E j \in 1 .. m : stable'[S[p][i]] = S[p][j]
        BY <1>1, <1>2, <2>2, <4>1 DEF OnImage
      <4>3. \A j \in 1 .. m : j \in 1 .. Len(T[p]) /\ S[p][j] = T[p][j]
        BY <1>2, <1>3, <1>6
      <4> QED
        BY <3>3, <4>1, <4>2, <4>3
    <3> QED
      BY <1>2, <3>1, <3>2, <3>3
  <2> QED
    BY <1>2, <2>2, <2>4 DEF OnImage, Ends
<1>15. Named(T)'
  <2>1. ASSUME NEW q \in Paths, q # p
        PROVE  IF entry[q].live
               THEN /\ entry[q].first = First(T, q)
                    /\ q \in Files => Clusters(entry[q].size) = Len(T[q])
                    /\ q \in Dirs => entry[q].size = 0
               ELSE T[q] = <<>>
    BY <1>1, <1>2, <1>6, <2>1 DEF Chained, Named, First, Busy
  <2>2. /\ entry[p].first = op.first
        /\ p \in Files => Clusters(entry[p].size) = m
        /\ p \in Dirs => entry[p].size = 0
    BY <1>1, <1>2, <1>8 DEF Chained, Named
  <2>3. pc' = "walk" => entry[p].first = First(T, p)
    BY <1>3, <1>9, <1>10, <2>2
  <2>4. pc' # "walk" => pc' \in {"link", "setentry"}
                       /\ (entry[p].first = First(T, p) \/ entry[p].first = 0)
    BY <1>3, <1>10, <2>2
  <2>5. op'.path = p /\ entry' = entry
    BY <1>2, <1>3
  <2>6. ASSUME NEW q \in Paths, q # p
        PROVE  First(T, q)' = First(T, q) /\ Linked(T, q)' = Len(T[q])
    BY <1>6, <1>11, <2>6 DEF First
  <2>7. First(T, p)' = First(T, p)
    BY DEF First
  <2> QED
    BY <1>8, <1>11, <2>1, <2>2, <2>3, <2>4, <2>5, <2>6, <2>7 DEF Named, Busy, First
<1>16. Working(T, 1)'
  <2>1. \A i \in 1 .. n : F[i] = T[p][m + i]
    BY <1>6
  <2>2. pc' = "walk" => \E i \in 1 .. m : op'.cursor = T[p][i]
    <3>1. pc' = "walk" => m # 0 /\ 1 \in 1 .. m
      BY <1>2, <1>3, <1>9
    <3> QED
      BY <1>3, <1>9, <3>1
  <2>3. op'.first = First(T, p)'
    BY <1>10 DEF First
  <2>4. pc' \in {"setentry", "link", "walk"}
    BY <1>3
  <2>5. /\ op'.path = p /\ op'.size = op.size /\ op'.clusters = F /\ Len(F) = n
        /\ op.path = p /\ entry' = entry /\ Linked(T, p)' = m /\ Len(T[p]) = m + n
        /\ Clusters(op.size) = m /\ Clusters(Target) = m + n /\ m >= 0
        /\ p \in Files => op.size = entry[p].size
        /\ entry[p].live
    BY <1>1, <1>2, <1>3, <1>6, <1>8, <1>11
  <2>6. Clusters(Target)' = m + n /\ Clusters(op.size)' = m
    BY <1>3, <2>5 DEF Clusters
  <2> QED
    BY ONLY <2>1, <2>2, <2>3, <2>4, <2>5, <2>6 DEF Working
<1>17. Counted'
  <2>1. Version = 32 => freeCount' = (freeCount + CountMod + (-n)) % CountMod
    <3>1. freeCount + CountMod - n = freeCount + CountMod + (-n)
      BY <1>3, VolumeAssumption DEF TypeInv, TypeOK
    <3> QED
      BY <1>1, <3>1 DEF Reserve
  <2>2. InUse' = InUse
    BY <1>2 DEF InUse
  <2>3. Cardinality(InUse') + Len(op'.clusters) + (-n) = Cardinality(InUse) + Len(op.clusters)
    BY <1>2, <1>3, <2>2, InUseType
  <2>4. -n \in Int /\ Len(op'.clusters) \in Nat
    BY <1>3
  <2> QED
    BY <1>2, <2>1, <2>3, <2>4, CountStep DEF Chained
<1> QED
  BY <1>12, <1>13, <1>14, <1>15, <1>16, <1>17 DEF Chained

\* The walk finds the cluster it stands on in the chain it follows.
LEMMA WalkPlace ==
    ASSUME TypeInv, NEW S, NEW k, Chained(S, k), pc = "walk"
    PROVE  /\ op.path \in Paths /\ k = 1 /\ session = "insert"
           /\ Linked(S, op.path) \in Nat /\ Linked(S, op.path) < Len(S[op.path])
           /\ Len(op.clusters) = Len(S[op.path]) - Linked(S, op.path)
           /\ \E i \in 1 .. Linked(S, op.path) :
                /\ op.cursor = S[op.path][i] /\ i \in 1 .. Len(S[op.path])
                /\ ReadFAT(fat, op.cursor) = fat[op.cursor]
                /\ IsEOC(fat[op.cursor]) <=> i = Linked(S, op.path)
                /\ i # Linked(S, op.path) => fat[op.cursor] = S[op.path][i + 1]
<1> DEFINE p == op.path
           L == Linked(S, p)
<1>1. p \in Paths /\ session = "insert" /\ op.clusters # <<>> /\ op.clusters \in Seq(0 .. TableLast)
  BY DEF TypeInv, OpOK, OpType, Extending
<1>2. Len(op.clusters) \in Nat \ {0} /\ Len(S[p]) \in Nat
  BY <1>1, ChainTypes DEF Chained
<1>3. k = 1 /\ L >= 0 /\ \E i \in 1 .. L : op.cursor = S[p][i]
  BY DEF Chained, Working
<1>4. L = Len(S[p]) - Len(op.clusters)
  BY DEF Linked, Busy
<1>5. L \in Nat /\ L < Len(S[p])
  <2> DEFINE a == Len(S[p])
             b == Len(op.clusters)
  <2>1. a \in Nat /\ b \in Nat \ {0} /\ L = a - b /\ L >= 0
    BY <1>2, <1>3, <1>4
  <2> HIDE DEF a, b, L
  <2> QED
    BY <2>1 DEF a
<1>6. PICK i \in 1 .. L : op.cursor = S[p][i]
  BY <1>3
<1>7. i \in 1 .. Len(S[p]) /\ i < Len(S[p])
  BY <1>2, <1>5, <1>6
<1>8. op.cursor \in 2 .. TableLast /\ ReadFAT(fat, op.cursor) = fat[op.cursor]
  <2>1. op.cursor \in 2 .. TableLast
    BY <1>1, <1>6, <1>7, ChainTypes DEF Chained
  <2> QED
    BY <2>1, VolumeAssumption DEF ReadFAT
<1>9. fat[S[p][i]] = After(S, 1, p, i)
  BY <1>1, <1>3, <1>7 DEF Chained, InTable
<1>10. After(S, 1, p, i) = IF i = L THEN EOC ELSE S[p][i + 1]
  <2>1. i \in Nat /\ i >= 1 /\ i <= L
    BY <1>5, <1>6
  <2>2. ~(i < 1) /\ ~(i > L) /\ i # Len(S[p])
    BY <1>2, <1>7, <2>1, <1>5
  <2> QED
    BY ONLY <2>2, pc = "walk" DEF After
<1>11. i # L => S[p][i + 1] \in 2 .. TableLast
  <2>1. i # L => i + 1 \in 1 .. Len(S[p])
    BY <1>2, <1>5, <1>6, <1>7
  <2> QED
    BY <1>1, <2>1, ChainTypes DEF Chained
<1>12. IsEOC(fat[op.cursor]) <=> i = L
  BY <1>6, <1>9, <1>10, <1>11, VolumeAssumption DEF IsEOC, EOC, BeyondLast
<1>13. /\ op.cursor = S[p][i] /\ i \in 1 .. Len(S[p])
       /\ ReadFAT(fat, op.cursor) = fat[op.cursor]
       /\ IsEOC(fat[op.cursor]) <=> i = L
       /\ i # L => fat[op.cursor] = S[p][i + 1]
  BY <1>6, <1>7, <1>8, <1>9, <1>10, <1>12
<1>14. Len(op.clusters) = Len(S[p]) - L
  BY <1>2, <1>4, <1>5
<1> HIDE DEF L
<1> QED
  BY <1>1, <1>3, <1>5, <1>13, <1>14 DEF L

\* One cluster further along the chain.
LEMMA WalkChain ==
    ASSUME TypeInv, NEW S, NEW k, Chained(S, k), Walk
    PROVE  Chained(S, 1)'
<1>1. PICK p, L : p = op.path /\ L = Linked(S, p)
  OBVIOUS
<1>2. /\ pc = "walk" /\ ~IsEOC(ReadFAT(fat, op.cursor)) /\ stable' \in {stable, fat}
      /\ UNCHANGED <<fat, entry, data, freeCount, fsInfo, session, pc, outcome, crashed, kept>>
  BY DEF Walk, Save
<1>3. /\ op'.path = p /\ op'.first = op.first /\ op'.size = op.size /\ op'.pos = op.pos
      /\ op'.clusters = op.clusters /\ op'.cursor = ReadFAT(fat, op.cursor)
  <2>1. op = [x \in OpFields |-> op[x]]
    BY DEF TypeInv, OpType
  <2>2. op' = [op EXCEPT !.cursor = ReadFAT(fat, op.cursor)]
    BY DEF Walk
  <2> QED
    BY ONLY <1>1, <2>1, <2>2 DEF OpFields
<1>4. PICK i \in 1 .. L :
        /\ op.cursor = S[p][i] /\ ReadFAT(fat, op.cursor) = fat[op.cursor]
        /\ i # L /\ fat[op.cursor] = S[p][i + 1]
  BY <1>1, <1>2, WalkPlace
<1>5. p \in Paths /\ k = 1 /\ session = "insert" /\ L \in Nat
  BY <1>1, <1>2, WalkPlace
<1>6. \A q : Linked(S, q)' = Linked(S, q) /\ First(S, q)' = First(S, q) /\ (Busy(q)' <=> Busy(q))
  BY <1>1, <1>3 DEF Linked, First, Busy
<1>7. Apart(S)'
  BY DEF Chained, Apart, RootClusters
<1>8. InTable(S, 1)'
  <2>1. \A q, j : After(S, 1, q, j)' = After(S, 1, q, j)
    BY <1>2, <1>6 DEF After
  <2> QED
    BY <1>2, <1>5, <2>1 DEF Chained, InTable, Ends, Owner, RootClusters
<1>9. OnImage(S)'
  BY <1>2, <1>5, SaveKeeps DEF Chained
<1>10. Named(S)'
  BY <1>1, <1>2, <1>6 DEF Chained, Named
<1>11. Working(S, 1)'
  <2>1. i + 1 \in 1 .. L /\ op'.cursor = S[p][i + 1]
    BY <1>3, <1>4, <1>5
  <2>2. Target' = Target
    BY <1>1, <1>3 DEF Target, IsDirectory
  <2>3. /\ entry[p].live /\ op.first = First(S, p)
        /\ p \in Files => op.size = entry[p].size
        /\ Clusters(op.size) = L /\ Clusters(Target) = Len(S[p]) /\ L >= 0
        /\ \A j \in 1 .. Len(op.clusters) : op.clusters[j] = S[p][L + j]
    BY <1>1, <1>2 DEF Chained, Working
  <2>4. Clusters(op.size)' = L /\ Clusters(Target)' = Len(S[p])
    BY <1>3, <2>2, <2>3 DEF Clusters
  <2>5. Linked(S, p)' = L /\ First(S, p)' = First(S, p)
    BY <1>1, <1>6
  <2> QED
    BY ONLY <1>1, <1>2, <1>3, <2>1, <2>3, <2>4, <2>5 DEF Working
<1>12. Counted'
  BY <1>2, <1>3, <1>5, QuietCount DEF Chained
<1> QED
  BY <1>7, <1>8, <1>9, <1>10, <1>11, <1>12 DEF Chained

\* Writing one cluster of a chain leaves the table what it was elsewhere.
LEMMA OneWrite ==
    ASSUME TypeInv, NEW S, NEW k, Chained(S, k), NEW p \in Paths, NEW i \in 1 .. Len(S[p]),
           NEW v, fat' = [fat EXCEPT ![S[p][i]] = v]
    PROVE  /\ Ends(fat)' /\ fat'[S[p][i]] = v
           /\ \A q \in Paths : \A j \in 1 .. Len(S[q]) :
                 q # p \/ j # i => fat'[S[q][j]] = fat[S[q][j]]
           /\ \A d \in 2 .. TableLast : d # S[p][i] => fat'[d] = fat[d]
           /\ \A d \in 2 .. TableLast :
                 ~Owner(S, d) => fat'[d] = IF d \in RootClusters THEN EOC ELSE 0
<1>1. S[p][i] \in 2 .. TableLast /\ S[p][i] \in 0 .. TableLast
  BY ChainTypes DEF Chained
<1>2. DOMAIN fat = 0 .. TableLast
  BY DEF TypeInv, TypeOK
<1>3. fat'[S[p][i]] = v /\ \A d \in 0 .. TableLast : d # S[p][i] => fat'[d] = fat[d]
  BY <1>1, <1>2
<1>4. Ends(fat)'
  <2>1. 0 \in 0 .. TableLast /\ 1 \in 0 .. TableLast /\ S[p][i] # 0 /\ S[p][i] # 1
    BY <1>1, VolumeAssumption
  <2>2. fat'[0] = fat[0] /\ fat'[1] = fat[1]
    BY <1>3, <2>1
  <2> QED
    BY <2>2 DEF Chained, InTable, Ends
<1>5. ASSUME NEW q \in Paths, NEW j \in 1 .. Len(S[q]), q # p \/ j # i
      PROVE  fat'[S[q][j]] = fat[S[q][j]]
  <2>1. S[q][j] # S[p][i]
    BY <1>5 DEF Chained, Apart
  <2>2. S[q][j] \in 0 .. TableLast
    BY ChainTypes DEF Chained
  <2> QED
    BY <1>3, <2>1, <2>2
<1>6. \A d \in 2 .. TableLast : d # S[p][i] => fat'[d] = fat[d]
  BY <1>3
<1>7. ASSUME NEW d \in 2 .. TableLast, ~Owner(S, d)
      PROVE  fat'[d] = IF d \in RootClusters THEN EOC ELSE 0
  <2>1. d # S[p][i]
    BY <1>7 DEF Owner
  <2> QED
    BY <1>6, <1>7, <2>1 DEF Chained, InTable
<1> QED
  BY <1>3, <1>4, <1>5, <1>6, <1>7

\* The old end of the chain leads to the first of the new clusters.
LEMMA LinkToLastChain ==
    ASSUME TypeInv, NEW S, NEW k, Chained(S, k), LinkToLast
    PROVE  Chained(S, 1)'
<1>1. PICK p, L : p = op.path /\ L = Linked(S, p)
  OBVIOUS
<1>2. /\ pc = "walk" /\ IsEOC(ReadFAT(fat, op.cursor)) /\ stable' \in {stable, fat}
      /\ pc' = "link"
      /\ UNCHANGED <<entry, data, freeCount, fsInfo, session, op, outcome, crashed, kept>>
  BY DEF LinkToLast, Save
<1>3. /\ p \in Paths /\ k = 1 /\ session = "insert" /\ L \in Nat /\ L < Len(S[p])
      /\ Len(op.clusters) = Len(S[p]) - L
  BY <1>1, <1>2, WalkPlace
<1>4. op.cursor = S[p][L] /\ L \in 1 .. Len(S[p]) /\ fat[S[p][L]] = EOC
  <2>1. PICK i \in 1 .. L :
          /\ op.cursor = S[p][i] /\ i \in 1 .. Len(S[p])
          /\ ReadFAT(fat, op.cursor) = fat[op.cursor]
          /\ IsEOC(fat[op.cursor]) <=> i = L
    BY <1>1, <1>2, WalkPlace
  <2>2. i = L
    BY <1>2, <2>1
  <2>3. fat[S[p][L]] = After(S, 1, p, L)
    BY <1>3, <2>1, <2>2 DEF Chained, InTable
  <2>4. ~(L < 1) /\ ~(L > L)
    BY <1>3, <2>1, <2>2
  <2>5. After(S, 1, p, L) = EOC
    BY ONLY <1>1, <1>2, <2>4 DEF After
  <2> QED
    BY <2>1, <2>2, <2>3, <2>5
<1>5. L + 1 \in 1 .. Len(S[p]) /\ L # Len(S[p]) /\ op.clusters[1] = S[p][L + 1]
  <2>1. L + 1 \in 1 .. Len(S[p]) /\ L # Len(S[p]) /\ 1 \in 1 .. Len(op.clusters)
    BY <1>3, ChainTypes DEF Chained
  <2> QED
    BY <1>1, <1>2, <2>1 DEF Chained, Working
<1>6. S[p][L] \in 2 .. TableLast /\ S[p][L + 1] \in 2 .. TableLast
  BY <1>3, <1>4, <1>5, ChainTypes DEF Chained
<1>7. fat' = [fat EXCEPT ![S[p][L]] = S[p][L + 1]]
  <2>1. S[p][L] <= TableLast
    BY <1>6, VolumeAssumption
  <2> QED
    BY <1>4, <1>5, <2>1 DEF LinkToLast, Written
<1>8. /\ Ends(fat)' /\ fat'[S[p][L]] = S[p][L + 1]
      /\ \A q \in Paths : \A j \in 1 .. Len(S[q]) :
            q # p \/ j # L => fat'[S[q][j]] = fat[S[q][j]]
      /\ \A d \in 2 .. TableLast : d # S[p][L] => fat'[d] = fat[d]
      /\ \A d \in 2 .. TableLast :
            ~Owner(S, d) => fat'[d] = IF d \in RootClusters THEN EOC ELSE 0
  BY <1>3, <1>4, <1>7, OneWrite
<1>9. \A q : Linked(S, q)' = Linked(S, q) /\ First(S, q)' = First(S, q) /\ (Busy(q)' <=> Busy(q))
  BY <1>2 DEF Linked, First, Busy
<1>10. Apart(S)'
  BY DEF Chained, Apart, RootClusters
<1>11. InTable(S, 1)'
  <2>1. ASSUME NEW q \in Paths, NEW j \in 1 .. Len(S[q])
        PROVE  fat'[S[q][j]] = After(S, 1, q, j)'
    <3>1. fat[S[q][j]] = After(S, 1, q, j) /\ j \in Nat /\ Len(S[q]) \in Nat
      BY <1>3, ChainTypes DEF Chained, InTable
    <3>2. CASE q = p /\ j = L
      <4>1. ~(j < 1) /\ ~(j > L) /\ j # Len(S[q]) /\ Linked(S, q)' = L
        BY <1>1, <1>3, <1>5, <1>9, <3>1, <3>2
      <4>2. After(S, 1, q, j)' = S[q][j + 1]
        BY ONLY <1>2, <4>1 DEF After
      <4> QED
        BY <1>8, <3>2, <4>2
    <3>3. CASE q # p \/ j # L
      <4>1. ~(q = p /\ j = Linked(S, q))
        BY <1>1, <3>3
      <4>2. q # p => Linked(S, q) = Len(S[q])
        BY <1>1, <3>1 DEF Linked, Busy
      <4>3. After(S, 1, q, j)' = After(S, 1, q, j)
        BY <1>1, <1>2, <1>9, <4>1, <4>2 DEF After
      <4> QED
        BY <1>8, <3>1, <3>3, <4>3
    <3> QED
      BY <3>2, <3>3
  <2> QED
    BY <1>8, <2>1 DEF InTable, RootClusters, Owner
<1>12. OnImage(S)'
  <2>1. \A c \in 2 .. TableLast : fat'[c] = 0 => fat[c] = 0
    BY <1>6, <1>8
  <2> QED
    BY <1>2, <1>3, <2>1, SaveKeeps DEF Chained
<1>13. Named(S)'
  <2>1. ASSUME NEW q \in Paths
        PROVE  IF entry[q].live
               THEN /\ entry[q].first = First(S, q)
                    /\ q \in Files /\ q # p => Clusters(entry[q].size) = Len(S[q])
                    /\ q \in Dirs => entry[q].size = 0
               ELSE S[q] = <<>>
    <3>1. Len(S[q]) \in Nat
      BY ChainTypes DEF Chained
    <3>2. q # p => Linked(S, q) = Len(S[q]) /\ ~Busy(q)
      BY <1>1, <3>1 DEF Linked, Busy
    <3> QED
      BY <1>2, <3>2 DEF Chained, Named
  <2>2. \A q : First(S, q)' = First(S, q) /\ (Busy(q)' <=> q = p)
    BY <1>1, <1>9 DEF Busy
  <2> QED
    BY ONLY <1>2, <2>1, <2>2 DEF Named
<1>14. Working(S, 1)'
  <2>1. /\ entry[p].live /\ op.first = First(S, p)
        /\ p \in Files => op.size = entry[p].size
        /\ Clusters(Target) = Len(S[p]) /\ L >= 0
        /\ \A j \in 1 .. Len(op.clusters) : op.clusters[j] = S[p][L + j]
    BY <1>1, <1>2 DEF Chained, Working
  <2>2. Clusters(Target)' = Clusters(Target)
    BY <1>2 DEF Target, IsDirectory, Clusters
  <2>3. Linked(S, p)' = L /\ First(S, p)' = First(S, p)
    BY <1>1, <1>9
  <2> QED
    BY ONLY <1>1, <1>2, <2>1, <2>2, <2>3 DEF Working
<1>15. Counted'
  <2>1. InUse' = InUse
    <3>1. fat[S[p][L]] # 0 /\ fat'[S[p][L]] # 0
      BY <1>4, <1>6, <1>8, VolumeAssumption DEF EOC, Reserved
    <3>2. \A d \in 2 .. TableLast : fat'[d] # 0 <=> fat[d] # 0
      BY <1>8, <3>1
    <3> QED
      BY <3>2 DEF InUse
  <2> QED
    BY <1>2, <1>3, <2>1 DEF Chained, Counted
<1> QED
  BY <1>10, <1>11, <1>12, <1>13, <1>14, <1>15 DEF Chained

\* One of the new clusters gets its place in the table.
LEMMA LinkChain ==
    ASSUME TypeInv, NEW S, NEW k, Chained(S, k), Link
    PROVE  Chained(S, 1)'
<1>1. PICK p, L, C, R : p = op.path /\ L = Linked(S, p) /\ C = op.clusters /\ R = Tail(op.clusters)
  OBVIOUS
<1>2. /\ pc = "link" /\ stable' \in {stable, fat} /\ session = "insert" /\ p \in Paths
      /\ pc' = IF R = <<>> THEN "setentry" ELSE "link"
      /\ UNCHANGED <<entry, freeCount, fsInfo, session, outcome, crashed, kept>>
      /\ C \in Seq(0 .. TableLast) /\ C # <<>> /\ k = 1
  BY <1>1 DEF Link, Save, TypeInv, OpOK, OpType, Extending, Chained, Working
<1>3. /\ Len(C) \in Nat \ {0} /\ Head(C) = C[1] /\ R \in Seq(0 .. TableLast)
      /\ Len(R) = Len(C) - 1 /\ \A i \in 1 .. Len(C) - 1 : R[i] = C[i + 1]
      /\ R = <<>> <=> Len(C) = 1
      /\ R # <<>> => Head(R) = R[1]
  <2>1. /\ Len(C) \in Nat \ {0} /\ Head(C) = C[1] /\ R \in Seq(0 .. TableLast)
        /\ Len(R) = Len(C) - 1 /\ \A i \in 1 .. Len(C) - 1 : R[i] = C[i + 1]
        /\ R = <<>> <=> Len(C) = 1
    BY <1>1, <1>2, HeadAndTail
  <2>2. R # <<>> => Head(R) = R[1]
    BY <2>1, HeadAndTail
  <2> QED
    BY <2>1, <2>2
<1>4. /\ L \in Nat /\ Len(S[p]) = L + Len(C) /\ entry[p].live /\ op.first = First(S, p)
      /\ p \in Files => op.size = entry[p].size
      /\ Clusters(Target) = Len(S[p])
      /\ \A i \in 1 .. Len(C) : C[i] = S[p][L + i]
  <2>1. /\ entry[p].live /\ op.first = First(S, p)
        /\ p \in Files => op.size = entry[p].size
        /\ Clusters(Target) = Len(S[p]) /\ L >= 0
        /\ \A i \in 1 .. Len(C) : C[i] = S[p][L + i]
    BY <1>1, <1>2 DEF Chained, Working
  <2>2. L = Len(S[p]) - Len(C) /\ Len(S[p]) \in Nat
    BY <1>1, <1>2, ChainTypes DEF Linked, Busy, Chained
  <2>3. L \in Nat /\ Len(S[p]) = L + Len(C)
    BY ONLY <1>3, <2>1, <2>2
  <2> QED
    BY <2>1, <2>3
<1>5. /\ L + 1 \in 1 .. Len(S[p]) /\ C[1] = S[p][L + 1]
      /\ Len(C) # 1 => L + 2 \in 1 .. Len(S[p]) /\ R[1] = S[p][L + 2]
      /\ R = <<>> <=> L + 1 = Len(S[p])
  <2>1. L + 1 \in 1 .. Len(S[p]) /\ 1 \in 1 .. Len(C)
    BY <1>3, <1>4
  <2>2. Len(C) # 1 => /\ L + 2 \in 1 .. Len(S[p]) /\ 1 \in 1 .. Len(C) - 1
                      /\ 2 \in 1 .. Len(C) /\ 1 + 1 = 2
    BY <1>3, <1>4
  <2> QED
    BY <1>3, <1>4, <2>1, <2>2
<1>6. S[p][L + 1] \in 2 .. TableLast /\ (Len(C) # 1 => S[p][L + 2] \in 2 .. TableLast)
  BY <1>2, <1>5, ChainTypes DEF Chained
<1>7. PICK v : v = IF R = <<>> THEN EOC ELSE S[p][L + 2]
  OBVIOUS
<1>8. fat' = [fat EXCEPT ![S[p][L + 1]] = v] /\ v # 0
  <2>1. S[p][L + 1] <= TableLast
    BY <1>6, VolumeAssumption
  <2>2. Head(C) = S[p][L + 1] /\ (R # <<>> => Head(R) = S[p][L + 2])
    BY <1>3, <1>5
  <2>3. fat' = Written(Head(C), IF R = <<>> THEN ChainEnd ELSE Head(R))
    BY <1>1 DEF Link
  <2>4. (IF R = <<>> THEN ChainEnd ELSE Head(R)) = v
    BY <1>7, <2>2 DEF ChainEnd
  <2>5. v # 0
    BY <1>3, <1>6, <1>7, VolumeAssumption DEF EOC, Reserved
  <2> QED
    BY <2>1, <2>2, <2>3, <2>4, <2>5 DEF Written
<1>9. /\ op'.path = p /\ op'.first = op.first /\ op'.size = op.size /\ op'.pos = op.pos
      /\ op'.clusters = R
  <2>1. op = [x \in OpFields |-> op[x]]
    BY DEF TypeInv, OpType
  <2>2. op' = [op EXCEPT !.clusters = R, !.cursor = 0]
    BY <1>1 DEF Link
  <2> QED
    BY ONLY <1>1, <2>1, <2>2 DEF OpFields
<1>10. /\ Ends(fat)' /\ fat'[S[p][L + 1]] = v
       /\ \A q \in Paths : \A j \in 1 .. Len(S[q]) :
             q # p \/ j # L + 1 => fat'[S[q][j]] = fat[S[q][j]]
       /\ \A d \in 2 .. TableLast : d # S[p][L + 1] => fat'[d] = fat[d]
       /\ \A d \in 2 .. TableLast :
             ~Owner(S, d) => fat'[d] = IF d \in RootClusters THEN EOC ELSE 0
  BY <1>2, <1>5, <1>8, OneWrite
<1>11. /\ Linked(S, p)' = L + 1
       /\ \A q : First(S, q)' = First(S, q) /\ (Busy(q)' <=> q = p) /\ (Busy(q) <=> q = p)
  <2>1. \A q : First(S, q)' = First(S, q) /\ (Busy(q)' <=> q = p) /\ (Busy(q) <=> q = p)
    BY <1>1, <1>9 DEF First, Busy
  <2>2. Linked(S, p)' = Len(S[p]) - Len(R)
    BY <1>9 DEF Linked, Busy
  <2>3. Len(S[p]) - Len(R) = L + 1
    BY <1>3, <1>4
  <2> QED
    BY <2>1, <2>2, <2>3
<1>12. Apart(S)'
  BY DEF Chained, Apart, RootClusters
<1>13. \A q \in Paths : q # p => Linked(S, q) = Len(S[q]) /\ Linked(S, q)' = Len(S[q])
  <2>1. ASSUME NEW q \in Paths, q # p
        PROVE  Linked(S, q) = Len(S[q]) /\ Linked(S, q)' = Len(S[q])
    <3>1. Len(S[q]) \in Nat
      BY ChainTypes DEF Chained
    <3>2. op.path # q /\ op'.path # q
      BY <1>1, <1>9, <2>1
    <3>3. Linked(S, q) = Len(S[q]) - 0 /\ Linked(S, q)' = Len(S[q]) - 0
      BY ONLY <3>2 DEF Linked, Busy
    <3> QED
      BY <3>1, <3>3
  <2> QED
    BY <2>1
<1>14. InTable(S, 1)'
  <2>1. ASSUME NEW q \in Paths, NEW j \in 1 .. Len(S[q])
        PROVE  fat'[S[q][j]] = After(S, 1, q, j)'
    <3>1. fat[S[q][j]] = After(S, 1, q, j) /\ j \in Nat /\ Len(S[q]) \in Nat /\ ~(j < 1)
      BY <1>2, ChainTypes DEF Chained, InTable
    <3>2. CASE q # p
      <4>1. After(S, 1, q, j)' = After(S, 1, q, j)
        BY <1>11, <1>13, <3>1, <3>2 DEF After
      <4> QED
        BY <1>10, <3>1, <3>2, <4>1
    <3>3. CASE q = p /\ j = L + 1
      <4>1. ~(j > L + 1) /\ (R = <<>> <=> j = Len(S[p])) /\ pc' # "walk"
        BY <1>2, <1>4, <1>5, <3>3
      <4>2. After(S, 1, p, j)' = IF R = <<>> THEN EOC ELSE S[p][j + 1]
        BY ONLY <1>11, <3>1, <4>1 DEF After
      <4>3. j + 1 = L + 2
        BY <1>4, <3>3
      <4> QED
        BY <1>7, <1>10, <3>3, <4>2, <4>3
    <3>4. CASE q = p /\ j # L + 1
      <4>1. (j > L + 1 <=> j > L) /\ (j > L \/ j # Len(S[p]))
        BY <1>4, <1>5, <3>1, <3>4
      <4>2. After(S, 1, p, j)' = IF j > L THEN 0 ELSE S[p][j + 1]
        <5>1. pc' # "walk"
          BY <1>2
        <5> QED
          BY ONLY <1>11, <3>1, <4>1, <5>1 DEF After
      <4>3. After(S, 1, p, j) = IF j > L THEN 0 ELSE S[p][j + 1]
        BY <1>1, <1>2, <3>1, <4>1 DEF After
      <4> QED
        BY <1>10, <3>1, <3>4, <4>2, <4>3
    <3> QED
      BY <3>2, <3>3, <3>4
  <2> QED
    BY <1>10, <2>1 DEF InTable, RootClusters, Owner
<1>15. OnImage(S)'
  <2>1. \A c \in 2 .. TableLast : fat'[c] = 0 => fat[c] = 0
    BY <1>8, <1>10
  <2> QED
    BY <1>2, <2>1, SaveKeeps DEF Chained
<1>16. Named(S)'
  <2>1. pc' \in {"link", "setentry"} /\ pc' # "walk"
    BY <1>2
  <2>2. \A q \in Paths :
          IF entry[q].live
          THEN /\ entry[q].first = First(S, q) \/ (q = p /\ entry[q].first = 0)
               /\ q \in Files /\ q # p => Clusters(entry[q].size) = Len(S[q])
               /\ q \in Dirs => entry[q].size = 0
          ELSE S[q] = <<>>
    BY <1>2, <1>11 DEF Chained, Named
  <2> QED
    BY ONLY <1>2, <1>11, <2>1, <2>2 DEF Named
<1>17. Working(S, 1)'
  <2>1. \A i \in 1 .. Len(R) : R[i] = S[p][L + 1 + i]
    <3> SUFFICES ASSUME NEW i \in 1 .. Len(R) PROVE R[i] = S[p][L + 1 + i]
      OBVIOUS
    <3>1. Len(C) \in Nat /\ Len(R) = Len(C) - 1 /\ L \in Nat
      BY <1>3, <1>4
    <3>2. i + 1 \in 1 .. Len(C) /\ i \in 1 .. Len(C) - 1 /\ L + (i + 1) = L + 1 + i
      BY ONLY <3>1, i \in 1 .. Len(R)
    <3>3. R[i] = C[i + 1] /\ C[i + 1] = S[p][L + (i + 1)]
      BY <1>3, <1>4, <3>2
    <3> QED
      BY <3>2, <3>3
  <2>2. Clusters(Target)' = Len(S[p])
    BY <1>1, <1>4, <1>9 DEF Target, IsDirectory, Clusters
  <2>3. pc' \in {"link", "setentry"} /\ L + 1 >= 0
    BY <1>2, <1>4
  <2> QED
    BY ONLY <1>2, <1>4, <1>9, <1>11, <2>1, <2>2, <2>3 DEF Working
<1>18. Counted'
  <2>1. InUse' = InUse \cup {S[p][L + 1]} /\ S[p][L + 1] \notin InUse
    <3>1. fat[S[p][L + 1]] = 0
      <4>1. L + 1 > L
        BY <1>4
      <4>2. fat[S[p][L + 1]] = After(S, 1, p, L + 1)
        BY <1>2, <1>5 DEF Chained, InTable
      <4> QED
        BY <1>1, <4>1, <4>2 DEF After
    <3> QED
      BY <1>6, <1>8, <1>10, <3>1 DEF InUse
  <2>2. Cardinality(InUse') = Cardinality(InUse) + 1
    BY <2>1, InUseType, FS_AddElement
  <2>3. Cardinality(InUse') + Len(op'.clusters) + 0 = Cardinality(InUse) + Len(op.clusters)
    <3>1. Len(op'.clusters) = Len(R) /\ Len(op.clusters) = Len(C)
      BY <1>1, <1>9
    <3>2. Len(C) \in Nat /\ Len(R) = Len(C) - 1 /\ Cardinality(InUse) \in Nat
      BY <1>3, InUseType
    <3> QED
      BY ONLY <2>2, <3>1, <3>2
  <2>4. freeCount' = (freeCount + 0) % CountMod
    <3>1. freeCount \in 0 .. CountMod - 1 /\ CountMod \in Nat
      BY VolumeAssumption DEF TypeInv, TypeOK
    <3>2. freeCount' = freeCount
      BY <1>2
    <3> QED
      BY ONLY <3>1, <3>2
  <2>5. Len(op'.clusters) \in Nat /\ Len(op.clusters) \in Nat
    BY <1>1, <1>3, <1>9
  <2> QED
    BY <1>2, <2>3, <2>4, <2>5, CountStep DEF Chained
<1> QED
  BY <1>12, <1>14, <1>15, <1>16, <1>17, <1>18 DEF Chained

\* The entry on the image gets what its chain has had all along.
LEMMA SetEntryChain ==
    ASSUME TypeInv, NEW S, NEW k, Chained(S, k), SetEntry
    PROVE  Chained(S, 1)'
<1>1. PICK p, t : p = op.path /\ t = Target
  OBVIOUS
<1>2. /\ pc = "setentry" /\ p \in Paths /\ session = "insert" /\ k = 1 /\ op.clusters = <<>>
      /\ UNCHANGED <<fat, stable, data, freeCount, fsInfo, session, outcome, crashed, kept>>
      /\ op = [x \in OpFields |-> op[x]]
      /\ IsDirectory <=> p \notin Files
  <2>1. pc = "setentry" /\ UNCHANGED <<fat, stable, data, freeCount, fsInfo, session, outcome, crashed, kept>>
    BY DEF SetEntry
  <2>2. p \in Paths /\ session = "insert" /\ op = [x \in OpFields |-> op[x]]
    BY <1>1, <2>1 DEF TypeInv, OpOK, OpType, Extending
  <2>3. IsDirectory <=> p \notin Files
    BY <1>1, <2>2, CommandAssumption DEF IsDirectory, Paths
  <2> QED
    BY <2>1, <2>2, <2>3, IdleChain
<1>3. /\ entry[p].live /\ op.first = First(S, p) /\ Clusters(t) = Len(S[p])
      /\ Len(S[p]) \in Nat /\ Len(op.clusters) = 0
  BY <1>1, <1>2, ChainTypes DEF Chained, Working
<1>4. /\ \A q \in Paths : q # p => entry'[q] = entry[q]
      /\ entry'[p].live = entry[p].live /\ entry'[p].first = op.first
      /\ entry'[p].size = IF IsDirectory THEN entry[p].size ELSE t
  <2>1. entry \in [Paths -> [live : BOOLEAN, first : 0 .. TableLast, size : Nat]]
    BY DEF TypeInv, TypeOK
  <2>2. entry' = [entry EXCEPT ![p].first = op.first,
                               ![p].size = IF IsDirectory THEN @ ELSE t]
    BY <1>1 DEF SetEntry
  <2> QED
    BY ONLY <1>2, <2>1, <2>2
<1>5. /\ op'.clusters = <<>> /\ pc' \in {"data", "write", "idle"}
      /\ pc' # "idle" => op'.path = p /\ op'.first = op.first /\ op'.size = t
      /\ pc' = "idle" => op' = NoOp
  <2>1. CASE ~IsDirectory
    <3>1. op' = [op EXCEPT !.size = t, !.cursor = 0] /\ pc' = "data"
      BY <1>1, <2>1 DEF SetEntry
    <3>2. /\ op'.clusters = op.clusters /\ op'.path = op.path /\ op'.first = op.first
          /\ op'.size = t
      BY ONLY <1>2, <3>1 DEF OpFields
    <3> QED
      BY <1>1, <1>2, <3>1, <3>2
  <2>2. CASE IsDirectory /\ op.grow > t
    <3>1. op' = [op EXCEPT !.size = t, !.pos = op.grow, !.cursor = 0] /\ pc' = "write"
      BY <1>1, <2>2 DEF SetEntry
    <3>2. /\ op'.clusters = op.clusters /\ op'.path = op.path /\ op'.first = op.first
          /\ op'.size = t
      BY ONLY <1>2, <3>1 DEF OpFields
    <3> QED
      BY <1>1, <1>2, <3>1, <3>2
  <2>3. CASE IsDirectory /\ ~(op.grow > t)
    <3>1. op' = NoOp /\ pc' = "idle"
      BY <1>1, <2>3 DEF SetEntry
    <3> QED
      BY <3>1 DEF NoOp
  <2> QED
    BY <2>1, <2>2, <2>3
<1>6. Apart(S)' /\ InTable(S, 1)'
  BY <1>2, <1>5, QuietTable DEF Chained, Apart, RootClusters
<1>7. OnImage(S)'
  BY <1>2 DEF Chained, OnImage, Ends
<1>8. \A q \in Paths :
        IF entry'[q].live
        THEN /\ entry'[q].first = First(S, q)
             /\ q \in Files => Clusters(entry'[q].size) = Len(S[q])
             /\ q \in Dirs => entry'[q].size = 0
        ELSE S[q] = <<>>
  <2>1. ASSUME NEW q \in Paths, q # p
        PROVE  IF entry'[q].live
               THEN /\ entry'[q].first = First(S, q)
                    /\ q \in Files => Clusters(entry'[q].size) = Len(S[q])
                    /\ q \in Dirs => entry'[q].size = 0
               ELSE S[q] = <<>>
    <3>1. entry'[q] = entry[q] /\ ~Busy(q)
      BY <1>1, <1>4, <2>1 DEF Busy
    <3>2. IF entry[q].live
          THEN /\ entry[q].first = First(S, q)
               /\ q \in Files => Clusters(entry[q].size) = Len(S[q])
               /\ q \in Dirs => entry[q].size = 0
          ELSE S[q] = <<>>
      BY <1>2, <3>1 DEF Chained, Named
    <3> QED
      BY ONLY <3>1, <3>2
  <2>2. /\ entry'[p].live /\ entry'[p].first = First(S, p)
        /\ p \in Files => entry'[p].size = t
        /\ p \in Dirs => entry'[p].size = 0
    <3>1. p \in Dirs => entry[p].size = 0
      BY <1>2, <1>3 DEF Chained, Named
    <3>2. p \in Dirs => p \notin Files
      BY CommandAssumption
    <3> QED
      BY <1>2, <1>3, <1>4, <3>1, <3>2
  <2> QED
    BY <1>3, <2>1, <2>2
<1>9. \A q : First(S, q)' = First(S, q)
  BY DEF First
<1>10. Named(S)'
  <2>1. pc' \notin {"link", "setentry", "walk"}
    BY <1>5
  <2> QED
    BY ONLY <1>8, <1>9, <2>1 DEF Named
<1>11. Working(S, 1)'
  <2>1. CASE pc' = "idle"
    BY <2>1 DEF Working
  <2>2. CASE pc' # "idle"
    <3>1. op'.path = p /\ op'.first = op.first /\ op'.size = t /\ pc' \in {"data", "write"}
          /\ op'.clusters = <<>> /\ Len(op'.clusters) = 0
      BY <1>5, <2>2
    <3>2. Linked(S, p)' = Len(S[p])
      BY <1>3, <3>1 DEF Linked
    <3>3. Clusters(op.size)' = Len(S[p])
      BY <1>3, <3>1 DEF Clusters
    <3>4. entry'[p].live /\ (p \in Files => entry'[p].size = t)
      BY <1>2, <1>3, <1>4
    <3>5. First(S, p)' = First(S, p) /\ op.first = First(S, p) /\ Len(S[p]) >= 0
      BY <1>3, <1>9
    <3> QED
      BY ONLY <3>1, <3>2, <3>3, <3>4, <3>5 DEF Working
  <2> QED
    BY <2>1, <2>2
<1>12. Counted'
  BY <1>2, <1>5, QuietCount DEF Chained
<1> QED
  BY <1>6, <1>7, <1>10, <1>11, <1>12 DEF Chained

LEMMA CleanKeepsCrashed ==
    ASSUME CleanNext
    PROVE  crashed' = crashed
<1>1. \A command : Open(command) => crashed' = crashed
  BY DEF Open
<1>2. CloseInfo \/ CloseTable => crashed' = crashed
  BY DEF CloseInfo, CloseTable
<1>3. \A f, host : BeginInsert(f, host) => crashed' = crashed
  BY DEF BeginInsert
<1>4. \A d, size : BeginDirectory(d, size) => crashed' = crashed
  BY DEF BeginDirectory
<1>5. \A f : BeginRemove(f) => crashed' = crashed
  BY DEF BeginRemove
<1>6. InsertDone \/ Overwrite \/ ReserveFails => crashed' = crashed
  BY DEF InsertDone, Overwrite, ReserveFails
<1>7. Reserve => crashed' = crashed
  BY DEF Reserve
<1>8. Walk \/ LinkToLast => crashed' = crashed
  BY DEF Walk, LinkToLast
<1>9. Link => crashed' = crashed
  BY DEF Link
<1>10. SetEntry => crashed' = crashed
  BY DEF SetEntry
<1>11. WriteData => crashed' = crashed
  BY DEF WriteData
<1>12. Free \/ Unname => crashed' = crashed
  BY DEF Free, Unname
<1>13. Overrun \/ StaysOverrun => crashed' = crashed
  BY DEF Overrun, StaysOverrun, vars
<1> QED
  BY <1>1, <1>2, <1>3, <1>4, <1>5, <1>6, <1>7, <1>8, <1>9, <1>10, <1>11, <1>12, <1>13
  DEF CleanNext, Step

LEMMA NextChain ==
    ASSUME TypeInv, ChainInv, [Next]_vars
    PROVE  ChainInv'
<1> SUFFICES ASSUME ~crashed' PROVE \E T, m : Chained(T, m)'
  BY DEF ChainInv
<1>1. ~crashed /\ ~Crash
  <2>1. ~Crash
    BY DEF Crash
  <2>2. CASE UNCHANGED vars
    BY <2>1, <2>2 DEF vars
  <2>3. CASE CleanNext
    BY <2>1, <2>3, CleanKeepsCrashed
  <2> QED
    BY <2>1, <2>2, <2>3 DEF Next
<1>2. PICK S, k : Chained(S, k)
  BY <1>1 DEF ChainInv
<1>3. CASE UNCHANGED vars
  <2>1. \A q : Linked(S, q)' = Linked(S, q) /\ First(S, q)' = First(S, q) /\ (Busy(q)' <=> Busy(q))
    BY <1>3 DEF vars, Linked, First, Busy
  <2>2. Apart(S)' /\ OnImage(S)' /\ Named(S)' /\ Counted'
    BY <1>2, <1>3, <2>1 DEF Chained, Apart, RootClusters, OnImage, Ends, Named, Counted, InUse,
                            vars, disks
  <2>3. InTable(S, k)'
    <3>1. \A q, j : After(S, k, q, j)' = After(S, k, q, j)
      BY <1>3, <2>1 DEF After, vars
    <3> QED
      BY <1>2, <1>3, <3>1 DEF Chained, InTable, Ends, Owner, RootClusters, vars
  <2>4. Working(S, k)'
    <3>1. Target' = Target /\ Linked(S, op.path)' = Linked(S, op.path)
      BY <1>3 DEF Target, IsDirectory, Linked, Busy, vars
    <3>2. Clusters(Target)' = Clusters(Target) /\ First(S, op.path)' = First(S, op.path)
      BY <1>3, <3>1 DEF Clusters, First, vars
    <3>3. UNCHANGED <<op, pc, entry>>
      BY <1>3 DEF vars, disks
    <3> QED
      BY <1>2, <3>1, <3>2, <3>3 DEF Chained, Working
  <2> QED
    BY <2>2, <2>3, <2>4 DEF Chained
<1>4. CASE \/ \E command \in {"insert", "remove"} : Open(command)
           \/ CloseInfo \/ CloseTable
  BY <1>2, <1>4, SessionChain
<1>5. CASE \E f \in Files, host \in Hosts : BeginInsert(f, host)
  BY <1>2, <1>5, BeginInsertChain
<1>6. CASE \E d \in Dirs, size \in DirSizes : BeginDirectory(d, size)
  BY <1>2, <1>6, BeginDirectoryChain
<1>7. CASE \E f \in Paths : BeginRemove(f)
  BY <1>2, <1>7, BeginRemoveChain
<1>8. CASE InsertDone \/ ReserveFails \/ Overwrite \/ WriteData
  BY <1>2, <1>8, UnitChain
<1>9. CASE Reserve
  BY <1>2, <1>9, ReserveChain
<1>10. CASE Walk
  BY <1>2, <1>10, WalkChain
<1>11. CASE LinkToLast
  BY <1>2, <1>11, LinkToLastChain
<1>12. CASE Link
  BY <1>2, <1>12, LinkChain
<1>13. CASE SetEntry
  BY <1>2, <1>13, SetEntryChain
<1>14. CASE Free
  BY <1>2, <1>14, FreeChain
<1>15. CASE Unname
  BY <1>2, <1>15, UnnameChain
<1>16. CASE Overrun
  BY <1>2, <1>16, OverrunChain
<1> QED
  BY <1>1, <1>3, <1>4, <1>5, <1>6, <1>7, <1>8, <1>9, <1>10, <1>11, <1>12, <1>13, <1>14, <1>15, <1>16
  DEF Next, CleanNext, Step, StaysOverrun

-----------------------------------------------------------------------------
(* What the chains say about the volume. *)

LEMMA SkipStays ==
    ASSUME NEW T, NEW first, NEW V, first \in V, \A v \in V : ReadFAT(T, v) \in V
    PROVE  \A n \in Nat : Skip(T, first, n) \in V
<1> DEFINE In == {n \in Nat : Skip(T, first, n) \in V}
<1>1. 0 \in In
  BY SkipRule
<1>2. ASSUME NEW n \in Nat, n \in In PROVE n + 1 \in In
  <2>1. \A m \in Nat : Skip(T, first, m + 1) = ReadFAT(T, Skip(T, first, m))
    BY SkipRule, ZenonT(20)
  <2>2. Skip(T, first, n + 1) = ReadFAT(T, Skip(T, first, n)) /\ n + 1 \in Nat
    BY <2>1
  <2> QED
    BY <1>2, <2>2
<1>3. Nat \subseteq In
  <2> HIDE DEF In
  <2> QED
    BY <1>1, <1>2, SetInduction
<1> QED
  BY <1>3

\* Wherever a table leads from a path's first cluster is a cluster of its own.
LEMMA ReachedOwn ==
    ASSUME NEW S, Apart(S), NEW f \in Paths, NEW T, Ends(T), NEW first,
           first = 0 \/ \E i \in 1 .. Len(S[f]) : first = S[f][i],
           \A i \in 1 .. Len(S[f]) :
              \/ T[S[f][i]] \in {0, EOC}
              \/ \E j \in 1 .. Len(S[f]) : T[S[f][i]] = S[f][j]
    PROVE  \A n \in Nat : Skip(T, first, n) \in 2 .. TableLast =>
              \E i \in 1 .. Len(S[f]) : Skip(T, first, n) = S[f][i]
<1> DEFINE K == {S[f][i] : i \in 1 .. Len(S[f])}
           V == K \cup {0, Reserved, EOC, BeyondLast}
<1>1. first \in V
  OBVIOUS
<1>2. K \subseteq 2 .. TableLast
  BY ChainTypes
<1>3. ASSUME NEW v \in V PROVE ReadFAT(T, v) \in V
  <2>1. CASE v \in K
    <3>1. PICK i \in 1 .. Len(S[f]) : v = S[f][i]
      BY <2>1
    <3>2. v <= TableLast
      BY <1>2, <2>1, VolumeAssumption
    <3>3. ReadFAT(T, v) = T[S[f][i]]
      BY <3>1, <3>2 DEF ReadFAT
    <3> QED
      BY <3>3
  <2>2. CASE v = 0
    <3>1. ReadFAT(T, v) = T[0]
      BY <2>2, VolumeAssumption DEF ReadFAT
    <3> QED
      BY <3>1 DEF Ends
  <2>3. CASE v \in {Reserved, EOC, BeyondLast}
    BY <2>3, VolumeAssumption DEF ReadFAT, Reserved, EOC, BeyondLast
  <2> QED
    BY <1>3, <2>1, <2>2, <2>3
<1>4. \A n \in Nat : Skip(T, first, n) \in V
  <2> HIDE DEF V
  <2> QED
    BY <1>1, <1>3, SkipStays
<1>5. ASSUME NEW c \in V, c \in 2 .. TableLast PROVE c \in K
  BY <1>5, VolumeAssumption DEF Reserved, EOC, BeyondLast
<1>6. ASSUME NEW n \in Nat, Skip(T, first, n) \in 2 .. TableLast
      PROVE  \E i \in 1 .. Len(S[f]) : Skip(T, first, n) = S[f][i]
  <2>1. Skip(T, first, n) \in K
    <3> HIDE DEF K, V
    <3> QED
      BY <1>4, <1>5, <1>6 DEF V
  <2> QED
    BY <2>1
<1> QED
  BY <1>6

\* An entry's first cluster is the first of its chain, or there is none yet.
LEMMA FirstOwn ==
    ASSUME NEW S, NEW k, Chained(S, k), NEW f \in Paths, entry[f].live
    PROVE  entry[f].first = 0 \/ (1 \in 1 .. Len(S[f]) /\ entry[f].first = S[f][1])
<1>1. Len(S[f]) \in Nat /\ S[f] \in Seq((2 .. TableLast) \ RootClusters)
  BY ChainTypes DEF Chained
<1>2. S[f] # <<>> => 1 \in 1 .. Len(S[f])
  BY <1>1
<1> QED
  BY <1>2 DEF Chained, Named, First

LEMMA ReachedApart ==
    ASSUME TypeInv, ChainInv
    PROVE  NoSharedClusters
<1> SUFFICES ASSUME ~crashed, NEW T \in {fat, stable}, NEW f \in Paths, NEW g \in Paths,
                    f # g, entry[f].live, entry[g].live,
                    NEW c \in Reached(T, f) \cap Reached(T, g)
             PROVE  FALSE
  BY DEF NoSharedClusters
<1>1. PICK S, k : Chained(S, k)
  BY DEF ChainInv
<1>2. Ends(T) /\ \A p \in Paths : \A i \in 1 .. Len(S[p]) :
         \/ T[S[p][i]] \in {0, EOC}
         \/ \E j \in 1 .. Len(S[p]) : T[S[p][i]] = S[p][j]
  <2>1. CASE T = fat
    <3>1. Apart(S) /\ InTable(S, k) /\ Ends(fat)
      BY <1>1 DEF Chained, InTable
    <3> QED
      BY <2>1, <3>1, TableInChain
  <2>2. CASE T = stable
    BY <1>1, <2>2 DEF Chained, OnImage
  <2> QED
    BY <2>1, <2>2
<1>3. ASSUME NEW p \in Paths, entry[p].live, c \in Reached(T, p)
      PROVE  \E i \in 1 .. Len(S[p]) : c = S[p][i]
  <2>1. entry[p].first = 0 \/ \E i \in 1 .. Len(S[p]) : entry[p].first = S[p][i]
    BY <1>1, <1>3, FirstOwn
  <2>2. PICK n \in 0 .. TableLast : c = Skip(T, entry[p].first, n)
    BY <1>3 DEF Reached
  <2>3. n \in Nat /\ c \in 2 .. TableLast
    BY <1>3 DEF Reached
  <2>4. Apart(S)
    BY <1>1 DEF Chained
  <2>5. \A m \in Nat : Skip(T, entry[p].first, m) \in 2 .. TableLast =>
              \E i \in 1 .. Len(S[p]) : Skip(T, entry[p].first, m) = S[p][i]
    BY <1>2, <2>1, <2>4, ReachedOwn
  <2> QED
    BY <2>2, <2>3, <2>5
<1> QED
  BY <1>1, <1>3 DEF Chained, Apart

\* No two files ever share a cluster, in the table or in what is on the image,
\* before the first kill and at the moment of it, up to where a search for a free
\* cluster leaves the table (file.c:126-209 takes clusters, fat.c:457-475 gives them
\* back, both by hand).
THEOREM NoSharing == Spec => []NoSharedClusters
<1>1. Init => TypeInv /\ ChainInv
  BY InitTypeInv, InitChain
<1>2. TypeInv /\ ChainInv /\ [Next]_vars => TypeInv' /\ ChainInv'
  BY NextTypeInv, NextChain
<1>3. TypeInv /\ ChainInv => NoSharedClusters
  BY ReachedApart
<1> QED
  BY <1>1, <1>2, <1>3, PTL DEF Spec

\* Skipping along a chain finds its clusters in order, and then its end.
LEMMA SkipAlong ==
    ASSUME NEW T, NEW s, NEW n \in Nat \ {0}, \A i \in 1 .. n : s[i] \in 2 .. TableLast,
           \A i \in 1 .. n : T[s[i]] = IF i = n THEN EOC ELSE s[i + 1]
    PROVE  /\ \A i \in 0 .. n - 1 : Skip(T, s[1], i) = s[i + 1]
           /\ Skip(T, s[1], n) = EOC
<1> DEFINE Along == {i \in Nat : i < n => Skip(T, s[1], i) = s[i + 1]}
<1>1. \A i \in Nat : Skip(T, s[1], i + 1) = ReadFAT(T, Skip(T, s[1], i))
  BY SkipRule, ZenonT(20)
<1>2. \A i \in 1 .. n : ReadFAT(T, s[i]) = T[s[i]]
  BY VolumeAssumption DEF ReadFAT
<1>3. 0 \in Along
  BY SkipRule
<1>4. ASSUME NEW i \in Nat, i \in Along PROVE i + 1 \in Along
  <2>1. CASE i + 1 < n
    <3>1. i + 1 \in 1 .. n /\ i + 1 # n /\ i < n /\ i + 1 \in Nat
      BY <2>1
    <3>2. Skip(T, s[1], i) = s[i + 1]
      BY <1>4, <3>1
    <3>3. Skip(T, s[1], i + 1) = T[s[i + 1]]
      BY <1>1, <1>2, <3>1, <3>2
    <3> QED
      BY <3>1, <3>3
  <2>2. CASE ~(i + 1 < n)
    BY <2>2
  <2> QED
    BY <2>1, <2>2
<1>5. Nat \subseteq Along
  <2> HIDE DEF Along
  <2> QED
    BY <1>3, <1>4, SetInduction
<1>6. \A i \in 0 .. n - 1 : Skip(T, s[1], i) = s[i + 1]
  BY <1>5
<1>7. Skip(T, s[1], n) = EOC
  <2>1. n - 1 \in Nat /\ n - 1 \in 0 .. n - 1 /\ (n - 1) + 1 = n /\ n \in 1 .. n
    OBVIOUS
  <2>2. Skip(T, s[1], n - 1) = s[n]
    BY <1>6, <2>1
  <2>3. Skip(T, s[1], (n - 1) + 1) = ReadFAT(T, Skip(T, s[1], n - 1))
    BY <1>1, <2>1
  <2> QED
    BY <1>2, <2>1, <2>2, <2>3
<1> QED
  BY <1>6, <1>7

\* A chain has no more clusters than the table.
LEMMA ChainShort ==
    ASSUME NEW S, Apart(S), NEW p \in Paths
    PROVE  Len(S[p]) <= TableLast
<1> DEFINE n == Len(S[p])
           g == [i \in 1 .. n |-> S[p][i]]
<1>1. n \in Nat
  BY ChainTypes
<1>2. g \in [1 .. n -> 2 .. TableLast]
  BY ChainTypes
<1>3. \A i, j \in 1 .. n : g[i] = g[j] => i = j
  BY DEF Apart
<1>4. g \in Injection(1 .. n, 2 .. TableLast)
  <2> HIDE DEF g, n
  <2> QED
    BY <1>2, <1>3 DEF Injection, IsInjective
<1> HIDE DEF g, n
<1>5. IsFiniteSet(2 .. TableLast) /\ Cardinality(2 .. TableLast) = TableLast - 1
  BY FS_Interval, VolumeAssumption
<1>6. Cardinality(1 .. n) = n
  BY <1>1, FS_Interval
<1>7. Cardinality(1 .. n) <= Cardinality(2 .. TableLast)
  BY <1>4, <1>5, FS_Injection
<1> QED
  BY <1>1, <1>5, <1>6, <1>7, VolumeAssumption DEF n

\* The part of a path's chain that the table links is a chain of the table.
LEMMA LinkedAlong ==
    ASSUME TypeInv, NEW S, Chained(S, 1), NEW p \in Paths, NEW n \in Nat \ {0},
           pc \in {"idle", "write", "data", "walk"},
           n = IF pc = "walk" THEN Linked(S, p) ELSE Len(S[p]), entry[p].live
    PROVE  /\ n <= Len(S[p])
           /\ \A i \in 0 .. n - 1 : Skip(fat, entry[p].first, i) = S[p][i + 1]
           /\ Skip(fat, entry[p].first, n) = EOC
<1>1. Len(S[p]) \in Nat /\ S[p] \in Seq((2 .. TableLast) \ RootClusters)
  BY ChainTypes DEF Chained
<1>2. Linked(S, p) \in Int /\ Linked(S, p) <= Len(S[p]) /\ (pc # "walk" => Linked(S, p) = Len(S[p]))
  <2>1. op.clusters \in Seq(0 .. TableLast) /\ (pc # "walk" => op.clusters = <<>>)
    BY DEF TypeInv, OpType, OpOK
  <2>2. Len(op.clusters) \in Nat /\ (pc # "walk" => Len(op.clusters) = 0)
    BY <2>1
  <2>3. PICK x : x = IF Busy(p) THEN Len(op.clusters) ELSE 0
    OBVIOUS
  <2>4. x \in Nat /\ (pc # "walk" => x = 0) /\ Linked(S, p) = Len(S[p]) - x
    BY <2>2, <2>3 DEF Linked
  <2> QED
    BY ONLY <1>1, <2>4
<1>3. n = Linked(S, p) /\ n <= Len(S[p]) /\ (pc # "walk" => n = Len(S[p]))
  BY <1>2
<1>4. ASSUME NEW i \in 1 .. n
      PROVE  S[p][i] \in 2 .. TableLast /\ fat[S[p][i]] = IF i = n THEN EOC ELSE S[p][i + 1]
  <2>1. i \in 1 .. Len(S[p]) /\ ~(i < 1) /\ ~(i > n)
    BY <1>1, <1>3
  <2>2. fat[S[p][i]] = After(S, 1, p, i) /\ S[p][i] \in 2 .. TableLast
    BY <2>1, ChainTypes DEF Chained, InTable
  <2>3. After(S, 1, p, i) = IF i = Len(S[p]) \/ (i = n /\ pc = "walk") THEN EOC ELSE S[p][i + 1]
    BY <1>3, <2>1 DEF After
  <2>4. i = Len(S[p]) => i = n
    BY <1>1, <1>3, <2>1
  <2> QED
    BY <1>3, <2>2, <2>3, <2>4
<1>5. entry[p].first = S[p][1]
  <2>1. S[p] # <<>>
    BY <1>1, <1>3
  <2> QED
    BY <2>1 DEF Chained, Named, First
<1>6. /\ \A i \in 0 .. n - 1 : Skip(fat, S[p][1], i) = S[p][i + 1]
      /\ Skip(fat, S[p][1], n) = EOC
  <2>1. PICK s : s = S[p]
    OBVIOUS
  <2>2. /\ \A i \in 1 .. n : s[i] \in 2 .. TableLast
        /\ \A i \in 1 .. n : fat[s[i]] = IF i = n THEN EOC ELSE s[i + 1]
    BY <1>4, <2>1
  <2>3. n \in Nat \ {0}
    OBVIOUS
  <2>4. /\ \A i \in 0 .. n - 1 : Skip(fat, s[1], i) = s[i + 1]
        /\ Skip(fat, s[1], n) = EOC
    BY ONLY <2>2, <2>3, SkipAlong
  <2> QED
    BY <2>1, <2>4
<1> QED
  BY <1>3, <1>5, <1>6

LEMMA SizesFit ==
    ASSUME TypeInv, ChainInv
    PROVE  ChainsFitSizes
<1> SUFFICES ASSUME ~crashed, pc \in {"idle", "write", "data", "walk"},
                    NEW p \in Paths, entry[p].live
             PROVE  \/ entry[p].first = 0 /\ entry[p].size = 0
                    \/ p \in Files /\ ChainOf(p, Clusters(entry[p].size))
                    \/ p \in Dirs /\ \E n \in 1 .. TableLast : ChainOf(p, n)
  BY DEF ChainsFitSizes
<1>1. PICK S : Chained(S, 1)
  <2>1. PICK S, k : Chained(S, k)
    BY DEF ChainInv
  <2>2. k = 1
    BY <2>1 DEF Chained, Working
  <2> QED
    BY <2>1, <2>2
<1>2. PICK n : n = IF pc = "walk" THEN Linked(S, p) ELSE Len(S[p])
  OBVIOUS
<1>3. Len(S[p]) \in Nat /\ S[p] \in Seq((2 .. TableLast) \ RootClusters) /\ Len(S[p]) <= TableLast
  BY <1>1, ChainTypes, ChainShort DEF Chained
<1>4. n \in Nat /\ (n = 0 => S[p] = <<>>)
  <2>1. CASE pc = "walk" /\ p = op.path
    <3>1. Linked(S, op.path) \in Nat /\ \E i \in 1 .. Linked(S, op.path) : TRUE
      BY <1>1, <2>1, WalkPlace
    <3>2. Linked(S, op.path) # 0
      BY <3>1
    <3> QED
      BY <1>2, <2>1, <3>1, <3>2
  <2>2. CASE ~(pc = "walk" /\ p = op.path)
    <3>1. p # op.path => Linked(S, p) = Len(S[p]) - 0
      BY DEF Linked, Busy
    <3>2. n = Len(S[p])
      BY <1>2, <1>3, <2>2, <3>1
    <3> QED
      BY <1>3, <3>2
  <2> QED
    BY <2>1, <2>2
<1>5. /\ entry[p].first = First(S, p) /\ entry[p].size \in Nat
      /\ p \in Files => Clusters(entry[p].size) = n
      /\ p \in Dirs => entry[p].size = 0
  BY <1>1, <1>2 DEF Chained, Named, TypeInv, TypeOK
<1>6. CASE n = 0
  <2>1. entry[p].first = 0
    BY <1>4, <1>5, <1>6 DEF First
  <2>2. entry[p].size = 0
    BY <1>5, <1>6, NoClusters DEF Paths
  <2> QED
    BY <2>1, <2>2
<1>7. CASE n # 0
  <2>1. n <= Len(S[p]) /\ Skip(fat, entry[p].first, n) = EOC
    BY <1>1, <1>2, <1>4, <1>7, LinkedAlong
  <2>2. n \in 1 .. TableLast /\ ChainOf(p, n)
    BY <1>3, <1>4, <1>7, <2>1, VolumeAssumption DEF ChainOf
  <2> QED
    BY <1>5, <2>2 DEF Paths
<1> QED
  BY <1>6, <1>7

\* What is in use is the root's cluster, if it has one, and the chains'.
LEMMA NoneLost ==
    ASSUME TypeInv, ChainInv
    PROVE  NoLostClusters
<1> SUFFICES ASSUME ~crashed, pc = "idle"
             PROVE  {c \in 2 .. TableLast : fat[c] # 0} =
                      RootClusters \cup UNION {Reached(fat, f) : f \in {g \in Paths : entry[g].live}}
  BY DEF NoLostClusters
<1>1. PICK S : Chained(S, 1)
  <2>1. PICK S, k : Chained(S, k)
    BY DEF ChainInv
  <2>2. k = 1
    BY <2>1 DEF Chained, Working
  <2> QED
    BY <2>1, <2>2
<1>2. Apart(S) /\ InTable(S, 1) /\ op.clusters = <<>>
  BY <1>1, IdleChain DEF Chained
<1>3. RootClusters \subseteq 2 .. TableLast
  BY VolumeAssumption DEF RootClusters
<1>4. ASSUME NEW c \in RootClusters PROVE fat[c] # 0
  <2>1. ~Owner(S, c)
    BY <1>2, ChainTypes DEF Owner
  <2> QED
    BY <1>2, <1>3, <2>1, VolumeAssumption DEF InTable, EOC, Reserved
<1>5. ASSUME NEW p \in Paths, NEW i \in 1 .. Len(S[p]) PROVE fat[S[p][i]] # 0
  <2>1. S[p][i] \in 2 .. TableLast
    BY <1>2, ChainTypes
  <2>2. S[p][i] \in FreeFrom(0) <=> fat[S[p][i]] = 0
    BY <2>1, VolumeAssumption DEF FreeFrom
  <2>3. ~(\A c \in FreeFrom(0) : ~Owner(S, c)) \/ S[p][i] \notin FreeFrom(0)
    BY DEF Owner
  <2>4. \A c \in FreeFrom(0) : ~Owner(S, c)
    BY <1>2, OwnedInUse
  <2> QED
    BY <2>2, <2>3, <2>4
<1>6. ASSUME NEW p \in Paths, entry[p].live
      PROVE  \A c : c \in Reached(fat, p) <=> \E i \in 1 .. Len(S[p]) : c = S[p][i]
  <2>1. ASSUME NEW c \in Reached(fat, p) PROVE \E i \in 1 .. Len(S[p]) : c = S[p][i]
    <3>1. entry[p].first = 0 \/ \E i \in 1 .. Len(S[p]) : entry[p].first = S[p][i]
      BY <1>1, <1>6, FirstOwn
    <3>2. Ends(fat) /\ \A i \in 1 .. Len(S[p]) :
             \/ fat[S[p][i]] \in {0, EOC}
             \/ \E j \in 1 .. Len(S[p]) : fat[S[p][i]] = S[p][j]
      <4>1. Ends(fat)
        BY <1>2 DEF InTable
      <4> QED
        BY <1>2, <4>1, TableInChain
    <3>3. \A n \in Nat : Skip(fat, entry[p].first, n) \in 2 .. TableLast =>
              \E i \in 1 .. Len(S[p]) : Skip(fat, entry[p].first, n) = S[p][i]
      BY <1>2, <3>1, <3>2, ReachedOwn
    <3>4. PICK n \in 0 .. TableLast : c = Skip(fat, entry[p].first, n)
      BY DEF Reached
    <3>5. n \in Nat /\ c \in 2 .. TableLast
      BY DEF Reached
    <3> QED
      BY <3>3, <3>4, <3>5
  <2>2. ASSUME NEW i \in 1 .. Len(S[p]) PROVE S[p][i] \in Reached(fat, p)
    <3>1. Len(S[p]) \in Nat /\ Len(S[p]) <= TableLast /\ S[p][i] \in 2 .. TableLast
      BY <1>2, ChainTypes, ChainShort
    <3>2. Len(S[p]) \in Nat \ {0} /\ i - 1 \in 0 .. Len(S[p]) - 1 /\ i - 1 \in 0 .. TableLast
          /\ (i - 1) + 1 = i
      BY <3>1, VolumeAssumption
    <3>3. \A j \in 0 .. Len(S[p]) - 1 : Skip(fat, entry[p].first, j) = S[p][j + 1]
      BY <1>1, <1>6, <3>2, LinkedAlong
    <3>4. S[p][i] = Skip(fat, entry[p].first, i - 1)
      BY <3>2, <3>3
    <3> QED
      BY <3>1, <3>2, <3>4 DEF Reached
  <2> QED
    BY <2>1, <2>2
<1>7. ASSUME NEW p \in Paths, NEW i \in 1 .. Len(S[p]) PROVE entry[p].live
  <2>1. Len(S[p]) # 0
    <3>1. Len(S[p]) \in Nat
      BY <1>2, ChainTypes
    <3> QED
      BY <3>1
  <2>2. S[p] # <<>>
    BY <2>1
  <2> QED
    BY <1>1, <2>2 DEF Chained, Named
<1>8. ASSUME NEW c \in 2 .. TableLast, fat[c] # 0
      PROVE  c \in RootClusters \/ \E p \in Paths : entry[p].live /\ c \in Reached(fat, p)
  <2>1. CASE Owner(S, c)
    <3>1. PICK p \in Paths : \E i \in 1 .. Len(S[p]) : c = S[p][i]
      BY <2>1 DEF Owner
    <3> QED
      BY <1>6, <1>7, <3>1
  <2>2. CASE ~Owner(S, c)
    BY <1>2, <1>8, <2>2 DEF InTable
  <2> QED
    BY <2>1, <2>2
<1>9. ASSUME NEW p \in Paths, entry[p].live, NEW c \in Reached(fat, p)
      PROVE  c \in 2 .. TableLast /\ fat[c] # 0
  BY <1>5, <1>6, <1>9 DEF Reached
<1> QED
  BY <1>3, <1>4, <1>8, <1>9

\* Two remainders that differ by a multiple of the divisor are the same.
LEMMA SameRemainder ==
    ASSUME NEW m \in Nat \ {0}, NEW a \in 0 .. m - 1, NEW b \in 0 .. m - 1, NEW t \in Int,
           a = b + t * m
    PROVE  a = b
<1>1. CASE t = 0
  BY <1>1
<1>2. CASE t >= 1
  <2>1. PICK d \in Nat : t = 1 + d
    <3>1. t - 1 \in Nat /\ t = 1 + (t - 1)
      BY <1>2
    <3> QED
      BY <3>1
  <2>2. t * m = m + d * m /\ d * m >= 0
    BY <2>1
  <2> QED
    BY <2>2
<1>3. CASE t <= -1
  <2>1. PICK d \in Nat : t = -1 - d
    <3>1. -1 - t \in Nat /\ t = -1 - (-1 - t)
      BY <1>3
    <3> QED
      BY <3>1
  <2>2. t * m = -m - d * m /\ d * m >= 0
    BY <2>1
  <2> QED
    BY <2>2
<1> QED
  BY <1>1, <1>2, <1>3

LEMMA CountExact ==
    ASSUME TypeInv, ChainInv
    PROVE  FreeCountExact
<1> SUFFICES ASSUME Version = 32, ~crashed, pc = "idle"
             PROVE  (freeCount + Cardinality(InUse)) % CountMod = (VolumeLast - 1) % CountMod
  BY DEF FreeCountExact, InUse
<1>1. PICK S, k : Chained(S, k)
  BY DEF ChainInv
<1>2. op.clusters = <<>> /\ Len(op.clusters) = 0
  BY <1>1, IdleChain
<1>3. PICK x : x = freeCount + Cardinality(InUse)
  OBVIOUS
<1>4. freeCount \in Nat /\ Cardinality(InUse) \in Nat /\ x \in Nat
  BY <1>3, InUseType, VolumeAssumption DEF TypeInv, TypeOK
<1>5. PICK wraps \in Int : x = VolumeLast - 1 + wraps * CountMod
  <2>1. PICK wraps \in Int : freeCount + Cardinality(InUse) + Len(op.clusters)
                               = VolumeLast - 1 + wraps * CountMod
    BY <1>1 DEF Chained, Counted
  <2> QED
    BY <1>2, <1>3, <1>4, <2>1
<1>6. PICK a, b : a = x % CountMod /\ b = (VolumeLast - 1) % CountMod
  OBVIOUS
<1>7. a \in 0 .. CountMod - 1 /\ b \in 0 .. CountMod - 1 /\ CountMod \in Nat \ {0}
  BY <1>4, <1>6, VolumeAssumption
<1>8. PICK u \in Int : a = x + u * CountMod
  BY <1>4, <1>6, Wrapped
<1>9. PICK v \in Int : b = VolumeLast - 1 + v * CountMod
  <2>1. VolumeLast - 1 \in Int
    BY VolumeAssumption
  <2> QED
    BY <1>6, <2>1, Wrapped
<1>10. a = b + (u + wraps - v) * CountMod
  <2>1. (u + wraps - v) * CountMod = u * CountMod + wraps * CountMod - v * CountMod
    BY <1>7
  <2>2. u * CountMod \in Int /\ wraps * CountMod \in Int /\ v * CountMod \in Int
    BY <1>7
  <2> QED
    BY <1>4, <1>5, <1>8, <1>9, <2>1, <2>2, VolumeAssumption
<1>11. u + wraps - v \in Int
  OBVIOUS
<1>12. a = b
  BY <1>7, <1>10, <1>11, SameRemainder
<1> QED
  BY <1>3, <1>6, <1>12

\* Between the commands of processes that are not killed, of which none left the
\* table in search of a free cluster, entries, chains and the free count agree on
\* every cluster (file.c:126-209 and fat.c:457-475 keep the three by hand), whatever
\* paths and host files.
THEOREM Consistency == Spec => []VolumeConsistent
<1>1. Init => TypeInv /\ ChainInv
  BY InitTypeInv, InitChain
<1>2. TypeInv /\ ChainInv /\ [Next]_vars => TypeInv' /\ ChainInv'
  BY NextTypeInv, NextChain
<1>3. TypeInv /\ ChainInv => VolumeConsistent
  BY SizesFit, NoneLost, CountExact DEF VolumeConsistent
<1> QED
  BY <1>1, <1>2, <1>3, PTL DEF Spec

-----------------------------------------------------------------------------
(* A file closed unharmed.  Its clusters K lead only to each other and to   *)
(* the end, in both tables; nothing else leads there; and what a command    *)
(* works on is elsewhere.                                                   *)

Kept(f, K) ==
    /\ K \subseteq 2 .. TableLast
    /\ entry[f].live /\ entry[f].first \in K \cup {0}
    /\ \A c \in K : fat[c] \in K \cup {EOC} /\ stable[c] = fat[c]
    /\ \A c \in (0 .. TableLast) \ K : fat[c] \notin K /\ stable[c] \notin K
    /\ \A g \in Paths : g # f /\ entry[g].live => entry[g].first \notin K
    /\ op.path # f /\ op.first \notin K /\ op.cursor \notin K
    /\ \A i \in 1 .. Len(op.clusters) : op.clusters[i] \notin K
    /\ Extracted(fat, entry, data, f) = kept[f]

KeptInv == \A f \in Files : kept[f] # Absent => \E K : Kept(f, K)

\* Tables that agree on a set they do not lead out of find the same clusters.
Agree(K, T, U) ==
    K \subseteq 2 .. TableLast /\ \A c \in K : T[c] \in K \cup {EOC} /\ U[c] = T[c]

SameData(K, d, e) == \A c \in K \cap 2 .. VolumeLast : e[c] = d[c]

LEMMA SameClusters ==
    ASSUME NEW K, NEW T, NEW U, Agree(K, T, U), NEW first \in K \cup {0}, NEW p \in Nat
    PROVE  /\ ClusterOf(T, first, p) = ClusterOf(U, first, p)
           /\ ClusterOf(T, first, p) \in (K \cap 2 .. VolumeLast) \cup {0}
<1>1. CASE first = 0
  BY <1>1 DEF ClusterOf
<1>2. CASE first \in K
  <2> DEFINE V == K \cup {EOC, BeyondLast}
             Same == {n \in Nat : Skip(T, first, n) = Skip(U, first, n) /\ Skip(T, first, n) \in V}
  <2>1. \A n \in Nat : Skip(T, first, n + 1) = ReadFAT(T, Skip(T, first, n))
    BY SkipRule, ZenonT(20)
  <2>2. \A n \in Nat : Skip(U, first, n + 1) = ReadFAT(U, Skip(U, first, n))
    BY SkipRule, ZenonT(20)
  <2>3. \A v \in V : ReadFAT(T, v) = ReadFAT(U, v) /\ ReadFAT(T, v) \in V
    <3> SUFFICES ASSUME NEW v \in V PROVE ReadFAT(T, v) = ReadFAT(U, v) /\ ReadFAT(T, v) \in V
      OBVIOUS
    <3>1. CASE v \in K
      <4>1. v \in 2 .. TableLast /\ v <= TableLast
        BY <3>1, VolumeAssumption DEF Agree
      <4>2. ReadFAT(T, v) = T[v] /\ ReadFAT(U, v) = U[v]
        BY <4>1 DEF ReadFAT
      <4> QED
        BY <3>1, <4>2 DEF Agree
    <3>2. CASE v \in {EOC, BeyondLast}
      <4>1. ~(v <= TableLast)
        BY <3>2, VolumeAssumption DEF EOC, BeyondLast
      <4> QED
        BY <4>1 DEF ReadFAT
    <3> QED
      BY <3>1, <3>2
  <2> HIDE DEF V
  <2>4. 0 \in Same
    <3>1. Skip(T, first, 0) = first /\ Skip(U, first, 0) = first
      BY SkipRule
    <3> QED
      BY <1>2, <3>1 DEF V
  <2>5. ASSUME NEW n \in Nat, n \in Same PROVE n + 1 \in Same
    <3>1. n + 1 \in Nat /\ Skip(T, first, n + 1) = ReadFAT(T, Skip(T, first, n))
          /\ Skip(U, first, n + 1) = ReadFAT(U, Skip(U, first, n))
      BY <2>1, <2>2
    <3> QED
      BY <2>3, <2>5, <3>1
  <2>6. Nat \subseteq Same
    <3> HIDE DEF Same
    <3> QED
      BY <2>4, <2>5, SetInduction
  <2>7. \A n \in Nat : Skip(T, first, n) = Skip(U, first, n) /\ Skip(T, first, n) \in V
    BY <2>6
  <2> DEFINE m == p \div ClusterSize
  <2>8. m \in Nat /\ \A n \in 0 .. m : n \in Nat
    BY VolumeAssumption
  <2> HIDE DEF m, Same
  <2>9. \A n \in 0 .. m : IsEOC(Skip(T, first, n)) <=> IsEOC(Skip(U, first, n))
    BY <2>7, <2>8
  <2>10. Skip(T, first, m) = Skip(U, first, m) /\ Skip(T, first, m) \in V
    BY <2>7, <2>8
  <2>11. ClusterOf(T, first, p) = ClusterOf(U, first, p)
    BY <2>9, <2>10 DEF ClusterOf, m
  <2>12. Skip(T, first, m) \in 2 .. VolumeLast => Skip(T, first, m) \in K
    BY <2>10, VolumeAssumption DEF Agree, V, EOC, BeyondLast, Reserved
  <2>13. ClusterOf(T, first, p) = 0 \/ (ClusterOf(T, first, p) = Skip(T, first, m)
                                         /\ Skip(T, first, m) \in 2 .. VolumeLast)
    BY DEF ClusterOf, m
  <2> QED
    BY <2>11, <2>12, <2>13
<1> QED
  BY <1>1, <1>2

\* How far a file can be read, of those it is as long as.
LEMMA LengthRead ==
    ASSUME NEW R, NEW size \in Nat
    PROVE  /\ \E n \in 0 .. size : (\A p \in 0 .. n - 1 : p \in R) /\ (n = size \/ n \notin R)
           /\ \A m, n \in 0 .. size :
                 /\ (\A p \in 0 .. n - 1 : p \in R) /\ (n = size \/ n \notin R)
                 /\ (\A p \in 0 .. m - 1 : p \in R) /\ (m = size \/ m \notin R)
                 => m = n
<1> DEFINE Stops == {n \in 0 .. size : n = size \/ n \notin R}
<1>1. Stops \subseteq Nat /\ size \in Stops
  OBVIOUS
<1>2. PICK n \in Stops : \A m \in Stops : n <= m
  <2> HIDE DEF Stops
  <2> QED
    BY <1>1, LeastNat
<1>3. ASSUME NEW p \in 0 .. n - 1 PROVE p \in R
  <2>1. p \in 0 .. size /\ p # size /\ ~(n <= p)
    BY <1>2, <1>3
  <2> QED
    BY <1>2, <2>1
<1>4. n \in 0 .. size /\ (n = size \/ n \notin R)
  BY <1>2
<1>5. ASSUME NEW m \in 0 .. size, NEW l \in 0 .. size,
             \A p \in 0 .. l - 1 : p \in R, m = size \/ m \notin R, m < l
      PROVE  FALSE
  <2>1. m \in 0 .. l - 1 /\ m # size
    BY <1>5
  <2> QED
    BY <1>5, <2>1
<1>6. \A m, l \in 0 .. size : ~(m < l) /\ ~(l < m) => m = l
  OBVIOUS
<1> HIDE DEF Stops
<1> QED
  BY <1>3, <1>4, <1>5, <1>6

\* What a file holds depends on its entry, its clusters and their data.
LEMMA SameFile ==
    ASSUME NEW K, NEW T, NEW U, Agree(K, T, U), NEW x, NEW y, NEW f,
           y[f] = x[f], x[f].first \in K \cup {0}, x[f].size \in Nat,
           NEW d, NEW e, SameData(K, d, e)
    PROVE  Extracted(U, y, e, f) = Extracted(T, x, d, f)
<1> DEFINE first == x[f].first
           size == x[f].size
           R == {p \in Nat : ClusterOf(T, first, p) # 0}
           Fits(n) == (\A p \in 0 .. n - 1 : p \in R) /\ (n = size \/ n \notin R)
           Length(A) == CHOOSE n \in 0 .. size :
                          /\ \A p \in 0 .. n - 1 : ClusterOf(A, first, p) # 0
                          /\ n = size \/ ~(ClusterOf(A, first, n) # 0)
<1>1. \A p \in Nat : /\ ClusterOf(T, first, p) = ClusterOf(U, first, p)
                     /\ ClusterOf(T, first, p) \in (K \cap 2 .. VolumeLast) \cup {0}
  <2>1. first \in K \cup {0}
    OBVIOUS
  <2> HIDE DEF first
  <2> QED
    BY <2>1, SameClusters
<1>2. first = y[f].first /\ size = y[f].size /\ size \in Nat /\ (x[f].live <=> y[f].live)
  OBVIOUS
<1>3. ASSUME NEW A, \A p \in Nat : ClusterOf(A, first, p) = ClusterOf(T, first, p)
      PROVE  Length(A) \in 0 .. size /\ Fits(Length(A))
  <2>1. PICK n \in 0 .. size : Fits(n)
    <3> HIDE DEF R, size
    <3> QED
      BY <1>2, LengthRead
  <2>2. \A m \in 0 .. size : Fits(m) <=> /\ \A p \in 0 .. m - 1 : ClusterOf(A, first, p) # 0
                                         /\ m = size \/ ~(ClusterOf(A, first, m) # 0)
    <3>1. \A m \in 0 .. size : m \in Nat /\ \A p \in 0 .. m - 1 : p \in Nat
      BY <1>2
    <3> HIDE DEF first, size
    <3> QED
      BY <1>3, <3>1
  <2>3. \E m \in 0 .. size : /\ \A p \in 0 .. m - 1 : ClusterOf(A, first, p) # 0
                             /\ m = size \/ ~(ClusterOf(A, first, m) # 0)
    <3> HIDE DEF Fits
    <3> QED
      BY <2>1, <2>2
  <2>4. /\ Length(A) \in 0 .. size
        /\ \A p \in 0 .. Length(A) - 1 : ClusterOf(A, first, p) # 0
        /\ Length(A) = size \/ ~(ClusterOf(A, first, Length(A)) # 0)
    <3> HIDE DEF first, size
    <3> QED
      BY <2>3
  <2> HIDE DEF Fits, Length
  <2> QED
    BY <2>2, <2>4
<1> HIDE DEF R, Length
<1>4. Length(T) = Length(U) /\ Length(T) \in 0 .. size /\ Fits(Length(T))
  <2>1. Length(T) \in 0 .. size /\ Fits(Length(T)) /\ Length(U) \in 0 .. size /\ Fits(Length(U))
    BY <1>1, <1>3
  <2> HIDE DEF size
  <2> QED
    BY <1>2, <2>1, LengthRead
<1>5. ASSUME NEW i \in 1 .. Length(T)
      PROVE  e[ClusterOf(U, first, i - 1)] = d[ClusterOf(T, first, i - 1)]
  <2>1. i - 1 \in 0 .. Length(T) - 1 /\ i - 1 \in Nat
    BY <1>4
  <2>2. i - 1 \in R
    BY <1>4, <2>1
  <2>3. ClusterOf(T, first, i - 1) \in K \cap 2 .. VolumeLast
        /\ ClusterOf(T, first, i - 1) = ClusterOf(U, first, i - 1)
    BY <1>1, <2>1, <2>2 DEF R
  <2> QED
    BY <2>3 DEF SameData
<1>6. Extracted(T, x, d, f) =
        IF ~x[f].live THEN Absent
        ELSE [i \in 1 .. Length(T) |-> d[ClusterOf(T, first, i - 1)][(i - 1) % ClusterSize]]
  BY DEF Extracted, Length
<1>7. Extracted(U, y, e, f) =
        IF ~x[f].live THEN Absent
        ELSE [i \in 1 .. Length(U) |-> e[ClusterOf(U, first, i - 1)][(i - 1) % ClusterSize]]
  BY <1>2 DEF Extracted, Length
<1>8. [i \in 1 .. Length(T) |-> d[ClusterOf(T, first, i - 1)][(i - 1) % ClusterSize]] =
      [i \in 1 .. Length(U) |-> e[ClusterOf(U, first, i - 1)][(i - 1) % ClusterSize]]
  BY <1>4, <1>5
<1> HIDE DEF first
<1>9. CASE x[f].live
  BY ONLY <1>6, <1>7, <1>8, <1>9
<1>10. CASE ~x[f].live
  BY ONLY <1>6, <1>7, <1>10
<1> QED
  BY <1>9, <1>10

\* A step that stays away from a kept file's clusters and entry keeps it.
LEMMA KeptFrame ==
    ASSUME TypeInv, NEW f \in Files, NEW K, Kept(f, K),
           entry'[f] = entry[f], kept'[f] = kept[f],
           \A c \in K : fat'[c] = fat[c],
           \A c \in (0 .. TableLast) \ K : fat'[c] \notin K,
           stable' \in {stable, fat},
           \A c \in K \cap 2 .. VolumeLast : data'[c] = data[c],
           \A g \in Paths : g # f /\ entry'[g].live => entry'[g].first \notin K,
           op'.path # f, op'.first \notin K, op'.cursor \notin K,
           \A i \in 1 .. Len(op'.clusters) : op'.clusters[i] \notin K
    PROVE  Kept(f, K)'
<1>1. K \subseteq 2 .. TableLast /\ entry[f].live /\ entry[f].first \in K \cup {0}
  BY DEF Kept
<1>2. \A c \in K : fat[c] \in K \cup {EOC} /\ stable[c] = fat[c]
  BY DEF Kept
<1>3. \A c \in (0 .. TableLast) \ K : fat[c] \notin K /\ stable[c] \notin K
  BY DEF Kept
<1>4. \A c \in K : fat'[c] \in K \cup {EOC} /\ stable'[c] = fat'[c]
  BY <1>2
<1>5. \A c \in (0 .. TableLast) \ K : fat'[c] \notin K /\ stable'[c] \notin K
  BY <1>3
<1>6. Extracted(fat', entry', data', f) = Extracted(fat, entry, data, f)
  <2>1. Agree(K, fat, fat')
    BY <1>1, <1>2 DEF Agree
  <2>2. entry[f].size \in Nat /\ SameData(K, data, data')
    BY DEF TypeInv, TypeOK, Paths, SameData
  <2> QED
    BY ONLY <1>1, <2>1, <2>2, entry'[f] = entry[f], SameFile
<1>7. Extracted(fat, entry, data, f)' = kept'[f]
  BY <1>6 DEF Kept
<1>8. EOC' = EOC
  BY DEF EOC
<1> QED
  BY <1>1, <1>4, <1>5, <1>7, <1>8 DEF Kept

\* Both tables hold the same of a kept file.
LEMMA KeptRead ==
    ASSUME TypeInv, KeptInv
    PROVE  KeptFilesSurvive
<1> SUFFICES ASSUME NEW f \in Files, kept[f] # Absent
             PROVE  /\ Extracted(fat, entry, data, f) = kept[f]
                    /\ Extracted(stable, entry, data, f) = kept[f]
  BY DEF KeptFilesSurvive
<1>1. PICK K : Kept(f, K)
  BY DEF KeptInv
<1>2. Agree(K, fat, stable)
  BY <1>1 DEF Kept, Agree
<1>3. entry[f].first \in K \cup {0} /\ entry[f].size \in Nat
  BY <1>1 DEF Kept, TypeInv, TypeOK, Paths
<1>4. Extracted(stable, entry, data, f) = Extracted(fat, entry, data, f)
  <2>1. SameData(K, data, data)
    BY DEF SameData
  <2> QED
    BY ONLY <1>2, <1>3, <2>1, SameFile
<1> QED
  BY <1>1, <1>4 DEF Kept

\* What a command works on before the step is not a kept file's.
LEMMA KeptApart ==
    ASSUME TypeInv, NEW f \in Files, NEW K, Kept(f, K)
    PROVE  /\ 0 \notin K /\ EOC \notin K /\ BeyondLast \notin K /\ Reserved \notin K
           /\ op.path # f /\ op.first \notin K /\ op.cursor \notin K
           /\ \A i \in 1 .. Len(op.clusters) : op.clusters[i] \notin K
           /\ \A c \in FreeFrom(0) : c \notin K
           /\ \A v \in 0 .. BeyondLast : v \notin K => ReadFAT(fat, v) \notin K
           /\ \A c \in K : stable[c] = fat[c] /\ c \in 2 .. TableLast
           /\ \A c \in (0 .. TableLast) \ K : fat[c] \notin K /\ stable[c] \notin K
           /\ \A g \in Paths : g # f /\ entry[g].live => entry[g].first \notin K
           /\ f \in Paths
<1>1. K \subseteq 2 .. TableLast
  BY DEF Kept
<1>2. 0 \notin K /\ EOC \notin K /\ BeyondLast \notin K /\ Reserved \notin K
  BY <1>1, VolumeAssumption DEF EOC, BeyondLast, Reserved
<1>3. \A c \in FreeFrom(0) : c \notin K
  <2>1. \A c \in K : fat[c] # 0
    BY <1>2, VolumeAssumption DEF Kept, EOC, Reserved
  <2> QED
    BY <2>1 DEF FreeFrom
<1>4. ASSUME NEW v, v \notin K, v \in 0 .. BeyondLast PROVE ReadFAT(fat, v) \notin K
  <2>1. CASE v <= TableLast
    BY <1>4, <2>1, VolumeAssumption DEF ReadFAT, Kept, BeyondLast
  <2>2. CASE ~(v <= TableLast)
    BY <1>2, <2>2 DEF ReadFAT
  <2> QED
    BY <2>1, <2>2
<1> QED
  BY <1>1, <1>2, <1>3, <1>4 DEF Kept, Paths

\* A step that ends the work on a file, or begins or goes on with that on
\* another, and writes neither tables nor data.
LEMMA KeptOpen ==
    ASSUME TypeInv, NEW f \in Files, NEW K, Kept(f, K), kept'[f] = kept[f],
           UNCHANGED <<fat, data, entry>>, stable' \in {stable, fat},
           op' \in {op, NoOp}
    PROVE  Kept(f, K)'
<1>1. f # Nobody
  BY CommandAssumption DEF Paths
<1>2. NoOp.path = Nobody /\ NoOp.first = 0 /\ NoOp.cursor = 0 /\ NoOp.clusters = <<>>
  BY DEF NoOp
<1>3. Len(<<>>) = 0
  OBVIOUS
<1>4. /\ op'.path # f /\ op'.first \notin K /\ op'.cursor \notin K
      /\ \A i \in 1 .. Len(op'.clusters) : op'.clusters[i] \notin K
  <2>1. CASE op' = op
    BY <2>1, KeptApart
  <2>2. CASE op' = NoOp
    <3>1. 0 \notin K
      BY KeptApart
    <3> QED
      BY <1>1, <1>2, <1>3, <2>2, <3>1
  <2> QED
    BY <2>1, <2>2
<1>5. /\ \A c \in (0 .. TableLast) \ K : fat'[c] \notin K
      /\ \A g \in Paths : g # f /\ entry'[g].live => entry'[g].first \notin K
  BY KeptApart
<1> QED
  BY <1>4, <1>5, KeptFrame

LEMMA KeptBegin ==
    ASSUME TypeInv, NEW f \in Files, NEW K, Kept(f, K), kept'[f] = kept[f],
           UNCHANGED <<fat, stable, data>>, NEW g \in Paths, g # f,
           \A p \in Paths : p # g => entry'[p] = entry[p],
           entry'[g].live => entry'[g].first = 0 \/ (entry[g].live /\ entry'[g].first = entry[g].first),
           op'.path = g, op'.clusters = <<>>,
           op'.first = 0 \/ (entry'[g].live /\ op'.first = entry'[g].first),
           op'.cursor = 0 \/ (entry'[g].live /\ op'.cursor = entry'[g].first)
    PROVE  Kept(f, K)'
<1>1. 0 \notin K /\ f \in Paths
  BY KeptApart
<1>2. entry'[g].live => entry'[g].first \notin K
  BY <1>1, KeptApart
<1>3. \A p \in Paths : p # f /\ entry'[p].live => entry'[p].first \notin K
  <2>1. \A p \in Paths : p # f /\ entry[p].live => entry[p].first \notin K
    BY KeptApart
  <2> QED
    BY <1>2, <2>1
<1>4. \A c \in (0 .. TableLast) \ K : fat'[c] \notin K
  BY KeptApart
<1>5. op'.first \notin K /\ op'.cursor \notin K
  BY <1>1, <1>2
<1>6. \A i \in 1 .. Len(op'.clusters) : op'.clusters[i] \notin K
  BY KeptApart
<1>7. entry'[f] = entry[f]
  BY <1>1
<1> QED
  BY <1>3, <1>4, <1>5, <1>6, <1>7, KeptFrame

LEMMA KeptBegins ==
    ASSUME TypeInv, NEW f \in Files, NEW K, Kept(f, K), kept'[f] # Absent,
           NEW g \in Paths,
           \/ g \in Files /\ \E host \in Hosts : BeginInsert(g, host)
           \/ g \in Dirs /\ \E size \in DirSizes : BeginDirectory(g, size)
           \/ BeginRemove(g)
    PROVE  Kept(f, K)'
<1>1. kept = [h \in Files |-> kept[h]] /\ DOMAIN entry = Paths
  BY DEF TypeInv, OpType, TypeOK
<1>2. CASE g \in Files /\ \E host \in Hosts : BeginInsert(g, host)
  <2>1. PICK host \in Hosts : BeginInsert(g, host)
    BY <1>2
  <2>2. /\ op'.path = g /\ op'.clusters = <<>> /\ op'.first = entry'[g].first /\ op'.cursor = 0
        /\ UNCHANGED <<fat, stable, data>>
        /\ kept' = [kept EXCEPT ![g] = Absent]
    BY <2>1 DEF BeginInsert, NoOp
  <2>3. entry' = [entry EXCEPT ![g] = IF entry[g].live THEN entry[g]
                                      ELSE [NoEntry EXCEPT !.live = TRUE]]
    BY <2>1 DEF BeginInsert
  <2>4. /\ \A p \in Paths : p # g => entry'[p] = entry[p]
        /\ entry'[g].live
        /\ entry'[g].first = 0 \/ (entry[g].live /\ entry'[g].first = entry[g].first)
    <3>1. CASE entry[g].live
      BY <1>1, <2>3, <3>1
    <3>2. CASE ~entry[g].live
      BY <1>1, <2>3, <3>2, NewEntry
    <3> QED
      BY <3>1, <3>2
  <2>5. g # f /\ kept'[f] = kept[f]
    BY <1>1, <1>2, <2>2
  <2> QED
    BY <2>2, <2>4, <2>5, KeptBegin
<1>3. CASE g \in Dirs /\ \E size \in DirSizes : BeginDirectory(g, size)
  <2>1. PICK size \in DirSizes : BeginDirectory(g, size)
    BY <1>3
  <2>2. /\ op'.path = g /\ op'.clusters = <<>> /\ op'.first = 0 /\ op'.cursor = 0
        /\ UNCHANGED <<fat, stable, data>> /\ kept' = kept
        /\ entry' = [entry EXCEPT ![g] = [NoEntry EXCEPT !.live = TRUE]]
    BY <2>1 DEF BeginDirectory, NoOp
  <2>3. /\ \A p \in Paths : p # g => entry'[p] = entry[p]
        /\ entry'[g].first = 0
    BY <1>1, <2>2, NewEntry
  <2>4. g # f
    BY <1>3, CommandAssumption
  <2> QED
    BY <2>2, <2>3, <2>4, KeptBegin
<1>4. CASE BeginRemove(g)
  <2>1. /\ op'.path = g /\ op'.clusters = <<>> /\ op'.first = 0 /\ op'.cursor = entry[g].first
        /\ UNCHANGED <<fat, stable, data, entry>> /\ entry[g].live
        /\ kept' = [h \in Files |-> IF h = g THEN Absent ELSE kept[h]]
    BY <1>4 DEF BeginRemove, NoOp, disks
  <2>2. g # f /\ kept'[f] = kept[f]
    BY <2>1
  <2> QED
    BY <2>1, <2>2, KeptBegin
<1> QED
  BY <1>2, <1>3, <1>4

\* A write outside the kept clusters, of a value outside them.
LEMMA KeptWritten ==
    ASSUME TypeInv, NEW f \in Files, NEW K, Kept(f, K),
           NEW c, c \notin K, NEW v, v \notin K, fat' = Written(c, v)
    PROVE  /\ \A d \in K : fat'[d] = fat[d]
           /\ \A d \in (0 .. TableLast) \ K : fat'[d] \notin K
<1>1. DOMAIN fat = 0 .. TableLast
  BY DEF TypeInv, TypeOK
<1>2. \A d \in K : d \in 0 .. TableLast
  BY KeptApart
<1>3. \A d \in (0 .. TableLast) \ K : fat[d] \notin K
  BY KeptApart
<1>4. CASE fat' = fat
  BY <1>3, <1>4
<1>5. CASE fat' = [fat EXCEPT ![c] = v]
  <2>1. \A d \in 0 .. TableLast : fat'[d] = IF d = c THEN v ELSE fat[d]
    BY <1>1, <1>5
  <2> QED
    BY <1>2, <1>3, <2>1
<1> QED
  BY <1>4, <1>5 DEF Written

LEMMA KeptReserve ==
    ASSUME TypeInv, NEW f \in Files, NEW K, Kept(f, K), Reserve
    PROVE  Kept(f, K)'
<1>1. PICK F, n : F = FreeClusters(NeededClusters) /\ n = NeededClusters
  OBVIOUS
<1>2. pc = "write" /\ UNCHANGED <<fat, entry, data, kept>> /\ stable' \in {stable, fat}
  BY NeededType DEF Reserve, Save
<1>3. /\ n \in Nat /\ Len(F) = n /\ \A i \in 1 .. n : F[i] \in FreeFrom(0)
      /\ op'.path = op.path /\ op'.clusters = F /\ op'.cursor = op.first
      /\ op'.first = IF n > 0 /\ op.first = 0 THEN F[1] ELSE op.first
  BY <1>1, <1>2, ReservedStep
<1>4. \A i \in 1 .. n : F[i] \notin K
  BY <1>3, KeptApart
<1>5. n > 0 => F[1] \notin K
  BY <1>3, <1>4
<1>6. op.path # f /\ op.first \notin K
  BY KeptApart
<1>7. /\ op'.path # f /\ op'.first \notin K /\ op'.cursor \notin K
      /\ \A i \in 1 .. Len(op'.clusters) : op'.clusters[i] \notin K
  BY <1>3, <1>4, <1>5, <1>6
<1>8. /\ \A c \in (0 .. TableLast) \ K : fat'[c] \notin K
      /\ \A g \in Paths : g # f /\ entry'[g].live => entry'[g].first \notin K
  BY <1>2, KeptApart
<1> QED
  BY <1>2, <1>7, <1>8, KeptFrame

\* The walk, the link from the old end, and the freeing of a chain.
LEMMA KeptFollow ==
    ASSUME TypeInv, NEW f \in Files, NEW K, Kept(f, K), Walk \/ LinkToLast \/ Free
    PROVE  Kept(f, K)'
<1>1. /\ op = [x \in OpFields |-> op[x]] /\ op.cursor \in 0 .. BeyondLast
      /\ op.clusters \in Seq(0 .. TableLast) /\ (pc = "walk" => op.clusters # <<>>)
  BY DEF TypeInv, OpType, OpOK
<1>2. /\ UNCHANGED <<data, entry, kept>> /\ stable' \in {stable, fat}
      /\ op' \in {op, [op EXCEPT !.cursor = ReadFAT(fat, op.cursor)]}
  BY DEF Walk, LinkToLast, Free, Save
<1>3. op.cursor \notin K /\ 0 \notin K /\ op.path # f /\ op.first \notin K
      /\ ReadFAT(fat, op.cursor) \notin K
      /\ \A i \in 1 .. Len(op.clusters) : op.clusters[i] \notin K
  BY <1>1, KeptApart
<1>4. op'.path = op.path /\ op'.first = op.first /\ op'.clusters = op.clusters
      /\ op'.cursor \in {op.cursor, ReadFAT(fat, op.cursor)}
  <2>1. CASE op' = op
    BY <2>1
  <2>2. CASE op' = [op EXCEPT !.cursor = ReadFAT(fat, op.cursor)]
    BY ONLY <1>1, <2>2 DEF OpFields
  <2> QED
    BY <1>2, <2>1, <2>2
<1>5. /\ \A c \in K : fat'[c] = fat[c]
      /\ \A c \in (0 .. TableLast) \ K : fat'[c] \notin K
  <2>1. CASE Walk
    BY <2>1, KeptApart DEF Walk
  <2>2. CASE LinkToLast
    <3>1. op.clusters[1] \notin K
      <4>1. 1 \in 1 .. Len(op.clusters)
        BY <1>1, <2>2 DEF LinkToLast
      <4> QED
        BY <1>3, <4>1
    <3>2. fat' = Written(op.cursor, op.clusters[1])
      BY <2>2 DEF LinkToLast
    <3> QED
      BY <1>3, <3>1, <3>2, KeptWritten
  <2>3. CASE Free
    <3>1. fat' = Written(op.cursor, 0)
      BY <2>3 DEF Free
    <3> QED
      BY <1>3, <3>1, KeptWritten
  <2> QED
    BY <2>1, <2>2, <2>3
<1>6. \A g \in Paths : g # f /\ entry'[g].live => entry'[g].first \notin K
  BY <1>2, KeptApart
<1>7. /\ op'.path # f /\ op'.first \notin K /\ op'.cursor \notin K
      /\ \A i \in 1 .. Len(op'.clusters) : op'.clusters[i] \notin K
  BY <1>3, <1>4
<1> QED
  BY <1>2, <1>5, <1>6, <1>7, KeptFrame

LEMMA KeptLink ==
    ASSUME TypeInv, NEW f \in Files, NEW K, Kept(f, K), Link
    PROVE  Kept(f, K)'
<1>1. PICK C, R : C = op.clusters /\ R = Tail(op.clusters)
  OBVIOUS
<1>2. op = [x \in OpFields |-> op[x]] /\ C \in Seq(0 .. TableLast) /\ C # <<>>
  BY <1>1 DEF TypeInv, OpType, OpOK, Link
<1>3. /\ Len(C) \in Nat \ {0} /\ Head(C) = C[1] /\ R \in Seq(0 .. TableLast)
      /\ Len(R) = Len(C) - 1 /\ \A i \in 1 .. Len(C) - 1 : R[i] = C[i + 1]
      /\ R # <<>> => Head(R) = R[1] /\ Len(R) \in Nat \ {0}
  <2>1. /\ Len(C) \in Nat \ {0} /\ Head(C) = C[1] /\ R \in Seq(0 .. TableLast)
        /\ Len(R) = Len(C) - 1 /\ \A i \in 1 .. Len(C) - 1 : R[i] = C[i + 1]
    BY <1>1, <1>2, HeadAndTail
  <2>2. R # <<>> => Head(R) = R[1] /\ Len(R) \in Nat \ {0}
    BY <2>1, HeadAndTail
  <2> QED
    BY <2>1, <2>2
<1>4. /\ fat' = Written(Head(C), IF R = <<>> THEN ChainEnd ELSE Head(R))
      /\ data' \in {data, [data EXCEPT ![Head(C)] = [u \in 0 .. ClusterSize - 1 |-> Zero]]}
      /\ op' = [op EXCEPT !.clusters = R, !.cursor = 0]
      /\ stable' \in {stable, fat} /\ UNCHANGED <<entry, kept>>
  BY <1>1 DEF Link, Save
<1>5. op'.path = op.path /\ op'.first = op.first /\ op'.clusters = R /\ op'.cursor = 0
  BY ONLY <1>2, <1>4 DEF OpFields
<1>6. /\ 0 \notin K /\ EOC \notin K /\ op.path # f /\ op.first \notin K
      /\ \A i \in 1 .. Len(C) : C[i] \notin K
  BY <1>1, KeptApart
<1>7. \A i \in 1 .. Len(R) : R[i] \notin K
  <2> SUFFICES ASSUME NEW i \in 1 .. Len(R) PROVE R[i] \notin K
    OBVIOUS
  <2>1. Len(C) \in Nat /\ Len(R) = Len(C) - 1
    BY <1>3
  <2>2. i \in 1 .. Len(C) - 1 /\ i + 1 \in 1 .. Len(C)
    BY ONLY <2>1, i \in 1 .. Len(R)
  <2> QED
    BY <1>3, <1>6, <2>2
<1>8. Head(C) \notin K /\ (IF R = <<>> THEN ChainEnd ELSE Head(R)) \notin K
  <2>1. 1 \in 1 .. Len(C) /\ (R # <<>> => 1 \in 1 .. Len(R))
    BY <1>3
  <2> QED
    BY <1>3, <1>6, <1>7, <2>1 DEF ChainEnd
<1>9. /\ \A c \in K : fat'[c] = fat[c]
      /\ \A c \in (0 .. TableLast) \ K : fat'[c] \notin K
  BY <1>4, <1>8, KeptWritten
<1>10. \A c \in K \cap 2 .. VolumeLast : data'[c] = data[c]
  <2>1. DOMAIN data = 2 .. VolumeLast
    BY DEF TypeInv, TypeOK
  <2> QED
    BY <1>4, <1>8, <2>1
<1>11. \A g \in Paths : g # f /\ entry'[g].live => entry'[g].first \notin K
  BY <1>4, KeptApart
<1>12. /\ op'.path # f /\ op'.first \notin K /\ op'.cursor \notin K
       /\ \A i \in 1 .. Len(op'.clusters) : op'.clusters[i] \notin K
  BY <1>5, <1>6, <1>7
<1> QED
  BY <1>4, <1>9, <1>10, <1>11, <1>12, KeptFrame

LEMMA KeptSetEntry ==
    ASSUME TypeInv, NEW f \in Files, NEW K, Kept(f, K), SetEntry
    PROVE  Kept(f, K)'
<1>1. PICK p, t : p = op.path /\ t = Target
  OBVIOUS
<1>2. /\ pc = "setentry" /\ p \in Paths /\ op.clusters = <<>>
      /\ UNCHANGED <<fat, stable, data, kept>>
      /\ op = [x \in OpFields |-> op[x]]
  <2>1. pc = "setentry" /\ UNCHANGED <<fat, stable, data, kept>>
    BY DEF SetEntry
  <2> QED
    BY <1>1, <2>1 DEF TypeInv, OpOK, OpType
<1>3. 0 \notin K /\ p # f /\ op.first \notin K /\ f \in Paths /\ f # Nobody
  BY <1>1, KeptApart, CommandAssumption
<1>4. /\ \A q \in Paths : q # p => entry'[q] = entry[q]
      /\ entry'[p].first = op.first
  <2>1. entry \in [Paths -> [live : BOOLEAN, first : 0 .. TableLast, size : Nat]]
    BY DEF TypeInv, TypeOK
  <2>2. entry' = [entry EXCEPT ![p].first = op.first,
                               ![p].size = IF IsDirectory THEN @ ELSE t]
    BY <1>1 DEF SetEntry
  <2> QED
    BY ONLY <1>2, <2>1, <2>2
<1>5. /\ op'.clusters = <<>>
      /\ \/ op'.path = p /\ op'.first = op.first /\ op'.cursor = 0
         \/ op'.path = Nobody /\ op'.first = 0 /\ op'.cursor = 0
  <2>1. CASE op' = [op EXCEPT !.size = t, !.cursor = 0]
    <3>1. op'.clusters = op.clusters /\ op'.path = op.path /\ op'.first = op.first /\ op'.cursor = 0
      BY ONLY <1>2, <2>1 DEF OpFields
    <3> QED
      BY <1>1, <1>2, <3>1
  <2>2. CASE op' = [op EXCEPT !.size = t, !.pos = op.grow, !.cursor = 0]
    <3>1. op'.clusters = op.clusters /\ op'.path = op.path /\ op'.first = op.first /\ op'.cursor = 0
      BY ONLY <1>2, <2>2 DEF OpFields
    <3> QED
      BY <1>1, <1>2, <3>1
  <2>3. CASE op' = NoOp
    BY <2>3 DEF NoOp
  <2> QED
    BY <1>1, <2>1, <2>2, <2>3 DEF SetEntry
<1>6. \A g \in Paths : g # f /\ entry'[g].live => entry'[g].first \notin K
  <2>1. \A g \in Paths : g # f /\ entry[g].live => entry[g].first \notin K
    BY KeptApart
  <2> QED
    BY <1>3, <1>4, <2>1
<1>7. /\ op'.path # f /\ op'.first \notin K /\ op'.cursor \notin K
      /\ \A i \in 1 .. Len(op'.clusters) : op'.clusters[i] \notin K
  <2>1. \A i \in 1 .. Len(op.clusters) : op.clusters[i] \notin K
    BY KeptApart
  <2> QED
    BY <1>2, <1>3, <1>5, <2>1
<1>8. \A c \in (0 .. TableLast) \ K : fat'[c] \notin K
  BY <1>2, KeptApart
<1> QED
  BY <1>2, <1>3, <1>4, <1>6, <1>7, <1>8, KeptFrame

\* Where a command writes is found from clusters that are not a kept file's.
LEMMA KeptWriteData ==
    ASSUME TypeInv, NEW f \in Files, NEW K, Kept(f, K), WriteData
    PROVE  Kept(f, K)'
<1>1. PICK c : c = ClusterOf(fat, op.first, op.pos)
  OBVIOUS
<1>2. /\ op = [x \in OpFields |-> op[x]] /\ op.first \in 0 .. TableLast /\ op.pos \in Nat
  BY DEF TypeInv, OpType
<1>3. /\ UNCHANGED <<fat, entry, kept>> /\ stable' \in {stable, fat}
      /\ \/ /\ c # 0
            /\ data' = [data EXCEPT ![c][op.pos % ClusterSize] = op.host[op.pos + 1]]
            /\ op' = [op EXCEPT !.pos = @ + 1]
         \/ data' = data /\ op' = NoOp
  BY <1>1 DEF WriteData, Save, Finish
<1>4. CASE data' = data /\ op' = NoOp
  BY <1>3, <1>4, KeptOpen
<1>5. CASE /\ c # 0
           /\ data' = [data EXCEPT ![c][op.pos % ClusterSize] = op.host[op.pos + 1]]
           /\ op' = [op EXCEPT !.pos = @ + 1]
  <2>1. op'.path = op.path /\ op'.first = op.first /\ op'.cursor = op.cursor
        /\ op'.clusters = op.clusters
    BY ONLY <1>2, <1>5 DEF OpFields
  <2>2. c \notin K
    <3> DEFINE V == (0 .. BeyondLast) \ K
    <3>1. op.first \in V
      <4>1. op.first \notin K
        BY KeptApart
      <4>2. op.first \in 0 .. BeyondLast
        BY <1>2, VolumeAssumption DEF BeyondLast
      <4> QED
        BY <4>1, <4>2
    <3>2. ASSUME NEW v \in V PROVE ReadFAT(fat, v) \in V
      <4>1. ReadFAT(fat, v) \notin K
        BY KeptApart
      <4>2. ReadFAT(fat, v) \in 0 .. BeyondLast
        <5>1. fat \in [0 .. TableLast -> Value]
          BY DEF TypeInv, TypeOK
        <5> QED
          BY <5>1, VolumeAssumption DEF ReadFAT, Value, EOC, BeyondLast
      <4> QED
        BY <4>1, <4>2
    <3>3. \A n \in Nat : Skip(fat, op.first, n) \in V
      <4> HIDE DEF V
      <4> QED
        BY <3>1, <3>2, SkipStays
    <3>4. op.pos \div ClusterSize \in Nat
      BY <1>2, VolumeAssumption
    <3>5. c = Skip(fat, op.first, op.pos \div ClusterSize)
      BY <1>1, <1>5 DEF ClusterOf
    <3> QED
      BY <3>3, <3>4, <3>5
  <2>3. \A d \in K \cap 2 .. VolumeLast : data'[d] = data[d]
    <3>1. DOMAIN data = 2 .. VolumeLast
      BY DEF TypeInv, TypeOK
    <3> QED
      BY <1>5, <2>2, <3>1
  <2>4. /\ op'.path # f /\ op'.first \notin K /\ op'.cursor \notin K
        /\ \A i \in 1 .. Len(op'.clusters) : op'.clusters[i] \notin K
    BY <2>1, KeptApart
  <2>5. /\ \A d \in (0 .. TableLast) \ K : fat'[d] \notin K
        /\ \A g \in Paths : g # f /\ entry'[g].live => entry'[g].first \notin K
    BY <1>3, KeptApart
  <2> QED
    BY <1>3, <2>3, <2>4, <2>5, KeptFrame
<1> QED
  BY <1>3, <1>4, <1>5

LEMMA KeptUnname ==
    ASSUME TypeInv, NEW f \in Files, NEW K, Kept(f, K), Unname
    PROVE  Kept(f, K)'
<1>1. PICK p : p = op.path
  OBVIOUS
<1>2. /\ p \in Paths /\ p # f /\ f # Nobody /\ 0 \notin K /\ f \in Paths
      /\ entry' = [entry EXCEPT ![p].live = FALSE] /\ op' = NoOp
      /\ UNCHANGED <<fat, stable, data, kept>>
      /\ entry \in [Paths -> [live : BOOLEAN, first : 0 .. TableLast, size : Nat]]
  <2>1. entry' = [entry EXCEPT ![p].live = FALSE] /\ op' = NoOp
        /\ UNCHANGED <<fat, stable, data, kept>> /\ pc = "free"
    BY <1>1 DEF Unname, Finish
  <2>2. p \in Paths /\ entry \in [Paths -> [live : BOOLEAN, first : 0 .. TableLast, size : Nat]]
    BY <1>1, <2>1 DEF TypeInv, TypeOK, OpOK
  <2>3. p # f /\ f # Nobody /\ 0 \notin K /\ f \in Paths
    BY <1>1, KeptApart, CommandAssumption
  <2> QED
    BY <2>1, <2>2, <2>3
<1>3. /\ \A q \in Paths : q # p => entry'[q] = entry[q]
      /\ entry'[p].first = entry[p].first /\ ~entry'[p].live
  BY ONLY <1>2
<1>4. \A g \in Paths : g # f /\ entry'[g].live => entry'[g].first \notin K
  <2>1. \A g \in Paths : g # f /\ entry[g].live => entry[g].first \notin K
    BY KeptApart
  <2> QED
    BY <1>3, <2>1
<1>5. /\ op'.path # f /\ op'.first \notin K /\ op'.cursor \notin K
      /\ \A i \in 1 .. Len(op'.clusters) : op'.clusters[i] \notin K
  <2>1. NoOp.path = Nobody /\ NoOp.first = 0 /\ NoOp.cursor = 0 /\ Len(NoOp.clusters) = 0
    BY DEF NoOp
  <2> QED
    BY <1>2, <2>1
<1>6. \A c \in (0 .. TableLast) \ K : fat'[c] \notin K
  BY <1>2, KeptApart
<1> QED
  BY <1>2, <1>3, <1>4, <1>5, <1>6, KeptFrame

\* The table on the image that the next process reads has the file whole.
LEMMA KeptCrash ==
    ASSUME TypeInv, NEW f \in Files, NEW K, Kept(f, K), Crash
    PROVE  Kept(f, K)'
<1>1. fat' = stable /\ stable' = stable /\ op' = NoOp /\ UNCHANGED <<entry, data, kept>>
  BY DEF Crash, disks
<1>2. /\ \A c \in K : fat'[c] = fat[c]
      /\ \A c \in (0 .. TableLast) \ K : fat'[c] \notin K
  BY <1>1, KeptApart
<1>3. /\ op'.path # f /\ op'.first \notin K /\ op'.cursor \notin K
      /\ \A i \in 1 .. Len(op'.clusters) : op'.clusters[i] \notin K
  <2>1. NoOp.path = Nobody /\ NoOp.first = 0 /\ NoOp.cursor = 0 /\ Len(NoOp.clusters) = 0
    BY DEF NoOp
  <2>2. f # Nobody /\ 0 \notin K
    BY KeptApart, CommandAssumption
  <2> QED
    BY <1>1, <2>1, <2>2
<1>4. \A g \in Paths : g # f /\ entry'[g].live => entry'[g].first \notin K
  BY <1>1, KeptApart
<1> QED
  BY <1>1, <1>2, <1>3, <1>4, KeptFrame

\* What is closed unharmed is kept, for its chain is its own.
LEMMA KeptClosed ==
    ASSUME TypeInv, ChainInv, ~crashed, CloseTable, NEW f \in Files, kept'[f] # Absent
    PROVE  \E K : Kept(f, K)'
<1>1. PICK S : Chained(S, 1)
  <2>1. pc = "idle"
    BY DEF CloseTable, TypeInv, TypeOK, OpOK, Extending
  <2>2. PICK S, k : Chained(S, k)
    BY DEF ChainInv
  <2>3. k = 1
    BY <2>1, <2>2, IdleChain
  <2> QED
    BY <2>2, <2>3
<1>2. /\ pc = "idle" /\ op = NoOp /\ op.clusters = <<>> /\ f \in Paths /\ f # Nobody
      /\ stable' = fat /\ UNCHANGED <<fat, entry, data, op>>
      /\ kept'[f] = Extracted(fat, entry, data, f)
  <2>1. /\ stable' = fat /\ UNCHANGED <<fat, entry, data, op>>
        /\ kept'[f] = Extracted(fat, entry, data, f) /\ session = "closing"
    BY DEF CloseTable
  <2>2. pc = "idle"
    BY <2>1 DEF TypeInv, OpOK, TypeOK, Extending
  <2>3. f \in Paths /\ f # Nobody
    BY CommandAssumption DEF Paths
  <2> QED
    BY <1>1, <2>1, <2>2, <2>3, IdleChain
<1>3. PICK K : K = {S[f][i] : i \in 1 .. Len(S[f])}
  OBVIOUS
<1>4. K \subseteq 2 .. TableLast
  BY <1>1, <1>2, <1>3, ChainTypes DEF Chained
<1>5. entry[f].live
  BY <1>2 DEF Extracted
<1>6. entry[f].first \in K \cup {0}
  BY <1>1, <1>2, <1>3, <1>5, FirstOwn
<1>7. Apart(S) /\ InTable(S, 1)
  BY <1>1 DEF Chained
<1>8. ASSUME NEW p \in Paths, NEW i \in 1 .. Len(S[p])
      PROVE  \/ fat[S[p][i]] = EOC
             \/ \E j \in 1 .. Len(S[p]) : fat[S[p][i]] = S[p][j]
  <2>1. \/ fat[S[p][i]] \in {0, EOC}
        \/ \E j \in 1 .. Len(S[p]) : fat[S[p][i]] = S[p][j]
    BY <1>7, TableInChain
  <2>2. fat[S[p][i]] # 0
    <3>1. S[p][i] \in 2 .. TableLast /\ Owner(S, S[p][i])
      BY <1>7, ChainTypes DEF Owner
    <3>2. S[p][i] \notin FreeFrom(0)
      BY <1>2, <1>7, <3>1, OwnedInUse
    <3> QED
      BY <3>1, <3>2, VolumeAssumption DEF FreeFrom
  <2> QED
    BY <2>1, <2>2
<1>9. \A c \in K : fat[c] \in K \cup {EOC}
  BY <1>2, <1>3, <1>8
<1>10. ASSUME NEW c \in (0 .. TableLast) \ K PROVE fat[c] \notin K
  <2>1. CASE c \in {0, 1}
    BY <1>4, <1>7, <2>1, VolumeAssumption DEF InTable, Ends, Reserved, EOC
  <2>2. CASE c \notin {0, 1} /\ ~Owner(S, c)
    <3>1. c \in 2 .. TableLast
      BY <2>2
    <3>2. fat[c] \in {0, EOC}
      BY <1>7, <2>2, <3>1 DEF InTable
    <3> QED
      BY <1>4, <3>2, VolumeAssumption DEF EOC, Reserved
  <2>3. CASE Owner(S, c)
    <3>1. PICK p \in Paths : \E i \in 1 .. Len(S[p]) : S[p][i] = c
      BY <2>3 DEF Owner
    <3>2. PICK i \in 1 .. Len(S[p]) : S[p][i] = c
      BY <3>1
    <3>3. p # f
      BY <1>3, <3>2
    <3>4. CASE fat[c] = EOC
      BY <1>4, <3>4, VolumeAssumption DEF EOC, Reserved
    <3>5. CASE \E j \in 1 .. Len(S[p]) : fat[c] = S[p][j]
      <4>1. PICK j \in 1 .. Len(S[p]) : fat[c] = S[p][j]
        BY <3>5
      <4>2. ASSUME NEW i2 \in 1 .. Len(S[f]) PROVE S[p][j] # S[f][i2]
        BY <1>2, <1>7, <3>3 DEF Apart
      <4> QED
        BY <1>3, <4>1, <4>2
    <3> QED
      BY <1>8, <3>2, <3>4, <3>5
  <2> QED
    BY <2>1, <2>2, <2>3
<1>11. ASSUME NEW g \in Paths, g # f, entry[g].live PROVE entry[g].first \notin K
  <2>1. entry[g].first = 0 \/ (1 \in 1 .. Len(S[g]) /\ entry[g].first = S[g][1])
    BY <1>1, <1>11, FirstOwn
  <2>2. 0 \notin K
    BY <1>4
  <2>3. ASSUME 1 \in 1 .. Len(S[g]), NEW j \in 1 .. Len(S[f]) PROVE S[g][1] # S[f][j]
    BY <1>2, <1>7, <1>11, <2>3 DEF Apart
  <2> QED
    BY <1>3, <2>1, <2>2, <2>3
<1>12. NoOp.path = Nobody /\ NoOp.first = 0 /\ NoOp.cursor = 0 /\ Len(NoOp.clusters) = 0
       /\ 0 \notin K
  BY <1>4 DEF NoOp
<1>13. EOC' = EOC /\ Extracted(fat, entry, data, f)' = Extracted(fat, entry, data, f)
  BY <1>2 DEF EOC
<1>14. Kept(f, K)'
  BY <1>2, <1>4, <1>5, <1>6, <1>9, <1>10, <1>11, <1>12, <1>13 DEF Kept
<1> QED
  BY <1>14

LEMMA InitKept == Init => KeptInv
  BY DEF Init, KeptInv

LEMMA NextKept ==
    ASSUME TypeInv, ChainInv, KeptInv, [Next]_vars
    PROVE  KeptInv'
<1> SUFFICES ASSUME NEW f \in Files, kept'[f] # Absent PROVE \E K : Kept(f, K)'
  BY DEF KeptInv
<1>1. kept = [h \in Files |-> kept[h]]
  BY DEF TypeInv, OpType
<1>2. CASE CloseTable /\ ~crashed
  BY <1>2, KeptClosed
<1> DEFINE Begin == \/ \E g \in Files, host \in Hosts : BeginInsert(g, host)
                    \/ \E g \in Dirs, size \in DirSizes : BeginDirectory(g, size)
                    \/ \E g \in Paths : BeginRemove(g)
           Still == \/ \E command \in {"insert", "remove"} : Open(command)
                    \/ CloseInfo \/ (CloseTable /\ crashed)
                    \/ InsertDone \/ Overwrite \/ ReserveFails \/ Overrun \/ UNCHANGED vars
<1>3. CASE Begin
  <2>1. kept[f] # Absent
    BY <1>1, <1>3 DEF BeginInsert, BeginDirectory, BeginRemove
  <2>2. PICK K : Kept(f, K)
    BY <2>1 DEF KeptInv
  <2>3. PICK g \in Paths :
           \/ g \in Files /\ \E host \in Hosts : BeginInsert(g, host)
           \/ g \in Dirs /\ \E size \in DirSizes : BeginDirectory(g, size)
           \/ BeginRemove(g)
    BY <1>3 DEF Paths
  <2> QED
    BY <2>2, <2>3, KeptBegins
<1>4. CASE ~Begin /\ ~(CloseTable /\ ~crashed)
  <2>1. CASE Still
    <3>1. kept'[f] = kept[f] /\ UNCHANGED <<fat, data, entry>>
          /\ stable' \in {stable, fat} /\ op' \in {op, NoOp}
      BY <1>1, <2>1 DEF Open, CloseInfo, CloseTable, InsertDone, Overwrite, ReserveFails,
                        Overrun, Finish, Save, vars, disks
    <3>2. PICK K : Kept(f, K)
      BY <3>1 DEF KeptInv
    <3> QED
      BY <3>1, <3>2, KeptOpen
  <2>2. CASE ~Still
    <3>1. \/ Reserve \/ Walk \/ LinkToLast \/ Free \/ Link \/ SetEntry \/ WriteData
          \/ Unname \/ Crash
      BY <1>4, <2>2 DEF Next, CleanNext, Step, StaysOverrun
    <3>2. kept' = kept
      BY <3>1 DEF Reserve, Walk, LinkToLast, Free, Link, SetEntry, WriteData, Unname, Crash
    <3>3. PICK K : Kept(f, K)
      BY <3>2 DEF KeptInv
    <3>4. CASE Reserve
      BY <3>3, <3>4, KeptReserve
    <3>5. CASE Walk \/ LinkToLast \/ Free
      BY <3>3, <3>5, KeptFollow
    <3>6. CASE Link
      BY <3>3, <3>6, KeptLink
    <3>7. CASE SetEntry
      BY <3>3, <3>7, KeptSetEntry
    <3>8. CASE WriteData
      BY <3>3, <3>8, KeptWriteData
    <3>9. CASE Unname
      BY <3>3, <3>9, KeptUnname
    <3>10. CASE Crash
      BY <3>3, <3>10, KeptCrash
    <3> QED
      BY <3>1, <3>4, <3>5, <3>6, <3>7, <3>8, <3>9, <3>10
  <2> QED
    BY <2>1, <2>2
<1> QED
  BY <1>2, <1>3, <1>4

\* A file that was on the volume when it was closed unharmed, and that no
\* command has named since, is read as it was from either table: whatever
\* process is killed, and whatever later commands do to the chains and
\* entries that it left, up to where a search for a free cluster leaves the table
\* (file.c:53-209 takes clusters that the table has free
\* and writes where the table leads, fat.c:457-475 frees what it leads to).
THEOREM KeptSurvive == Spec => []KeptFilesSurvive
<1>1. Init => TypeInv /\ ChainInv /\ KeptInv
  BY InitTypeInv, InitChain, InitKept
<1>2. TypeInv /\ ChainInv /\ KeptInv /\ [Next]_vars => TypeInv' /\ ChainInv' /\ KeptInv'
  BY NextTypeInv, NextChain, NextKept
<1>3. TypeInv /\ KeptInv => KeptFilesSurvive
  BY KeptRead
<1> QED
  BY <1>1, <1>2, <1>3, PTL DEF Spec

-----------------------------------------------------------------------------
(* FatFiles implements FileStore as long as no process is killed: what lfs  *)
(* does with clusters, entries and units is what insert and remove promise  *)
(* about files, for every volume, every set of paths and every host file.  *)
(* First, what a file with the clusters s in order and a size holds.        *)

\* The cluster of unit p, or 0 when it is not on the volume.
UnitAt(s, p) ==
    IF s[p \div ClusterSize + 1] \in 2 .. VolumeLast THEN s[p \div ClusterSize + 1] ELSE 0

\* n units of size can be read.
Readable(s, size, n) ==
    /\ n \in 0 .. size
    /\ \A p \in 0 .. n - 1 : UnitAt(s, p) # 0
    /\ n = size \/ UnitAt(s, n) = 0

UnitsOf(s, n, d) == [i \in 1 .. n |-> d[UnitAt(s, i - 1)][(i - 1) % ClusterSize]]

Holds(C, s, size, d) == \E n \in 0 .. size : Readable(s, size, n) /\ C = UnitsOf(s, n, d)

\* The first m clusters of s are linked in the table T, from first on.
Linking(T, first, s, m) ==
    /\ m \in Nat
    /\ m > 0 => first = s[1]
    /\ \A i \in 1 .. m : s[i] \in 2 .. TableLast
    /\ \A i \in 1 .. m - 1 : T[s[i]] = s[i + 1]

\* Skipping arrives at the clusters in order.
LEMMA SkipLinked ==
    ASSUME NEW T, NEW first, NEW s, NEW m \in Nat, Linking(T, first, s, m)
    PROVE  \A i \in 0 .. m - 1 : Skip(T, first, i) = s[i + 1]
<1> DEFINE Good(i) == i < m => Skip(T, first, i) = s[i + 1]
           Bad == {i \in Nat : ~Good(i)}
<1>1. Good(0)
  <2>1. Skip(T, first, 0) = first
    BY SkipRule
  <2> QED
    BY <2>1 DEF Linking
<1>2. ASSUME NEW i \in Nat, Good(i) PROVE Good(i + 1)
  <2> SUFFICES ASSUME i + 1 < m PROVE Skip(T, first, i + 1) = s[i + 2]
    OBVIOUS
  <2>1. Skip(T, first, i) = s[i + 1]
    BY <1>2
  <2>2. \A n \in Nat : Skip(T, first, n + 1) = ReadFAT(T, Skip(T, first, n))
    BY SkipRule, ZenonT(20)
  <2>3. s[i + 1] \in 2 .. TableLast /\ T[s[i + 1]] = s[i + 2]
    <3>1. i + 1 \in 1 .. m - 1 /\ (i + 1) + 1 = i + 2
      OBVIOUS
    <3> QED
      BY <3>1 DEF Linking
  <2> QED
    BY <2>1, <2>2, <2>3, VolumeAssumption DEF ReadFAT
<1> HIDE DEF Good
<1>3. \A i \in Nat : Good(i)
  <2>1. SUFFICES ASSUME \E i \in Nat : ~Good(i) PROVE FALSE
    OBVIOUS
  <2>2. PICK i \in Bad : \A j \in Bad : i <= j
    BY <2>1, LeastNat
  <2> QED
    BY <1>1, <1>2, <2>2
<1> QED
  BY <1>3 DEF Good

\* The cluster of a unit in front of the m-th cluster's end.
LEMMA ClusterLinked ==
    ASSUME NEW T, NEW first, NEW s, NEW m \in Nat, Linking(T, first, s, m),
           NEW p \in Nat, p \div ClusterSize < m
    PROVE  ClusterOf(T, first, p) = UnitAt(s, p)
<1>1. PICK j : j = p \div ClusterSize
  OBVIOUS
<1>2. j \in Nat /\ j < m
  BY <1>1, VolumeAssumption
<1>3. \A i \in 0 .. m - 1 : Skip(T, first, i) = s[i + 1] /\ s[i + 1] \in 2 .. TableLast
  <2>1. \A i \in 0 .. m - 1 : s[i + 1] \in 2 .. TableLast
    <3>1. \A i \in 0 .. m - 1 : i + 1 \in 1 .. m
      OBVIOUS
    <3> QED
      BY <3>1 DEF Linking
  <2> QED
    BY <2>1, SkipLinked
<1>4. first = s[1] /\ s[1] \in 2 .. TableLast /\ s[j + 1] \in 2 .. TableLast
  BY <1>2, <1>3 DEF Linking
<1>5. \A i \in 0 .. j : ~IsEOC(Skip(T, first, i))
  <2>1. \A i \in 0 .. j : Skip(T, first, i) \in 2 .. TableLast
    BY <1>2, <1>3
  <2> QED
    BY <2>1, VolumeAssumption DEF IsEOC, EOC, BeyondLast
<1>6. Skip(T, first, j) = s[j + 1]
  BY <1>2, <1>3
<1>7. ~(first < 2)
  BY <1>4, VolumeAssumption
<1>8. ClusterOf(T, first, p) = IF first < 2 \/ (\E k \in 0 .. j : IsEOC(Skip(T, first, k)))
                                  \/ Skip(T, first, j) \notin 2 .. VolumeLast
                               THEN 0 ELSE Skip(T, first, j)
  BY <1>1 DEF ClusterOf
<1>9. UnitAt(s, p) = IF s[j + 1] \in 2 .. VolumeLast THEN s[j + 1] ELSE 0
  BY <1>1 DEF UnitAt
<1> QED
  BY <1>5, <1>6, <1>7, <1>8, <1>9

\* The clusters a size needs reach up to its last unit.
LEMMA UnitInside ==
    ASSUME NEW size \in Nat, NEW p \in Nat, p < size
    PROVE  p \div ClusterSize < Clusters(size)
<1>1. PICK c : c = ClusterSize
  OBVIOUS
<1>2. c \in Nat /\ c > 0
  BY <1>1, VolumeAssumption
<1>3. PICK q, r : q = p \div c /\ r = p % c
  OBVIOUS
<1>4. q \in Nat /\ r \in 0 .. c - 1 /\ p = c * q + r
  BY <1>2, <1>3
<1>5. PICK t, u : t = (size + c - 1) \div c /\ u = (size + c - 1) % c
  OBVIOUS
<1>6. t \in Int /\ u \in 0 .. c - 1 /\ size + c - 1 = c * t + u
  BY <1>2, <1>5
<1>7. c * q + r < size
  BY <1>4
<1>8. c * q + c <= c * t + u
  BY <1>2, <1>4, <1>6, <1>7
<1>9. ASSUME t <= q PROVE FALSE
  <2>1. c * t <= c * q
    BY <1>2, <1>4, <1>6, <1>9
  <2>2. PICK a, b : a = c * t /\ b = c * q
    OBVIOUS
  <2>3. a \in Int /\ b \in Int
    BY <1>2, <1>4, <1>6, <2>2
  <2>4. a <= b /\ b + c <= a + u
    BY <1>8, <2>1, <2>2
  <2> QED
    BY ONLY <1>2, <1>6, <2>3, <2>4
<1> QED
  BY <1>1, <1>3, <1>4, <1>5, <1>6, <1>9 DEF Clusters

\* What is extracted of a file whose clusters are linked as far as its size
\* goes.
LEMMA ExtractedHolds ==
    ASSUME NEW T, NEW x, NEW d, NEW f, NEW s, NEW m \in Nat,
           x[f].live, x[f].size \in Nat, Clusters(x[f].size) <= m,
           Linking(T, x[f].first, s, m)
    PROVE  Holds(Extracted(T, x, d, f), s, x[f].size, d)
<1>1. PICK size, first : size = x[f].size /\ first = x[f].first
  OBVIOUS
<1>2. \A p \in Nat : p < size => ClusterOf(T, first, p) = UnitAt(s, p)
  <2> SUFFICES ASSUME NEW p \in Nat, p < size PROVE ClusterOf(T, first, p) = UnitAt(s, p)
    OBVIOUS
  <2>1. p \div ClusterSize < Clusters(size) /\ Clusters(size) \in Nat
    BY <1>1, UnitInside, ClustersType
  <2>2. p \div ClusterSize \in Nat
    BY VolumeAssumption
  <2>3. p \div ClusterSize < m
    BY <1>1, <2>1, <2>2
  <2> QED
    BY <1>1, <2>3, ClusterLinked
<1> DEFINE Reads(n) == /\ \A p \in 0 .. n - 1 : ClusterOf(T, first, p) # 0
                       /\ n = size \/ ~(ClusterOf(T, first, n) # 0)
           N == CHOOSE n \in 0 .. size : Reads(n)
<1>3. \A n \in 0 .. size : Reads(n) <=> Readable(s, size, n)
  <2> SUFFICES ASSUME NEW n \in 0 .. size PROVE Reads(n) <=> Readable(s, size, n)
    OBVIOUS
  <2>1. \A p \in 0 .. n - 1 : p \in Nat /\ p < size
    BY <1>1
  <2>2. n # size => n \in Nat /\ n < size
    BY <1>1
  <2> QED
    BY <1>2, <2>1, <2>2 DEF Readable
<1>4. \E n \in 0 .. size : Reads(n)
  <2> DEFINE R == {p \in Nat : UnitAt(s, p) # 0}
  <2>1. PICK n \in 0 .. size : (\A p \in 0 .. n - 1 : p \in R) /\ (n = size \/ n \notin R)
    <3> HIDE DEF R
    <3> QED
      BY <1>1, LengthRead
  <2>2. Readable(s, size, n)
    BY <1>1, <2>1 DEF Readable
  <2> HIDE DEF Reads
  <2> QED
    BY <1>3, <2>2
<1>5. N \in 0 .. size /\ Reads(N)
  <2> HIDE DEF Reads
  <2> QED
    BY <1>4
<1>6. Readable(s, size, N)
  <2> HIDE DEF Reads, N
  <2> QED
    BY <1>3, <1>5
<1>7. Extracted(T, x, d, f) = [i \in 1 .. N |-> d[ClusterOf(T, first, i - 1)][(i - 1) % ClusterSize]]
  BY <1>1 DEF Extracted
<1> HIDE DEF N, Reads
<1>8. \A i \in 1 .. N : ClusterOf(T, first, i - 1) = UnitAt(s, i - 1)
  <2> SUFFICES ASSUME NEW i \in 1 .. N PROVE ClusterOf(T, first, i - 1) = UnitAt(s, i - 1)
    OBVIOUS
  <2>1. i - 1 \in Nat /\ i - 1 < size
    BY <1>1, <1>5
  <2> QED
    BY <1>2, <2>1
<1>9. Extracted(T, x, d, f) = UnitsOf(s, N, d)
  BY <1>7, <1>8 DEF UnitsOf
<1> QED
  BY <1>1, <1>5, <1>6, <1>9 DEF Holds

-----------------------------------------------------------------------------
(* What is held changes with the size and with a unit.                      *)

\* The number of units that can be read is determined.
LEMMA ReadableOnce ==
    ASSUME NEW s, NEW size \in Nat, NEW m, NEW n, Readable(s, size, m), Readable(s, size, n)
    PROVE  m = n
<1>1. m \in 0 .. size /\ n \in 0 .. size
  BY DEF Readable
<1>2. ~(m < n)
  <2> SUFFICES ASSUME m < n PROVE FALSE
    OBVIOUS
  <2>1. m \in 0 .. n - 1 /\ m # size
    BY <1>1
  <2> QED
    BY <2>1 DEF Readable
<1>3. ~(n < m)
  <2> SUFFICES ASSUME n < m PROVE FALSE
    OBVIOUS
  <2>1. n \in 0 .. m - 1 /\ n # size
    BY <1>1
  <2> QED
    BY <2>1 DEF Readable
<1> QED
  BY <1>1, <1>2, <1>3

LEMMA HoldsSame ==
    ASSUME NEW s, NEW size \in Nat, NEW d, NEW C, NEW D,
           Holds(C, s, size, d), Holds(D, s, size, d)
    PROVE  C = D
<1>1. PICK m \in 0 .. size : Readable(s, size, m) /\ C = UnitsOf(s, m, d)
  BY DEF Holds
<1>2. PICK n \in 0 .. size : Readable(s, size, n) /\ D = UnitsOf(s, n, d)
  BY DEF Holds
<1>3. m = n
  BY <1>1, <1>2, ReadableOnce
<1> QED
  BY <1>1, <1>2, <1>3

\* An empty file holds nothing, whatever its clusters.
LEMMA HoldsNothing ==
    ASSUME NEW s, NEW d
    PROVE  Holds(<<>>, s, 0, d)
<1>1. Readable(s, 0, 0)
  BY DEF Readable
<1>2. UnitsOf(s, 0, d) = <<>>
  BY DEF UnitsOf
<1> QED
  BY <1>1, <1>2 DEF Holds

LEMMA UnitsType ==
    ASSUME NEW s, NEW n \in Nat, NEW d \in [2 .. VolumeLast -> [0 .. ClusterSize - 1 -> Units]],
           \A p \in 0 .. n - 1 : UnitAt(s, p) # 0
    PROVE  /\ UnitsOf(s, n, d) \in Seq(Units) /\ Len(UnitsOf(s, n, d)) = n
           /\ \A i \in 1 .. n : UnitsOf(s, n, d)[i] = d[UnitAt(s, i - 1)][(i - 1) % ClusterSize]
<1>1. ASSUME NEW i \in 1 .. n
      PROVE  d[UnitAt(s, i - 1)][(i - 1) % ClusterSize] \in Units
  <2>1. i - 1 \in 0 .. n - 1 /\ i - 1 \in Nat
    OBVIOUS
  <2>2. UnitAt(s, i - 1) \in 2 .. VolumeLast
    BY <2>1 DEF UnitAt
  <2>3. (i - 1) % ClusterSize \in 0 .. ClusterSize - 1
    BY <2>1, VolumeAssumption
  <2> QED
    BY <2>2, <2>3
<1>2. UnitsOf(s, n, d) \in [1 .. n -> Units]
  BY <1>1 DEF UnitsOf
<1>3. UnitsOf(s, n, d) \in Seq(Units) /\ Len(UnitsOf(s, n, d)) = n
  BY <1>2, FunctionIsSeq
<1> QED
  BY <1>3 DEF UnitsOf

LEMMA HoldsType ==
    ASSUME NEW s, NEW size \in Nat, NEW d \in [2 .. VolumeLast -> [0 .. ClusterSize - 1 -> Units]],
           NEW C, Holds(C, s, size, d)
    PROVE  C \in Seq(Units) /\ Len(C) \in 0 .. size /\ Readable(s, size, Len(C))
<1>1. PICK n \in 0 .. size : Readable(s, size, n) /\ C = UnitsOf(s, n, d)
  BY DEF Holds
<1>2. n \in Nat /\ \A p \in 0 .. n - 1 : UnitAt(s, p) # 0
  BY <1>1 DEF Readable
<1>3. C \in Seq(Units) /\ Len(C) = n
  BY <1>1, <1>2, UnitsType
<1> QED
  BY <1>1, <1>3

\* D is C, and perhaps one unit more.
Grown(C, D, size) ==
    /\ D \in Seq(Units) /\ Len(D) \in {size, size + 1}
    /\ \A i \in 1 .. size : D[i] = C[i]

\* A file that could be read to its end and grows by a unit holds what it
\* held, and perhaps that unit.
LEMMA HoldsGrow ==
    ASSUME NEW s, NEW size \in Nat, NEW d \in [2 .. VolumeLast -> [0 .. ClusterSize - 1 -> Units]],
           NEW C, Holds(C, s, size, d), Len(C) = size, NEW D, Holds(D, s, size + 1, d)
    PROVE  Grown(C, D, size)
<1>1. PICK n \in 0 .. size + 1 : Readable(s, size + 1, n) /\ D = UnitsOf(s, n, d)
  BY DEF Holds
<1>2. PICK m \in 0 .. size : Readable(s, size, m) /\ C = UnitsOf(s, m, d)
  BY DEF Holds
<1>3. /\ n \in Nat /\ \A p \in 0 .. n - 1 : UnitAt(s, p) # 0
      /\ m \in Nat /\ \A p \in 0 .. m - 1 : UnitAt(s, p) # 0
  BY <1>1, <1>2 DEF Readable
<1>4. m = size
  BY <1>2, <1>3, UnitsType
<1>5. ~(n < size)
  <2> SUFFICES ASSUME n < size PROVE FALSE
    OBVIOUS
  <2>1. n \in 0 .. m - 1 /\ n # size + 1
    BY <1>3, <1>4
  <2> QED
    BY <1>1, <1>3, <2>1 DEF Readable
<1>6. /\ D \in Seq(Units) /\ Len(D) = n
      /\ \A i \in 1 .. n : D[i] = d[UnitAt(s, i - 1)][(i - 1) % ClusterSize]
  BY <1>1, <1>3, UnitsType
<1>7. \A i \in 1 .. m : C[i] = d[UnitAt(s, i - 1)][(i - 1) % ClusterSize]
  BY <1>2, <1>3, UnitsType
<1> QED
  BY <1>1, <1>4, <1>5, <1>6, <1>7 DEF Grown

\* Clusters of a chain differ.
Distinct(s, m) ==
    /\ m \in Nat
    /\ \A i \in 1 .. m : s[i] \in 2 .. TableLast
    /\ \A i, j \in 1 .. m : s[i] = s[j] => i = j

\* Two units are in different places.
LEMMA PlacesDiffer ==
    ASSUME NEW s, NEW m, Distinct(s, m), NEW p \in Nat, NEW q \in Nat,
           p \div ClusterSize < m, q \div ClusterSize < m,
           UnitAt(s, p) # 0, UnitAt(s, q) = UnitAt(s, p), q % ClusterSize = p % ClusterSize
    PROVE  p = q
<1>1. PICK c, i, j : c = ClusterSize /\ i = p \div ClusterSize /\ j = q \div ClusterSize
  OBVIOUS
<1>2. c \in Nat \ {0} /\ i \in Nat /\ j \in Nat
  BY <1>1, VolumeAssumption
<1>3. s[i + 1] = s[j + 1]
  BY <1>1 DEF UnitAt
<1>4. i + 1 \in 1 .. m /\ j + 1 \in 1 .. m
  BY <1>1, <1>2 DEF Distinct
<1>5. i = j
  BY <1>2, <1>3, <1>4 DEF Distinct
<1>6. p = c * i + (p % c) /\ q = c * j + (q % c)
  BY <1>1, <1>2
<1> QED
  BY <1>1, <1>5, <1>6

\* D is C, but for the unit v at p.
Overwritten(C, D, p, v) ==
    /\ C \in Seq(Units) /\ D \in Seq(Units) /\ Len(D) = Len(C)
    /\ p < Len(C) /\ D[p + 1] = v
    /\ \A i \in 1 .. Len(C) : i # p + 1 => D[i] = C[i]

UnitPut(d, e, c, r, v) == e = [d EXCEPT ![c][r] = v]

\* Writing a unit that can be read and that all units in front of it can.
LEMMA HoldsWrite ==
    ASSUME NEW s, NEW m, Distinct(s, m), NEW size \in Nat, Clusters(size) <= m,
           NEW d \in [2 .. VolumeLast -> [0 .. ClusterSize - 1 -> Units]],
           NEW C, Holds(C, s, size, d), NEW p \in Nat, p < size, p <= Len(C), UnitAt(s, p) # 0,
           NEW v \in Units,
           NEW e, UnitPut(d, e, UnitAt(s, p), p % ClusterSize, v),
           NEW D, Holds(D, s, size, e)
    PROVE  Overwritten(C, D, p, v)
<1>1. PICK n \in 0 .. size : Readable(s, size, n) /\ C = UnitsOf(s, n, d)
  BY DEF Holds
<1>2. PICK k \in 0 .. size : Readable(s, size, k) /\ D = UnitsOf(s, k, e)
  BY DEF Holds
<1>3. k = n
  BY <1>1, <1>2, ReadableOnce
<1>4. n \in Nat /\ \A x \in 0 .. n - 1 : UnitAt(s, x) # 0
  BY <1>1 DEF Readable
<1>5. UnitAt(s, p) \in 2 .. VolumeLast /\ p % ClusterSize \in 0 .. ClusterSize - 1
  BY VolumeAssumption DEF UnitAt
<1>6. PICK a, r : a = UnitAt(s, p) /\ r = p % ClusterSize
  OBVIOUS
<1>7. /\ e \in [2 .. VolumeLast -> [0 .. ClusterSize - 1 -> Units]]
      /\ e[a][r] = v
      /\ \A b \in 2 .. VolumeLast, t \in 0 .. ClusterSize - 1 :
            b # a \/ t # r => e[b][t] = d[b][t]
  <2>1. e = [d EXCEPT ![a] = [d[a] EXCEPT ![r] = v]]
    BY <1>6 DEF UnitPut
  <2>2. [d[a] EXCEPT ![r] = v] \in [0 .. ClusterSize - 1 -> Units]
    BY <1>5, <1>6
  <2>3. /\ e \in [2 .. VolumeLast -> [0 .. ClusterSize - 1 -> Units]]
        /\ e[a] = [d[a] EXCEPT ![r] = v] /\ \A b \in 2 .. VolumeLast : b # a => e[b] = d[b]
    BY <1>5, <1>6, <2>1, <2>2
  <2> QED
    BY <1>5, <1>6, <2>3
<1>8. /\ C \in Seq(Units) /\ Len(C) = n
      /\ \A i \in 1 .. n : C[i] = d[UnitAt(s, i - 1)][(i - 1) % ClusterSize]
  BY <1>1, <1>4, UnitsType
<1>9. /\ D \in Seq(Units) /\ Len(D) = n
      /\ \A i \in 1 .. n : D[i] = e[UnitAt(s, i - 1)][(i - 1) % ClusterSize]
  <2>1. D = UnitsOf(s, n, e) /\ e \in [2 .. VolumeLast -> [0 .. ClusterSize - 1 -> Units]]
    BY <1>2, <1>3, <1>7
  <2> QED
    BY ONLY <1>4, <2>1, UnitsType
<1>10. p < n
  <2> SUFFICES ASSUME p = n PROVE FALSE
    BY <1>4, <1>8
  <2> QED
    BY <1>1 DEF Readable
<1>11. p + 1 \in 1 .. n /\ (p + 1) - 1 = p
  BY <1>4, <1>10
<1>12. D[p + 1] = v
  BY <1>6, <1>7, <1>9, <1>11
<1>13. ASSUME NEW i \in 1 .. n, i # p + 1 PROVE D[i] = C[i]
  <2>1. PICK q : q = i - 1
    OBVIOUS
  <2>2. q \in Nat /\ q < n /\ q # p /\ q < size /\ q \in 0 .. n - 1
    BY <1>1, <1>13, <2>1
  <2>3. UnitAt(s, q) \in 2 .. VolumeLast /\ q % ClusterSize \in 0 .. ClusterSize - 1
    <3>1. UnitAt(s, q) # 0
      BY <1>4, <2>2
    <3> QED
      BY <2>2, <3>1, VolumeAssumption DEF UnitAt
  <2>4. q \div ClusterSize < m /\ p \div ClusterSize < m
    <3>1. q \div ClusterSize < Clusters(size) /\ p \div ClusterSize < Clusters(size)
      BY <2>2, UnitInside
    <3>2. q \div ClusterSize \in Nat /\ p \div ClusterSize \in Nat
      <4>1. q \in Nat /\ p \in Nat
        BY <2>2
      <4> QED
        BY ONLY <4>1, VolumeAssumption
    <3>3. Clusters(size) \in Nat /\ m \in Nat
      BY ClustersType DEF Distinct
    <3> QED
      BY <3>1, <3>2, <3>3
  <2>5. UnitAt(s, q) # a \/ q % ClusterSize # r
    BY <1>6, <2>2, <2>4, PlacesDiffer
  <2>6. e[UnitAt(s, q)][q % ClusterSize] = d[UnitAt(s, q)][q % ClusterSize]
    BY <1>7, <2>3, <2>5
  <2> QED
    BY <1>8, <1>9, <2>1, <2>6
<1> QED
  BY <1>8, <1>9, <1>10, <1>12, <1>13 DEF Overwritten

-----------------------------------------------------------------------------
(* A command in between.  The file it inserts into holds the host file's    *)
(* units up to the position and what it held behind; when it needs clusters *)
(* the position is at its end.                                             *)

Content(f) == Extracted(fat, entry, data, f)

Progress(C) ==
    /\ op.old \in Seq(Units)
    /\ op.pos <= Len(C) /\ Len(op.old) <= Len(C)
    /\ \A i \in 1 .. Len(C) :
          /\ i <= op.pos => C[i] = op.host[i]
          /\ op.pos < i /\ i <= Len(op.old) => C[i] = op.old[i]
    /\ Len(C) = Len(op.old) \/ Len(C) = op.pos \/ (pc = "data" /\ Len(C) = op.pos + 1)

Grows ==
    /\ pc \in {"walk", "link", "setentry"} =>
          op.size = op.pos /\ (entry[op.path].first = 0 => op.pos = 0)
    /\ pc \in {"walk", "link"} => Clusters(op.size) + Len(op.clusters) <= Clusters(Target)
    /\ pc = "data" => op.pos < op.size

StoreInv ==
    /\ pc = "free" => op.host = Absent /\ (op.path \in Files => op.old \in Seq(Units))
    /\ op.path \in Files /\ pc \in Extending => Progress(Content(op.path)) /\ Grows

\* The linked part of a chain.
LEMMA LinkingChain ==
    ASSUME TypeInv, NEW S, NEW k, Chained(S, k), NEW f \in Paths, ~(pc = "free" /\ f = op.path)
    PROVE  /\ Linking(fat, First(S, f), S[f], Linked(S, f))
           /\ Linked(S, f) <= Len(S[f])
           /\ Distinct(S[f], Len(S[f]))
<1>1. Len(S[f]) \in Nat /\ Len(op.clusters) \in Nat /\ (pc \notin {"walk", "link"} => Len(op.clusters) = 0)
  <2>1. op.clusters \in Seq(0 .. TableLast) /\ (pc \notin {"walk", "link"} => op.clusters = <<>>)
    BY DEF TypeInv, OpType, OpOK
  <2> QED
    BY <2>1, ChainTypes DEF Chained
<1>2. PICK m, l, c : m = Linked(S, f) /\ l = Len(S[f]) /\ c = Len(op.clusters)
  OBVIOUS
<1>3. m \in Nat /\ m <= Len(S[f])
  <2>1. CASE f = op.path
    <3>1. m = Len(S[f]) - Len(op.clusters)
      BY <1>2, <2>1 DEF Linked, Busy
    <3>2. pc \in {"walk", "link"} => m >= 0
      BY <1>2, <2>1 DEF Chained, Working
    <3>3. CASE pc \in {"walk", "link"}
      <4>1. m >= 0
        BY <3>2, <3>3
      <4> QED
        <5>1. l \in Nat /\ c \in Nat /\ m = l - c
          BY <1>1, <1>2, <3>1
        <5>2. m \in Nat /\ m <= l
          BY ONLY <4>1, <5>1
        <5> QED
          BY <1>2, <5>2
    <3>4. CASE pc \notin {"walk", "link"}
      <4>1. Len(op.clusters) = 0
        BY <1>1, <3>4
      <4> QED
        BY ONLY <1>1, <3>1, <4>1
    <3> QED
      BY <3>3, <3>4
  <2>2. CASE f # op.path
    <3>1. m = Len(S[f]) - 0
      BY <1>2, <2>2 DEF Linked, Busy
    <3> QED
      BY <1>1, <3>1
  <2> QED
    BY <2>1, <2>2
<1>4. /\ \A i \in 1 .. Len(S[f]) : S[f][i] \in 2 .. TableLast
      /\ \A i, j \in 1 .. Len(S[f]) : S[f][i] = S[f][j] => i = j
      /\ \A i \in 1 .. Len(S[f]) : fat[S[f][i]] = After(S, k, f, i)
  BY ChainTypes DEF Chained, Apart, InTable
<1>5. \A i \in 1 .. m - 1 : fat[S[f][i]] = S[f][i + 1]
  <2> SUFFICES ASSUME NEW i \in 1 .. m - 1 PROVE fat[S[f][i]] = S[f][i + 1]
    OBVIOUS
  <2>1. i \in 1 .. Len(S[f]) /\ ~(i > m) /\ i # Len(S[f]) /\ i # m
    BY <1>1, <1>3
  <2>2. ~(Busy(f) /\ i < k)
    <3>1. CASE Busy(f)
      <4>1. pc # "free"
        BY <3>1 DEF Busy
      <4>2. k = 1
        BY <4>1 DEF Chained, Working
      <4> QED
        BY <2>1, <4>2
    <3> QED
      BY <3>1
  <2>3. After(S, k, f, i) = S[f][i + 1]
    BY <1>2, <2>1, <2>2 DEF After
  <2> QED
    BY <1>4, <2>1, <2>3
<1>6. m > 0 => First(S, f) = S[f][1]
  <2>1. m > 0 => Len(S[f]) # 0
    BY <1>1, <1>3
  <2>2. S[f] = <<>> => Len(S[f]) = 0
    OBVIOUS
  <2> QED
    BY <2>1, <2>2 DEF First
<1>7. \A i \in 1 .. m : S[f][i] \in 2 .. TableLast
  BY <1>1, <1>3, <1>4
<1> QED
  BY <1>1, <1>2, <1>3, <1>4, <1>5, <1>6, <1>7 DEF Linking, Distinct

\* As far as the size in its entry goes, a file's clusters are linked.
Linkage(S, f, m) ==
    /\ m \in Nat /\ m <= Linked(S, f) /\ m <= Len(S[f])
    /\ Linking(fat, entry[f].first, S[f], m)
    /\ Clusters(entry[f].size) <= m

LEMMA LinkedSize ==
    ASSUME TypeInv, StoreInv, NEW S, NEW k, Chained(S, k), NEW f \in Files, entry[f].live,
           ~(pc = "free" /\ f = op.path)
    PROVE  \E m \in Nat : Linkage(S, f, m)
<1>1. f \in Paths /\ entry[f].size \in Nat
  BY DEF Paths, TypeInv, TypeOK
<1>2. /\ Linking(fat, First(S, f), S[f], Linked(S, f)) /\ Linked(S, f) <= Len(S[f])
      /\ Linked(S, f) \in Nat /\ Len(S[f]) \in Nat
  <2>1. Linking(fat, First(S, f), S[f], Linked(S, f)) /\ Linked(S, f) <= Len(S[f])
        /\ Distinct(S[f], Len(S[f]))
    BY <1>1, LinkingChain
  <2> QED
    BY <2>1 DEF Linking, Distinct
<1>3. CASE f = op.path /\ pc \in {"link", "setentry"}
  <2>1. /\ Progress(Content(op.path)) /\ Grows
        /\ op.size = entry[f].size /\ Clusters(Target) = Len(S[f])
        /\ (entry[f].first = First(S, f) \/ entry[f].first = 0)
    BY <1>1, <1>3 DEF StoreInv, Extending, Chained, Working, Named, Busy
  <2>2. CASE entry[f].first = 0
    <3>1. entry[f].size = 0
      BY <1>3, <2>1, <2>2 DEF Grows
    <3>2. Clusters(entry[f].size) = 0
      BY <3>1, NoClusters
    <3>3. Linking(fat, entry[f].first, S[f], 0)
      BY DEF Linking
    <3> QED
      BY <1>2, <3>2, <3>3 DEF Linkage
  <2>3. CASE entry[f].first = First(S, f)
    <3>1. Clusters(entry[f].size) <= Linked(S, f)
      <4>1. op.clusters \in Seq(0 .. TableLast) /\ (pc = "setentry" => op.clusters = <<>>)
            /\ op.size \in Nat /\ op.pos \in Nat
        BY DEF TypeInv, OpType, OpOK
      <4>2. Len(op.clusters) \in Nat /\ (pc = "setentry" => Len(op.clusters) = 0)
        BY <4>1
      <4>3. Linked(S, f) = Len(S[f]) - Len(op.clusters)
        BY <1>3 DEF Linked, Busy
      <4>4. CASE pc = "link"
        <5>1. Clusters(op.size) + Len(op.clusters) <= Clusters(Target)
          BY <2>1, <4>4 DEF Grows
        <5>2. /\ Clusters(entry[f].size) \in Nat
              /\ Clusters(entry[f].size) + Len(op.clusters) <= Len(S[f])
          BY <2>1, <4>1, <5>1, ClustersType
        <5>3. PICK a, b, c, l : /\ a = Clusters(entry[f].size) /\ b = Len(op.clusters)
                                /\ c = Len(S[f]) /\ l = Linked(S, f)
          OBVIOUS
        <5>4. a \in Nat /\ b \in Nat /\ c \in Nat /\ l = c - b /\ a + b <= c
          BY <1>2, <4>2, <4>3, <5>2, <5>3
        <5>5. a <= l
          BY ONLY <5>4
        <5> QED
          BY <5>3, <5>5
      <4>5. CASE pc = "setentry"
        <5>1. Target \in Nat /\ op.size <= Target
          <6>1. f \notin Dirs
            BY CommandAssumption
          <6>2. Target = op.pos + 1
            BY <1>3, <6>1 DEF Target, IsDirectory
          <6> QED
            BY <2>1, <4>1, <4>5, <6>2 DEF Grows
        <5>2. Clusters(op.size) <= Clusters(Target)
          BY <4>1, <5>1, ClustersGrow
        <5>3. Clusters(entry[f].size) <= Len(S[f])
          BY <2>1, <5>2
        <5>4. Len(op.clusters) = 0
          BY <4>2, <4>5
        <5>5. Clusters(entry[f].size) \in Nat
          BY <1>1, ClustersType
        <5> QED
          BY ONLY <1>2, <4>3, <5>3, <5>4, <5>5
      <4> QED
        BY <1>3, <4>4, <4>5
    <3> QED
      BY <1>2, <2>3, <3>1 DEF Linkage
  <2> QED
    BY <2>1, <2>2, <2>3
<1>4. CASE ~(f = op.path /\ pc \in {"link", "setentry"})
  <2>1. /\ entry[f].first = First(S, f)
        /\ Clusters(entry[f].size) = IF pc = "walk" THEN Linked(S, f) ELSE Len(S[f])
    BY <1>1, <1>4 DEF Chained, Named, Busy
  <2>2. pc # "walk" => Linked(S, f) = Len(S[f])
    <3>1. op.clusters \in Seq(0 .. TableLast) /\ (pc \notin {"walk", "link"} => op.clusters = <<>>)
      BY DEF TypeInv, OpType, OpOK
    <3>2. pc \notin {"walk", "link"} => Len(op.clusters) = 0
      BY <3>1
    <3>3. pc # "walk" => Linked(S, f) = Len(S[f]) - 0
      BY <1>4, <3>2 DEF Linked, Busy
    <3> QED
      BY <1>2, <3>3
  <2> QED
    BY <1>2, <2>1, <2>2 DEF Linkage
<1> QED
  BY <1>3, <1>4

-----------------------------------------------------------------------------
(* A step of a command writes into the chain of the path it works on.       *)

\* The table changes at a cluster of the path, and when the path is extended
\* at the last linked one or behind it.
LEMMA TableWritten ==
    ASSUME TypeInv, NEW S, NEW k, Chained(S, k), LinkToLast \/ Link \/ Free
    PROVE  \E i \in 1 .. Len(S[op.path]), v \in Value :
              /\ fat' = [fat EXCEPT ![S[op.path][i]] = v]
              /\ pc # "free" => i >= Linked(S, op.path)
<1>1. PICK p : p = op.path
  OBVIOUS
<1>2. /\ p \in Paths /\ Len(S[p]) \in Nat
      /\ \A i \in 1 .. Len(S[p]) : S[p][i] \in 2 .. TableLast
      /\ op.clusters \in Seq(0 .. TableLast) /\ (pc \in {"walk", "link"} => op.clusters # <<>>)
  <2>1. p \in Paths
    BY <1>1 DEF LinkToLast, Link, Free, TypeInv, OpOK
  <2> QED
    BY <2>1, ChainTypes DEF Chained, TypeInv, OpType, OpOK
<1>3. \A c \in 2 .. TableLast : \A v : Written(c, v) = [fat EXCEPT ![c] = v]
  BY VolumeAssumption DEF Written
<1>4. 0 .. TableLast \subseteq Value /\ ChainEnd \in Value
  BY TableTypes
<1>5. CASE LinkToLast
  <2>1. /\ pc = "walk" /\ IsEOC(ReadFAT(fat, op.cursor)) /\ fat' = Written(op.cursor, op.clusters[1])
    BY <1>5 DEF LinkToLast
  <2>2. PICK i \in 1 .. Linked(S, p) :
           /\ op.cursor = S[p][i] /\ i \in 1 .. Len(S[p])
           /\ ReadFAT(fat, op.cursor) = fat[op.cursor]
           /\ IsEOC(fat[op.cursor]) <=> i = Linked(S, p)
    BY <1>1, <2>1, WalkPlace
  <2>3. i = Linked(S, p)
    BY <2>1, <2>2
  <2>4. op.clusters[1] \in 0 .. TableLast
    BY <1>2, <2>1, HeadAndTail
  <2>5. fat' = [fat EXCEPT ![S[p][i]] = op.clusters[1]]
    BY <1>2, <1>3, <2>1, <2>2
  <2>6. i >= Linked(S, p) /\ op.clusters[1] \in Value
    BY <1>4, <2>2, <2>3, <2>4
  <2> QED
    BY <1>1, <2>2, <2>5, <2>6
<1>6. CASE Link
  <2>1. PICK v : v = IF Tail(op.clusters) = <<>> THEN ChainEnd ELSE Head(Tail(op.clusters))
    OBVIOUS
  <2>2. pc = "link" /\ fat' = Written(Head(op.clusters), v)
    BY <1>6, <2>1 DEF Link
  <2>3. PICK m, n : m = Linked(S, p) /\ n = Len(op.clusters)
    OBVIOUS
  <2>4. n \in Nat \ {0} /\ Head(op.clusters) = op.clusters[1] /\ 1 \in 1 .. n
        /\ Tail(op.clusters) \in Seq(0 .. TableLast)
    <3>1. op.clusters \in Seq(0 .. TableLast) /\ op.clusters # <<>>
      BY <1>2, <2>2
    <3>2. /\ Head(op.clusters) = op.clusters[1] /\ Tail(op.clusters) \in Seq(0 .. TableLast)
          /\ Len(op.clusters) \in Nat \ {0}
      <4>1. Head(op.clusters) = op.clusters[1] /\ Tail(op.clusters) \in Seq(0 .. TableLast)
        BY <3>1, HeadAndTail
      <4>2. Len(op.clusters) \in Nat /\ Len(op.clusters) # 0
        BY <3>1
      <4> QED
        BY <4>1, <4>2
    <3> QED
      BY ONLY <2>3, <3>2
  <2>5. m >= 0 /\ op.clusters[1] = S[p][m + 1] /\ m = Len(S[p]) - n
    <3>1. Linked(S, op.path) >= 0
          /\ \A i \in 1 .. Len(op.clusters) : op.clusters[i] = S[op.path][Linked(S, op.path) + i]
      BY <2>2 DEF Chained, Working
    <3>2. m = Len(S[p]) - n
      BY <1>1, <2>3 DEF Linked, Busy
    <3> QED
      BY <1>1, <2>3, <2>4, <3>1, <3>2
  <2>6. m + 1 \in 1 .. Len(S[p]) /\ m + 1 >= m
    BY ONLY <1>2, <2>4, <2>5
  <2>7. v \in Value
    <3>1. CASE Tail(op.clusters) = <<>>
      BY <1>4, <2>1, <3>1
    <3>2. CASE Tail(op.clusters) # <<>>
      BY <1>4, <2>1, <2>4, <3>2, HeadAndTail
    <3> QED
      BY <3>1, <3>2
  <2>8. fat' = [fat EXCEPT ![S[p][m + 1]] = v]
    <3>1. Head(op.clusters) = S[p][m + 1]
      BY <2>4, <2>5
    <3>2. S[p][m + 1] \in 2 .. TableLast
      BY <1>2, <2>6
    <3> QED
      BY <1>3, <2>2, <3>1, <3>2
  <2> QED
    BY <1>1, <2>3, <2>6, <2>7, <2>8
<1>7. CASE Free
  <2>1. pc = "free" /\ IsAllocated(op.cursor) /\ fat' = Written(op.cursor, 0)
    BY <1>7 DEF Free
  <2>2. /\ k \in 1 .. Len(S[p]) + 1
        /\ IF k <= Len(S[p]) THEN op.cursor = S[p][k] ELSE op.cursor \in {0, EOC}
    BY <1>1, <2>1 DEF Chained, Working
  <2>3. op.cursor \notin {0, EOC}
    BY <2>1, VolumeAssumption DEF IsAllocated, EOC, BeyondLast
  <2>4. k \in 1 .. Len(S[p]) /\ op.cursor = S[p][k]
    BY <1>2, <2>2, <2>3
  <2>5. fat' = [fat EXCEPT ![S[p][k]] = 0] /\ 0 \in Value
    BY <1>2, <1>3, <1>4, <2>1, <2>4, VolumeAssumption
  <2> QED
    BY <1>1, <2>1, <2>4, <2>5
<1> QED
  BY <1>5, <1>6, <1>7

\* A unit is written where the chain has it.
LEMMA UnitWritten ==
    ASSUME TypeInv, StoreInv, NEW S, NEW k, Chained(S, k), pc = "data"
    PROVE  /\ op.path \in Files /\ op.pos < op.size /\ op.size = entry[op.path].size
           /\ op.pos \div ClusterSize < Len(S[op.path])
           /\ ClusterOf(fat, op.first, op.pos) = UnitAt(S[op.path], op.pos)
<1>1. PICK p : p = op.path
  OBVIOUS
<1>2. /\ p \in Files /\ p \in Paths /\ op.pos \in Nat /\ op.size \in Nat
      /\ op.clusters = <<>>
  BY <1>1 DEF TypeInv, OpType, OpOK, Paths
<1>3. op.pos < op.size
  BY <1>1, <1>2 DEF StoreInv, Grows, Extending
<1>4. /\ op.first = First(S, p) /\ op.size = entry[p].size /\ Clusters(op.size) = Len(S[p])
  BY <1>1, <1>2 DEF Chained, Working
<1>5. /\ Linking(fat, First(S, p), S[p], Linked(S, p))
      /\ Linked(S, p) <= Len(S[p])
      /\ Distinct(S[p], Len(S[p]))
  BY <1>1, <1>2, LinkingChain
<1>6. Linked(S, p) = Len(S[p])
  <2>1. Len(op.clusters) = 0 /\ Len(S[p]) \in Nat
    BY <1>2, <1>5 DEF Distinct
  <2> QED
    BY ONLY <1>1, <2>1 DEF Linked, Busy
<1>7. op.pos \div ClusterSize < Clusters(op.size)
  BY <1>2, <1>3, UnitInside
<1>8. ClusterOf(fat, First(S, p), op.pos) = UnitAt(S[p], op.pos)
  <2>1. Len(S[p]) \in Nat
    BY <1>5 DEF Distinct
  <2> QED
    BY <1>2, <1>4, <1>5, <1>6, <1>7, <2>1, ClusterLinked
<1> QED
  BY <1>1, <1>2, <1>3, <1>4, <1>7, <1>8

\* The cluster that is cleared for a directory is in its chain.
LEMMA LinkPlace ==
    ASSUME TypeInv, NEW S, NEW k, Chained(S, k), pc = "link"
    PROVE  \E i \in 1 .. Len(S[op.path]) : Head(op.clusters) = S[op.path][i]
<1>1. op.path \in Paths /\ op.clusters \in Seq(0 .. TableLast) /\ op.clusters # <<>>
  BY DEF TypeInv, OpType, OpOK
<1>2. Len(op.clusters) \in Nat \ {0} /\ Head(op.clusters) = op.clusters[1]
  BY <1>1, HeadAndTail
<1>3. Linked(S, op.path) >= 0 /\ Len(S[op.path]) \in Nat
      /\ \A i \in 1 .. Len(op.clusters) : op.clusters[i] = S[op.path][Linked(S, op.path) + i]
  BY <1>1, ChainTypes DEF Chained, Working
<1>4. Linked(S, op.path) = Len(S[op.path]) - Len(op.clusters)
  BY DEF Linked, Busy
<1>5. PICK m, n, l : m = Linked(S, op.path) /\ n = Len(op.clusters) /\ l = Len(S[op.path])
  OBVIOUS
<1>6. n \in Nat \ {0} /\ m >= 0 /\ m = l - n /\ l \in Nat
  BY <1>2, <1>3, <1>4, <1>5
<1>7. m + 1 \in 1 .. l /\ 1 \in 1 .. n
  BY ONLY <1>6
<1>8. Head(op.clusters) = S[op.path][m + 1]
  BY <1>2, <1>3, <1>5, <1>7
<1> QED
  BY <1>5, <1>7, <1>8

\* What a file holds stays when its entry, its links and its units do.
LEMMA OtherSame ==
    ASSUME TypeInv, NEW S, NEW k, Chained(S, k), NEW f \in Files, f # op.path,
           entry'[f] = entry[f],
           \A i \in 1 .. Len(S[f]) : fat'[S[f][i]] = fat[S[f][i]],
           \A i \in 1 .. Len(S[f]) : S[f][i] \in 2 .. VolumeLast => data'[S[f][i]] = data[S[f][i]]
    PROVE  Content(f)' = Content(f)
<1>1. f \in Paths /\ entry[f].size \in Nat
  BY DEF Paths, TypeInv, TypeOK
<1>2. Content(f)' = Extracted(fat', entry', data', f)
  BY DEF Content
<1>3. CASE ~entry[f].live
  <2>1. ~entry'[f].live
    BY <1>3
  <2> QED
    BY <1>2, <1>3, <2>1 DEF Content, Extracted
<1>4. CASE entry[f].live
  <2>1. PICK K : K = {S[f][i] : i \in 1 .. Len(S[f])}
    OBVIOUS
  <2>2. /\ Len(S[f]) \in Nat /\ \A i \in 1 .. Len(S[f]) : S[f][i] \in 2 .. TableLast
        /\ \A i \in 1 .. Len(S[f]) : fat[S[f][i]] = After(S, k, f, i)
    BY <1>1, ChainTypes DEF Chained, InTable
  <2>3. Linked(S, f) = Len(S[f])
    <3>1. Linked(S, f) = Len(S[f]) - 0
      BY DEF Linked, Busy
    <3> QED
      BY <2>2, <3>1
  <2>4. \A i \in 1 .. Len(S[f]) : fat[S[f][i]] \in K \cup {EOC}
    <3> SUFFICES ASSUME NEW i \in 1 .. Len(S[f]) PROVE fat[S[f][i]] \in K \cup {EOC}
      OBVIOUS
    <3>1. fat[S[f][i]] = IF i = Len(S[f]) THEN EOC ELSE S[f][i + 1]
      BY <2>2, <2>3 DEF After, Busy
    <3>2. i = Len(S[f]) \/ i + 1 \in 1 .. Len(S[f])
      BY <2>2
    <3> QED
      BY <2>1, <3>1, <3>2
  <2>5. K \subseteq 2 .. TableLast /\ \A c \in K : fat'[c] = fat[c]
    BY <2>1, <2>2
  <2>6. Agree(K, fat, fat')
    BY <2>1, <2>4, <2>5 DEF Agree
  <2>7. SameData(K, data, data')
    BY <2>1 DEF SameData
  <2>8. entry[f].first \in K \cup {0}
    <3>1. entry[f].first = First(S, f)
      BY <1>1, <1>4 DEF Chained, Named, Busy
    <3>2. S[f] # <<>> => 1 \in 1 .. Len(S[f])
      <4>1. S[f] \in Seq((2 .. TableLast) \ RootClusters)
        BY <1>1 DEF Chained, Apart
      <4> QED
        BY <4>1
    <3> QED
      BY <2>1, <3>1, <3>2 DEF First
  <2>9. Extracted(fat', entry', data', f) = Extracted(fat, entry, data, f)
    BY ONLY <1>1, <2>6, <2>7, <2>8, entry'[f] = entry[f], SameFile
  <2> QED
    BY <1>2, <2>9 DEF Content
<1> QED
  BY <1>3, <1>4

LEMMA SameContent ==
    ASSUME UNCHANGED <<fat, entry, data>>, NEW f
    PROVE  Content(f)' = Content(f)
  BY DEF Content

\* No step of a command changes what another file holds.
LEMMA OthersKeep ==
    ASSUME TypeInv, StoreInv, NEW S, NEW k, Chained(S, k), Step, NEW f \in Files, f # op.path
    PROVE  Content(f)' = Content(f)
<1>1. f \in Paths /\ entry \in [Paths -> [live : BOOLEAN, first : 0 .. TableLast, size : Nat]]
      /\ fat \in [0 .. TableLast -> Value] /\ DOMAIN data = 2 .. VolumeLast
  BY DEF Paths, TypeInv, TypeOK
<1>2. Len(S[f]) \in Nat /\ \A i \in 1 .. Len(S[f]) : S[f][i] \in 2 .. TableLast
  BY <1>1, ChainTypes DEF Chained
<1>3. op.path \in Paths =>
        \A i \in 1 .. Len(S[f]), j \in 1 .. Len(S[op.path]) : S[f][i] # S[op.path][j]
  BY <1>1 DEF Chained, Apart
<1>4. CASE InsertDone \/ Overwrite \/ Reserve \/ ReserveFails \/ Walk
  <2>1. UNCHANGED <<fat, entry, data>>
    BY <1>4 DEF InsertDone, Overwrite, Reserve, ReserveFails, Walk, disks
  <2> QED
    BY <2>1, SameContent
<1>5. CASE LinkToLast \/ Link \/ Free
  <2>1. op.path \in Paths /\ entry' = entry
    BY <1>5 DEF LinkToLast, Link, Free, TypeInv, OpOK
  <2>2. \A i \in 1 .. Len(S[f]) : fat'[S[f][i]] = fat[S[f][i]]
    <3>1. \E i \in 1 .. Len(S[op.path]), v \in Value :
             /\ fat' = [fat EXCEPT ![S[op.path][i]] = v]
             /\ pc # "free" => i >= Linked(S, op.path)
      BY <1>5, TableWritten
    <3>2. PICK j \in 1 .. Len(S[op.path]) :
             \E v \in Value : fat' = [fat EXCEPT ![S[op.path][j]] = v]
      BY <3>1
    <3>3. PICK v \in Value : fat' = [fat EXCEPT ![S[op.path][j]] = v]
      BY <3>2
    <3>4. \A i \in 1 .. Len(S[f]) : S[f][i] # S[op.path][j]
      BY ONLY <1>3, <2>1, <3>2
    <3>5. \A i \in 1 .. Len(S[f]) : S[f][i] \in DOMAIN fat
      <4>1. \A c \in 2 .. TableLast : c \in 0 .. TableLast
        OBVIOUS
      <4> QED
        BY ONLY <1>1, <1>2, <4>1
    <3> QED
      BY ONLY <3>3, <3>4, <3>5
  <2>3. \A i \in 1 .. Len(S[f]) : S[f][i] \in 2 .. VolumeLast => data'[S[f][i]] = data[S[f][i]]
    <3>1. CASE LinkToLast \/ Free
      BY <3>1 DEF LinkToLast, Free
    <3>2. CASE Link
      <4>1. PICK c : c = Head(op.clusters)
        OBVIOUS
      <4>2. data' \in {data, [data EXCEPT ![c] = [u \in 0 .. ClusterSize - 1 |-> Zero]]}
        BY <3>2, <4>1 DEF Link
      <4>3. \A i \in 1 .. Len(S[f]) : S[f][i] # c
        BY <1>3, <2>1, <3>2, <4>1, LinkPlace DEF Link
      <4> QED
        BY <1>1, <4>2, <4>3
    <3> QED
      BY <1>5, <3>1, <3>2
  <2> QED
    BY <2>1, <2>2, <2>3, OtherSame
<1>6. CASE SetEntry
  <2>1. PICK t : t = Target
    OBVIOUS
  <2>2. /\ entry' = [entry EXCEPT ![op.path].first = op.first,
                                  ![op.path].size = IF IsDirectory THEN @ ELSE t]
        /\ UNCHANGED <<fat, data>>
    BY <1>6, <2>1 DEF SetEntry
  <2>3. entry'[f] = entry[f]
    BY ONLY <1>1, <2>2, f # op.path
  <2> QED
    BY <2>2, <2>3, OtherSame
<1>7. CASE Unname
  <2>1. entry' = [entry EXCEPT ![op.path].live = FALSE] /\ UNCHANGED <<fat, data>>
    BY <1>7 DEF Unname
  <2>2. entry'[f] = entry[f]
    BY ONLY <1>1, <2>1, f # op.path
  <2> QED
    BY <2>1, <2>2, OtherSame
<1>8. CASE WriteData
  <2>1. PICK c : c = ClusterOf(fat, op.first, op.pos)
    OBVIOUS
  <2>2. /\ pc = "data" /\ UNCHANGED <<fat, entry>>
        /\ \/ data' = data
           \/ c # 0 /\ data' = [data EXCEPT ![c][op.pos % ClusterSize] = op.host[op.pos + 1]]
    BY <1>8, <2>1 DEF WriteData
  <2>3. CASE data' = data
    BY <2>2, <2>3, SameContent
  <2>4. CASE c # 0 /\ data' = [data EXCEPT ![c][op.pos % ClusterSize] = op.host[op.pos + 1]]
    <3>1. /\ op.path \in Files /\ op.pos \div ClusterSize < Len(S[op.path])
          /\ c = UnitAt(S[op.path], op.pos)
      BY <2>1, <2>2, UnitWritten
    <3>2. op.path \in Paths /\ op.pos \div ClusterSize \in Nat
      <4>1. op.pos \in Nat
        BY DEF TypeInv, OpType
      <4> QED
        BY <3>1, <4>1, VolumeAssumption DEF Paths
    <3>3. Len(S[op.path]) \in Nat
      BY <3>2, ChainTypes DEF Chained
    <3>4. op.pos \div ClusterSize + 1 \in 1 .. Len(S[op.path])
      BY <3>1, <3>2, <3>3
    <3>5. c = S[op.path][op.pos \div ClusterSize + 1]
      BY <2>4, <3>1 DEF UnitAt
    <3>6. \A i \in 1 .. Len(S[f]) : S[f][i] # c
      BY <1>3, <3>2, <3>4, <3>5
    <3>7. \A d \in 2 .. VolumeLast : d # c => data'[d] = data[d]
      BY ONLY <1>1, <2>4
    <3>8. \A i \in 1 .. Len(S[f]) : S[f][i] \in 2 .. VolumeLast => data'[S[f][i]] = data[S[f][i]]
      BY <3>6, <3>7
    <3>9. entry'[f] = entry[f] /\ \A i \in 1 .. Len(S[f]) : fat'[S[f][i]] = fat[S[f][i]]
      BY <2>2
    <3> QED
      BY <3>8, <3>9, OtherSame
  <2> QED
    BY <2>2, <2>3, <2>4
<1> QED
  BY <1>4, <1>5, <1>6, <1>7, <1>8 DEF Step

-----------------------------------------------------------------------------
(* The file a command works on.                                             *)

LEMMA OwnHolds ==
    ASSUME TypeInv, StoreInv, NEW S, NEW k, Chained(S, k), NEW f \in Files, entry[f].live,
           ~(pc = "free" /\ f = op.path)
    PROVE  /\ Holds(Content(f), S[f], entry[f].size, data)
           /\ Content(f) \in Seq(Units) /\ Len(Content(f)) \in 0 .. entry[f].size
           /\ Content(f) # Absent
<1>1. f \in Paths /\ entry[f].size \in Nat
      /\ data \in [2 .. VolumeLast -> [0 .. ClusterSize - 1 -> Units]]
  BY DEF Paths, TypeInv, TypeOK
<1>2. PICK m \in Nat : Linkage(S, f, m)
  BY LinkedSize
<1>3. Clusters(entry[f].size) <= m /\ Linking(fat, entry[f].first, S[f], m)
  BY <1>2 DEF Linkage
<1>4. Holds(Extracted(fat, entry, data, f), S[f], entry[f].size, data)
  BY <1>1, <1>3, ExtractedHolds
<1>5. Holds(Content(f), S[f], entry[f].size, data)
  BY <1>4 DEF Content
<1>6. Content(f) \in Seq(Units) /\ Len(Content(f)) \in 0 .. entry[f].size
  BY <1>1, <1>5, HoldsType
<1> QED
  BY <1>5, <1>6, StoreAssumption

\* Linking clusters behind those that a file's size needs shows in no file.
LEMMA OwnTable ==
    ASSUME TypeInv, StoreInv, NEW S, NEW k, Chained(S, k), LinkToLast \/ Link,
           NEW p \in Files, p = op.path
    PROVE  Content(p)' = Content(p)
<1>1. p = op.path
  OBVIOUS
<1>2. /\ p \in Files /\ p \in Paths /\ pc \in {"walk", "link"} /\ entry' = entry
      /\ op'.path = p
  <2>1. pc \in {"walk", "link"} /\ entry' = entry
    BY DEF LinkToLast, Link
  <2>2. op' \in {op, [op EXCEPT !.clusters = Tail(op.clusters), !.cursor = 0]}
    BY DEF LinkToLast, Link
  <2>3. op = [x \in OpFields |-> op[x]]
    BY DEF TypeInv, OpType
  <2>4. op'.path = op.path
    BY ONLY <2>2, <2>3 DEF OpFields
  <2> QED
    BY <1>1, <2>1, <2>4 DEF Paths
<1>3. data' = data
  <2>1. ~IsDirectory
    BY <1>1, <1>2, CommandAssumption DEF IsDirectory
  <2> QED
    BY <2>1 DEF LinkToLast, Link
<1>4. /\ entry[p].live /\ entry[p].size \in Nat
  BY <1>1, <1>2 DEF Chained, Working, TypeInv, TypeOK
<1>5. PICK m \in Nat : Linkage(S, p, m)
  BY <1>2, <1>4, LinkedSize
<1>6. /\ m <= Linked(S, p) /\ Clusters(entry[p].size) <= m
      /\ Linking(fat, entry[p].first, S[p], m) /\ m <= Len(S[p])
  BY <1>5 DEF Linkage
<1>7. PICK j \in 1 .. Len(S[p]) : /\ \E v \in Value : fat' = [fat EXCEPT ![S[p][j]] = v]
                                  /\ j >= Linked(S, p)
  <2>1. \E i \in 1 .. Len(S[op.path]), v \in Value :
              /\ fat' = [fat EXCEPT ![S[op.path][i]] = v]
              /\ pc # "free" => i >= Linked(S, op.path)
    BY TableWritten
  <2> QED
    BY <1>1, <1>2, <2>1
<1>8. PICK v \in Value : fat' = [fat EXCEPT ![S[p][j]] = v]
  BY <1>7
<1>9. \A i \in 1 .. m - 1 : fat'[S[p][i]] = fat[S[p][i]]
  <2>1. Distinct(S[p], Len(S[p])) /\ Linked(S, p) \in Nat
    BY <1>2, LinkingChain DEF Linking
  <2> SUFFICES ASSUME NEW i \in 1 .. m - 1 PROVE fat'[S[p][i]] = fat[S[p][i]]
    OBVIOUS
  <2>2. PICK l, n : l = Linked(S, p) /\ n = Len(S[p])
    OBVIOUS
  <2>3. l \in Nat /\ n \in Nat /\ j \in 1 .. n /\ j >= l /\ m <= l /\ m <= n
    BY <1>6, <1>7, <2>1, <2>2 DEF Distinct
  <2>4. i \in 1 .. n /\ i # j
    BY ONLY <2>3, m \in Nat, i \in 1 .. m - 1
  <2>5. S[p][i] # S[p][j] /\ S[p][i] \in 2 .. TableLast
    BY <1>7, <2>1, <2>2, <2>4 DEF Distinct
  <2>6. fat \in [0 .. TableLast -> Value]
    BY DEF TypeInv, TypeOK
  <2> QED
    BY <1>8, <2>5, <2>6
<1>10. Linking(fat', entry[p].first, S[p], m)
  BY <1>6, <1>9 DEF Linking
<1>11. Holds(Extracted(fat, entry, data, p), S[p], entry[p].size, data)
  BY <1>4, <1>6, ExtractedHolds
<1>12. Holds(Extracted(fat', entry, data, p), S[p], entry[p].size, data)
  BY <1>4, <1>6, <1>10, ExtractedHolds
<1>13. Extracted(fat', entry, data, p) = Extracted(fat, entry, data, p)
  BY <1>4, <1>11, <1>12, HoldsSame
<1> QED
  BY <1>1, <1>2, <1>3, <1>13 DEF Content

\* The entry brings the reserved unit into the file, which keeps the others.
LEMMA OwnEntry ==
    ASSUME TypeInv, StoreInv, NEW S, NEW k, Chained(S, k), SetEntry,
           NEW p \in Files, p = op.path
    PROVE  Len(Content(p)) = op.pos /\ Grown(Content(p), Content(p)', op.pos)
<1>1. p = op.path
  OBVIOUS
<1>2. /\ p \in Files /\ p \in Paths /\ pc = "setentry" /\ UNCHANGED <<fat, data>>
      /\ op.clusters = <<>> /\ op.pos \in Nat /\ op.first \in 0 .. TableLast
      /\ entry \in [Paths -> [live : BOOLEAN, first : 0 .. TableLast, size : Nat]]
      /\ data \in [2 .. VolumeLast -> [0 .. ClusterSize - 1 -> Units]]
  BY <1>1 DEF SetEntry, TypeInv, TypeOK, OpType, OpOK, Paths
<1>3. ~IsDirectory /\ Target = op.pos + 1
  BY <1>1, <1>2, CommandAssumption DEF IsDirectory, Target
<1>4. /\ entry[p].live /\ op.size = entry[p].size /\ op.size = op.pos
      /\ op.first = First(S, p) /\ Clusters(op.pos + 1) = Len(S[p])
      /\ op.pos <= Len(Content(p))
  <2>1. Progress(Content(p)) /\ Grows
    BY <1>1, <1>2 DEF StoreInv, Extending
  <2> QED
    BY <1>1, <1>2, <1>3, <2>1 DEF Chained, Working, Grows, Progress
<1>5. /\ Holds(Content(p), S[p], op.pos, data) /\ Content(p) \in Seq(Units)
      /\ Len(Content(p)) \in 0 .. op.pos
  <2>1. ~(pc = "free" /\ p = op.path)
    BY <1>2
  <2> QED
    BY <1>2, <1>4, <2>1, OwnHolds
<1>6. Len(Content(p)) = op.pos
  <2>1. PICK l : l = Len(Content(p))
    OBVIOUS
  <2>2. l \in 0 .. op.pos /\ op.pos <= l
    BY <1>4, <1>5, <2>1
  <2> QED
    BY ONLY <1>2, <2>1, <2>2
<1>7. entry'[p].live /\ entry'[p].first = op.first /\ entry'[p].size = op.pos + 1
  <2>1. PICK t : t = Target
    OBVIOUS
  <2>2. entry' = [entry EXCEPT ![p].first = op.first,
                               ![p].size = IF IsDirectory THEN @ ELSE t]
    BY <1>1, <2>1 DEF SetEntry
  <2>3. entry'[p].live = entry[p].live /\ entry'[p].first = op.first
        /\ entry'[p].size = IF IsDirectory THEN entry[p].size ELSE t
    BY ONLY <1>2, <2>2
  <2> QED
    BY <1>3, <1>4, <2>1, <2>3
<1>8. Linking(fat, First(S, p), S[p], Linked(S, p)) /\ Linked(S, p) = Len(S[p])
  <2>1. Linking(fat, First(S, p), S[p], Linked(S, p)) /\ Distinct(S[p], Len(S[p]))
    BY <1>2, LinkingChain
  <2>2. Len(op.clusters) = 0 /\ Len(S[p]) \in Nat
    BY <1>2, <2>1 DEF Distinct
  <2>3. Linked(S, p) = Len(S[p])
    BY ONLY <1>1, <2>2 DEF Linked, Busy
  <2> QED
    BY <2>1, <2>3
<1>9. Holds(Extracted(fat, entry', data, p), S[p], op.pos + 1, data)
  <2>1. PICK m : m = Len(S[p])
    OBVIOUS
  <2>2. m \in Nat /\ Clusters(op.pos + 1) <= m /\ op.pos + 1 \in Nat
    BY <1>2, <1>4, <1>8, <2>1 DEF Linking
  <2>3. Linking(fat, op.first, S[p], m)
    BY <1>4, <1>8, <2>1
  <2>4. Clusters(entry'[p].size) <= m /\ entry'[p].size \in Nat /\ entry'[p].live
        /\ Linking(fat, entry'[p].first, S[p], m)
    BY <1>7, <2>2, <2>3
  <2>5. Holds(Extracted(fat, entry', data, p), S[p], entry'[p].size, data)
    BY ONLY <2>2, <2>4, ExtractedHolds
  <2> QED
    BY <1>7, <2>5
<1>10. PICK C, D : C = Content(p) /\ D = Extracted(fat, entry', data, p)
  OBVIOUS
<1>11. Grown(C, D, op.pos)
  <2>1. Holds(C, S[p], op.pos, data) /\ Len(C) = op.pos /\ Holds(D, S[p], op.pos + 1, data)
    BY <1>5, <1>6, <1>9, <1>10
  <2> QED
    BY <1>2, <2>1, HoldsGrow
<1>12. D = Content(p)'
  <2>1. Content(p)' = Extracted(fat', entry', data', p)
    BY DEF Content
  <2> QED
    BY <1>2, <1>10, <2>1
<1> QED
  BY <1>1, <1>6, <1>10, <1>11, <1>12

\* A unit goes to its place in the file and to no other.
LEMMA OwnUnit ==
    ASSUME TypeInv, StoreInv, NEW S, NEW k, Chained(S, k), WriteData,
           ClusterOf(fat, op.first, op.pos) # 0, NEW p \in Files, p = op.path
    PROVE  Overwritten(Content(p), Content(p)', op.pos, op.host[op.pos + 1])
<1>1. PICK c : p = op.path /\ c = ClusterOf(fat, op.first, op.pos)
  OBVIOUS
<1>2. /\ pc = "data" /\ UNCHANGED <<fat, entry>>
      /\ data' = [data EXCEPT ![c][op.pos % ClusterSize] = op.host[op.pos + 1]]
  BY <1>1 DEF WriteData
<1>3. /\ p \in Files /\ op.pos < op.size /\ op.size = entry[p].size
      /\ c = UnitAt(S[p], op.pos) /\ c # 0
  BY <1>1, <1>2, UnitWritten
<1>4. /\ p \in Paths /\ op.pos \in Nat /\ entry[p].size \in Nat
      /\ data \in [2 .. VolumeLast -> [0 .. ClusterSize - 1 -> Units]]
      /\ op.host \in Hosts /\ op.pos < Len(op.host)
  BY <1>1, <1>2, <1>3 DEF TypeInv, TypeOK, OpType, OpOK, Paths, Extending
<1>5. entry[p].live /\ ~(pc = "free" /\ p = op.path)
  BY <1>1, <1>2 DEF Chained, Working
<1>6. Holds(Content(p), S[p], entry[p].size, data)
  BY <1>3, <1>5, OwnHolds
<1>7. op.pos <= Len(Content(p))
  BY <1>1, <1>2, <1>3 DEF StoreInv, Extending, Progress
<1>8. Distinct(S[p], Len(S[p])) /\ Clusters(entry[p].size) <= Len(S[p])
  <2>1. Distinct(S[p], Len(S[p]))
    BY <1>4, <1>5, LinkingChain
  <2>2. PICK m \in Nat : Linkage(S, p, m)
    BY <1>3, <1>5, LinkedSize
  <2>3. m <= Len(S[p]) /\ Clusters(entry[p].size) <= m
    BY <2>2 DEF Linkage
  <2>4. Len(S[p]) \in Nat /\ Clusters(entry[p].size) \in Nat
    BY <1>4, <2>1, ClustersType DEF Distinct
  <2> QED
    BY <2>1, <2>3, <2>4
<1>9. Holds(Extracted(fat, entry, data', p), S[p], entry[p].size, data')
  <2>1. PICK m \in Nat : Linkage(S, p, m)
    BY <1>3, <1>5, LinkedSize
  <2>2. Linking(fat, entry[p].first, S[p], m) /\ Clusters(entry[p].size) <= m
    BY <2>1 DEF Linkage
  <2> QED
    BY <1>4, <1>5, <2>2, ExtractedHolds
<1>10. PICK C, D, e, v : /\ C = Content(p) /\ D = Extracted(fat, entry, data', p)
                         /\ e = data' /\ v = op.host[op.pos + 1]
  OBVIOUS
<1>11. v \in Units
  <2>1. op.pos + 1 \in 1 .. Len(op.host)
    BY <1>4, HostUnits
  <2> QED
    BY <1>4, <1>10, <2>1, HostUnits
<1>12. UnitPut(data, e, UnitAt(S[p], op.pos), op.pos % ClusterSize, v)
  BY <1>2, <1>3, <1>10 DEF UnitPut
<1>13. /\ Holds(C, S[p], entry[p].size, data) /\ Holds(D, S[p], entry[p].size, e)
       /\ op.pos <= Len(C) /\ op.pos < entry[p].size /\ UnitAt(S[p], op.pos) # 0
  BY <1>3, <1>6, <1>7, <1>9, <1>10
<1>14. PICK size, m : size = entry[p].size /\ m = Len(S[p])
  OBVIOUS
<1>15. Overwritten(C, D, op.pos, v)
  <2>1. /\ size \in Nat /\ Distinct(S[p], m) /\ Clusters(size) <= m
        /\ Holds(C, S[p], size, data) /\ Holds(D, S[p], size, e)
        /\ op.pos < size
    BY <1>4, <1>8, <1>13, <1>14
  <2> QED
    BY ONLY <1>4, <1>11, <1>12, <1>13, <2>1, HoldsWrite
<1>16. D = Content(p)'
  <2>1. Content(p)' = Extracted(fat', entry', data', p)
    BY DEF Content
  <2> QED
    BY <1>2, <1>10, <2>1
<1> QED
  BY <1>1, <1>10, <1>15, <1>16

-----------------------------------------------------------------------------
(* StoreInv is kept.                                                        *)

\* A command on a file knows what it held.
LEMMA OldKnown ==
    ASSUME TypeInv, StoreInv, pc \notin {"idle", "overrun"}, op.path \in Files
    PROVE  op.old \in Seq(Units) /\ op.host \in Hosts \cup {Absent}
<1>1. pc \in Extending \/ pc = "free"
  BY DEF TypeInv, TypeOK, Extending
<1>2. CASE pc \in Extending
  BY <1>2 DEF StoreInv, Progress, TypeInv, OpOK
<1>3. CASE pc = "free"
  BY <1>3 DEF StoreInv
<1> QED
  BY <1>1, <1>2, <1>3

LEMMA IdleStore ==
    ASSUME pc' = "idle"
    PROVE  StoreInv'
  BY DEF StoreInv, Extending

\* A session opens and closes between commands.
LEMMA SessionStore ==
    ASSUME TypeInv, StoreInv,
           \/ \E command \in {"insert", "remove"} : Open(command)
           \/ CloseInfo \/ CloseTable \/ UNCHANGED vars
    PROVE  StoreInv'
<1>1. UNCHANGED <<fat, entry, data, pc, op>>
  BY DEF Open, CloseInfo, CloseTable, vars, disks
<1>2. Content(op.path)' = Content(op.path)
  BY <1>1 DEF Content
<1> QED
  BY <1>1, <1>2 DEF StoreInv, Progress, Grows, Target, IsDirectory, Clusters

\* Only its own entry counts for a file.
LEMMA SameEntry ==
    ASSUME NEW T, NEW x, NEW y, NEW d, NEW f, y[f] = x[f]
    PROVE  Extracted(T, y, d, f) = Extracted(T, x, d, f)
<1>1. PICK e : e = x[f] /\ e = y[f]
  OBVIOUS
<1> QED
  BY <1>1 DEF Extracted

LEMMA BeginInsertContent ==
    ASSUME TypeInv, StoreInv, NEW S, NEW k, Chained(S, k), NEW f \in Files, NEW host \in Hosts,
           BeginInsert(f, host)
    PROVE  /\ \A g \in Files : g # f => Content(g)' = Content(g)
           /\ entry[f].live => Content(f)' = Content(f) /\ Content(f) # Absent
           /\ ~entry[f].live => Content(f)' = <<>> /\ Content(f) = Absent
           /\ Content(f)' \in Seq(Units)
<1>1. /\ pc = "idle" /\ UNCHANGED <<fat, data>> /\ f \in Paths
      /\ DOMAIN entry = Paths
      /\ entry' = [entry EXCEPT ![f] = IF entry[f].live THEN entry[f]
                                       ELSE [NoEntry EXCEPT !.live = TRUE]]
  BY DEF BeginInsert, Paths, TypeInv, TypeOK
<1>2. op.path # f
  <2>1. op.path = Nobody
    BY <1>1 DEF TypeInv, OpOK, NoOp
  <2> QED
    BY <1>1, <2>1, CommandAssumption
<1>3. ASSUME NEW g \in Files, g # f PROVE Content(g)' = Content(g)
  <2>1. entry'[g] = entry[g]
    BY <1>1, <1>3 DEF Paths
  <2>2. Extracted(fat, entry', data, g) = Extracted(fat, entry, data, g)
    BY <2>1, SameEntry
  <2> QED
    BY <1>1, <2>2 DEF Content
<1>4. CASE entry[f].live
  <2>1. entry'[f] = entry[f]
    BY <1>1, <1>4
  <2>2. Content(f)' = Content(f)
    <3>1. Extracted(fat, entry', data, f) = Extracted(fat, entry, data, f)
      BY <2>1, SameEntry
    <3> QED
      BY <1>1, <3>1 DEF Content
  <2>3. Content(f) \in Seq(Units) /\ Content(f) # Absent
    BY <1>2, <1>4, OwnHolds
  <2> QED
    BY <1>3, <1>4, <2>2, <2>3
<1>5. CASE ~entry[f].live
  <2>1. /\ entry'[f] = [NoEntry EXCEPT !.live = TRUE]
        /\ data \in [2 .. VolumeLast -> [0 .. ClusterSize - 1 -> Units]]
    BY <1>1, <1>5 DEF TypeInv, TypeOK
  <2>2. entry'[f].live /\ entry'[f].size = 0
    BY <2>1, NewEntry
  <2>3. PICK m : m = 0
    OBVIOUS
  <2>4. Clusters(0) = 0 /\ Linking(fat, entry'[f].first, <<>>, 0)
    BY NoClusters DEF Linking
  <2>5. Holds(Extracted(fat, entry', data, f), <<>>, entry'[f].size, data)
    <3>1. m \in Nat /\ entry'[f].size \in Nat /\ Clusters(entry'[f].size) <= m
          /\ Linking(fat, entry'[f].first, <<>>, m)
      BY <2>2, <2>3, <2>4
    <3> QED
      BY <2>2, <3>1, ExtractedHolds
  <2>6. Extracted(fat, entry', data, f) = <<>>
    <3>1. PICK D : D = Extracted(fat, entry', data, f)
      OBVIOUS
    <3>2. Holds(D, <<>>, m, data) /\ Holds(<<>>, <<>>, m, data) /\ m \in Nat
      BY <2>2, <2>3, <2>5, <3>1, HoldsNothing
    <3>3. D = <<>>
      BY ONLY <3>2, HoldsSame
    <3> QED
      BY <3>1, <3>3
  <2>7. Content(f)' = <<>>
    BY <1>1, <2>6 DEF Content
  <2>8. Content(f) = Absent
    BY <1>5 DEF Content, Extracted
  <2> QED
    BY <1>3, <1>5, <2>7, <2>8
<1> QED
  BY <1>4, <1>5

LEMMA BeginInsertStore ==
    ASSUME TypeInv, StoreInv, NEW S, NEW k, Chained(S, k), NEW f \in Files, NEW host \in Hosts,
           BeginInsert(f, host)
    PROVE  /\ StoreInv' /\ pc' = "write"
           /\ op'.path = f /\ op'.host = host /\ op'.old = Content(f)'
<1>1. /\ op'.path = f /\ op'.host = host /\ op'.pos = 0 /\ op'.old = Extracted(fat, entry', data, f)
  <2>1. NoOp = [x \in OpFields |-> NoOp[x]] /\ NoOp.pos = 0
    BY DEF NoOp, OpFields
  <2>2. op' = [NoOp EXCEPT !.path = f, !.host = host, !.first = entry'[f].first,
                           !.size = entry'[f].size, !.old = Extracted(fat, entry', data, f)]
    BY DEF BeginInsert
  <2> QED
    BY ONLY <2>1, <2>2 DEF OpFields
<1>2. Content(f)' = Extracted(fat, entry', data, f) /\ pc' = "write"
  BY DEF Content, BeginInsert
<1>3. PICK C : C = Content(f)'
  OBVIOUS
<1>4. C \in Seq(Units) /\ Len(C) \in Nat
  <2>1. C \in Seq(Units)
    BY <1>3, BeginInsertContent
  <2> QED
    BY <2>1
<1>5. Content(op.path)' = C /\ op'.old = C
  BY <1>1, <1>2, <1>3
<1>6. Progress(Content(op.path))'
  <2>1. /\ op'.old \in Seq(Units) /\ op'.pos <= Len(C) /\ Len(op'.old) <= Len(C)
        /\ \A i \in 1 .. Len(C) : /\ i <= op'.pos => C[i] = op'.host[i]
                                  /\ op'.pos < i /\ i <= Len(op'.old) => C[i] = op'.old[i]
        /\ Len(C) = Len(op'.old)
    BY <1>1, <1>4, <1>5
  <2> QED
    BY <1>5, <2>1 DEF Progress
<1>7. Grows'
  BY <1>2 DEF Grows
<1> QED
  BY <1>1, <1>2, <1>6, <1>7 DEF StoreInv

LEMMA BeginRemoveStore ==
    ASSUME TypeInv, StoreInv, NEW S, NEW k, Chained(S, k), NEW f \in Paths, BeginRemove(f)
    PROVE  /\ StoreInv' /\ pc' = "free" /\ op'.path = f /\ op'.host = Absent
           /\ f \in Files => op'.old = Content(f) /\ Content(f) # Absent
<1>1. /\ op'.path = f /\ op'.host = Absent
      /\ op'.old = IF f \in Files THEN Extracted(fat, entry, data, f) ELSE Absent
      /\ pc' = "free" /\ pc = "idle" /\ entry[f].live
  BY DEF BeginRemove, NoOp
<1>2. f \in Files => Content(f) \in Seq(Units) /\ Content(f) # Absent
  BY <1>1, OwnHolds
<1>3. f \in Files => op'.old = Content(f)
  BY <1>1 DEF Content
<1> QED
  BY <1>1, <1>2, <1>3 DEF StoreInv, Extending

LEMMA DirectoryStore ==
    ASSUME TypeInv, op'.path \in Dirs, pc' # "free"
    PROVE  StoreInv'
<1>1. op'.path \notin Files
  BY CommandAssumption
<1> QED
  BY <1>1 DEF StoreInv

\* What a step that goes on leaves alone of the command.
LEMMA StepOp ==
    ASSUME TypeInv, Step, pc' # "idle"
    PROVE  /\ pc # "idle" /\ op'.path = op.path /\ op'.host = op.host /\ op'.old = op.old
           /\ outcome' = outcome
           /\ ~SetEntry => op'.size = op.size
           /\ ~SetEntry /\ ~WriteData => op'.pos = op.pos
<1>1. op = [x \in OpFields |-> op[x]]
  BY DEF TypeInv, OpType
<1>2. ~InsertDone /\ ~ReserveFails /\ ~Unname
  BY DEF InsertDone, ReserveFails, Unname, Finish
<1>3. CASE Overwrite \/ LinkToLast
  BY <1>3 DEF Overwrite, LinkToLast
<1>4. CASE Reserve
  <2>1. PICK F, n, c : F = FreeClusters(NeededClusters) /\ n = FreeClusters(1)[1]
                       /\ c = (NeededClusters > 0 /\ op.first = 0)
    OBVIOUS
  <2>2. pc = "write" /\ outcome' = outcome
        /\ op' = [op EXCEPT !.clusters = F, !.first = IF c THEN n ELSE op.first,
                            !.cursor = op.first]
    BY <1>4, <2>1 DEF Reserve
  <2>3. op'.path = op.path /\ op'.host = op.host /\ op'.old = op.old
        /\ op'.size = op.size /\ op'.pos = op.pos
    BY ONLY <1>1, <2>2 DEF OpFields
  <2> QED
    BY <2>2, <2>3
<1>5. CASE Walk \/ Free
  <2>1. PICK n : n = ReadFAT(fat, op.cursor)
    OBVIOUS
  <2>2. pc \in {"walk", "free"} /\ outcome' = outcome /\ op' = [op EXCEPT !.cursor = n]
    BY <1>5, <2>1 DEF Walk, Free
  <2>3. op'.path = op.path /\ op'.host = op.host /\ op'.old = op.old
        /\ op'.size = op.size /\ op'.pos = op.pos
    BY ONLY <1>1, <2>2 DEF OpFields
  <2> QED
    BY <2>2, <2>3
<1>6. CASE Link
  <2>1. PICK rest : rest = Tail(op.clusters)
    OBVIOUS
  <2>2. pc = "link" /\ outcome' = outcome
        /\ op' = [op EXCEPT !.clusters = rest, !.cursor = 0]
    BY <1>6, <2>1 DEF Link
  <2>3. op'.path = op.path /\ op'.host = op.host /\ op'.old = op.old
        /\ op'.size = op.size /\ op'.pos = op.pos
    BY ONLY <1>1, <2>2 DEF OpFields
  <2> QED
    BY <2>2, <2>3
<1>7. CASE SetEntry
  <2>1. PICK t : t = Target
    OBVIOUS
  <2>2. /\ pc = "setentry" /\ outcome' = outcome
        /\ \/ op' = [op EXCEPT !.size = t, !.cursor = 0]
           \/ op' = [op EXCEPT !.size = t, !.pos = op.grow, !.cursor = 0]
    BY <1>7, <2>1 DEF SetEntry
  <2>3. op'.path = op.path /\ op'.host = op.host /\ op'.old = op.old
    <3>1. CASE op' = [op EXCEPT !.size = t, !.cursor = 0]
      BY ONLY <1>1, <3>1 DEF OpFields
    <3>2. CASE op' = [op EXCEPT !.size = t, !.pos = op.grow, !.cursor = 0]
      BY ONLY <1>1, <3>2 DEF OpFields
    <3> QED
      BY <2>2, <3>1, <3>2
  <2> QED
    BY <1>7, <2>2, <2>3
<1>8. CASE WriteData
  <2>1. pc = "data" /\ outcome' = outcome /\ op' = [op EXCEPT !.pos = op.pos + 1]
    BY <1>8 DEF WriteData, Finish
  <2>2. op'.path = op.path /\ op'.host = op.host /\ op'.old = op.old /\ op'.size = op.size
    BY ONLY <1>1, <2>1 DEF OpFields
  <2> QED
    BY <1>8, <2>1, <2>2
<1> QED
  BY <1>2, <1>3, <1>4, <1>5, <1>6, <1>7, <1>8 DEF Step

\* A step that leaves the contents and the position as they are.
LEMMA QuietProgress ==
    ASSUME TypeInv, StoreInv, Step, pc' # "idle", ~SetEntry, ~WriteData, pc # "data",
           NEW p \in Files, p = op.path, pc \in Extending, Content(p)' = Content(p)
    PROVE  Progress(Content(op.path))'
<1>1. /\ op'.path = p /\ op'.host = op.host /\ op'.old = op.old /\ op'.pos = op.pos
  BY StepOp
<1>2. Progress(Content(p))
  BY DEF StoreInv
<1>3. PICK C : C = Content(p) /\ C = Content(op.path)'
  BY <1>1
<1>4. Progress(C)
  BY <1>2, <1>3
<1>5. /\ op.old \in Seq(Units) /\ op.pos <= Len(C) /\ Len(op.old) <= Len(C)
      /\ \A i \in 1 .. Len(C) :
            /\ i <= op.pos => C[i] = op.host[i]
            /\ op.pos < i /\ i <= Len(op.old) => C[i] = op.old[i]
      /\ Len(C) = Len(op.old) \/ Len(C) = op.pos
  BY <1>4 DEF Progress
<1> QED
  BY <1>1, <1>3, <1>5 DEF Progress

\* Nothing but the linking of clusters and the entry depends on the growth.
LEMMA OverwriteStore ==
    ASSUME TypeInv, StoreInv, Overwrite
    PROVE  StoreInv'
<1>1. pc = "write" /\ pc' = "data" /\ op' = op /\ UNCHANGED <<fat, entry, data>> /\ ~IsDirectory
      /\ Target <= op.size
  BY DEF Overwrite, disks
<1>2. op.path \in Files /\ op.pos \in Nat /\ op.size \in Nat
  <2>1. op.path \in Paths
    BY <1>1 DEF TypeInv, OpOK
  <2> QED
    BY <1>1, <2>1 DEF IsDirectory, Paths, TypeInv, OpType
<1>3. ~SetEntry /\ ~WriteData /\ Step
  BY <1>1 DEF SetEntry, WriteData, Step
<1>4. Progress(Content(op.path))'
  <2>1. Content(op.path)' = Content(op.path)
    BY <1>1 DEF Content
  <2>2. PICK p \in Files : p = op.path
    BY <1>2
  <2>3. Content(p)' = Content(p)
    BY <1>1 DEF Content
  <2> QED
    BY <1>1, <1>3, <2>2, <2>3, QuietProgress DEF Extending
<1>5. Grows'
  BY <1>1, <1>2 DEF Grows, Target
<1> QED
  BY <1>1, <1>4, <1>5 DEF StoreInv

\* A command that needs clusters is at the end of its file.
LEMMA ReserveStore ==
    ASSUME TypeInv, StoreInv, NEW S, NEW k, Chained(S, k), Reserve, NEW p \in Files, p = op.path
    PROVE  StoreInv'
<1>1. /\ pc = "write" /\ UNCHANGED <<fat, entry, data>> /\ Target > op.size
      /\ pc' \in {"setentry", "link", "walk"}
  BY DEF Reserve
<1>2. ~SetEntry /\ ~WriteData /\ Step
  BY <1>1 DEF SetEntry, WriteData, Step
<1>3. /\ op'.path = p /\ op'.pos = op.pos /\ op'.size = op.size
  BY <1>1, <1>2, StepOp
<1>4. op.pos \in Nat /\ op.size \in Nat /\ p \in Paths
  BY DEF TypeInv, OpType, Paths
<1>5. ~IsDirectory /\ Target = op.pos + 1
  BY CommandAssumption DEF IsDirectory, Target
<1>6. /\ entry[p].live /\ op.size = entry[p].size /\ Clusters(op.size) = Len(S[p])
      /\ entry[p].first = First(S, p)
  <2>1. /\ entry[p].live /\ op.size = entry[p].size /\ Clusters(op.size) = Len(S[p])
    BY <1>1, <1>4 DEF Chained, Working
  <2> QED
    BY <1>1, <1>4, <2>1 DEF Chained, Named
<1>7. op.size = op.pos
  <2>1. Len(Content(p)) \in 0 .. op.size
    BY <1>1, <1>6, OwnHolds
  <2>2. op.pos <= Len(Content(p))
    BY <1>1 DEF StoreInv, Extending, Progress
  <2>3. PICK l : l = Len(Content(p))
    OBVIOUS
  <2> QED
    BY <1>1, <1>4, <1>5, <2>1, <2>2, <2>3
<1>8. entry[p].first = 0 => op.pos = 0
  <2> SUFFICES ASSUME entry[p].first = 0 PROVE op.pos = 0
    OBVIOUS
  <2>1. Len(S[p]) \in Nat /\ \A i \in 1 .. Len(S[p]) : S[p][i] \in 2 .. TableLast
    BY <1>4, ChainTypes DEF Chained
  <2>2. Len(S[p]) = 0
    <3>1. Len(S[p]) # 0 => 1 \in 1 .. Len(S[p])
      BY <2>1
    <3>2. S[p] = <<>> => Len(S[p]) = 0
      OBVIOUS
    <3> QED
      BY <1>6, <2>1, <3>1, <3>2 DEF First
  <2> QED
    BY <1>4, <1>6, <1>7, <2>2, NoClusters
<1>9. Len(op'.clusters) = Clusters(Target) - Clusters(op.size)
  <2>1. PICK n : n = NeededClusters
    OBVIOUS
  <2>2. n \in Nat /\ n = Clusters(Target) - Clusters(op.size)
    BY <1>1, <2>1, NeededType DEF Reserve, NeededClusters
  <2>3. n <= Cardinality(FreeFrom(0))
    BY <2>1 DEF Reserve
  <2>4. Len(FreeClusters(n)) = n
    BY <2>2, <2>3, FreeClustersFound
  <2>5. op'.clusters = FreeClusters(n)
    <3>1. PICK F, m, c : F = FreeClusters(NeededClusters) /\ m = FreeClusters(1)[1]
                         /\ c = (NeededClusters > 0 /\ op.first = 0)
      OBVIOUS
    <3>2. op' = [op EXCEPT !.clusters = F, !.first = IF c THEN m ELSE op.first,
                           !.cursor = op.first]
      BY <3>1 DEF Reserve
    <3>3. op = [x \in OpFields |-> op[x]]
      BY DEF TypeInv, OpType
    <3>4. op'.clusters = F
      BY ONLY <3>2, <3>3 DEF OpFields
    <3> QED
      BY <2>1, <3>1, <3>4
  <2> QED
    BY <2>2, <2>4, <2>5
<1>10. Target' = Target /\ Clusters(Target)' = Clusters(Target) /\ Clusters(op.size)' = Clusters(op.size)
  <2>1. Target' = Target
    BY <1>3 DEF Target, IsDirectory
  <2> QED
    BY <1>3, <2>1 DEF Clusters
<1>11. Clusters(op.size) + Len(op'.clusters) <= Clusters(Target)
  <2>1. Clusters(op.size) \in Nat /\ Clusters(Target) \in Nat
    BY <1>4, <1>5, ClustersType
  <2>2. PICK a, b, c : a = Clusters(op.size) /\ b = Clusters(Target) /\ c = Len(op'.clusters)
    OBVIOUS
  <2>3. a \in Nat /\ b \in Nat /\ c = b - a
    BY <1>9, <2>1, <2>2
  <2> QED
    BY ONLY <2>2, <2>3
<1>12. Grows'
  <2>1. (op.size = op.pos /\ (entry[op.path].first = 0 => op.pos = 0))'
    BY <1>1, <1>3, <1>7, <1>8
  <2>2. (Clusters(op.size) + Len(op.clusters) <= Clusters(Target))'
    BY <1>10, <1>11
  <2>3. pc' # "data"
    BY <1>1
  <2> QED
    BY ONLY <2>1, <2>2, <2>3 DEF Grows
<1>13. Progress(Content(op.path))'
  <2>1. Content(p)' = Content(p)
    BY <1>1 DEF Content
  <2> QED
    BY <1>1, <1>2, <2>1, QuietProgress DEF Extending
<1> QED
  BY <1>1, <1>12, <1>13 DEF StoreInv

\* The walk and the links leave what growth depends on.
LEMMA LinkingStore ==
    ASSUME TypeInv, StoreInv, NEW S, NEW k, Chained(S, k), Walk \/ LinkToLast \/ Link,
           NEW p \in Files, p = op.path
    PROVE  StoreInv'
<1>1. /\ pc \in {"walk", "link"} /\ entry' = entry /\ pc' \in {"walk", "link", "setentry"}
      /\ pc' = "setentry" \/ op'.clusters \in {op.clusters, Tail(op.clusters)}
  <2>1. op = [x \in OpFields |-> op[x]]
    BY DEF TypeInv, OpType
  <2>2. CASE Walk
    <3>1. PICK n : n = ReadFAT(fat, op.cursor)
      OBVIOUS
    <3>2. op' = [op EXCEPT !.cursor = n]
      BY <2>2, <3>1 DEF Walk
    <3>3. op'.clusters = op.clusters
      BY ONLY <2>1, <3>2 DEF OpFields
    <3> QED
      BY <2>2, <3>3 DEF Walk
  <2>3. CASE LinkToLast
    BY <2>3 DEF LinkToLast
  <2>4. CASE Link
    <3>1. PICK r : r = Tail(op.clusters)
      OBVIOUS
    <3>2. op' = [op EXCEPT !.clusters = r, !.cursor = 0]
      BY <2>4, <3>1 DEF Link
    <3>3. op'.clusters = r
      BY ONLY <2>1, <3>2 DEF OpFields
    <3> QED
      BY <2>4, <3>1, <3>3 DEF Link
  <2> QED
    BY <2>2, <2>3, <2>4
<1>2. ~SetEntry /\ ~WriteData /\ Step
  BY <1>1 DEF SetEntry, WriteData, Step
<1>3. /\ op'.path = p /\ op'.pos = op.pos /\ op'.size = op.size
  BY <1>1, <1>2, StepOp
<1>4. Content(p)' = Content(p)
  <2>1. CASE Walk
    BY <2>1 DEF Walk, Content
  <2>2. CASE LinkToLast \/ Link
    BY <2>2, OwnTable
  <2> QED
    BY <2>1, <2>2
<1>5. Progress(Content(op.path))'
  BY <1>1, <1>2, <1>4, QuietProgress DEF Extending
<1>6. Target' = Target /\ Clusters(Target)' = Clusters(Target) /\ Clusters(op.size)' = Clusters(op.size)
  <2>1. Target' = Target
    BY <1>3 DEF Target, IsDirectory
  <2> QED
    BY <1>3, <2>1 DEF Clusters
<1>7. /\ op.size = op.pos /\ (entry[op.path].first = 0 => op.pos = 0)
      /\ Clusters(op.size) + Len(op.clusters) <= Clusters(Target)
  BY <1>1 DEF StoreInv, Extending, Grows
<1>8. pc' \in {"walk", "link"} => Clusters(op.size) + Len(op'.clusters) <= Clusters(Target)
  <2> SUFFICES ASSUME pc' \in {"walk", "link"}
               PROVE  Clusters(op.size) + Len(op'.clusters) <= Clusters(Target)
    OBVIOUS
  <2>1. op.clusters \in Seq(0 .. TableLast) /\ op.clusters # <<>>
    BY <1>1 DEF TypeInv, OpType, OpOK
  <2>2. Len(op.clusters) \in Nat /\ Len(Tail(op.clusters)) = Len(op.clusters) - 1
    BY <2>1, HeadAndTail
  <2>3. Clusters(op.size) \in Nat /\ Clusters(Target) \in Nat
    <3>1. op.size \in Nat /\ op.pos \in Nat
      BY DEF TypeInv, OpType
    <3>2. Target \in Nat
      BY <3>1 DEF Target
    <3> QED
      BY <3>1, <3>2, ClustersType
  <2>4. Len(op'.clusters) \in {Len(op.clusters), Len(op.clusters) - 1}
    BY <1>1, <2>2
  <2>5. PICK a, b, c, d : /\ a = Clusters(op.size) /\ b = Clusters(Target)
                          /\ c = Len(op.clusters) /\ d = Len(op'.clusters)
    OBVIOUS
  <2>6. a \in Nat /\ b \in Nat /\ c \in Nat /\ d \in {c, c - 1} /\ a + c <= b
    BY <1>7, <2>2, <2>3, <2>4, <2>5
  <2>7. a + d <= b
    BY ONLY <2>6
  <2> QED
    BY <2>5, <2>7
<1>9. Grows'
  <2>1. (op.size = op.pos /\ (entry[op.path].first = 0 => op.pos = 0))'
    BY <1>1, <1>3, <1>7
  <2>2. (pc \in {"walk", "link"} => Clusters(op.size) + Len(op.clusters) <= Clusters(Target))'
    BY <1>6, <1>8
  <2>3. pc' # "data"
    BY <1>1
  <2> QED
    BY ONLY <2>1, <2>2, <2>3 DEF Grows
<1> QED
  BY <1>1, <1>5, <1>9 DEF StoreInv

\* The entry grows by the unit that is written next.
LEMMA SetEntryStore ==
    ASSUME TypeInv, StoreInv, NEW S, NEW k, Chained(S, k), SetEntry, NEW p \in Files, p = op.path
    PROVE  StoreInv'
<1>1. ~IsDirectory /\ Target = op.pos + 1 /\ op.pos \in Nat
  BY CommandAssumption DEF IsDirectory, Target, TypeInv, OpType
<1>2. pc = "setentry" /\ pc' = "data" /\ op' = [op EXCEPT !.size = op.pos + 1, !.cursor = 0]
  BY <1>1 DEF SetEntry
<1>3. /\ op'.path = p /\ op'.host = op.host /\ op'.old = op.old /\ op'.pos = op.pos
      /\ op'.size = op.pos + 1
  <2>1. op = [x \in OpFields |-> op[x]]
    BY DEF TypeInv, OpType
  <2>2. op'.path = op.path /\ op'.host = op.host /\ op'.old = op.old /\ op'.pos = op.pos
        /\ op'.size = op.pos + 1
    BY ONLY <1>2, <2>1 DEF OpFields
  <2> QED
    BY <2>2
<1>4. PICK C, D : C = Content(p) /\ D = Content(p)'
  OBVIOUS
<1>5. Len(C) = op.pos /\ Grown(C, D, op.pos)
  BY <1>4, OwnEntry
<1>6. Progress(C)
  BY <1>2, <1>4 DEF StoreInv, Extending
<1>7. D = Content(op.path)'
  BY <1>3, <1>4
<1>8. D \in Seq(Units) /\ Len(D) \in {op.pos, op.pos + 1} /\ \A i \in 1 .. op.pos : D[i] = C[i]
  BY <1>5 DEF Grown
<1>9. /\ op.old \in Seq(Units) /\ Len(op.old) <= op.pos
      /\ \A i \in 1 .. op.pos : C[i] = op.host[i]
  BY <1>1, <1>5, <1>6 DEF Progress
<1>10. PICK l, o : l = Len(D) /\ o = Len(op.old)
  OBVIOUS
<1>11. o \in Nat /\ o <= op.pos /\ l \in {op.pos, op.pos + 1}
  BY <1>8, <1>9, <1>10
<1>12. \A i \in 1 .. l : /\ i <= op.pos => D[i] = op.host[i]
                         /\ op.pos < i /\ i <= o => D[i] = op.old[i]
  <2> SUFFICES ASSUME NEW i \in 1 .. l
               PROVE  /\ i <= op.pos => D[i] = op.host[i]
                      /\ op.pos < i /\ i <= o => D[i] = op.old[i]
    OBVIOUS
  <2>1. i \in Nat /\ i >= 1
    BY <1>1, <1>11
  <2>2. i <= op.pos => i \in 1 .. op.pos
    BY ONLY <1>1, <2>1
  <2>3. ~(op.pos < i /\ i <= o)
    BY ONLY <1>1, <1>11, <2>1
  <2> QED
    BY <1>8, <1>9, <2>2, <2>3
<1>13. Progress(Content(op.path))'
  <2>1. op.pos <= l /\ o <= l
    BY ONLY <1>1, <1>11
  <2>2. /\ op'.old \in Seq(Units) /\ op'.pos <= Len(D) /\ Len(op'.old) <= Len(D)
        /\ \A i \in 1 .. Len(D) : /\ i <= op'.pos => D[i] = op'.host[i]
                                  /\ op'.pos < i /\ i <= Len(op'.old) => D[i] = op'.old[i]
        /\ Len(D) = op'.pos \/ (pc' = "data" /\ Len(D) = op'.pos + 1)
    BY <1>2, <1>3, <1>9, <1>10, <1>11, <1>12, <2>1
  <2> QED
    BY ONLY <1>7, <2>2 DEF Progress
<1>14. Grows'
  BY <1>1, <1>2, <1>3 DEF Grows
<1> QED
  BY <1>2, <1>13, <1>14 DEF StoreInv

\* The unit is the host file's next.
LEMMA WriteDataStore ==
    ASSUME TypeInv, StoreInv, NEW S, NEW k, Chained(S, k), WriteData, pc' # "idle",
           NEW p \in Files, p = op.path
    PROVE  StoreInv'
<1>1. /\ pc = "data" /\ ClusterOf(fat, op.first, op.pos) # 0 /\ pc' = "write"
      /\ op' = [op EXCEPT !.pos = op.pos + 1]
  BY DEF WriteData, Finish
<1>2. /\ op'.path = p /\ op'.host = op.host /\ op'.old = op.old /\ op'.pos = op.pos + 1
  <2>1. op = [x \in OpFields |-> op[x]]
    BY DEF TypeInv, OpType
  <2>2. op'.path = op.path /\ op'.host = op.host /\ op'.old = op.old /\ op'.pos = op.pos + 1
    BY ONLY <1>1, <2>1 DEF OpFields
  <2> QED
    BY <2>2
<1>3. PICK C, D, v : C = Content(p) /\ D = Content(p)' /\ v = op.host[op.pos + 1]
  OBVIOUS
<1>4. Overwritten(C, D, op.pos, v)
  BY <1>1, <1>3, OwnUnit
<1>5. Progress(C) /\ op.pos \in Nat
  BY <1>1, <1>3 DEF StoreInv, Extending, TypeInv, OpType
<1>6. D = Content(op.path)'
  BY <1>2, <1>3
<1>7. PICK l, o : l = Len(C) /\ o = Len(op.old)
  OBVIOUS
<1>8. /\ op.old \in Seq(Units) /\ o <= l
      /\ \A i \in 1 .. l : /\ i <= op.pos => C[i] = op.host[i]
                           /\ op.pos < i /\ i <= o => C[i] = op.old[i]
      /\ l = o \/ l = op.pos \/ l = op.pos + 1
  BY <1>5, <1>7 DEF Progress
<1>9. /\ D \in Seq(Units) /\ Len(D) = l /\ op.pos < l /\ D[op.pos + 1] = v
      /\ \A i \in 1 .. l : i # op.pos + 1 => D[i] = C[i]
      /\ C \in Seq(Units)
  BY <1>4, <1>7 DEF Overwritten
<1>10. l \in Nat /\ o \in Nat
  BY <1>7, <1>8, <1>9
<1>11. \A i \in 1 .. l : /\ i <= op.pos + 1 => D[i] = op.host[i]
                         /\ op.pos + 1 < i /\ i <= o => D[i] = op.old[i]
  <2> SUFFICES ASSUME NEW i \in 1 .. l
               PROVE  /\ i <= op.pos + 1 => D[i] = op.host[i]
                      /\ op.pos + 1 < i /\ i <= o => D[i] = op.old[i]
    OBVIOUS
  <2>1. CASE i = op.pos + 1
    BY <1>3, <1>5, <1>9, <2>1
  <2>2. CASE i # op.pos + 1
    <3>1. D[i] = C[i] /\ (i <= op.pos => C[i] = op.host[i])
          /\ (op.pos < i /\ i <= o => C[i] = op.old[i])
      BY <1>8, <1>9, <2>2
    <3>2. /\ i <= op.pos + 1 => i <= op.pos
          /\ op.pos + 1 < i => op.pos < i
      BY <1>5, <1>10, <2>2
    <3> QED
      BY <3>1, <3>2
  <2> QED
    BY <2>1, <2>2
<1>12. op.pos + 1 <= l /\ (l = o \/ l = op.pos + 1)
  BY ONLY <1>5, <1>8, <1>9, <1>10
<1>13. Progress(Content(op.path))'
  <2>1. /\ op'.old \in Seq(Units) /\ op'.pos <= Len(D) /\ Len(op'.old) <= Len(D)
        /\ \A i \in 1 .. Len(D) : /\ i <= op'.pos => D[i] = op'.host[i]
                                  /\ op'.pos < i /\ i <= Len(op'.old) => D[i] = op'.old[i]
        /\ Len(D) = Len(op'.old) \/ Len(D) = op'.pos
    BY <1>2, <1>7, <1>8, <1>9, <1>11, <1>12
  <2> QED
    BY ONLY <1>6, <2>1 DEF Progress
<1>14. Grows'
  BY <1>1 DEF Grows
<1> QED
  BY <1>1, <1>13, <1>14 DEF StoreInv

LEMMA FreeStore ==
    ASSUME TypeInv, StoreInv, Free
    PROVE  StoreInv'
<1>1. pc = "free" /\ pc' = "free" /\ Step /\ ~SetEntry /\ ~WriteData
  BY DEF Free, Step, SetEntry, WriteData
<1>2. op'.path = op.path /\ op'.host = op.host /\ op'.old = op.old
  BY <1>1, StepOp
<1> QED
  BY <1>1, <1>2 DEF StoreInv, Extending

\* Every step of a command keeps it.
LEMMA StepStore ==
    ASSUME TypeInv, StoreInv, NEW S, NEW k, Chained(S, k), Step
    PROVE  StoreInv'
<1>1. CASE pc' = "idle"
  BY <1>1, IdleStore
<1>2. CASE pc' # "idle" /\ op.path \in Dirs /\ ~Free
  <2>1. op'.path = op.path
    BY <1>2, StepOp
  <2>2. pc' # "free"
    BY <1>2 DEF Step, InsertDone, Overwrite, Reserve, ReserveFails, Walk, LinkToLast, Link,
                SetEntry, WriteData, Unname, Finish
  <2> QED
    BY <1>2, <2>1, <2>2, DirectoryStore
<1>3. CASE Free
  BY <1>3, FreeStore
<1>4. CASE pc' # "idle" /\ op.path \notin Dirs
  <2>1. op.path \in Files
    <3>1. pc # "idle"
      BY <1>4, StepOp
    <3> QED
      BY <1>4, <3>1 DEF TypeInv, OpOK, Paths
  <2>2. ~InsertDone /\ ~ReserveFails /\ ~Unname
    BY <1>4 DEF InsertDone, ReserveFails, Unname, Finish
  <2> QED
    BY <1>4, <2>1, <2>2, OverwriteStore, ReserveStore, LinkingStore, SetEntryStore,
       WriteDataStore, FreeStore DEF Step
<1> QED
  BY <1>1, <1>2, <1>3, <1>4

-----------------------------------------------------------------------------
(* Every step is one of FileStore, or none.                                 *)

Contents == [f \in Files |-> Content(f)]

Command ==
    IF pc = "idle" \/ op.path \in Dirs THEN Nobody
    ELSE [file |-> op.path, old |-> op.old, host |-> op.host]

\* What FileStore sees.
LEMMA StoreView ==
    /\ Store!vars = <<Contents, Command, outcome>>
    /\ Store!vars' = <<Contents', Command', outcome'>>
  BY DEF Store!vars, Contents, Content, Command

LEMMA FileCommand ==
    ASSUME TypeInv, StoreInv, pc \notin {"idle", "overrun"}, op.path \in Files
    PROVE  /\ Command = [file |-> op.path, old |-> op.old, host |-> op.host]
           /\ Command # Nobody
           /\ Command.file = op.path /\ Command.old = op.old /\ Command.host = op.host
<1>1. op.path \notin Dirs
  BY CommandAssumption
<1>2. Command = [file |-> op.path, old |-> op.old, host |-> op.host]
  BY <1>1 DEF Command
<1>3. op.old \in Seq(Units) /\ op.host \in Hosts \cup {Absent}
  BY OldKnown
<1>4. Command \in [file : Files, old : Seq(Units) \cup {Absent}, host : Hosts \cup {Absent}]
  BY <1>2, <1>3
<1> QED
  BY <1>2, <1>4, StoreAssumption

LEMMA InitStore == Init => StoreInv /\ Store!Init
<1> SUFFICES ASSUME Init PROVE StoreInv /\ Store!Init
  OBVIOUS
<1>1. StoreInv
  BY DEF Init, StoreInv, Extending
<1>2. \A f \in Files : ~entry[f].live
  BY DEF Init, NoEntry, Paths
<1>3. \A f \in Files : Extracted(fat, entry, data, f) = Absent
  BY <1>2 DEF Extracted
<1>4. Store!Init
  BY <1>3 DEF Store!Init, Init
<1> QED
  BY <1>1, <1>4

\* A session opens and closes unseen.
LEMMA SessionUnseen ==
    ASSUME \/ \E command \in {"insert", "remove"} : Open(command)
           \/ CloseInfo \/ CloseTable \/ UNCHANGED vars
    PROVE  UNCHANGED Store!vars
<1>1. UNCHANGED <<fat, entry, data, pc, op, outcome>>
  BY DEF Open, CloseInfo, CloseTable, vars, disks
<1>2. Contents' = Contents /\ Command' = Command
  BY <1>1 DEF Contents, Content, Command
<1> QED
  BY <1>1, <1>2, StoreView

\* An insertion finds its file, or makes an empty one.
LEMMA InsertBegins ==
    ASSUME TypeInv, StoreInv, NEW S, NEW k, Chained(S, k), NEW f \in Files, NEW host \in Hosts,
           BeginInsert(f, host), TypeInv'
    PROVE  Store!BeginInsert(f, host)
<1>1. /\ \A g \in Files : g # f => Content(g)' = Content(g)
      /\ entry[f].live => Content(f)' = Content(f) /\ Content(f) # Absent
      /\ ~entry[f].live => Content(f)' = <<>> /\ Content(f) = Absent
  BY BeginInsertContent
<1>2. Command = Nobody /\ outcome' = "none"
  BY DEF BeginInsert, Command
<1>3. Contents' = [Contents EXCEPT ![f] = IF @ = Absent THEN <<>> ELSE @]
  <2>1. Contents' = [g \in Files |-> Content(g)']
    BY DEF Contents
  <2>2. \A g \in Files : Content(g)' = IF g = f THEN (IF Content(f) = Absent THEN <<>> ELSE Content(f))
                                       ELSE Content(g)
    BY <1>1
  <2> QED
    BY <2>1, <2>2 DEF Contents
<1>4. Command' = [file |-> f, old |-> Contents'[f], host |-> host]
  <2>1. /\ pc' = "write" /\ op'.path = f /\ op'.host = host /\ op'.old = Content(f)'
    BY BeginInsertStore
  <2>2. f \notin Dirs /\ Contents'[f] = Content(f)'
    BY CommandAssumption DEF Contents
  <2>3. Command' = IF pc' = "idle" \/ op'.path \in Dirs THEN Nobody
                   ELSE [file |-> op'.path, old |-> op'.old, host |-> op'.host]
    BY DEF Command
  <2> QED
    BY <2>1, <2>2, <2>3
<1> QED
  BY <1>2, <1>3, <1>4 DEF Store!BeginInsert, Contents, Content, Command

\* A removal finds its file; that of a directory is not seen.
LEMMA RemovalBegins ==
    ASSUME TypeInv, StoreInv, NEW S, NEW k, Chained(S, k), NEW f \in Paths, BeginRemove(f)
    PROVE  (f \in Files /\ Store!BeginRemove(f)) \/ UNCHANGED Store!vars
<1>1. /\ pc = "idle" /\ UNCHANGED <<fat, entry, data>>
      /\ outcome' = IF f \in Files THEN "none" ELSE outcome
  BY DEF BeginRemove, disks
<1>2. /\ pc' = "free" /\ op'.path = f /\ op'.host = Absent
      /\ f \in Files => op'.old = Content(f) /\ Content(f) # Absent
  BY BeginRemoveStore
<1>3. Contents' = Contents /\ Command = Nobody
  BY <1>1 DEF Contents, Content, Command
<1>4. Command' = IF pc' = "idle" \/ op'.path \in Dirs THEN Nobody
                 ELSE [file |-> op'.path, old |-> op'.old, host |-> op'.host]
  BY DEF Command
<1>5. CASE f \in Files
  <2>1. f \notin Dirs /\ Contents[f] = Content(f)
    BY <1>5, CommandAssumption DEF Contents
  <2>2. Command' = [file |-> f, old |-> Contents[f], host |-> Absent]
    BY <1>2, <1>4, <1>5, <2>1
  <2>3. Contents[f] # Absent /\ outcome' = "none"
    BY <1>1, <1>2, <1>5, <2>1
  <2>4. Store!BeginRemove(f)
    BY <1>3, <2>2, <2>3 DEF Store!BeginRemove, Contents, Content, Command
  <2> QED
    BY <1>5, <2>4
<1>6. CASE f \notin Files
  <2>1. f \in Dirs /\ outcome' = outcome
    BY <1>1, <1>6 DEF Paths
  <2>2. Command' = Nobody
    BY <1>2, <1>4, <2>1
  <2> QED
    BY <1>3, <2>1, <2>2, StoreView
<1> QED
  BY <1>5, <1>6

\* A new directory is not seen.
LEMMA DirectoryBegins ==
    ASSUME TypeInv, NEW d \in Dirs, NEW size \in DirSizes, BeginDirectory(d, size)
    PROVE  UNCHANGED Store!vars
<1>1. /\ pc = "idle" /\ UNCHANGED <<fat, data, outcome>> /\ op'.path = d
      /\ entry' = [entry EXCEPT ![d] = [NoEntry EXCEPT !.live = TRUE]]
      /\ DOMAIN entry = Paths
  BY DEF BeginDirectory, NoOp, TypeInv, TypeOK
<1>2. \A f \in Files : Content(f)' = Content(f)
  <2> SUFFICES ASSUME NEW f \in Files PROVE Content(f)' = Content(f)
    OBVIOUS
  <2>1. entry'[f] = entry[f]
    BY <1>1, CommandAssumption DEF Paths
  <2>2. Extracted(fat, entry', data, f) = Extracted(fat, entry, data, f)
    BY <2>1, SameEntry
  <2> QED
    BY <1>1, <2>2 DEF Content
<1>3. Contents' = Contents
  BY <1>2 DEF Contents
<1>4. Command' = Nobody /\ Command = Nobody
  BY <1>1 DEF Command
<1> QED
  BY <1>1, <1>3, <1>4, StoreView

\* While it works, a command touches no file but its own.
LEMMA Works ==
    ASSUME TypeInv, StoreInv, NEW S, NEW k, Chained(S, k), Step,
           pc' # "idle" \/ op.path \in Dirs
    PROVE  Store!Work \/ UNCHANGED Store!vars
<1>1. \A f \in Files : f # op.path => Content(f)' = Content(f)
  BY OthersKeep
<1>2. pc \notin {"idle", "overrun"} /\ op.path \in Paths
  <2>1. pc \notin {"idle", "overrun"}
    BY DEF Step, InsertDone, Overwrite, Reserve, ReserveFails, TableFull, Walk,
           LinkToLast, Link, SetEntry, WriteData, Free, Unname
  <2> QED
    BY <2>1 DEF TypeInv, OpOK
<1>3. CASE op.path \in Dirs
  <2>1. \A f \in Files : Content(f)' = Content(f)
    BY <1>1, <1>3, CommandAssumption
  <2>2. Contents' = Contents
    BY <2>1 DEF Contents
  <2>3. pc' # "idle" => op'.path = op.path
    BY StepOp
  <2>4. Command = Nobody /\ Command' = Nobody
    BY <1>3, <2>3 DEF Command
  <2>5. outcome' = outcome
    <3>1. CASE pc' # "idle"
      BY <3>1, StepOp
    <3>2. CASE pc' = "idle"
      <4>1. IsDirectory /\ op.path \notin Files /\ pc # "data"
        BY <1>3, CommandAssumption DEF IsDirectory, TypeInv, OpOK
      <4>2. ~InsertDone /\ ~WriteData
        BY <4>1 DEF InsertDone, EndOfHost, WriteData
      <4>3. CASE ReserveFails \/ Unname
        BY <4>1, <4>3 DEF ReserveFails, Unname, Finish
      <4>4. CASE ~(ReserveFails \/ Unname)
        BY <4>2, <4>4 DEF Step, Overwrite, Reserve, Walk, LinkToLast, Link, SetEntry, Free
      <4> QED
        BY <4>3, <4>4
    <3> QED
      BY <3>1, <3>2
  <2> QED
    BY <2>2, <2>4, <2>5, StoreView
<1>4. CASE op.path \in Files
  <2>1. pc' # "idle" /\ op.path \notin Dirs
    BY <1>4, CommandAssumption
  <2>2. op'.path = op.path /\ op'.host = op.host /\ op'.old = op.old /\ outcome' = outcome
    BY <2>1, StepOp
  <2>3. Command' = Command
    BY <1>2, <2>1, <2>2 DEF Command
  <2>4. Command # Nobody /\ Command.file = op.path
    BY <1>2, <1>4, FileCommand
  <2>5. DOMAIN Contents' = Files /\ \A g \in Files \ {Command.file} : Contents'[g] = Contents[g]
    BY <1>1, <2>4 DEF Contents
  <2>6. Store!Work
    BY <2>2, <2>3, <2>4, <2>5 DEF Store!Work, Store!OthersKept, Contents, Content, Command
  <2> QED
    BY <2>6
<1> QED
  BY <1>2, <1>3, <1>4 DEF Paths

\* Sequences with the same elements are the same.
LEMMA SameElements ==
    ASSUME NEW T, NEW s \in Seq(T), NEW t \in Seq(T), Len(s) = Len(t),
           \A i \in 1 .. Len(s) : s[i] = t[i]
    PROVE  s = t
<1>1. s = [i \in 1 .. Len(s) |-> s[i]] /\ t = [i \in 1 .. Len(t) |-> t[i]]
  OBVIOUS
<1> QED
  BY <1>1

\* When the host file is at its end, the file holds it and what was behind.
LEMMA Inserted ==
    ASSUME NEW T, NEW host \in Seq(T), NEW old \in Seq(T), NEW C \in Seq(T),
           Len(host) <= Len(C), Len(old) <= Len(C),
           \A i \in 1 .. Len(C) :
              /\ i <= Len(host) => C[i] = host[i]
              /\ Len(host) < i /\ i <= Len(old) => C[i] = old[i],
           Len(C) = Len(old) \/ Len(C) = Len(host)
    PROVE  C = Store!Overlay(host, old)
<1>1. PICK h, o, l : h = Len(host) /\ o = Len(old) /\ l = Len(C)
  OBVIOUS
<1>2. h \in Nat /\ o \in Nat /\ l \in Nat
  BY <1>1
<1>3. CASE o > h
  <2>1. PICK t : t = SubSeq(old, h + 1, o)
    OBVIOUS
  <2>2. /\ t \in Seq(T) /\ Len(t) = o - h /\ \A i \in 1 .. o - h : t[i] = old[h + i]
    <3>1. h + 1 \in 1 .. o /\ o \in 1 .. Len(old)
      BY <1>1, <1>2, <1>3
    <3>2. t = [i \in 1 .. o - h |-> old[h + i]]
      BY <1>1, <1>2, <1>3, <2>1
    <3>3. \A i \in 1 .. o - h : h + i \in 1 .. Len(old)
      BY <1>1, <1>2
    <3>4. \A i \in 1 .. o - h : old[h + i] \in T
      BY <3>3
    <3>5. o - h \in Nat
      BY <1>2, <1>3
    <3>6. PICK n : n = o - h
      OBVIOUS
    <3>7. n \in Nat /\ t \in [1 .. n -> T]
      <4>1. t = [i \in 1 .. n |-> old[h + i]] /\ \A i \in 1 .. n : old[h + i] \in T
        BY <3>2, <3>4, <3>6
      <4> QED
        BY ONLY <3>5, <3>6, <4>1
    <3>8. t \in Seq(T) /\ Len(t) = n
      BY ONLY <3>7, FunctionIsSeq
    <3> QED
      BY <3>2, <3>6, <3>8
  <2>3. /\ host \o t \in Seq(T) /\ Len(host \o t) = h + (o - h)
        /\ \A i \in 1 .. h : (host \o t)[i] = host[i]
        /\ \A i \in 1 .. o - h : (host \o t)[h + i] = t[i]
    BY <1>1, <2>2, Joined
  <2>4. l = o
    BY <1>1, <1>2, <1>3
  <2>5. \A i \in 1 .. l : C[i] = (host \o t)[i]
    <3> SUFFICES ASSUME NEW i \in 1 .. l PROVE C[i] = (host \o t)[i]
      OBVIOUS
    <3>1. CASE i <= h
      BY <1>1, <1>2, <2>3, <3>1
    <3>2. CASE i > h
      <4>1. PICK j : j = i - h
        OBVIOUS
      <4>2. j \in 1 .. o - h /\ i = h + j /\ i <= o
        BY <1>2, <2>4, <3>2, <4>1
      <4>3. C[i] = old[i] /\ (host \o t)[i] = t[j] /\ t[j] = old[h + j]
        BY <1>1, <2>2, <2>3, <3>2, <4>2
      <4> QED
        BY <4>2, <4>3
    <3>3. i <= h \/ i > h
      BY <1>2
    <3> QED
      BY <3>1, <3>2, <3>3
  <2>6. Len(host \o t) = l
    BY <1>2, <1>3, <2>3, <2>4
  <2>7. C = host \o t
    BY <1>1, <2>3, <2>5, <2>6, SameElements
  <2> QED
    BY <1>1, <1>3, <2>1, <2>7 DEF Store!Overlay
<1>4. CASE ~(o > h)
  <2>1. l = h
    BY <1>1, <1>2, <1>4
  <2>2. C = host
    <3>1. \A i \in 1 .. l : C[i] = host[i]
      BY <1>1, <1>2, <2>1
    <3> QED
      BY <1>1, <2>1, <3>1, SameElements
  <2>3. host \o <<>> = host
    OBVIOUS
  <2> QED
    BY <1>1, <1>4, <2>2, <2>3 DEF Store!Overlay
<1> QED
  BY <1>3, <1>4

LEMMA InsertSucceeds ==
    ASSUME TypeInv, StoreInv, NEW S, NEW k, Chained(S, k), InsertDone
    PROVE  Store!Succeed
<1>1. /\ pc = "write" /\ pc' = "idle" /\ outcome' = "ok" /\ UNCHANGED <<fat, entry, data>>
      /\ ~IsDirectory /\ op.pos = Len(op.host)
  BY DEF InsertDone, Finish, EndOfHost
<1>2. PICK p : p = op.path
  OBVIOUS
<1>3. p \in Files /\ op.host \in Hosts /\ op.host \in Seq(Units) /\ op.host # Absent
  <2>1. p \in Paths
    BY <1>1, <1>2 DEF TypeInv, OpOK
  <2>2. p \in Files
    BY <1>1, <1>2, <2>1 DEF IsDirectory, Paths
  <2>3. op.host \in Hosts
    BY <1>1, <1>2, <2>2 DEF TypeInv, OpOK, Extending
  <2> QED
    BY <2>2, <2>3, HostUnits, StoreAssumption
<1>4. PICK C : C = Content(p)
  OBVIOUS
<1>5. Progress(C)
  BY <1>1, <1>2, <1>3, <1>4 DEF StoreInv, Extending
<1>6. C \in Seq(Units)
  <2>1. entry[p].live /\ ~(pc = "free" /\ p = op.path)
    BY <1>1, <1>2 DEF Chained, Working
  <2> QED
    BY <1>3, <1>4, <2>1, OwnHolds
<1>7. C = Store!Overlay(op.host, op.old)
  <2>1. /\ op.old \in Seq(Units) /\ Len(op.host) <= Len(C) /\ Len(op.old) <= Len(C)
        /\ \A i \in 1 .. Len(C) :
              /\ i <= Len(op.host) => C[i] = op.host[i]
              /\ Len(op.host) < i /\ i <= Len(op.old) => C[i] = op.old[i]
        /\ Len(C) = Len(op.old) \/ Len(C) = Len(op.host)
    BY <1>1, <1>5 DEF Progress
  <2>2. PICK host, old : host = op.host /\ old = op.old
    OBVIOUS
  <2>3. C = Store!Overlay(host, old)
    BY ONLY <1>3, <1>6, <2>1, <2>2, Inserted
  <2> QED
    BY <2>2, <2>3
<1>8. /\ Command # Nobody /\ Command.file = p /\ Command.old = op.old
      /\ Command.host = op.host
  BY <1>1, <1>2, <1>3, FileCommand
<1>9. Command' = Nobody /\ Contents' = Contents
  BY <1>1 DEF Command, Contents, Content
<1>10. Contents' = [Contents EXCEPT ![Command.file] =
                      IF Command.host = Absent THEN Absent
                      ELSE Store!Overlay(Command.host, Command.old)]
  <2>1. Contents[p] = Store!Overlay(Command.host, Command.old) /\ Command.host # Absent
    BY <1>3, <1>4, <1>7, <1>8 DEF Contents
  <2>2. Contents = [Contents EXCEPT ![p] = Contents[p]]
    BY DEF Contents
  <2> QED
    BY <1>8, <1>9, <2>1, <2>2
<1> QED
  BY <1>1, <1>8, <1>9, <1>10 DEF Store!Succeed, Contents, Content, Command

LEMMA RemovalSucceeds ==
    ASSUME TypeInv, StoreInv, NEW S, NEW k, Chained(S, k), Unname, op.path \in Files
    PROVE  Store!Succeed
<1>1. PICK p : p = op.path
  OBVIOUS
<1>2. /\ pc = "free" /\ pc' = "idle" /\ outcome' = "ok" /\ UNCHANGED <<fat, data>>
      /\ entry' = [entry EXCEPT ![p].live = FALSE]
  BY <1>1 DEF Unname, Finish
<1>3. ~entry'[p].live
  <2>1. p \in Paths /\ entry \in [Paths -> [live : BOOLEAN, first : 0 .. TableLast, size : Nat]]
    BY <1>1 DEF Paths, TypeInv, TypeOK
  <2>2. entry'[p].live = FALSE
    BY ONLY <1>2, <2>1
  <2> QED
    BY <2>2
<1>4. Content(p)' = Absent
  <2>1. Content(p)' = Extracted(fat', entry', data', p)
    BY DEF Content
  <2> QED
    BY <1>3, <2>1 DEF Extracted
<1>5. \A f \in Files : f # p => Content(f)' = Content(f)
  <2>1. Step
    BY DEF Step
  <2> QED
    BY <1>1, <2>1, OthersKeep
<1>6. /\ Command # Nobody /\ Command.file = p /\ Command.host = Absent
  <2>1. op.host = Absent
    BY <1>2 DEF StoreInv
  <2> QED
    BY <1>1, <1>2, <2>1, FileCommand
<1>7. Command' = Nobody
  BY <1>2 DEF Command
<1>8. Contents' = [Contents EXCEPT ![Command.file] =
                      IF Command.host = Absent THEN Absent
                      ELSE Store!Overlay(Command.host, Command.old)]
  <2>1. Contents' = [f \in Files |-> Content(f)']
    BY DEF Contents
  <2>2. \A f \in Files : Content(f)' = IF f = p THEN Absent ELSE Content(f)
    BY <1>4, <1>5
  <2>3. Contents' = [Contents EXCEPT ![p] = Absent]
    BY <2>1, <2>2 DEF Contents
  <2> QED
    BY <1>6, <2>3
<1> QED
  BY <1>2, <1>6, <1>7, <1>8 DEF Store!Succeed, Contents, Content, Command

\* An insertion that fails leaves a file.
LEMMA InsertFails ==
    ASSUME TypeInv, StoreInv, NEW S, NEW k, Chained(S, k), ReserveFails \/ WriteData,
           pc' = "idle", op.path \in Files
    PROVE  Store!Fail
<1>1. PICK p : p = op.path
  OBVIOUS
<1>2. ~IsDirectory
  BY CommandAssumption DEF IsDirectory
<1>3. /\ pc \in {"write", "data"} /\ outcome' = "error" /\ UNCHANGED <<fat, entry, data>>
  BY <1>2 DEF ReserveFails, TableFull, WriteData, Finish
<1>4. Content(p) # Absent
  <2>1. entry[p].live /\ ~(pc = "free" /\ p = op.path)
    BY <1>1, <1>3 DEF Chained, Working
  <2> QED
    BY <1>1, <2>1, OwnHolds
<1>5. /\ Command # Nobody /\ Command.file = p /\ Command.host # Absent
  <2>1. op.host \in Hosts
    BY <1>1, <1>3 DEF TypeInv, OpOK, Extending
  <2>2. op.host # Absent
    BY <2>1, HostUnits, StoreAssumption
  <2> QED
    BY <1>1, <1>3, <2>2, FileCommand
<1>6. Command' = Nobody /\ Contents' = Contents
  BY <1>3 DEF Command, Contents, Content
<1>7. DOMAIN Contents' = Files /\ Contents'[p] # Absent
      /\ \A f \in Files \ {Command.file} : Contents'[f] = Contents[f]
  BY <1>1, <1>4, <1>6 DEF Contents
<1> QED
  BY <1>3, <1>5, <1>6, <1>7 DEF Store!Fail, Store!OthersKept, Contents, Content, Command

\* What happens behind the table FileStore leaves open.
LEMMA OverrunOfStore ==
    ASSUME TypeInv, Overrun
    PROVE  StoreInv' /\ Store!Overrun
<1>1. /\ pc = "write" /\ pc' = "overrun" /\ outcome' = "overrun" /\ SearchLast > TableLast
      /\ UNCHANGED <<fat, entry, data, op>>
  BY DEF Overrun, TableFull
<1>2. Contents' = Contents /\ Command' = Command
  BY <1>1 DEF Contents, Content, Command
<1>3. Store!Overrun
  BY <1>1, <1>2 DEF Store!Overrun, Contents, Content, Command
<1> QED
  BY <1>1, <1>3 DEF StoreInv, Extending

LEMMA StepOfStore ==
    ASSUME TypeInv, StoreInv, NEW S, NEW k, Chained(S, k), Step
    PROVE  [Store!Next]_Store!vars
<1>1. CASE pc' # "idle" \/ op.path \in Dirs
  BY <1>1, Works DEF Store!Next
<1>2. CASE pc' = "idle" /\ op.path \notin Dirs
  <2>1. op.path \in Files /\ ~IsDirectory
    <3>1. pc # "idle"
      BY DEF Step, InsertDone, Overwrite, Reserve, ReserveFails, TableFull, Walk,
             LinkToLast, Link, SetEntry, WriteData, Free, Unname
    <3> QED
      BY <1>2, <3>1 DEF TypeInv, OpOK, Paths, IsDirectory
  <2>2. InsertDone \/ ReserveFails \/ WriteData \/ Unname
    BY <1>2, <2>1 DEF Step, Overwrite, Reserve, Walk, LinkToLast, Link, SetEntry, Free
  <2>3. CASE InsertDone
    BY <2>3, InsertSucceeds DEF Store!Next
  <2>4. CASE Unname
    BY <2>1, <2>4, RemovalSucceeds DEF Store!Next
  <2>5. CASE ReserveFails \/ WriteData
    BY <1>2, <2>1, <2>5, InsertFails DEF Store!Next
  <2> QED
    BY <2>2, <2>3, <2>4, <2>5
<1> QED
  BY <1>1, <1>2

\* The invariant of a run in which no process is killed.
CleanInv == TypeInv /\ ChainInv /\ ~crashed /\ StoreInv

LEMMA CleanStep ==
    ASSUME CleanInv, [CleanNext]_vars
    PROVE  CleanInv' /\ [Store!Next]_Store!vars
<1>1. TypeInv /\ ChainInv /\ ~crashed /\ StoreInv
  BY DEF CleanInv
<1>2. PICK S, k : Chained(S, k)
  BY <1>1 DEF ChainInv
<1>3. TypeInv' /\ ChainInv'
  <2>1. [Next]_vars
    BY DEF Next
  <2> QED
    BY <1>1, <2>1, NextTypeInv, NextChain
<1>4. ~crashed'
  <2>1. CASE UNCHANGED vars
    BY <1>1, <2>1 DEF vars
  <2> QED
    BY <1>1, <2>1, CleanKeepsCrashed
<1>5. StoreInv' /\ [Store!Next]_Store!vars
  <2>1. CASE \/ \E command \in {"insert", "remove"} : Open(command)
             \/ CloseInfo \/ CloseTable \/ StaysOverrun \/ UNCHANGED vars
    BY <1>1, <2>1, SessionStore, SessionUnseen DEF StaysOverrun
  <2>2. ASSUME NEW f \in Files, NEW host \in Hosts, BeginInsert(f, host)
        PROVE  StoreInv' /\ [Store!Next]_Store!vars
    <3>1. Store!BeginInsert(f, host)
      BY <1>1, <1>2, <1>3, <2>2, InsertBegins
    <3>2. StoreInv'
      BY <1>1, <1>2, <2>2, BeginInsertStore
    <3> QED
      BY <3>1, <3>2 DEF Store!Next
  <2>3. ASSUME NEW d \in Dirs, NEW size \in DirSizes, BeginDirectory(d, size)
        PROVE  StoreInv' /\ [Store!Next]_Store!vars
    <3>1. op'.path = d /\ pc' # "free"
      BY <2>3 DEF BeginDirectory, NoOp
    <3> QED
      BY <1>1, <2>3, <3>1, DirectoryStore, DirectoryBegins
  <2>4. ASSUME NEW f \in Paths, BeginRemove(f)
        PROVE  StoreInv' /\ [Store!Next]_Store!vars
    <3>1. (f \in Files /\ Store!BeginRemove(f)) \/ UNCHANGED Store!vars
      BY <1>1, <1>2, <2>4, RemovalBegins
    <3>2. StoreInv'
      BY <1>1, <1>2, <2>4, BeginRemoveStore
    <3> QED
      BY <3>1, <3>2 DEF Store!Next
  <2>5. CASE Step
    BY <1>1, <1>2, <2>5, StepStore, StepOfStore
  <2>6. CASE Overrun
    BY <1>1, <2>6, OverrunOfStore DEF Store!Next
  <2> QED
    BY <2>1, <2>2, <2>3, <2>4, <2>5, <2>6 DEF CleanNext
<1> QED
  BY <1>3, <1>4, <1>5 DEF CleanInv

\* As long as no process is killed, insertions and removals do to the files
\* what FileStore says, for every volume and all paths: they change no other
\* file; an insertion that reports success leaves the host file's units over
\* the front of what was there, one that fails leaves a file, and a removal
\* leaves none (filesystem.c:290-315 writes unit by unit with file.c:53-209,
\* which extends the chain, then the entry, and then writes; fat.c:457-506
\* frees the chain and then the entry).  From where a search for a free cluster
\* leaves the table, it promises nothing.
THEOREM ImplementsFiles == CleanSpec => ImplementsStore
<1>1. Init => CleanInv /\ Store!Init
  BY InitTypeInv, InitChain, InitStore DEF CleanInv, Init
<1>2. CleanInv /\ [CleanNext]_vars => CleanInv' /\ [Store!Next]_Store!vars
  BY CleanStep
<1> QED
  BY <1>1, <1>2, PTL DEF CleanSpec, Store!Spec, ImplementsStore
=============================================================================

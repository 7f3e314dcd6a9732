--------------------------- MODULE DirSlots_proofs ---------------------------
(***************************************************************************)
(* A directory of any size, in any clusters, of any names: no slot behind   *)
(* the end is in use, unless a kill tore it, and as long as nothing was      *)
(* killed or lost and its clusters follow each other it is a row of whole    *)
(* entries.                                                                *)
(***************************************************************************)
EXTENDS DirSlots, Induction, FiniteSetTheorems, SequenceTheorems

(* Sets of numbers. *)

LEMMA LeastOf ==
    ASSUME NEW S, S \subseteq Nat, S # {}
    PROVE  Min(S) \in S /\ \A y \in S : Min(S) <= y
<1>1. \E x \in S : \A y \in S : x <= y
  BY LeastNat
<1> QED
  BY <1>1 DEF Min

LEMMA GreatestOf ==
    ASSUME NEW S, S \subseteq Int, S # {}, NEW b \in Int, \A x \in S : x <= b
    PROVE  Max(S) \in S /\ \A y \in S : y <= Max(S)
<1> DEFINE T == {b - x : x \in S}
<1>1. T \subseteq Nat /\ T # {}
  <2>1. \A x \in S : b - x \in Nat
    OBVIOUS
  <2> QED
    BY <2>1
<1>2. PICK t \in T : \A u \in T : t <= u
  BY <1>1, LeastNat
<1>3. PICK x \in S : t = b - x
  OBVIOUS
<1>4. \A y \in S : x >= y
  BY <1>2, <1>3
<1> QED
  BY <1>3, <1>4 DEF Max

LEMMA GreatestOfFinite ==
    ASSUME NEW S, S \subseteq Nat, IsFiniteSet(S), S # {}
    PROVE  Max(S) \in S /\ \A y \in S : y <= Max(S)
<1>0. PICK n \in Nat : \E f : f \in [1 .. n -> S] /\ \A y \in S : \E k \in 1 .. n : f[k] = y
  BY FS_NatSurjection DEF ExistsSurjection, Surjection
<1>1. PICK f : f \in [1 .. n -> S] /\ \A y \in S : \E k \in 1 .. n : f[k] = y
  BY <1>0
<1> DEFINE Bounded == {k \in Nat : \E b \in Nat : \A x \in 1 .. n : x <= k => f[x] <= b}
<1>2. 0 \in Bounded
  OBVIOUS
<1>3. ASSUME NEW k \in Nat, k \in Bounded PROVE k + 1 \in Bounded
  <2>1. PICK b \in Nat : \A x \in 1 .. n : x <= k => f[x] <= b
    BY <1>3
  <2>2. CASE k + 1 \in 1 .. n
    <3>1. f[k + 1] \in Nat
      BY <1>1, <2>2
    <3>2. \A x \in 1 .. n : x <= k + 1 => f[x] <= b + f[k + 1]
      <4> SUFFICES ASSUME NEW x \in 1 .. n, x <= k + 1 PROVE f[x] <= b + f[k + 1]
        OBVIOUS
      <4>1. f[x] \in Nat
        BY <1>1
      <4>2. CASE x = k + 1
        BY <4>2, <3>1
      <4>3. CASE x <= k
        BY <4>3, <2>1, <3>1, <4>1
      <4> QED
        BY <4>2, <4>3
    <3>3. b + f[k + 1] \in Nat
      BY <3>1
    <3> QED
      BY <3>2, <3>3
  <2>3. CASE k + 1 \notin 1 .. n
    BY <2>1, <2>3
  <2> QED
    BY <2>2, <2>3
<1> HIDE DEF Bounded
<1>4. n \in Bounded
  BY <1>2, <1>3, SetInduction
<1>5. PICK b \in Nat : \A x \in 1 .. n : x <= n => f[x] <= b
  BY <1>4 DEF Bounded
<1>6. \A y \in S : y <= b
  BY <1>1, <1>5
<1>7. S \subseteq Int /\ b \in Int
  OBVIOUS
<1> QED
  BY <1>6, <1>7, GreatestOf

-----------------------------------------------------------------------------
(* Where a slot of the directory lies, for a list of clusters. *)

AddressIn(list, i) == list[i \div ClusterSlots + 1] * ClusterSlots + (i % ClusterSlots)

LEMMA Places ==
    ASSUME NEW m \in Nat, NEW i \in 0 .. m * ClusterSlots - 1
    PROVE  /\ i \div ClusterSlots + 1 \in 1 .. m
           /\ i % ClusterSlots \in 0 .. ClusterSlots - 1
           /\ i = (i \div ClusterSlots) * ClusterSlots + (i % ClusterSlots)
<1>1. ClusterSlots \in Nat /\ ClusterSlots > 0
  BY SlotsAssumption
<1>2. PICK q, r : q = i \div ClusterSlots /\ r = i % ClusterSlots
  OBVIOUS
<1>3. q \in Nat /\ r \in 0 .. ClusterSlots - 1 /\ i = q * ClusterSlots + r
  BY <1>1, <1>2
<1>4. q < m
  <2> SUFFICES ASSUME q >= m PROVE FALSE
    BY <1>3
  <2>1. q * ClusterSlots >= m * ClusterSlots
    BY <1>1, <1>3
  <2>2. q * ClusterSlots \in Nat /\ m * ClusterSlots \in Nat
    BY <1>1, <1>3
  <2> QED
    BY <1>1, <1>3, <2>1, <2>2
<1> QED
  BY <1>2, <1>3, <1>4

LEMMA SamePlace ==
    ASSUME NEW c \in Nat, NEW d \in Nat,
           NEW r \in 0 .. ClusterSlots - 1, NEW s \in 0 .. ClusterSlots - 1,
           c * ClusterSlots + r = d * ClusterSlots + s
    PROVE  c = d /\ r = s
<1>1. ClusterSlots \in Nat /\ ClusterSlots > 0
  BY SlotsAssumption
<1>2. ASSUME NEW x \in Nat, NEW y \in Nat, x < y PROVE x * ClusterSlots + ClusterSlots <= y * ClusterSlots
  <2>1. (x + 1) * ClusterSlots <= y * ClusterSlots
    BY <1>1, <1>2
  <2> QED
    BY <1>1, <2>1
<1>3. c * ClusterSlots \in Nat /\ d * ClusterSlots \in Nat
  BY <1>1
<1>4. ~(c < d)
  BY <1>1, <1>2, <1>3
<1>5. ~(d < c)
  BY <1>1, <1>2, <1>3
<1> QED
  BY <1>1, <1>3, <1>4, <1>5

LEMMA VolumeBound ==
    /\ Volume \subseteq Nat
    /\ \A c \in Volume : ClusterAddresses(c) \subseteq Addresses
<1>1. Volume \subseteq Nat /\ IsFiniteSet(Volume) /\ Volume # {}
  BY SlotsAssumption, FS_AddElement DEF Volume
<1>2. Max(Volume) \in Nat /\ \A c \in Volume : c <= Max(Volume)
  BY <1>1, GreatestOfFinite
<1>3. PICK top : top = Max(Volume)
  OBVIOUS
<1>4. ClusterSlots \in Nat /\ ClusterSlots > 0
  BY SlotsAssumption
<1>5. ASSUME NEW c \in Volume PROVE ClusterAddresses(c) \subseteq Addresses
  <2>1. c \in Nat /\ c + 1 <= top + 1 /\ top \in Nat
    BY <1>1, <1>2, <1>3
  <2>2. (c + 1) * ClusterSlots <= (top + 1) * ClusterSlots
    BY <1>4, <2>1
  <2>3. c * ClusterSlots \in Nat /\ (c + 1) * ClusterSlots \in Nat /\ (top + 1) * ClusterSlots \in Nat
    BY <1>4, <2>1
  <2>4. c * ClusterSlots .. (c + 1) * ClusterSlots - 1 \subseteq 0 .. (top + 1) * ClusterSlots - 1
    BY <2>2, <2>3
  <2> QED
    BY <1>3, <2>4 DEF ClusterAddresses, Addresses
<1> QED
  BY <1>1, <1>5

\* A slot lies in its cluster, and on the volume.
LEMMA AddressOnVolume ==
    ASSUME NEW list \in Seq(Volume), NEW i \in 0 .. Len(list) * ClusterSlots - 1
    PROVE  /\ i \div ClusterSlots + 1 \in 1 .. Len(list)
           /\ AddressIn(list, i) \in ClusterAddresses(list[i \div ClusterSlots + 1])
           /\ AddressIn(list, i) \in Addresses
<1>1. ClusterSlots \in Nat /\ ClusterSlots > 0
  BY SlotsAssumption
<1>2. PICK k, r : k = i \div ClusterSlots + 1 /\ r = i % ClusterSlots
  OBVIOUS
<1>3. Len(list) \in Nat
  OBVIOUS
<1>4. k \in 1 .. Len(list) /\ r \in 0 .. ClusterSlots - 1
  BY <1>2, <1>3, Places
<1>5. PICK c : c = list[k]
  OBVIOUS
<1>6. c \in Volume /\ c \in Nat
  <2>1. c \in Volume
    BY <1>4, <1>5
  <2> QED
    BY <2>1, VolumeBound
<1>7. (c + 1) * ClusterSlots = c * ClusterSlots + ClusterSlots /\ c * ClusterSlots \in Nat
  BY <1>1, <1>6
<1>8. c * ClusterSlots + r \in c * ClusterSlots .. (c + 1) * ClusterSlots - 1
  BY <1>1, <1>4, <1>7
<1>9. AddressIn(list, i) = c * ClusterSlots + r
  BY <1>2, <1>5 DEF AddressIn
<1>10. AddressIn(list, i) \in ClusterAddresses(c)
  BY <1>8, <1>9 DEF ClusterAddresses
<1> QED
  BY <1>2, <1>4, <1>5, <1>6, <1>10, VolumeBound

\* Clusters do not overlap.
LEMMA InCluster ==
    ASSUME NEW c \in Nat, NEW a, a \in ClusterAddresses(c)
    PROVE  \E r \in 0 .. ClusterSlots - 1 : a = c * ClusterSlots + r
<1>1. ClusterSlots \in Nat /\ ClusterSlots > 0
  BY SlotsAssumption
<1>2. (c + 1) * ClusterSlots = c * ClusterSlots + ClusterSlots /\ c * ClusterSlots \in Nat
  BY <1>1
<1>3. a \in c * ClusterSlots .. (c + 1) * ClusterSlots - 1
  BY DEF ClusterAddresses
<1>4. PICK x, y : x = c * ClusterSlots /\ y = (c + 1) * ClusterSlots
  OBVIOUS
<1>5. x \in Nat /\ y = x + ClusterSlots /\ a \in x .. y - 1
  BY <1>2, <1>3, <1>4
<1>6. a - x \in 0 .. ClusterSlots - 1 /\ a = x + (a - x)
  BY ONLY <1>1, <1>5
<1> QED
  BY <1>4, <1>6

LEMMA ClustersApart ==
    ASSUME NEW c \in Nat, NEW d \in Nat, NEW a, a \in ClusterAddresses(c), a \in ClusterAddresses(d)
    PROVE  c = d
<1>1. PICK r \in 0 .. ClusterSlots - 1 : a = c * ClusterSlots + r
  BY InCluster
<1>2. PICK s \in 0 .. ClusterSlots - 1 : a = d * ClusterSlots + s
  BY InCluster
<1> QED
  BY <1>1, <1>2, SamePlace

\* No two slots have one address.
LEMMA AddressesApart ==
    ASSUME NEW list \in Seq(Volume), IsInjective(list),
           NEW i \in 0 .. Len(list) * ClusterSlots - 1, NEW j \in 0 .. Len(list) * ClusterSlots - 1,
           AddressIn(list, i) = AddressIn(list, j)
    PROVE  i = j
<1>1. PICK k, r : k = i \div ClusterSlots /\ r = i % ClusterSlots
  OBVIOUS
<1>2. PICK l, s : l = j \div ClusterSlots /\ s = j % ClusterSlots
  OBVIOUS
<1>3. Len(list) \in Nat
  OBVIOUS
<1>4. k + 1 \in 1 .. Len(list) /\ r \in 0 .. ClusterSlots - 1 /\ i = k * ClusterSlots + r
  BY <1>1, <1>3, Places
<1>5. l + 1 \in 1 .. Len(list) /\ s \in 0 .. ClusterSlots - 1 /\ j = l * ClusterSlots + s
  BY <1>2, <1>3, Places
<1>6. list[k + 1] \in Nat /\ list[l + 1] \in Nat
  <2>1. list[k + 1] \in Volume /\ list[l + 1] \in Volume
    BY <1>4, <1>5
  <2> QED
    BY <2>1, VolumeBound
<1>7. list[k + 1] * ClusterSlots + r = list[l + 1] * ClusterSlots + s
  BY <1>1, <1>2 DEF AddressIn
<1>8. list[k + 1] = list[l + 1] /\ r = s
  BY <1>4, <1>5, <1>6, <1>7, SamePlace
<1>9. k + 1 = l + 1
  BY <1>4, <1>5, <1>8 DEF IsInjective
<1>10. k = l
  <2>1. k \in Int /\ l \in Int
    BY <1>1, <1>2, SlotsAssumption
  <2> QED
    BY <1>9, <2>1
<1> QED
  BY <1>4, <1>5, <1>8, <1>10

-----------------------------------------------------------------------------
(* The directory as one row of slots, for an image and a list of clusters. *)

RowLength(list) == Len(list) * ClusterSlots
RowOf(img, list) == [i \in 0 .. RowLength(list) - 1 |-> img[AddressIn(list, i)]]

LEMMA RowLengths ==
    ASSUME NEW list \in Seq(Volume)
    PROVE  /\ RowLength(list) \in Nat
           /\ list # <<>> => RowLength(list) >= ClusterSlots
<1>1. ClusterSlots \in Nat /\ ClusterSlots > 1
  BY SlotsAssumption
<1>2. PICK l : l = Len(list)
  OBVIOUS
<1>3. l \in Nat /\ (list # <<>> => l > 0)
  BY <1>2
<1>4. l * ClusterSlots \in Nat /\ (l > 0 => l * ClusterSlots >= ClusterSlots)
  BY ONLY <1>1, <1>3
<1> QED
  BY <1>2, <1>3, <1>4 DEF RowLength

Put(f, a, v) == [f EXCEPT ![a] = v]

\* A write to a slot of the directory changes that slot.
LEMMA RowWritten ==
    ASSUME NEW list \in Seq(Volume), IsInjective(list), NEW img, DOMAIN img = Addresses,
           NEW a \in 0 .. RowLength(list) - 1, NEW slot
    PROVE  RowOf(Put(img, AddressIn(list, a), slot), list) = Put(RowOf(img, list), a, slot)
<1> DEFINE new == [img EXCEPT ![AddressIn(list, a)] = slot]
           n == RowLength(list)
<1>1. \A i \in 0 .. n - 1 : AddressIn(list, i) \in Addresses /\ (AddressIn(list, i) = AddressIn(list, a) => i = a)
  BY AddressOnVolume, AddressesApart DEF RowLength
<1>2. \A i \in 0 .. n - 1 : new[AddressIn(list, i)] = IF i = a THEN slot ELSE img[AddressIn(list, i)]
  BY <1>1
<1> QED
  BY <1>2 DEF RowOf, Put

Touched(img, list, a, slot) ==
    [i \in 0 .. RowLength(list) - 1 |-> IF AddressIn(list, i) = a THEN slot ELSE RowOf(img, list)[i]]

\* A write to any address changes the slot that lies there, if there is one.
LEMMA RowTouched ==
    ASSUME NEW list \in Seq(Volume), NEW img, DOMAIN img = Addresses, NEW a, NEW slot
    PROVE  RowOf(Put(img, a, slot), list) = Touched(img, list, a, slot)
<1>1. \A i \in 0 .. RowLength(list) - 1 : AddressIn(list, i) \in Addresses
  BY AddressOnVolume DEF RowLength
<1> QED
  BY <1>1 DEF RowOf, Put, Touched

\* What another file does to its cluster changes no slot.
LEMMA RowUntouched ==
    ASSUME NEW list \in Seq(Volume), NEW img, NEW c \in Volume, c \notin Range(list), NEW slot
    PROVE  RowOf([a \in Addresses |-> IF a \in ClusterAddresses(c) THEN slot ELSE img[a]], list) = RowOf(img, list)
<1> DEFINE new == [a \in Addresses |-> IF a \in ClusterAddresses(c) THEN slot ELSE img[a]]
<1>1. ASSUME NEW i \in 0 .. RowLength(list) - 1
      PROVE  new[AddressIn(list, i)] = img[AddressIn(list, i)]
  <2>1. PICK k \in 1 .. Len(list) : AddressIn(list, i) \in ClusterAddresses(list[k])
    BY AddressOnVolume DEF RowLength
  <2>2. AddressIn(list, i) \in Addresses
    BY AddressOnVolume DEF RowLength
  <2>3. list[k] \in Volume /\ list[k] # c
    BY DEF Range
  <2>4. AddressIn(list, i) \notin ClusterAddresses(c)
    BY <2>1, <2>3, ClustersApart, VolumeBound
  <2> QED
    BY <2>2, <2>4
<1> QED
  BY <1>1 DEF RowOf

\* A further cluster puts its slots behind the others.
LEMMA RowExtended ==
    ASSUME NEW list \in Seq(Volume), NEW img, NEW c \in Volume, c \notin Range(list)
    PROVE  /\ RowLength(Append(list, c)) = RowLength(list) + ClusterSlots
           /\ RowOf([a \in Addresses |-> IF a \in ClusterAddresses(c) THEN ZeroSlot ELSE img[a]], Append(list, c)) =
                [i \in 0 .. RowLength(list) + ClusterSlots - 1 |->
                    IF i < RowLength(list) THEN RowOf(img, list)[i] ELSE ZeroSlot]
<1> DEFINE new == [a \in Addresses |-> IF a \in ClusterAddresses(c) THEN ZeroSlot ELSE img[a]]
           longer == Append(list, c)
           n == RowLength(list)
<1>1. ClusterSlots \in Nat /\ ClusterSlots > 0 /\ Len(list) \in Nat /\ n \in Nat
  BY SlotsAssumption, RowLengths
<1>2. longer \in Seq(Volume) /\ Len(longer) = Len(list) + 1 /\ longer[Len(list) + 1] = c
      /\ \A k \in 1 .. Len(list) : longer[k] = list[k]
  OBVIOUS
<1>3. RowLength(longer) = n + ClusterSlots
  BY <1>1, <1>2 DEF RowLength
<1> HIDE DEF longer
<1>4. ASSUME NEW i \in 0 .. n + ClusterSlots - 1, i < n PROVE new[AddressIn(longer, i)] = RowOf(img, list)[i]
  <2>1. i \in 0 .. n - 1
    BY <1>1, <1>4
  <2>2. i \div ClusterSlots + 1 \in 1 .. Len(list)
    BY <2>1, AddressOnVolume DEF RowLength
  <2>3. AddressIn(longer, i) = AddressIn(list, i)
    BY <1>2, <2>2 DEF AddressIn
  <2>4. AddressIn(list, i) \in Addresses /\ AddressIn(list, i) \in ClusterAddresses(list[i \div ClusterSlots + 1])
    BY <2>1, AddressOnVolume DEF RowLength
  <2>5. list[i \div ClusterSlots + 1] \in Volume /\ list[i \div ClusterSlots + 1] # c
    BY <2>2 DEF Range
  <2>6. AddressIn(list, i) \notin ClusterAddresses(c)
    BY <2>4, <2>5, ClustersApart, VolumeBound
  <2> QED
    BY <2>1, <2>3, <2>4, <2>6 DEF RowOf
<1>5. ASSUME NEW i \in 0 .. n + ClusterSlots - 1, ~(i < n) PROVE new[AddressIn(longer, i)] = ZeroSlot
  <2>1. i \in 0 .. RowLength(longer) - 1
    BY <1>1, <1>3
  <2>2. /\ i \div ClusterSlots + 1 \in 1 .. Len(longer)
        /\ AddressIn(longer, i) \in ClusterAddresses(longer[i \div ClusterSlots + 1])
        /\ AddressIn(longer, i) \in Addresses
    BY <1>2, <2>1, AddressOnVolume DEF RowLength
  <2>3. PICK k, r : k = i \div ClusterSlots /\ r = i % ClusterSlots
    OBVIOUS
  <2>4. Len(longer) \in Nat
    BY <1>1, <1>2
  <2>5. k + 1 \in 1 .. Len(longer) /\ r \in 0 .. ClusterSlots - 1 /\ i = k * ClusterSlots + r
    BY <2>1, <2>3, <2>4, Places DEF RowLength
  <2>6. k = Len(list)
    <3> SUFFICES ASSUME k < Len(list) PROVE FALSE
      BY <1>1, <1>2, <2>3, <2>5
    <3>1. k \in Nat /\ (k + 1) * ClusterSlots <= Len(list) * ClusterSlots
      BY <1>1, <2>3, <2>5
    <3>2. (k + 1) * ClusterSlots = k * ClusterSlots + ClusterSlots /\ k * ClusterSlots \in Nat
      BY <1>1, <3>1
    <3>3. k * ClusterSlots + ClusterSlots <= n
      BY <3>1, <3>2 DEF RowLength
    <3> QED
      BY <1>1, <1>5, <2>5, <3>2, <3>3
  <2>7. longer[i \div ClusterSlots + 1] = c
    BY <1>2, <2>3, <2>6
  <2> QED
    BY <2>2, <2>7
<1>6. RowOf(new, longer) = [i \in 0 .. n + ClusterSlots - 1 |-> new[AddressIn(longer, i)]]
  <2>1. 0 .. RowLength(longer) - 1 = 0 .. n + ClusterSlots - 1
    BY <1>1, <1>3
  <2> QED
    BY Zenon, <2>1 DEF RowOf
<1>7. RowOf(new, longer) = [i \in 0 .. n + ClusterSlots - 1 |-> IF i < n THEN RowOf(img, list)[i] ELSE ZeroSlot]
  BY <1>4, <1>5, <1>6
<1> QED
  BY <1>3, <1>7 DEF longer

\* Without its last clusters a directory is a shorter row.
LEMMA RowCut ==
    ASSUME NEW list \in Seq(Volume), NEW shorter \in Seq(Volume), NEW img,
           Len(shorter) <= Len(list), \A k \in 1 .. Len(shorter) : shorter[k] = list[k]
    PROVE  /\ RowLength(shorter) <= RowLength(list)
           /\ RowOf(img, shorter) = [i \in 0 .. RowLength(shorter) - 1 |-> RowOf(img, list)[i]]
<1>1. ClusterSlots \in Nat /\ ClusterSlots > 0
  BY SlotsAssumption
<1>2. RowLength(shorter) <= RowLength(list)
  <2>1. PICK k, l : k = Len(shorter) /\ l = Len(list)
    OBVIOUS
  <2>2. k \in Nat /\ l \in Nat /\ k <= l
    BY <2>1
  <2>3. k * ClusterSlots <= l * ClusterSlots
    BY ONLY <1>1, <2>2
  <2> QED
    BY <2>1, <2>3 DEF RowLength
<1>3. RowLength(shorter) \in Nat /\ RowLength(list) \in Nat
  BY RowLengths
<1>4. ASSUME NEW i \in 0 .. RowLength(shorter) - 1 PROVE img[AddressIn(shorter, i)] = RowOf(img, list)[i]
  <2>1. i \div ClusterSlots + 1 \in 1 .. Len(shorter)
    BY AddressOnVolume DEF RowLength
  <2>2. AddressIn(shorter, i) = AddressIn(list, i)
    BY <2>1 DEF AddressIn
  <2>3. i \in 0 .. RowLength(list) - 1
    BY <1>2, <1>3
  <2> QED
    BY <2>2, <2>3 DEF RowOf
<1> QED
  BY <1>2, <1>4 DEF RowOf

-----------------------------------------------------------------------------
(* Names and the slots they are written to. *)

Length(n) == Len(Pieces[n])

LEMMA NameLength ==
    ASSUME NEW n \in Names
    PROVE  /\ Length(n) \in Nat \ {0}
           /\ Pieces[n] \in Seq(UNION {Range(Pieces[m]) : m \in Names})
<1>1. Pieces[n] \in Seq(UNION {Range(Pieces[m]) : m \in Names}) \ {<<>>}
  BY SlotsAssumption
<1>2. PICK T : T = UNION {Range(Pieces[m]) : m \in Names}
  OBVIOUS
<1>3. Pieces[n] \in Seq(T) /\ Pieces[n] # <<>>
  BY Zenon, <1>1, <1>2
<1>4. Len(Pieces[n]) \in Nat /\ Len(Pieces[n]) # 0
  BY <1>3
<1> QED
  BY Zenon, <1>2, <1>3, <1>4 DEF Length

LEMMA ZeroIsZero == ZeroSlot.first = "zero" /\ ZeroSlot.long = FALSE
  BY DEF ZeroSlot

\* A record with two of its fields replaced.
LEMMA TwoReplaced ==
    ASSUME NEW f, NEW D, f = [x \in D |-> f[x]], NEW a \in D, NEW b \in D, a # b, NEW v, NEW w
    PROVE  /\ [[f EXCEPT ![a] = v] EXCEPT ![b] = w][a] = v
           /\ [[f EXCEPT ![a] = v] EXCEPT ![b] = w][b] = w
           /\ \A x \in D \ {a, b} : [[f EXCEPT ![a] = v] EXCEPT ![b] = w][x] = f[x]
<1>1. DOMAIN f = D
  OBVIOUS
<1> QED
  BY <1>1

SlotFields == {"first", "long", "order", "text", "owner"}

LEMMA ZeroFields == ZeroSlot = [x \in SlotFields |-> ZeroSlot[x]]
  BY DEF ZeroSlot, SlotFields

LEMMA DotIsShort ==
    DotSlot.first = "used" /\ DotSlot.long = FALSE /\ DotSlot.owner = Dots /\ DotSlot.text = NoText
<1>1. /\ "first" \in SlotFields /\ "owner" \in SlotFields
      /\ "long" \in SlotFields \ {"first", "owner"} /\ "text" \in SlotFields \ {"first", "owner"}
  BY DEF SlotFields
<1>2. /\ DotSlot["first"] = "used" /\ DotSlot["owner"] = Dots
      /\ DotSlot["long"] = ZeroSlot["long"] /\ DotSlot["text"] = ZeroSlot["text"]
  BY <1>1, ZeroFields, TwoReplaced DEF DotSlot
<1> QED
  BY <1>2 DEF ZeroSlot

LEMMA DataIsUsed ==
    ASSUME NEW l \in BOOLEAN
    PROVE  DataSlot(l).first = "used" /\ DataSlot(l).long \in BOOLEAN
<1>1. "first" \in SlotFields /\ "long" \in SlotFields
  BY DEF SlotFields
<1>2. DataSlot(l)["first"] = "used" /\ DataSlot(l)["long"] = l
  BY <1>1, ZeroFields, TwoReplaced DEF DataSlot
<1> QED
  BY <1>2

LEMMA DeletedIsDeleted ==
    ASSUME NEW slot
    PROVE  Deleted(slot).first = "deleted" /\ Deleted(slot).long = slot.long
<1>1. "first" \in SlotFields /\ "long" \in SlotFields
  BY DEF SlotFields
<1>2. Deleted(slot)["first"] = "deleted" /\ Deleted(slot)["long"] = slot.long
  BY <1>1, ZeroFields, TwoReplaced DEF Deleted
<1> QED
  BY <1>2

LEMMA LongIsLong ==
    ASSUME NEW n, NEW q
    PROVE  /\ LongSlot(n, q).first = "used" /\ LongSlot(n, q).long = TRUE
           /\ LongSlot(n, q).order = q /\ LongSlot(n, q).owner = n /\ LongSlot(n, q).text = Pieces[n][q]
  BY DEF LongSlot

LEMMA ShortIsShort ==
    ASSUME NEW n
    PROVE  /\ ShortSlot(n).first = "used" /\ ShortSlot(n).long = FALSE
           /\ ShortSlot(n).owner = n /\ ShortSlot(n).text = Alias[n]
  BY DEF ShortSlot

LEMMA Joined ==
    ASSUME NEW T, NEW s \in Seq(T), NEW t \in Seq(T)
    PROVE  /\ s \o t \in Seq(T) /\ Len(s \o t) = Len(s) + Len(t)
           /\ \A k \in 1 .. Len(s) : (s \o t)[k] = s[k]
           /\ \A k \in 1 .. Len(t) : (s \o t)[Len(s) + k] = t[k]
<1>1. Len(s) \in Nat /\ Len(t) \in Nat
  OBVIOUS
<1>2. /\ s \o t \in Seq(T) /\ Len(s \o t) = Len(s) + Len(t)
      /\ \A k \in 1 .. Len(s) + Len(t) : (s \o t)[k] = IF k <= Len(s) THEN s[k] ELSE t[k - Len(s)]
  BY ConcatProperties
<1> QED
  BY <1>1, <1>2

\* An entry: its pieces from the last to the first, then the short entry.
LEMMA EntrySlots ==
    ASSUME NEW n \in Names
    PROVE  /\ Len(SlotsOf(n)) = Length(n) + 1
           /\ SlotsOf(n) \in Seq(Range(SlotsOf(n)))
           /\ \A k \in 1 .. Length(n) : SlotsOf(n)[k] = LongSlot(n, Length(n) + 1 - k)
           /\ SlotsOf(n)[Length(n) + 1] = ShortSlot(n)
<1> DEFINE l == Length(n)
           longs == [i \in 1 .. l |-> LongSlot(n, l + 1 - i)]
<1>1. l \in Nat
  BY NameLength
<1>2. SlotsOf(n) = longs \o <<ShortSlot(n)>>
  BY Zenon DEF SlotsOf, Length
<1> DEFINE T == {LongSlot(n, l + 1 - i) : i \in 1 .. l} \cup {ShortSlot(n)}
<1>3. longs \in Seq(T) /\ Len(longs) = l /\ \A k \in 1 .. l : longs[k] = LongSlot(n, l + 1 - k)
  <2>1. longs \in [1 .. l -> T]
    OBVIOUS
  <2> HIDE DEF T, l
  <2> QED
    BY <1>1, <2>1
<1>4. PICK s : s = <<ShortSlot(n)>>
  OBVIOUS
<1>5. s \in Seq(T) /\ Len(s) = 1 /\ s[1] = ShortSlot(n)
  <2>1. ShortSlot(n) \in T
    OBVIOUS
  <2> HIDE DEF T
  <2> QED
    BY <1>4, <2>1
<1> HIDE DEF T, longs, l
<1>6. /\ longs \o s \in Seq(T) /\ Len(longs \o s) = l + 1
      /\ \A k \in 1 .. l : (longs \o s)[k] = longs[k]
      /\ (longs \o s)[l + 1] = s[1]
  BY <1>1, <1>3, <1>5, Joined
<1>7. /\ SlotsOf(n) \in Seq(T) /\ Len(SlotsOf(n)) = l + 1
      /\ \A k \in 1 .. l : SlotsOf(n)[k] = LongSlot(n, l + 1 - k)
      /\ SlotsOf(n)[l + 1] = ShortSlot(n)
  BY <1>2, <1>3, <1>4, <1>5, <1>6
<1>8. SlotsOf(n) \in Seq(Range(SlotsOf(n)))
  <2>1. PICK f : f = SlotsOf(n)
    OBVIOUS
  <2>2. f \in Seq(T)
    BY <1>7, <2>1
  <2>3. f \in [1 .. Len(f) -> Range(f)] /\ Len(f) \in Nat
    BY <2>2 DEF Range
  <2> QED
    BY <2>1, <2>2, <2>3, SeqDef
<1> QED
  BY <1>7, <1>8 DEF l

-----------------------------------------------------------------------------
(* What is always so. *)

Written(slot) ==
    \/ slot = DotSlot
    \/ \E n \in Names : slot = ShortSlot(n)
    \/ \E n \in Names : \E q \in 1 .. Length(n) : slot = LongSlot(n, q)

WellFormed(slot) ==
    /\ slot.first \in Marks /\ slot.long \in BOOLEAN
    /\ slot.first = "zero" => slot = ZeroSlot

IsEntry(slot) == slot.first = "used" /\ ~slot.long

\* A row of m slots in use, and behind them slots that never were.
Filled(row, m) ==
    /\ m \in Nat \ {0} /\ row[0] = DotSlot
    /\ \A i \in 0 .. m - 1 : WellFormed(row[i])
    /\ \A i \in 0 .. m - 1 : row[i].first = "used" => Written(row[i])
    /\ \A i, j \in 0 .. m - 1 : i < j /\ row[i].first = "zero" => row[j].first = "zero"

\* What is left of an entry.
Remaining(n, rest) ==
    /\ rest \in Seq(Range(SlotsOf(n))) /\ Len(rest) \in 1 .. Length(n) + 1
    /\ \A k \in 1 .. Len(rest) : rest[k] = SlotsOf(n)[Length(n) + 1 - Len(rest) + k]

\* The slots of it that are written.
Done(n, rest) == Length(n) + 1 - Len(rest)

\* The first d slots of an entry are in front of slot a.
Begun(row, n, a, d) ==
    /\ d <= a
    /\ \A k \in 1 .. d : row[a - d + k - 1] = SlotsOf(n)[k]

\* The next slot a of an entry is not behind the end, what is left goes into free
\* slots, and no entry has yet come into the clusters that the command added.
Placing(row, m, n, a, rest, s) ==
    /\ n \in Names /\ a \in 1 .. m /\ Remaining(n, rest)
    /\ \A i \in 0 .. a - 1 : row[i].first # "zero"
    /\ \A i \in a .. m - 1 : i < a + Len(rest) => row[i].first # "used"
    /\ \A i \in 0 .. m - 1 : s <= i => ~IsEntry(row[i])
    /\ Begun(row, n, a, Done(n, rest))

LEMMA HeadOfRest ==
    ASSUME NEW n \in Names, NEW rest, Remaining(n, rest)
    PROVE  /\ Done(n, rest) \in 0 .. Length(n)
           /\ Head(rest) = SlotsOf(n)[Done(n, rest) + 1]
           /\ Len(rest) = 1 => Head(rest) = ShortSlot(n)
           /\ Len(rest) > 1 =>
                /\ \E q \in 1 .. Length(n) : Head(rest) = LongSlot(n, q)
                /\ Remaining(n, Tail(rest)) /\ Len(Tail(rest)) = Len(rest) - 1
                /\ Done(n, Tail(rest)) = Done(n, rest) + 1
<1> DEFINE l == Length(n)
           T == Range(SlotsOf(n))
<1>1. l \in Nat \ {0}
  BY NameLength
<1>2. /\ \A k \in 1 .. l : SlotsOf(n)[k] = LongSlot(n, l + 1 - k)
      /\ SlotsOf(n)[l + 1] = ShortSlot(n)
  BY EntrySlots
<1> HIDE DEF l, T
<1>3. /\ rest \in Seq(T) /\ Len(rest) \in 1 .. l + 1
      /\ \A k \in 1 .. Len(rest) : rest[k] = SlotsOf(n)[l + 1 - Len(rest) + k]
  BY DEF Remaining, l, T
<1>4. PICK r : r = Len(rest)
  OBVIOUS
<1>5. r \in 1 .. l + 1 /\ Head(rest) = SlotsOf(n)[l + 1 - r + 1]
  BY <1>3, <1>4
<1>6. Done(n, rest) = l + 1 - r
  BY <1>4 DEF Done, l
<1>7. Done(n, rest) \in 0 .. l /\ Head(rest) = SlotsOf(n)[Done(n, rest) + 1]
  BY <1>1, <1>5, <1>6
<1>8. ASSUME Len(rest) = 1 PROVE Head(rest) = ShortSlot(n)
  <2>1. l + 1 - r + 1 = l + 1
    BY <1>1, <1>4, <1>8
  <2> QED
    BY <1>2, <1>5, <2>1
<1>9. ASSUME Len(rest) > 1
      PROVE  /\ \E q \in 1 .. l : Head(rest) = LongSlot(n, q)
             /\ Remaining(n, Tail(rest)) /\ Len(Tail(rest)) = Len(rest) - 1
             /\ Done(n, Tail(rest)) = Done(n, rest) + 1
  <2>1. l + 1 - r + 1 \in 1 .. l /\ l + 1 - (l + 1 - r + 1) \in 1 .. l
    BY <1>1, <1>4, <1>5, <1>9
  <2>2. Head(rest) = LongSlot(n, l + 1 - (l + 1 - r + 1))
    BY <1>2, <1>5, <2>1
  <2>3. /\ Tail(rest) \in Seq(T) /\ Len(Tail(rest)) = r - 1
        /\ \A k \in 1 .. r - 1 : Tail(rest)[k] = rest[k + 1]
    BY <1>3, <1>4, <1>9
  <2>4. r - 1 \in 1 .. l + 1
    BY <1>1, <1>4, <1>5, <1>9
  <2>5. \A k \in 1 .. r - 1 : Tail(rest)[k] = SlotsOf(n)[l + 1 - (r - 1) + k]
    <3> SUFFICES ASSUME NEW k \in 1 .. r - 1 PROVE Tail(rest)[k] = SlotsOf(n)[l + 1 - (r - 1) + k]
      OBVIOUS
    <3>1. k + 1 \in 1 .. r /\ l + 1 - r + (k + 1) = l + 1 - (r - 1) + k
      BY <1>1, <1>5
    <3> QED
      BY <1>3, <1>4, <2>3, <3>1
  <2>6. Remaining(n, Tail(rest))
    BY <2>3, <2>4, <2>5 DEF Remaining, l, T
  <2>7. Done(n, Tail(rest)) = l + 1 - (r - 1)
    BY <2>3 DEF Done, l
  <2>8. Done(n, Tail(rest)) = Done(n, rest) + 1
    BY <1>1, <1>5, <1>6, <2>7
  <2> QED
    BY <1>4, <2>1, <2>2, <2>3, <2>6, <2>8
<1> QED
  BY <1>7, <1>8, <1>9 DEF l

\* The slots of an entry.
LEMMA SlotsAreUsed ==
    ASSUME NEW slot, Written(slot)
    PROVE  WellFormed(slot) /\ slot.first = "used"
<1>1. slot.first = "used" /\ slot.long \in BOOLEAN
  <2>1. CASE slot = DotSlot
    BY <2>1, DotIsShort
  <2>2. ASSUME NEW n \in Names, slot = ShortSlot(n) PROVE slot.first = "used" /\ slot.long \in BOOLEAN
    BY <2>2, ShortIsShort
  <2>3. ASSUME NEW n \in Names, NEW q \in 1 .. Length(n), slot = LongSlot(n, q)
        PROVE  slot.first = "used" /\ slot.long \in BOOLEAN
    <3>1. LongSlot(n, q).first = "used" /\ LongSlot(n, q).long = TRUE
      BY DEF LongSlot
    <3> QED
      BY <2>3, <3>1
  <2> QED
    BY <2>1, <2>2, <2>3 DEF Written
<1> QED
  BY <1>1 DEF WellFormed, Marks

LEMMA RestIsWritten ==
    ASSUME NEW n \in Names, NEW rest, Remaining(n, rest)
    PROVE  /\ Written(Head(rest))
           /\ Len(rest) > 1 => ~IsEntry(Head(rest))
<1>1. Len(rest) \in Nat /\ Len(rest) >= 1
  BY NameLength DEF Remaining
<1>2. CASE Len(rest) = 1
  BY <1>2, HeadOfRest DEF Written
<1>3. CASE Len(rest) > 1
  <2>1. PICK q \in 1 .. Length(n) : Head(rest) = LongSlot(n, q)
    BY <1>3, HeadOfRest
  <2>2. Written(Head(rest))
    BY <2>1 DEF Written
  <2>3. LongSlot(n, q).long = TRUE
    BY LongIsLong
  <2> QED
    BY <2>1, <2>2, <2>3 DEF IsEntry
<1> QED
  BY <1>1, <1>2, <1>3

\* A slot of an entry that is put where it belongs leaves no gap.
LEMMA PutFilled ==
    ASSUME NEW row, NEW m, DOMAIN row = 0 .. m - 1, Filled(row, m),
           NEW n, NEW a, NEW rest, NEW s, Placing(row, m, n, a, rest, s), a < m
    PROVE  Filled([row EXCEPT ![a] = Head(rest)], m)
<1> DEFINE new == [row EXCEPT ![a] = Head(rest)]
<1>1. /\ m \in Nat \ {0} /\ row[0] = DotSlot
      /\ \A i \in 0 .. m - 1 : WellFormed(row[i])
      /\ \A i \in 0 .. m - 1 : row[i].first = "used" => Written(row[i])
      /\ \A i, j \in 0 .. m - 1 : i < j /\ row[i].first = "zero" => row[j].first = "zero"
  BY DEF Filled
<1>2. a \in 1 .. m - 1 /\ n \in Names /\ Remaining(n, rest) /\ \A i \in 0 .. a - 1 : row[i].first # "zero"
  BY <1>1 DEF Placing
<1>3. Written(Head(rest)) /\ WellFormed(Head(rest)) /\ Head(rest).first = "used"
  BY <1>2, RestIsWritten, SlotsAreUsed
<1>4. DOMAIN new = 0 .. m - 1 /\ \A i \in 0 .. m - 1 : new[i] = IF i = a THEN Head(rest) ELSE row[i]
  OBVIOUS
<1> HIDE DEF new
<1>5. new[0] = DotSlot
  BY <1>1, <1>2, <1>4
<1>6. \A i \in 0 .. m - 1 : WellFormed(new[i]) /\ (new[i].first = "used" => Written(new[i]))
  BY <1>1, <1>3, <1>4
<1>7. ASSUME NEW i \in 0 .. m - 1, NEW j \in 0 .. m - 1, i < j, new[i].first = "zero"
      PROVE  new[j].first = "zero"
  <2>1. i # a /\ row[i].first = "zero"
    BY <1>3, <1>4, <1>7
  <2>2. i > a
    BY <1>1, <1>2, <2>1
  <2>3. j # a
    BY <1>1, <1>2, <1>7, <2>2
  <2> QED
    BY <1>1, <1>4, <1>7, <2>1, <2>3
<1> QED
  BY <1>1, <1>5, <1>6, <1>7 DEF Filled, new

LEMMA PutPlacing ==
    ASSUME NEW row, NEW m, DOMAIN row = 0 .. m - 1, m \in Nat,
           NEW n, NEW a, NEW rest, NEW s \in Nat, Placing(row, m, n, a, rest, s), a < m, Len(rest) # 1
    PROVE  Placing([row EXCEPT ![a] = Head(rest)], m, n, a + 1, Tail(rest), s)
<1> DEFINE new == [row EXCEPT ![a] = Head(rest)]
           d == Done(n, rest)
<1>1. /\ n \in Names /\ a \in 1 .. m /\ Remaining(n, rest)
      /\ \A i \in 0 .. a - 1 : row[i].first # "zero"
      /\ \A i \in a .. m - 1 : i < a + Len(rest) => row[i].first # "used"
      /\ \A i \in 0 .. m - 1 : s <= i => ~IsEntry(row[i])
      /\ d <= a
      /\ \A k \in 1 .. d : row[a - d + k - 1] = SlotsOf(n)[k]
  BY DEF Placing, Begun
<1>2. Len(rest) \in Nat /\ Len(rest) > 1 /\ Length(n) \in Nat
  <2>1. n \in Names /\ Len(rest) \in 1 .. Length(n) + 1
    BY <1>1 DEF Remaining
  <2>2. Length(n) \in Nat
    BY <2>1, NameLength
  <2> HIDE DEF new, d
  <2>3. Len(rest) # 1
    OBVIOUS
  <2>4. PICK l : l = Len(rest)
    OBVIOUS
  <2>5. PICK k : k = Length(n)
    OBVIOUS
  <2>6. l \in 1 .. k + 1 /\ k \in Nat /\ l # 1
    BY ONLY <2>1, <2>2, <2>3, <2>4, <2>5
  <2>7. l \in Nat /\ l > 1
    BY ONLY <2>6
  <2> QED
    BY ONLY <2>4, <2>5, <2>6, <2>7
<1>3. /\ d \in 0 .. Length(n) /\ Head(rest) = SlotsOf(n)[d + 1]
      /\ Remaining(n, Tail(rest)) /\ Len(Tail(rest)) = Len(rest) - 1
      /\ Done(n, Tail(rest)) = d + 1
  BY <1>1, <1>2, HeadOfRest
<1>4. ~IsEntry(Head(rest)) /\ Head(rest).first = "used"
  BY <1>1, <1>2, RestIsWritten, SlotsAreUsed
<1>5. \A i \in 0 .. m - 1 : new[i] = IF i = a THEN Head(rest) ELSE row[i]
  OBVIOUS
<1> HIDE DEF new, d
<1>6. a \in 1 .. m - 1 /\ a + 1 \in 1 .. m
  BY <1>1
<1>7. \A i \in 0 .. (a + 1) - 1 : new[i].first # "zero"
  BY <1>1, <1>4, <1>5, <1>6
<1>8. \A i \in a + 1 .. m - 1 : i < a + 1 + Len(Tail(rest)) => new[i].first # "used"
  <2> SUFFICES ASSUME NEW i \in a + 1 .. m - 1, i < a + 1 + Len(Tail(rest)) PROVE new[i].first # "used"
    OBVIOUS
  <2>1. i \in 0 .. m - 1 /\ i # a /\ i \in a .. m - 1
    BY <1>6
  <2>2. i < a + Len(rest)
    <3>1. PICK t, u : t = Len(Tail(rest)) /\ u = Len(rest)
      OBVIOUS
    <3>2. u \in Nat /\ t = u - 1 /\ i < a + 1 + t
      BY <1>2, <1>3, <3>1
    <3>3. i < a + u
      BY ONLY <1>6, <2>1, <3>2
    <3> QED
      BY <3>1, <3>3
  <2> QED
    BY <1>1, <1>5, <2>1, <2>2
<1>9. \A i \in 0 .. m - 1 : s <= i => ~IsEntry(new[i])
  BY <1>1, <1>4, <1>5
<1>10. d + 1 <= a + 1
  BY <1>1, <1>3, <1>6
<1>11. ASSUME NEW k \in 1 .. d + 1 PROVE new[(a + 1) - (d + 1) + k - 1] = SlotsOf(n)[k]
  <2>1. CASE k = d + 1
    <3>1. (a + 1) - (d + 1) + k - 1 = a /\ a \in 0 .. m - 1
      BY <1>3, <1>6, <2>1
    <3> QED
      BY <1>3, <1>5, <2>1, <3>1
  <2>2. CASE k # d + 1
    <3>1. k \in 1 .. d /\ (a + 1) - (d + 1) + k - 1 = a - d + k - 1
      BY <1>3, <1>6, <2>2
    <3>2. a - d + k - 1 \in 0 .. m - 1 /\ a - d + k - 1 # a
      BY <1>1, <1>3, <1>6, <3>1
    <3> QED
      BY <1>1, <1>5, <3>1, <3>2
  <2> QED
    BY <2>1, <2>2
<1>12. Placing(new, m, n, a + 1, Tail(rest), s)
  <2>1. \A k \in 1 .. d + 1 : new[(a + 1) - (d + 1) + k - 1] = SlotsOf(n)[k]
    BY <1>11
  <2>2. Begun(new, n, a + 1, Done(n, Tail(rest)))
    <3>1. Begun(new, n, a + 1, d + 1)
      BY Zenon, <1>10, <2>1 DEF Begun
    <3> QED
      BY <1>3, <3>1
  <2> QED
    BY <1>1, <1>3, <1>6, <1>7, <1>8, <1>9, <2>2 DEF Placing
<1> QED
  BY <1>12 DEF new

\* A new cluster is a row of slots that never were in use.
LEMMA GrowFilled ==
    ASSUME NEW row, NEW m, Filled(row, m), NEW c \in Nat \ {0}
    PROVE  Filled([i \in 0 .. m + c - 1 |-> IF i < m THEN row[i] ELSE ZeroSlot], m + c)
<1> DEFINE new == [i \in 0 .. m + c - 1 |-> IF i < m THEN row[i] ELSE ZeroSlot]
<1>1. /\ m \in Nat \ {0} /\ row[0] = DotSlot
      /\ \A i \in 0 .. m - 1 : WellFormed(row[i])
      /\ \A i \in 0 .. m - 1 : row[i].first = "used" => Written(row[i])
      /\ \A i, j \in 0 .. m - 1 : i < j /\ row[i].first = "zero" => row[j].first = "zero"
  BY DEF Filled
<1>2. /\ \A i \in 0 .. m - 1 : new[i] = row[i]
      /\ \A i \in 0 .. m + c - 1 : i \notin 0 .. m - 1 => new[i] = ZeroSlot
  BY <1>1
<1>3. WellFormed(ZeroSlot) /\ ZeroSlot.first = "zero"
  BY ZeroIsZero DEF WellFormed, Marks
<1> HIDE DEF new
<1>4. m + c \in Nat \ {0} /\ new[0] = DotSlot
  BY <1>1, <1>2
<1>5. \A i \in 0 .. m + c - 1 : WellFormed(new[i]) /\ (new[i].first = "used" => Written(new[i]))
  BY <1>1, <1>2, <1>3
<1>6. ASSUME NEW i \in 0 .. m + c - 1, NEW j \in 0 .. m + c - 1, i < j, new[i].first = "zero"
      PROVE  new[j].first = "zero"
  <2>1. CASE j \in 0 .. m - 1
    <3>1. i \in 0 .. m - 1
      BY <1>1, <1>6, <2>1
    <3> QED
      BY <1>1, <1>2, <1>6, <2>1, <3>1
  <2>2. CASE j \notin 0 .. m - 1
    BY <1>2, <1>3, <2>2
  <2> QED
    BY <2>1, <2>2
<1> QED
  BY <1>4, <1>5, <1>6 DEF Filled, new

LEMMA GrowPlacing ==
    ASSUME NEW row, NEW m \in Nat, NEW n, NEW rest, NEW s, Placing(row, m, n, m, rest, s), NEW c \in Nat
    PROVE  Placing([i \in 0 .. m + c - 1 |-> IF i < m THEN row[i] ELSE ZeroSlot], m + c, n, m, rest, s)
<1> DEFINE new == [i \in 0 .. m + c - 1 |-> IF i < m THEN row[i] ELSE ZeroSlot]
           d == Done(n, rest)
<1>1. /\ n \in Names /\ m \in 1 .. m /\ Remaining(n, rest)
      /\ \A i \in 0 .. m - 1 : row[i].first # "zero"
      /\ \A i \in 0 .. m - 1 : s <= i => ~IsEntry(row[i])
      /\ d <= m
      /\ \A k \in 1 .. d : row[m - d + k - 1] = SlotsOf(n)[k]
  BY DEF Placing, Begun
<1>2. d \in 0 .. Length(n) /\ Length(n) \in Nat
  BY <1>1, HeadOfRest, NameLength
<1>3. /\ \A i \in 0 .. m - 1 : new[i] = row[i]
      /\ \A i \in 0 .. m + c - 1 : i \notin 0 .. m - 1 => new[i] = ZeroSlot
  OBVIOUS
<1>4. ZeroSlot.first # "used"
  BY ZeroIsZero
<1> HIDE DEF new, d
<1>5. \A i \in 0 .. m - 1 : new[i].first # "zero"
  BY <1>1, <1>3
<1>6. \A i \in m .. m + c - 1 : i < m + Len(rest) => new[i].first # "used"
  BY <1>3, <1>4
<1>7. \A i \in 0 .. m + c - 1 : s <= i => ~IsEntry(new[i])
  BY <1>1, <1>3, <1>4 DEF IsEntry
<1>8. \A k \in 1 .. d : new[m - d + k - 1] = SlotsOf(n)[k]
  <2> SUFFICES ASSUME NEW k \in 1 .. d PROVE new[m - d + k - 1] = SlotsOf(n)[k]
    OBVIOUS
  <2>1. m - d + k - 1 \in 0 .. m - 1
    BY <1>1, <1>2
  <2> QED
    BY <1>1, <1>3, <2>1
<1>9. m \in 1 .. m + c
  BY <1>1
<1>10. Begun(new, n, m, d)
  BY <1>1, <1>8 DEF Begun
<1>11. Placing(new, m + c, n, m, rest, s)
  BY <1>1, <1>5, <1>6, <1>7, <1>9, <1>10 DEF Placing, d
<1> QED
  BY <1>11 DEF new

\* A row that is cut off behind a slot.
LEMMA CutFilled ==
    ASSUME NEW row, NEW m, Filled(row, m), NEW k \in Nat \ {0}, k <= m
    PROVE  Filled([i \in 0 .. k - 1 |-> row[i]], k)
<1> DEFINE new == [i \in 0 .. k - 1 |-> row[i]]
<1>1. /\ m \in Nat \ {0} /\ row[0] = DotSlot
      /\ \A i \in 0 .. m - 1 : WellFormed(row[i])
      /\ \A i \in 0 .. m - 1 : row[i].first = "used" => Written(row[i])
      /\ \A i, j \in 0 .. m - 1 : i < j /\ row[i].first = "zero" => row[j].first = "zero"
  BY DEF Filled
<1>2. \A i \in 0 .. k - 1 : i \in 0 .. m - 1 /\ new[i] = row[i]
  BY <1>1
<1> HIDE DEF new
<1> QED
  BY <1>1, <1>2 DEF Filled, new

\* Slots that are marked as deleted stay in front of the end.
LEMMA DeleteFilled ==
    ASSUME NEW row, NEW m, Filled(row, m), NEW D,
           \A i \in 0 .. m - 1 : i \in D => i # 0 /\ row[i].first # "zero"
    PROVE  Filled([i \in 0 .. m - 1 |-> IF i \in D THEN Deleted(row[i]) ELSE row[i]], m)
<1> DEFINE new == [i \in 0 .. m - 1 |-> IF i \in D THEN Deleted(row[i]) ELSE row[i]]
<1>1. /\ m \in Nat \ {0} /\ row[0] = DotSlot
      /\ \A i \in 0 .. m - 1 : WellFormed(row[i])
      /\ \A i \in 0 .. m - 1 : row[i].first = "used" => Written(row[i])
      /\ \A i, j \in 0 .. m - 1 : i < j /\ row[i].first = "zero" => row[j].first = "zero"
  BY DEF Filled
<1>2. \A i \in 0 .. m - 1 : new[i] = IF i \in D THEN Deleted(row[i]) ELSE row[i]
  OBVIOUS
<1> HIDE DEF new
<1>3. ASSUME NEW i \in 0 .. m - 1, i \in D
      PROVE  WellFormed(new[i]) /\ new[i].first = "deleted"
  <2>1. new[i] = Deleted(row[i]) /\ row[i].long \in BOOLEAN
    BY <1>1, <1>2, <1>3 DEF WellFormed
  <2>2. new[i].first = "deleted" /\ new[i].long = row[i].long
    BY <2>1, DeletedIsDeleted
  <2> QED
    BY <2>1, <2>2 DEF WellFormed, Marks
<1>4. new[0] = DotSlot
  BY <1>1, <1>2
<1>5. \A i \in 0 .. m - 1 : WellFormed(new[i]) /\ (new[i].first = "used" => Written(new[i]))
  BY <1>1, <1>2, <1>3
<1>6. ASSUME NEW i \in 0 .. m - 1, NEW j \in 0 .. m - 1, i < j, new[i].first = "zero"
      PROVE  new[j].first = "zero"
  <2>1. i \notin D /\ row[i].first = "zero"
    BY <1>2, <1>3, <1>6
  <2>2. row[j].first = "zero"
    BY <1>1, <1>6, <2>1
  <2> QED
    BY <1>2, <2>2
<1> QED
  BY <1>1, <1>4, <1>5, <1>6 DEF Filled, new

-----------------------------------------------------------------------------
(* The invariant. *)

Row == RowOf(image, chain)

Image ==
    /\ DOMAIN image = Addresses
    /\ \A a \in Addresses : WellFormed(image[a])

Clusters ==
    /\ chain \in Seq(Volume) /\ chain # <<>> /\ IsInjective(chain) /\ chain[1] = First
    /\ taken \subseteq Volume \ Range(chain)
    /\ saved \in Seq(Volume) /\ saved # <<>> /\ Len(saved) <= Len(chain)
    /\ \A k \in 1 .. Len(saved) : saved[k] = chain[k]

Process ==
    /\ pc \in {"idle", "add", "clear", "remove"} /\ kills \in 0 .. MaxKills
    /\ pc \notin {"add", "clear"} => saved = chain

Adding == pc \in {"add", "clear"} => Placing(Row, Count, target, at, todo, RowLength(saved))

\* A cluster is added where there is one, to a directory that is full.
Clearing == pc = "clear" => at = Count /\ FreeClusters # {}

\* The entry that is removed is one, and not the first slot, a dot.
Removes(e) ==
    /\ e \in 1 .. Count - 1 /\ entry = AddressOf(e)
    /\ at \in Int /\ at <= entry /\ IsEntry(Row[e])
Removing == pc = "remove" => \E e \in Nat : Removes(e)

RowInv ==
    Image /\ Clusters /\ Process /\ Filled(Row, Count) /\ Adding /\ Clearing /\ Removing

\* Of a torn directory only its clusters and its image are known.
DirInv ==
    /\ Image /\ Clusters /\ kills \in 0 .. MaxKills
    /\ Torn => kills # 0 /\ saved = chain
    /\ ~Torn => RowInv

LEMMA RowIs ==
    /\ Count = RowLength(chain)
    /\ \A i : AddressOf(i) = AddressIn(chain, i)
    /\ DOMAIN Row = Indices
    /\ \A i \in Indices : Row[i] = Slot(i)
  BY DEF Count, RowLength, AddressOf, AddressIn, Row, RowOf, Indices, Slot

\* When neither changes, nothing of the directory does.
LEMMA RowKept ==
    ASSUME UNCHANGED <<image, chain>>
    PROVE  Row' = Row /\ Count' = Count
  BY DEF Row, RowOf, RowLength, AddressIn, Count

LEMMA InitRow == Init => RowInv
<1> SUFFICES ASSUME Init PROVE RowInv
  OBVIOUS
<1>1. /\ chain = <<First>> /\ saved = chain /\ taken = {} /\ pc = "idle" /\ kills = 0
      /\ image = [a \in Addresses |->
                    IF a \notin ClusterAddresses(First) THEN DataSlot(DataLooksLong)
                    ELSE IF a - First * ClusterSlots < 2 THEN DotSlot ELSE ZeroSlot]
  BY DEF Init
<1>2. First \in Volume /\ First \in Nat /\ ClusterSlots \in Nat /\ ClusterSlots > 1 /\ MaxKills \in Nat
      /\ DataLooksLong \in BOOLEAN
  BY SlotsAssumption DEF Volume
<1>3. chain \in Seq(Volume) /\ Len(chain) = 1 /\ chain[1] = First /\ chain # <<>> /\ DOMAIN chain = {1}
  BY <1>1, <1>2
<1>4. Clusters
  BY <1>1, <1>3 DEF Clusters, IsInjective
<1>5. Process
  BY <1>1, <1>2 DEF Process
<1>6. /\ WellFormed(DataSlot(DataLooksLong)) /\ WellFormed(DotSlot) /\ WellFormed(ZeroSlot)
      /\ DotSlot.first = "used" /\ ZeroSlot.first = "zero"
  BY <1>2, DataIsUsed, DotIsShort, ZeroIsZero DEF WellFormed, Marks
<1>7. Image
  BY <1>1, <1>6 DEF Image
<1>8. Count = ClusterSlots
  BY <1>2, <1>3 DEF Count
<1>9. ASSUME NEW i \in 0 .. Count - 1 PROVE Row[i] = IF i < 2 THEN DotSlot ELSE ZeroSlot
  <2>1. i \in 0 .. 1 * ClusterSlots - 1
    BY <1>2, <1>8
  <2>2. i \div ClusterSlots + 1 \in 1 .. 1 /\ i = (i \div ClusterSlots) * ClusterSlots + (i % ClusterSlots)
    BY <2>1, Places
  <2>3. i \div ClusterSlots = 0
    BY <1>2, <2>1, <2>2
  <2>4. i % ClusterSlots = i
    BY <1>2, <2>1, <2>2, <2>3
  <2>5. AddressIn(chain, i) = First * ClusterSlots + i
    BY <1>3, <2>3, <2>4 DEF AddressIn
  <2>6. i \in 0 .. Len(chain) * ClusterSlots - 1
    BY <1>3, <2>1
  <2>7. AddressIn(chain, i) \in ClusterAddresses(First) /\ AddressIn(chain, i) \in Addresses
    <3>1. /\ AddressIn(chain, i) \in ClusterAddresses(chain[i \div ClusterSlots + 1])
          /\ AddressIn(chain, i) \in Addresses
      BY <1>3, <2>6, AddressOnVolume
    <3>2. chain[i \div ClusterSlots + 1] = First
      BY <1>3, <2>3
    <3> QED
      BY <3>1, <3>2
  <2>8. AddressIn(chain, i) - First * ClusterSlots = i
    BY <1>2, <2>1, <2>5
  <2>9. image[AddressIn(chain, i)] = IF i < 2 THEN DotSlot ELSE ZeroSlot
    BY <1>1, <2>7, <2>8
  <2> QED
    BY <2>6, <2>9 DEF Row, RowOf, RowLength
<1>10. Filled(Row, Count)
  <2>1. Written(DotSlot)
    BY DEF Written
  <2> QED
    BY <1>2, <1>6, <1>8, <1>9, <2>1 DEF Filled
<1> QED
  BY <1>1, <1>4, <1>5, <1>7, <1>10 DEF RowInv, Adding, Clearing, Removing

-----------------------------------------------------------------------------
(* Every step keeps it. *)

\* The run of slots that an entry is put in: free, and not behind the end.
LEMMA BaseIsFree ==
    ASSUME RowInv, NEW needed \in Nat \ {0}
    PROVE  /\ Base(needed) \in 1 .. Count
           /\ \A i \in 0 .. Base(needed) - 1 : Row[i].first # "zero"
           /\ \A i \in Base(needed) .. Count - 1 : i < Base(needed) + needed => Row[i].first # "used"
<1> DEFINE m == Count
           fits == {i \in Indices : Fits(i, needed)}
           used == {i \in Indices : Used(i)}
           b == Base(needed)
<1>1. /\ m \in Nat \ {0} /\ Row[0] = DotSlot
      /\ \A i, j \in 0 .. m - 1 : i < j /\ Row[i].first = "zero" => Row[j].first = "zero"
  BY DEF RowInv, Filled
<1>2. Indices = 0 .. m - 1 /\ \A i \in 0 .. m - 1 : Used(i) <=> Row[i].first = "used"
  BY RowIs DEF Indices, Used
<1>3. 0 \in used /\ used \subseteq Nat
  BY <1>1, <1>2, DotIsShort
<1>4. fits \subseteq Nat /\ 0 \notin fits
  <2>1. ~Fits(0, needed)
    BY <1>1, <1>2, <1>3 DEF Fits, IsFree
  <2> QED
    BY <1>2, <2>1
<1>5. CASE fits # {}
  <2>1. b \in fits /\ \A i \in fits : b <= i
    <3>1. b = Min(fits)
      BY Zenon, <1>5 DEF Base
    <3> HIDE DEF fits, b
    <3> QED
      BY <1>4, <1>5, <3>1, LeastOf
  <2>2. b \in 1 .. m - 1 /\ b + needed <= m /\ \A i \in b .. b + needed - 1 : ~Used(i)
    BY <1>2, <1>4, <2>1 DEF Fits, IsFree
  <2> HIDE DEF b
  <2>3. ASSUME NEW i \in 0 .. b - 1 PROVE Row[i].first # "zero"
    <3> SUFFICES ASSUME Row[i].first = "zero" PROVE FALSE
      OBVIOUS
    <3>1. i \in Indices /\ i + needed <= m /\ i < b
      BY <1>1, <1>2, <2>2
    <3>2. \A j \in i .. i + needed - 1 : ~Used(j)
      <4> SUFFICES ASSUME NEW j \in i .. i + needed - 1 PROVE ~Used(j)
        OBVIOUS
      <4>1. j \in 0 .. m - 1 /\ (j = i \/ i < j)
        BY <1>1, <2>2, <3>1
      <4>2. Row[j].first = "zero"
        BY <1>1, <2>2, <4>1
      <4> QED
        BY <1>2, <4>1, <4>2
    <3>3. i \in fits
      BY <3>1, <3>2 DEF Fits, IsFree
    <3> QED
      BY <2>1, <2>2, <3>1, <3>3
  <2>4. \A i \in b .. m - 1 : i < b + needed => Row[i].first # "used"
    <3> SUFFICES ASSUME NEW i \in b .. m - 1, i < b + needed PROVE Row[i].first # "used"
      OBVIOUS
    <3>1. i \in b .. b + needed - 1 /\ i \in 0 .. m - 1
      BY <1>1, <2>2
    <3> QED
      BY <1>2, <2>2, <3>1
  <2>5. b \in 1 .. m
    BY <1>1, <2>2
  <2> QED
    BY <2>3, <2>4, <2>5 DEF b
<1>6. CASE fits = {}
  <2>1. Max(used) \in used /\ \A i \in used : i <= Max(used)
    <3>1. used \subseteq Int /\ used # {} /\ m \in Int /\ \A i \in used : i <= m
      BY <1>1, <1>2, <1>3
    <3> HIDE DEF used, m
    <3> QED
      BY <3>1, GreatestOf
  <2>2. PICK top : top = Max(used)
    OBVIOUS
  <2>3. top \in 0 .. m - 1 /\ Row[top].first = "used" /\ \A i \in 0 .. m - 1 : Row[i].first = "used" => i <= top
    BY <1>2, <2>1, <2>2
  <2>4. b = m - (m - 1 - top)
    BY Zenon, <1>6, <2>2 DEF Base, FreeTail
  <2>5. b = top + 1
    BY <1>1, <2>3, <2>4
  <2> HIDE DEF b
  <2>6. \A i \in 0 .. b - 1 : Row[i].first # "zero"
    BY <1>1, <2>3, <2>5
  <2>7. \A i \in b .. m - 1 : Row[i].first # "used"
    BY <1>1, <2>3, <2>5
  <2>8. b \in 1 .. m
    BY <1>1, <2>3, <2>5
  <2> QED
    BY <2>6, <2>7, <2>8 DEF b
<1> QED
  BY <1>5, <1>6

LEMMA CreateRow == ASSUME RowInv, NEW n \in Names, Create(n) PROVE RowInv'
<1>1. /\ pc = "idle" /\ pc' = "add" /\ target' = n
      /\ todo' = SlotsOf(n) /\ at' = Base(Len(todo'))
      /\ UNCHANGED <<image, chain, saved, taken, entry, past>>
  BY DEF Create
<1>2. Row' = Row /\ Count' = Count
  BY <1>1, RowKept
<1>3. /\ Len(SlotsOf(n)) = Length(n) + 1 /\ SlotsOf(n) \in Seq(Range(SlotsOf(n)))
      /\ Length(n) \in Nat \ {0}
  BY EntrySlots, NameLength
<1>4. PICK b : b = Base(Length(n) + 1)
  OBVIOUS
<1>5. /\ b \in 1 .. Count
      /\ \A i \in 0 .. b - 1 : Row[i].first # "zero"
      /\ \A i \in b .. Count - 1 : i < b + (Length(n) + 1) => Row[i].first # "used"
  BY <1>3, <1>4, BaseIsFree
<1>6. at' = b /\ todo' = SlotsOf(n) /\ saved' = chain
  BY <1>1, <1>3, <1>4 DEF RowInv, Process
<1>7. Remaining(n, SlotsOf(n)) /\ Done(n, SlotsOf(n)) = 0
  <2>1. \A k \in 1 .. Len(SlotsOf(n)) : k = Length(n) + 1 - Len(SlotsOf(n)) + k
    BY <1>3
  <2>2. Len(SlotsOf(n)) \in 1 .. Length(n) + 1
    BY <1>3
  <2>3. \A k \in 1 .. Len(SlotsOf(n)) : SlotsOf(n)[k] = SlotsOf(n)[Length(n) + 1 - Len(SlotsOf(n)) + k]
    BY Zenon, <2>1
  <2>4. Length(n) + 1 - Len(SlotsOf(n)) = 0
    BY <1>3
  <2> QED
    BY <1>3, <2>2, <2>3, <2>4 DEF Remaining, Done
<1>8. Placing(Row, Count, n, b, SlotsOf(n), RowLength(chain))
  <2>1. Begun(Row, n, b, 0)
    BY <1>5 DEF Begun
  <2>2. \A i \in 0 .. Count - 1 : ~(RowLength(chain) <= i)
    <3>1. Count = RowLength(chain) /\ Count \in Nat
      BY RowIs DEF RowInv, Filled
    <3> QED
      BY <3>1
  <2> QED
    BY <1>3, <1>5, <1>7, <2>1, <2>2 DEF Placing
<1>9. Adding'
  BY <1>1, <1>2, <1>6, <1>8 DEF Adding
<1>10. Image' /\ Clusters' /\ Process' /\ Clearing' /\ Removing'
  BY <1>1 DEF RowInv, Image, Clusters, Process, Clearing, Removing, past
<1> QED
  BY <1>2, <1>9, <1>10 DEF RowInv

\* An image with one slot replaced.
LEMMA ImageWritten ==
    ASSUME Image, NEW a, NEW slot, a \in Addresses => WellFormed(slot), image' = [image EXCEPT ![a] = slot]
    PROVE  Image'
<1>1. DOMAIN image' = Addresses /\ \A b \in Addresses : image'[b] = IF b = a THEN slot ELSE image[b]
  BY DEF Image
<1> QED
  BY <1>1 DEF Image

LEMMA AddSlotRow ==
    ASSUME RowInv, AddSlot
    PROVE  /\ Row' = [Row EXCEPT ![at] = Head(todo)] /\ Count' = Count
           /\ RowInv'
<1>1. /\ pc = "add" /\ at < Count /\ image' = [image EXCEPT ![AddressOf(at)] = Head(todo)]
      /\ UNCHANGED <<chain, taken, target, kills>>
  BY DEF AddSlot, past
<1>2. Placing(Row, Count, target, at, todo, RowLength(saved)) /\ Filled(Row, Count) /\ DOMAIN Row = 0 .. Count - 1
  BY <1>1, RowIs DEF RowInv, Adding, Indices
<1>3. /\ target \in Names /\ Remaining(target, todo) /\ at \in 1 .. Count - 1 /\ Count \in Nat
  BY <1>1, <1>2 DEF Placing, Filled
<1>4. Written(Head(todo)) /\ WellFormed(Head(todo))
  BY <1>3, RestIsWritten, SlotsAreUsed
<1>5. AddressOf(at) = AddressIn(chain, at) /\ at \in 0 .. RowLength(chain) - 1
  BY <1>3, RowIs
<1>6. Row' = [Row EXCEPT ![at] = Head(todo)]
  <2>1. chain \in Seq(Volume) /\ IsInjective(chain) /\ DOMAIN image = Addresses
    BY DEF RowInv, Clusters, Image
  <2>2. Row' = RowOf([image EXCEPT ![AddressIn(chain, at)] = Head(todo)], chain)
    BY <1>1, <1>5 DEF Row, RowOf, RowLength, AddressIn
  <2>3. RowOf(Put(image, AddressIn(chain, at), Head(todo)), chain) = Put(RowOf(image, chain), at, Head(todo))
    BY <1>5, <2>1, RowWritten
  <2> QED
    BY Zenon, <2>2, <2>3 DEF Row, Put
<1>7. Count' = Count
  BY <1>1 DEF Count
<1>8. Image'
  BY <1>1, <1>4, ImageWritten DEF RowInv
<1>9. Filled(Row', Count')
  BY <1>1, <1>2, <1>6, <1>7, PutFilled
<1>10. CASE Len(todo) = 1
  <2>1. pc' = "idle" /\ saved' = chain
    BY <1>10 DEF AddSlot, Ends
  <2>2. Clusters'
    BY <1>1, <2>1 DEF RowInv, Clusters
  <2>3. Process'
    BY <1>1, <2>1 DEF RowInv, Process
  <2> QED
    BY <1>6, <1>7, <1>8, <1>9, <2>1, <2>2, <2>3 DEF RowInv, Adding, Clearing, Removing
<1>11. CASE Len(todo) # 1
  <2>1. todo' = Tail(todo) /\ at' = at + 1 /\ UNCHANGED <<saved, pc, entry, result>>
    BY <1>11 DEF AddSlot
  <2>2. Clusters' /\ Process'
    BY <1>1, <2>1 DEF RowInv, Clusters, Process
  <2>3. RowLength(saved) \in Nat
    BY RowLengths DEF RowInv, Clusters
  <2>4. Placing([Row EXCEPT ![at] = Head(todo)], Count, target, at + 1, Tail(todo), RowLength(saved))
    BY <1>1, <1>2, <1>3, <1>11, <2>3, PutPlacing
  <2>5. Placing(Row', Count', target', at', todo', RowLength(saved'))
    BY Zenon, <1>1, <1>6, <1>7, <2>1, <2>4
  <2>6. RowLength(saved') = RowLength(saved)'
    BY DEF RowLength
  <2>7. Adding'
    BY <2>5, <2>6 DEF Adding
  <2>8. Removing' /\ Clearing'
    BY <1>1, <2>1 DEF Removing, Clearing
  <2> QED
    BY <1>6, <1>7, <1>8, <1>9, <2>2, <2>7, <2>8 DEF RowInv
<1> QED
  BY <1>6, <1>7, <1>10, <1>11

\* FreeClusters and what is taken from them.
LEMMA TakenCluster ==
    ASSUME RowInv, FreeClusters # {}
    PROVE  /\ Min(FreeClusters) \in FreeClusters
           /\ Min(FreeClusters) \in Volume /\ Min(FreeClusters) \notin Range(chain)
           /\ Min(FreeClusters) \notin taken
<1>1. FreeClusters \subseteq Nat
  BY SlotsAssumption DEF FreeClusters
<1>2. Min(FreeClusters) \in FreeClusters
  BY <1>1, LeastOf
<1> QED
  BY <1>2 DEF FreeClusters, Volume

\* The list of clusters with one that is free.
LEMMA Longer ==
    ASSUME RowInv, FreeClusters # {}, NEW longer, longer = Append(chain, Min(FreeClusters))
    PROVE  /\ longer \in Seq(Volume) /\ longer # <<>> /\ IsInjective(longer) /\ longer[1] = First
           /\ Len(longer) = Len(chain) + 1 /\ \A k \in 1 .. Len(chain) : longer[k] = chain[k]
           /\ taken \subseteq Volume \ Range(longer)
<1>1. PICK c : c = Min(FreeClusters)
  OBVIOUS
<1>2. c \in Volume /\ c \notin Range(chain) /\ c \notin taken
  BY <1>1, TakenCluster
<1>3. /\ chain \in Seq(Volume) /\ chain # <<>> /\ IsInjective(chain) /\ chain[1] = First
      /\ taken \subseteq Volume \ Range(chain)
  BY DEF RowInv, Clusters
<1>4. /\ longer \in Seq(Volume) /\ Len(longer) = Len(chain) + 1 /\ Len(chain) \in Nat
      /\ longer[Len(chain) + 1] = c /\ \A k \in 1 .. Len(chain) : longer[k] = chain[k]
  BY <1>1, <1>2, <1>3
<1>5. DOMAIN chain = 1 .. Len(chain) /\ DOMAIN longer = 1 .. Len(chain) + 1
  BY <1>3, <1>4
<1>6. \A k \in 1 .. Len(chain) : chain[k] # c
  BY <1>2, <1>5 DEF Range
<1>7. IsInjective(longer)
  <2> SUFFICES ASSUME NEW a \in 1 .. Len(chain) + 1, NEW b \in 1 .. Len(chain) + 1, longer[a] = longer[b]
               PROVE  a = b
    BY <1>5 DEF IsInjective
  <2>1. (a \in 1 .. Len(chain) \/ a = Len(chain) + 1) /\ (b \in 1 .. Len(chain) \/ b = Len(chain) + 1)
    BY <1>4
  <2>2. CASE a \in 1 .. Len(chain) /\ b \in 1 .. Len(chain)
    BY <1>3, <1>4, <1>5, <2>2 DEF IsInjective
  <2> QED
    BY <1>4, <1>6, <2>1, <2>2
<1>8. Range(longer) \subseteq Range(chain) \cup {c}
  <2> SUFFICES ASSUME NEW k \in 1 .. Len(chain) + 1 PROVE longer[k] \in Range(chain) \cup {c}
    BY <1>5 DEF Range
  <2>1. k \in 1 .. Len(chain) \/ k = Len(chain) + 1
    BY <1>4
  <2> QED
    BY <1>4, <1>5, <2>1 DEF Range
<1>9. taken \subseteq Volume \ Range(longer)
  BY <1>2, <1>3, <1>8
<1>10. Len(chain) >= 1 /\ longer[1] = First /\ longer # <<>>
  BY <1>3, <1>4
<1> QED
  BY <1>4, <1>7, <1>9, <1>10

LEMMA GrowRow ==
    ASSUME RowInv, Grow
    PROVE  Row' = Row /\ Count' = Count /\ RowInv'
<1>1. /\ pc = "add" /\ pc' = "clear" /\ at = Count /\ FreeClusters # {}
      /\ UNCHANGED <<image, chain, saved, taken, target, at, todo, entry, kills>>
  BY DEF Grow, command, past
<1>2. Row' = Row /\ Count' = Count
  BY <1>1, RowKept
<1>3. RowLength(saved)' = RowLength(saved) /\ FreeClusters' = FreeClusters
  BY <1>1 DEF RowLength, FreeClusters
<1>4. Adding'
  BY <1>1, <1>2, <1>3 DEF RowInv, Adding
<1>5. Clearing' /\ Removing' /\ Process' /\ Clusters' /\ Image'
  BY <1>1, <1>2, <1>3 DEF RowInv, Clearing, Removing, Process, Clusters, Image
<1> QED
  BY <1>2, <1>4, <1>5 DEF RowInv

LEMMA ClearRow ==
    ASSUME RowInv, Clear
    PROVE  /\ Count' = Count + ClusterSlots
           /\ Row' = [i \in 0 .. Count + ClusterSlots - 1 |-> IF i < Count THEN Row[i] ELSE ZeroSlot]
           /\ RowInv'
<1>1. PICK c : /\ c = Min(FreeClusters) /\ chain' = Append(chain, c)
               /\ image' = [a \in Addresses |-> IF a \in ClusterAddresses(c) THEN ZeroSlot ELSE image[a]]
  BY DEF Clear, Zeroed
<1>2. /\ pc = "clear" /\ pc' = "add" /\ at = Count /\ FreeClusters # {}
      /\ UNCHANGED <<taken, target, saved, at, todo, entry, kills>>
  BY DEF Clear, command, past, RowInv, Clearing
<1>3. c \in Volume /\ c \notin Range(chain) /\ c \notin taken
  BY <1>1, <1>2, TakenCluster
<1>4. chain \in Seq(Volume) /\ ClusterSlots \in Nat \ {0}
  BY SlotsAssumption DEF RowInv, Clusters
<1>5. /\ RowLength(chain') = RowLength(chain) + ClusterSlots
      /\ RowOf(image', chain') = [i \in 0 .. RowLength(chain) + ClusterSlots - 1 |->
                                    IF i < RowLength(chain) THEN RowOf(image, chain)[i] ELSE ZeroSlot]
  BY <1>1, <1>3, <1>4, RowExtended
<1>6. Count = RowLength(chain) /\ Count' = RowLength(chain') /\ Row = RowOf(image, chain) /\ Row' = RowOf(image', chain')
  BY DEF Count, RowLength, Row, RowOf, AddressIn
<1>7. Count' = Count + ClusterSlots
  BY <1>5, <1>6
<1>8. Row' = [i \in 0 .. Count + ClusterSlots - 1 |-> IF i < Count THEN Row[i] ELSE ZeroSlot]
  BY Zenon, <1>5, <1>6
<1>9. Filled(Row', Count')
  BY <1>4, <1>7, <1>8, GrowFilled DEF RowInv
<1>10. Image'
  <2>1. WellFormed(ZeroSlot)
    BY ZeroIsZero DEF WellFormed, Marks
  <2> QED
    BY <1>1, <2>1 DEF RowInv, Image
<1>11. Clusters'
  <2>1. /\ chain' \in Seq(Volume) /\ chain' # <<>> /\ IsInjective(chain') /\ chain'[1] = First
        /\ Len(chain') = Len(chain) + 1 /\ \A k \in 1 .. Len(chain) : chain'[k] = chain[k]
        /\ taken \subseteq Volume \ Range(chain')
    BY <1>1, <1>2, Longer
  <2>2. /\ saved \in Seq(Volume) /\ saved # <<>> /\ Len(saved) <= Len(chain) /\ Len(chain) \in Nat
        /\ \A k \in 1 .. Len(saved) : saved[k] = chain[k]
    BY <1>4 DEF RowInv, Clusters
  <2>3. saved' = saved /\ Len(saved) <= Len(chain') /\ \A k \in 1 .. Len(saved) : saved[k] = chain'[k]
    BY <1>2, <2>1, <2>2
  <2> QED
    BY <1>2, <2>1, <2>2, <2>3 DEF Clusters
<1>12. Process'
  BY <1>2 DEF RowInv, Process
<1>13. Adding'
  <2>1. Placing(Row, Count, target, Count, todo, RowLength(saved))
    BY <1>2 DEF RowInv, Adding
  <2>2. RowLength(saved) \in Nat /\ Count \in Nat
    BY RowLengths DEF RowInv, Clusters, Filled
  <2>3. Placing([i \in 0 .. Count + ClusterSlots - 1 |-> IF i < Count THEN Row[i] ELSE ZeroSlot],
                Count + ClusterSlots, target, Count, todo, RowLength(saved))
    BY <1>4, <2>1, <2>2, GrowPlacing
  <2>4. RowLength(saved)' = RowLength(saved)
    BY <1>2 DEF RowLength
  <2> QED
    BY Zenon, <1>2, <1>7, <1>8, <2>3, <2>4 DEF Adding
<1>14. Removing' /\ Clearing'
  BY <1>2 DEF Removing, Clearing
<1> QED
  BY <1>7, <1>8, <1>9, <1>10, <1>11, <1>12, <1>13, <1>14 DEF RowInv

\* The end of the directory is where slots are that never were in use.
LEMMA EndIs ==
    ASSUME RowInv
    PROVE  /\ EndOf \in 0 .. Count
           /\ \A i \in Indices : i < EndOf <=> Row[i].first # "zero"
<1>1. /\ Count \in Nat /\ Indices = 0 .. Count - 1
      /\ \A i \in Indices : Row[i] = Slot(i)
      /\ \A i, j \in 0 .. Count - 1 : i < j /\ Row[i].first = "zero" => Row[j].first = "zero"
  BY RowIs DEF RowInv, Filled, Indices
<1>2. PICK S : S = {i \in Indices : Slot(i).first = "zero"} \cup {Count}
  OBVIOUS
<1>3. S \subseteq Nat /\ Count \in S /\ \A i \in Indices : i \in S <=> Row[i].first = "zero"
  BY <1>1, <1>2
<1>4. PICK e : e = Min(S)
  OBVIOUS
<1>5. e \in S /\ \A i \in S : e <= i
  BY <1>3, <1>4, LeastOf
<1>6. EndOf = e
  BY Zenon, <1>2, <1>4 DEF EndOf
<1>7. e \in 0 .. Count
  BY <1>1, <1>3, <1>5
<1>8. ASSUME NEW i \in Indices PROVE i < e <=> Row[i].first # "zero"
  <2>1. CASE i < e
    BY <1>1, <1>3, <1>5, <1>7, <2>1
  <2>2. CASE ~(i < e)
    <3>1. e \in Indices /\ (e = i \/ e < i)
      BY <1>1, <1>7, <2>2
    <3>2. Row[e].first = "zero"
      BY <1>3, <1>5, <3>1
    <3> QED
      BY <1>1, <2>2, <3>1, <3>2
  <2> QED
    BY <2>1, <2>2
<1> QED
  BY <1>6, <1>7, <1>8

LEMMA ShortsAre ==
    ASSUME RowInv
    PROVE  /\ \A i : i \in Shorts <=> i \in Indices /\ IsEntry(Row[i])
           /\ \A i \in Indices : IsShort(i) <=> IsEntry(Row[i])
<1>1. /\ Count \in Nat /\ Indices = 0 .. Count - 1
      /\ \A i \in Indices : Row[i] = Slot(i)
  BY RowIs DEF RowInv, Filled, Indices
<1>2. \A i \in Indices : IsShort(i) <=> IsEntry(Row[i])
  BY <1>1 DEF IsShort, IsEntry, Used
<1>3. PICK e : e = EndOf
  OBVIOUS
<1>4. e \in 0 .. Count /\ \A i \in Indices : i < e <=> Row[i].first # "zero"
  BY <1>3, EndIs
<1>5. Shorts = {i \in 0 .. e - 1 : IsShort(i)}
  BY Zenon, <1>3 DEF Shorts
<1>6. \A i \in Indices : IsEntry(Row[i]) => i < e
  BY <1>4 DEF IsEntry
<1> QED
  BY <1>1, <1>2, <1>4, <1>5, <1>6

LEMMA LongRunIs ==
    ASSUME NEW i \in Nat
    PROVE  /\ \E since \in -1 .. i - 1 :
                /\ since # -1 => IsShort(since)
                /\ \A j \in 0 .. i - 1 : IsShort(j) => j <= since
                /\ LongRun(i) = {j \in since + 1 .. i - 1 : Used(j)}
           /\ LongRun(i) \subseteq 0 .. i - 1
           /\ IsFiniteSet(LongRun(i)) /\ Cardinality(LongRun(i)) \in Nat
<1> DEFINE S == {j \in 0 .. i - 1 : IsShort(j)} \cup {-1}
<1>1. S \subseteq Int /\ S # {} /\ i \in Int /\ \A j \in S : j <= i
  OBVIOUS
<1>2. PICK since : since = Max(S)
  OBVIOUS
<1>3. since \in S /\ \A j \in S : j <= since
  <2> HIDE DEF S
  <2> QED
    BY <1>1, <1>2, GreatestOf
<1>4. LongRun(i) = {j \in since + 1 .. i - 1 : Used(j)}
  BY Zenon, <1>2 DEF LongRun
<1>5. since \in -1 .. i - 1 /\ (since # -1 => IsShort(since)) /\ \A j \in 0 .. i - 1 : IsShort(j) => j <= since
  BY <1>3
<1>6. LongRun(i) \subseteq 0 .. i - 1
  BY <1>4, <1>5
<1>7. IsFiniteSet(0 .. i - 1)
  BY FS_Interval
<1>8. IsFiniteSet(LongRun(i)) /\ Cardinality(LongRun(i)) \in Nat
  BY <1>6, <1>7, FS_Subset, FS_CardinalityType
<1> QED
  BY <1>4, <1>5, <1>6, <1>8

\* What a lookup finds is an entry, and not the first slot, a dot.
LEMMA FoundEntry ==
    ASSUME RowInv, NEW n \in Names, Found(n)
    PROVE  /\ Find(n) \in 1 .. Count - 1 /\ IsEntry(Row[Find(n)]) /\ Matches(Find(n), n)
           /\ \A i \in Matching(n) : Find(n) <= i
<1>1. /\ Count \in Nat /\ Indices = 0 .. Count - 1 /\ Row[0] = DotSlot /\ 0 \in Indices
      /\ \A i \in Indices : Row[i] = Slot(i)
  BY RowIs DEF RowInv, Filled, Indices
<1>2. Matching(n) \subseteq Nat /\ Matching(n) # {}
  BY <1>1, ShortsAre DEF Found, Matching
<1>3. Find(n) \in Matching(n) /\ \A i \in Matching(n) : Find(n) <= i
  BY <1>2, LeastOf DEF Find
<1>4. Find(n) \in Indices /\ IsEntry(Row[Find(n)]) /\ Matches(Find(n), n)
  BY <1>3, ShortsAre DEF Matching
<1>5. ~Matches(0, n)
  <2>1. Slot(0).text = NoText /\ Alias[n] \in Range(Alias)
    BY <1>1, DotIsShort, SlotsAssumption DEF Range
  <2>2. LongRun(0) = {}
    BY LongRunIs
  <2>3. Cardinality(LongRun(0)) = 0 /\ Length(n) # 0
    BY <2>2, FS_EmptySet, NameLength
  <2>4. ~ByLongName(0, n)
    BY <2>3 DEF ByLongName, Length
  <2> QED
    BY <2>1, <2>4, SlotsAssumption DEF Matches
<1> QED
  BY <1>1, <1>3, <1>4, <1>5

\* When the directory, the image and the commands stay as they are.
LEMMA IdleRow ==
    ASSUME RowInv, UNCHANGED <<image, chain, kills>>, pc' = "idle", saved' = chain,
           taken' \subseteq Volume \ Range(chain)
    PROVE  RowInv' /\ Row' = Row /\ Count' = Count
<1>1. Row' = Row /\ Count' = Count
  BY RowKept
<1>2. Clusters'
  BY DEF RowInv, Clusters
<1> QED
  BY <1>1, <1>2 DEF RowInv, Image, Process, Adding, Clearing, Removing

LEMMA RemoveFoundRow == ASSUME RowInv, NEW n \in Names, RemoveFound(n) PROVE RowInv'
<1>1. /\ pc = "idle" /\ pc' = "remove" /\ entry' = AddressOf(Find(n)) /\ at' = LongNameFrom(n) /\ Found(n)
      /\ UNCHANGED <<image, chain, saved, taken, kills>>
  BY DEF RemoveFound, past
<1>2. Row' = Row /\ Count' = Count
  BY <1>1, RowKept
<1>3. PICK e : e = Find(n)
  OBVIOUS
<1>4. e \in 1 .. Count - 1 /\ IsEntry(Row[e])
  BY <1>1, <1>3, FoundEntry
<1>5. chain \in Seq(Volume) /\ Count \in Nat /\ Count = RowLength(chain)
  BY RowIs DEF RowInv, Clusters, Filled
<1>6. AddressOf(e) \in Int
  <2>1. e \in 0 .. RowLength(chain) - 1
    BY <1>4, <1>5
  <2>2. AddressIn(chain, e) \in Addresses
    BY <1>5, <2>1, AddressOnVolume DEF RowLength
  <2> QED
    BY <2>2, RowIs DEF Addresses
<1>7. PICK c : c = Cardinality(LongRun(e))
  OBVIOUS
<1>8. c \in Nat
  BY <1>4, <1>7, LongRunIs
<1>9. at' = AddressOf(e) - (IF ByLongName(e, n) THEN c ELSE 0)
  BY Zenon, <1>1, <1>3, <1>7 DEF LongNameFrom
<1>10. at' \in Int /\ at' <= AddressOf(e)
  BY <1>6, <1>8, <1>9
<1>11. AddressOf(e)' = AddressOf(e)
  BY <1>1 DEF AddressOf
<1>12. Removes(e)'
  BY <1>1, <1>2, <1>3, <1>4, <1>10, <1>11 DEF Removes
<1>13. Removing'
  BY <1>4, <1>12 DEF Removing
<1> QED
  BY <1>1, <1>2, <1>13 DEF RowInv, Image, Clusters, Process, Adding, Clearing

LEMMA RemoveLongRow ==
    ASSUME RowInv, RemoveLong
    PROVE  /\ Row' = [i \in 0 .. Count - 1 |-> IF i \in {j \in Indices : AddressOf(j) = at} THEN Deleted(Row[i]) ELSE Row[i]]
           /\ Count' = Count
           /\ \A i \in Indices : AddressOf(i) = at => Row[i].long
           /\ RowInv'
<1>1. /\ pc = "remove" /\ image[at].long /\ image' = [image EXCEPT ![at] = Deleted(image[at])]
      /\ at' = at + 1
      /\ UNCHANGED <<chain, saved, taken, pc, entry, kills>>
  BY DEF RemoveLong, past
<1>2. PICK e \in Nat : Removes(e)
  BY <1>1 DEF RowInv, Removing
<1>3. e \in 1 .. Count - 1 /\ entry = AddressOf(e) /\ at \in Int /\ at <= entry /\ IsEntry(Row[e])
  BY <1>2 DEF Removes
<1>4. /\ Count \in Nat /\ Indices = 0 .. Count - 1 /\ Count = RowLength(chain)
      /\ Row[0] = DotSlot /\ Filled(Row, Count)
      /\ \A i \in Indices : Row[i] = Slot(i) /\ Row[i] = image[AddressOf(i)]
      /\ \A i \in Indices : WellFormed(Row[i])
  BY RowIs DEF RowInv, Filled, Indices, Slot
<1>5. \A i \in Indices : AddressOf(i) = at => Row[i].long
  BY <1>1, <1>4
<1>6. DOMAIN image = Addresses /\ chain \in Seq(Volume) /\ \A a \in Addresses : WellFormed(image[a])
  BY DEF RowInv, Image, Clusters
<1> DEFINE D == {j \in Indices : AddressOf(j) = at}
<1>7. Row' = [i \in 0 .. Count - 1 |-> IF i \in D THEN Deleted(Row[i]) ELSE Row[i]]
  <2>1. Row' = RowOf(Put(image, at, Deleted(image[at])), chain)
    BY <1>1 DEF Row, RowOf, RowLength, AddressIn, Put
  <2>2. RowOf(Put(image, at, Deleted(image[at])), chain) = Touched(image, chain, at, Deleted(image[at]))
    BY <1>6, RowTouched
  <2>3. \A i \in Indices :
          (IF AddressIn(chain, i) = at THEN Deleted(image[at]) ELSE RowOf(image, chain)[i])
            = IF i \in D THEN Deleted(Row[i]) ELSE Row[i]
    BY <1>4, RowIs DEF Row
  <2> QED
    BY <1>4, <2>1, <2>2, <2>3 DEF Touched
<1>8. Count' = Count
  BY <1>1 DEF Count
<1>9. \A i \in 0 .. Count - 1 : i \in D => i # 0 /\ Row[i].first # "zero"
  BY <1>4, <1>5, DotIsShort, ZeroIsZero DEF WellFormed
<1> HIDE DEF D
<1>10. Filled(Row', Count')
  BY <1>4, <1>7, <1>8, <1>9, DeleteFilled
<1>11. Image'
  <2>1. at \in Addresses => WellFormed(Deleted(image[at]))
    <3> SUFFICES ASSUME at \in Addresses PROVE WellFormed(Deleted(image[at]))
      OBVIOUS
    <3>1. image[at].long \in BOOLEAN
      BY <1>6 DEF WellFormed
    <3>2. Deleted(image[at]).first = "deleted" /\ Deleted(image[at]).long = image[at].long
      BY DeletedIsDeleted
    <3> QED
      BY <3>1, <3>2 DEF WellFormed, Marks
  <2> QED
    BY <1>1, <2>1, ImageWritten DEF RowInv
<1>12. Removes(e)'
  <2>1. e \in Indices /\ e \notin D
    BY <1>3, <1>4, <1>5 DEF D, IsEntry
  <2>2. Row'[e] = Row[e]
    BY <1>4, <1>7, <2>1
  <2>3. AddressOf(e) # at /\ AddressOf(e) \in Int
    <3>1. AddressIn(chain, e) \in Addresses
      BY <1>4, <1>6, <2>1, AddressOnVolume DEF RowLength
    <3> QED
      BY <2>1, <3>1, RowIs DEF D, Addresses
  <2>4. at + 1 \in Int /\ at + 1 <= AddressOf(e)
    BY <1>3, <2>3
  <2>5. AddressOf(e)' = AddressOf(e)
    BY <1>1 DEF AddressOf
  <2> QED
    BY <1>1, <1>3, <1>8, <2>2, <2>4, <2>5 DEF Removes
<1>13. Removing' /\ Adding' /\ Clearing' /\ Clusters' /\ Process'
  BY <1>1, <1>12 DEF RowInv, Removing, Adding, Clearing, Clusters, Process
<1> QED
  BY <1>5, <1>7, <1>8, <1>10, <1>11, <1>13 DEF RowInv, D

LEMMA RemoveShortRow ==
    ASSUME RowInv, RemoveShort
    PROVE  /\ \E e \in Nat : /\ Removes(e) /\ Count' = Count
                             /\ Row' = [Row EXCEPT ![e] = Deleted(Row[e])]
           /\ RowInv'
<1>1. /\ pc = "remove" /\ pc' = "idle" /\ image' = [image EXCEPT ![entry] = Deleted(image[entry])]
      /\ UNCHANGED <<chain, saved, taken, kills>>
  BY DEF RemoveShort, DeletedShort, Ends, past
<1>2. PICK e \in Nat : Removes(e)
  BY <1>1 DEF RowInv, Removing
<1>3. e \in 1 .. Count - 1 /\ entry = AddressOf(e) /\ IsEntry(Row[e])
  BY <1>2 DEF Removes
<1>4. /\ Count \in Nat /\ Indices = 0 .. Count - 1 /\ Count = RowLength(chain)
      /\ Row[0] = DotSlot /\ Filled(Row, Count) /\ DOMAIN Row = 0 .. Count - 1
      /\ \A i \in Indices : Row[i] = image[AddressOf(i)]
      /\ \A i \in Indices : WellFormed(Row[i])
  BY RowIs DEF RowInv, Filled, Indices, Slot
<1>5. DOMAIN image = Addresses /\ chain \in Seq(Volume) /\ IsInjective(chain)
  BY DEF RowInv, Image, Clusters
<1>6. e \in Indices /\ entry = AddressIn(chain, e) /\ image[entry] = Row[e]
  BY <1>3, <1>4, RowIs
<1>7. Row' = [Row EXCEPT ![e] = Deleted(Row[e])]
  <2>1. Row' = RowOf(Put(image, AddressIn(chain, e), Deleted(Row[e])), chain)
    BY <1>1, <1>6 DEF Row, RowOf, RowLength, AddressIn, Put
  <2>2. RowOf(Put(image, AddressIn(chain, e), Deleted(Row[e])), chain) = Put(Row, e, Deleted(Row[e]))
    BY <1>4, <1>5, <1>6, RowWritten DEF Row
  <2> QED
    BY Zenon, <2>1, <2>2 DEF Put
<1>8. Count' = Count
  BY <1>1 DEF Count
<1>9. Filled(Row', Count')
  <2>1. Row' = [i \in 0 .. Count - 1 |-> IF i \in {e} THEN Deleted(Row[i]) ELSE Row[i]]
    BY <1>4, <1>7
  <2>2. \A i \in 0 .. Count - 1 : i \in {e} => i # 0 /\ Row[i].first # "zero"
    BY <1>3 DEF IsEntry
  <2> QED
    BY <1>4, <1>8, <2>1, <2>2, DeleteFilled
<1>10. Image'
  <2>1. WellFormed(Deleted(image[entry]))
    <3>1. image[entry].long \in BOOLEAN
      BY <1>4, <1>6 DEF WellFormed
    <3>2. Deleted(image[entry]).first = "deleted" /\ Deleted(image[entry]).long = image[entry].long
      BY DeletedIsDeleted
    <3> QED
      BY <3>1, <3>2 DEF WellFormed, Marks
  <2> QED
    BY <1>1, <2>1, ImageWritten DEF RowInv
<1>11. Clusters'
  BY <1>1 DEF RowInv, Clusters
<1> QED
  <2>1. Removing' /\ Adding' /\ Clearing'
    BY <1>1 DEF Removing, Adding, Clearing
  <2>2. Process'
    BY <1>1 DEF RowInv, Process
  <2> QED
    BY <1>2, <1>7, <1>8, <1>9, <1>10, <1>11, <2>1, <2>2 DEF RowInv

LEMMA OtherTakesRow == ASSUME RowInv, OtherTakes PROVE Row' = Row /\ Count' = Count /\ RowInv'
<1>1. PICK c : /\ c = Min(FreeClusters) /\ taken' = taken \cup {c}
               /\ image' = [a \in Addresses |->
                              IF a \in ClusterAddresses(c) THEN DataSlot(DataLooksLong) ELSE image[a]]
  BY DEF OtherTakes
<1>2. pc = "idle" /\ UNCHANGED <<chain, pc, saved, kills>>
  BY DEF OtherTakes, command, past
<1>3. c \in Volume /\ c \notin Range(chain)
  BY <1>1, TakenCluster DEF OtherTakes
<1>4. chain \in Seq(Volume) /\ taken \subseteq Volume \ Range(chain)
  BY DEF RowInv, Clusters
<1>5. Row' = Row
  <2>1. RowOf(image', chain) = RowOf(image, chain)
    BY <1>1, <1>3, <1>4, RowUntouched
  <2>2. Row' = RowOf(image', chain)
    BY <1>2 DEF Row, RowOf, RowLength, AddressIn
  <2> QED
    BY <2>1, <2>2 DEF Row
<1>6. Count' = Count
  BY <1>2 DEF Count
<1>7. Image'
  <2>1. WellFormed(DataSlot(DataLooksLong))
    BY DataIsUsed, SlotsAssumption DEF WellFormed, Marks
  <2> QED
    BY <1>1, <2>1 DEF RowInv, Image
<1>8. Clusters'
  BY <1>1, <1>2, <1>3, <1>4 DEF RowInv, Clusters
<1>9. Process'
  BY <1>2 DEF RowInv, Process
<1> QED
  BY <1>2, <1>5, <1>6, <1>7, <1>8, <1>9 DEF RowInv, Adding, Clearing, Removing

\* What remains of a list of clusters after a kill.
LEMMA CutList ==
    ASSUME NEW list \in Seq(Volume), IsInjective(list), list[1] = First, NEW m \in 1 .. Len(list),
           NEW cut, cut = SubSeq(list, 1, m)
    PROVE  /\ cut \in Seq(Volume) /\ cut # <<>> /\ Len(cut) = m
           /\ \A k \in 1 .. Len(cut) : cut[k] = list[k]
           /\ IsInjective(cut) /\ cut[1] = First /\ Range(cut) \subseteq Range(list)
<1>1. Len(list) \in Nat /\ DOMAIN list = 1 .. Len(list)
  OBVIOUS
<1>2. cut \in Seq(Volume) /\ Len(cut) = m /\ DOMAIN cut = 1 .. m /\ \A k \in 1 .. m : cut[k] = list[k]
  <2>1. cut = [k \in 1 .. m |-> list[k]]
    BY <1>1
  <2>2. \A k \in 1 .. m : list[k] \in Volume
    BY <1>1
  <2> QED
    BY <1>1, <2>1, <2>2
<1>3. \A k \in 1 .. m : k \in DOMAIN list
  BY <1>1
<1>4. IsInjective(cut)
  BY <1>2, <1>3 DEF IsInjective
<1>5. Range(cut) \subseteq Range(list)
  BY <1>2, <1>3 DEF Range
<1>6. cut[1] = First /\ cut # <<>>
  BY <1>1, <1>2
<1> QED
  BY <1>2, <1>4, <1>5, <1>6

LEMMA CrashRow ==
    ASSUME RowInv, Crash
    PROVE  /\ Count' \in Nat /\ Count' <= Count /\ RowLength(saved) <= Count'
           /\ Row' = [i \in 0 .. Count' - 1 |-> Row[i]]
           /\ RowInv'
<1>0. PICK m \in Len(saved) .. Len(chain) : Killed("idle", SubSeq(chain, 1, m))
  BY DEF Crash
<1>1. /\ pc # "idle" /\ kills' = kills + 1 /\ kills < MaxKills /\ pc' = "idle" /\ saved' = chain'
      /\ chain' = SubSeq(chain, 1, m) /\ UNCHANGED <<image, taken>>
  BY <1>0 DEF Killed
<1>2. /\ chain \in Seq(Volume) /\ chain # <<>> /\ IsInjective(chain) /\ chain[1] = First
      /\ taken \subseteq Volume \ Range(chain)
      /\ saved \in Seq(Volume) /\ saved # <<>> /\ Len(saved) <= Len(chain)
      /\ \A k \in 1 .. Len(saved) : saved[k] = chain[k]
  BY DEF RowInv, Clusters
<1>3. /\ chain' \in Seq(Volume) /\ chain' # <<>> /\ Len(chain') <= Len(chain) /\ Len(saved) <= Len(chain')
      /\ \A k \in 1 .. Len(chain') : chain'[k] = chain[k]
      /\ IsInjective(chain') /\ chain'[1] = First /\ Range(chain') \subseteq Range(chain)
  <2>1. Len(saved) \in Nat \ {0} /\ Len(chain) \in Nat /\ m \in 1 .. Len(chain) /\ m >= Len(saved)
    BY <1>2
  <2>2. chain \in Seq(Volume) /\ IsInjective(chain) /\ chain[1] = First /\ chain' = SubSeq(chain, 1, m)
    BY <1>1, <1>2
  <2>3. /\ chain' \in Seq(Volume) /\ chain' # <<>>
        /\ IsInjective(chain') /\ chain'[1] = First /\ Range(chain') \subseteq Range(chain)
    BY <2>1, <2>2, CutList
  <2>4. Len(chain') = m /\ \A k \in 1 .. m : chain'[k] = chain[k]
    BY <2>1, <2>2
  <2> QED
    BY <2>1, <2>3, <2>4
<1>4. Count = RowLength(chain) /\ Count' = RowLength(chain') /\ Row = RowOf(image, chain) /\ Row' = RowOf(image, chain')
  BY <1>1 DEF Count, RowLength, Row, RowOf, AddressIn
<1>5. RowLength(chain') <= RowLength(chain) /\ RowOf(image, chain') = [i \in 0 .. RowLength(chain') - 1 |-> RowOf(image, chain)[i]]
  BY <1>2, <1>3, RowCut
<1>6. Count' \in Nat \ {0} /\ Count' <= Count
  <2>1. RowLength(chain') \in Nat /\ RowLength(chain') >= ClusterSlots
    BY <1>3, RowLengths
  <2> QED
    BY <1>4, <1>5, <2>1, SlotsAssumption
<1>7. RowLength(saved) <= Count'
  <2>1. \A k \in 1 .. Len(saved) : saved[k] = chain'[k]
    BY <1>2, <1>3
  <2> QED
    BY <1>2, <1>3, <1>4, <2>1, RowCut
<1>8. Row' = [i \in 0 .. Count' - 1 |-> Row[i]]
  BY Zenon, <1>4, <1>5
<1>9. Filled(Row', Count')
  BY <1>6, <1>8, CutFilled DEF RowInv
<1>10. Clusters'
  <2>1. taken' \subseteq Volume \ Range(chain')
    BY <1>1, <1>2, <1>3
  <2>2. Len(chain') \in Nat
    BY <1>3
  <2> QED
    BY <1>1, <1>3, <2>1, <2>2 DEF Clusters
<1>11. Process'
  BY <1>1, SlotsAssumption DEF RowInv, Process
<1>12. Image' /\ Adding' /\ Clearing' /\ Removing'
  BY <1>1 DEF RowInv, Image, Adding, Clearing, Removing
<1> QED
  BY <1>6, <1>7, <1>8, <1>9, <1>10, <1>11, <1>12 DEF RowInv

\* A kill that tears the directory leaves its clusters in order, with one more.
LEMMA CrashTornDir ==
    ASSUME RowInv, CrashTorn
    PROVE  DirInv'
<1>1. PICK m \in Len(saved) + 1 .. Len(Growing) : Killed("torn", SubSeq(Growing, 1, m))
  BY DEF CrashTorn
<1>2. /\ kills' = kills + 1 /\ kills < MaxKills /\ pc' = "torn" /\ saved' = chain'
      /\ chain' = SubSeq(Growing, 1, m) /\ UNCHANGED <<image, taken>>
  BY <1>1 DEF Killed
<1>3. /\ Growing \in Seq(Volume) /\ IsInjective(Growing) /\ Growing[1] = First
      /\ taken \subseteq Volume \ Range(Growing)
  <2>1. CASE pc = "clear"
    BY <2>1, Longer DEF Growing, RowInv, Clearing
  <2>2. CASE pc # "clear"
    BY <2>2 DEF Growing, RowInv, Clusters
  <2> QED
    BY <2>1, <2>2
<1>4. /\ chain' \in Seq(Volume) /\ chain' # <<>> /\ IsInjective(chain') /\ chain'[1] = First
      /\ Range(chain') \subseteq Range(Growing)
  <2>1. Len(saved) \in Nat /\ Len(Growing) \in Nat /\ m \in 1 .. Len(Growing)
    BY <1>3 DEF RowInv, Clusters
  <2> QED
    BY <1>2, <1>3, <2>1, CutList
<1>5. Clusters'
  <2>1. taken' \subseteq Volume \ Range(chain')
    BY <1>2, <1>3, <1>4
  <2>2. Len(chain') \in Nat
    BY <1>4
  <2> QED
    BY <1>2, <1>4, <2>1, <2>2 DEF Clusters
<1>6. Image'
  BY <1>2 DEF RowInv, Image
<1>7. kills' \in 0 .. MaxKills /\ kills' # 0
  BY <1>2, SlotsAssumption DEF RowInv, Process
<1> QED
  BY <1>2, <1>5, <1>6, <1>7 DEF DirInv, Torn

LEMMA QuietRow ==
    ASSUME RowInv,
           \/ \E n \in Names : OpenThere(n) \/ RemoveMissing(n)
           \/ AddFails \/ OtherFrees
    PROVE  RowInv' /\ Row' = Row /\ Count' = Count
<1>1. taken \subseteq Volume \ Range(chain) /\ (pc = "idle" => saved = chain)
  BY DEF RowInv, Clusters, Process
<1>2. ASSUME NEW n \in Names, OpenThere(n) PROVE RowInv' /\ Row' = Row /\ Count' = Count
  <2>1. UNCHANGED <<image, chain, kills>> /\ pc' = "idle" /\ saved' = chain /\ taken' = taken
    BY <1>1, <1>2 DEF OpenThere, command, past
  <2> QED
    BY <1>1, <2>1, IdleRow
<1>3. ASSUME NEW n \in Names, RemoveMissing(n) PROVE RowInv' /\ Row' = Row /\ Count' = Count
  <2>1. UNCHANGED <<image, chain, kills>> /\ pc' = "idle" /\ saved' = chain /\ taken' = taken
    BY <1>1, <1>3 DEF RemoveMissing, command, past
  <2> QED
    BY <1>1, <2>1, IdleRow
<1>4. CASE AddFails
  <2>1. UNCHANGED <<image, chain, kills>> /\ pc' = "idle" /\ saved' = chain /\ taken' = taken
    BY <1>4 DEF AddFails, Ends
  <2> QED
    BY <1>1, <2>1, IdleRow
<1>5. CASE OtherFrees
  <2>1. UNCHANGED <<image, chain, kills>> /\ pc' = "idle" /\ saved' = chain /\ taken' \subseteq taken
    BY <1>1, <1>5 DEF OtherFrees, command, past
  <2> QED
    BY <1>1, <2>1, IdleRow
<1> QED
  BY <1>2, <1>3, <1>4, <1>5

LEMMA StutterRow == ASSUME RowInv, UNCHANGED vars PROVE RowInv' /\ Row' = Row /\ Count' = Count
<1>1. UNCHANGED <<image, chain, saved, taken, pc, target, at, todo, entry, kills>>
  BY DEF vars
<1>2. Row' = Row /\ Count' = Count
  BY <1>1, RowKept
<1>3. AddressOf(0)' = AddressOf(0) /\ \A e \in Nat : Removes(e)' <=> Removes(e)
  BY <1>1, <1>2 DEF Removes, AddressOf
<1>4. RowLength(saved)' = RowLength(saved) /\ FreeClusters' = FreeClusters
  BY <1>1 DEF RowLength, FreeClusters
<1> QED
  BY <1>1, <1>2, <1>3, <1>4 DEF RowInv, Image, Clusters, Process, Adding, Clearing, Removing

\* A step that leaves a directory whole.
LEMMA StepRow == ASSUME RowInv, [Next]_vars, ~CrashTorn PROVE RowInv'
<1>1. ~StaysTorn
  BY DEF StaysTorn, Torn, RowInv, Process
<1> QED
  BY <1>1, StutterRow, QuietRow, CreateRow, AddSlotRow, GrowRow, ClearRow, RemoveFoundRow, RemoveLongRow,
     RemoveShortRow, OtherTakesRow, CrashRow DEF Next

\* No command runs in a torn directory.
LEMMA TornStays == ASSUME DirInv, Torn, [Next]_vars PROVE UNCHANGED vars
<1>1. pc = "torn"
  BY DEF Torn
<1>2. \A n \in Names : ~OpenThere(n) /\ ~Create(n) /\ ~RemoveFound(n) /\ ~RemoveMissing(n)
  BY <1>1 DEF OpenThere, Create, RemoveFound, RemoveMissing
<1>3. ~AddSlot /\ ~Grow /\ ~Clear /\ ~AddFails /\ ~RemoveLong /\ ~RemoveShort /\ ~OtherTakes /\ ~OtherFrees
  BY <1>1 DEF AddSlot, Grow, Clear, AddFails, RemoveLong, RemoveShort, OtherTakes, OtherFrees
<1>4. ~Crash /\ ~CrashTorn
  BY <1>1 DEF Crash, CrashTorn, Killed
<1> QED
  BY <1>2, <1>3, <1>4 DEF Next, StaysTorn

LEMMA StepDir == DirInv /\ [Next]_vars => DirInv'
<1> SUFFICES ASSUME DirInv, [Next]_vars PROVE DirInv'
  OBVIOUS
<1>1. CASE Torn
  <2>1. UNCHANGED <<image, chain, saved, taken, pc, kills>>
    BY <1>1, TornStays DEF vars
  <2> QED
    BY <1>1, <2>1 DEF DirInv, Image, Clusters, Torn
<1>2. CASE ~Torn /\ CrashTorn
  BY <1>2, CrashTornDir DEF DirInv
<1>3. CASE ~Torn /\ ~CrashTorn
  <2>1. RowInv'
    BY <1>3, StepRow DEF DirInv
  <2> QED
    BY <2>1 DEF DirInv, RowInv, Process, Torn
<1> QED
  BY <1>1, <1>2, <1>3

LEMMA AlwaysDir == Spec => []DirInv
<1>1. Init => DirInv
  BY InitRow DEF DirInv, RowInv, Process, Torn
<1>2. DirInv /\ [Next]_vars => DirInv'
  BY StepDir
<1> QED
  BY <1>1, <1>2, PTL DEF Spec

\* Between two slots of a command, what TypeOK says of the place it has come to.
Commands ==
    /\ pc \in {"idle", "add", "clear", "remove", "torn"}
    /\ pc \in {"add", "clear"} => at <= Count /\ todo # <<>>
    /\ pc = "idle" => saved = chain
    /\ pc = "remove" => at <= entry /\ ~image[entry].long

\* A directory that no kill tore.
LEMMA WholeTyped == ASSUME RowInv PROVE NothingBehindEnd /\ Commands
<1>1. /\ Count \in Nat /\ Indices = 0 .. Count - 1
      /\ \A i \in Indices : Row[i] = Slot(i) /\ Row[i] = image[AddressOf(i)] /\ WellFormed(Row[i])
  BY RowIs DEF RowInv, Filled, Indices, Slot
<1>2. NothingBehindEnd
  <2>1. EndOf \in 0 .. Count /\ \A i \in Indices : i < EndOf <=> Row[i].first # "zero"
    BY EndIs
  <2> QED
    BY <1>1, <2>1 DEF NothingBehindEnd
<1>7. pc \in {"add", "clear"} => at <= Count /\ todo # <<>>
  <2> SUFFICES ASSUME pc \in {"add", "clear"} PROVE at <= Count /\ todo # <<>>
    OBVIOUS
  <2>1. target \in Names /\ at \in 1 .. Count /\ Len(todo) \in 1 .. Length(target) + 1
    BY DEF RowInv, Adding, Placing, Remaining
  <2> QED
    BY <1>1, <2>1, NameLength
<1>8. pc = "remove" => at <= entry /\ ~image[entry].long
  <2> SUFFICES ASSUME pc = "remove" PROVE at <= entry /\ ~image[entry].long
    OBVIOUS
  <2>1. PICK e \in Nat : Removes(e)
    BY DEF RowInv, Removing
  <2>2. e \in Indices /\ entry = AddressOf(e) /\ at <= entry /\ IsEntry(Row[e])
    BY <1>1, <2>1 DEF Removes
  <2> QED
    BY <1>1, <2>2 DEF IsEntry
<1>9. pc \in {"idle", "add", "clear", "remove"} /\ (pc = "idle" => saved = chain)
  BY DEF RowInv, Process
<1> QED
  BY <1>2, <1>7, <1>8, <1>9 DEF Commands

\* Whatever is created, removed or taken by other files, and after any kills of which
\* none left a cluster without its end in the directory, no slot behind its end is in
\* use; its clusters are its own even then, and a command has not come further than
\* the slots there are (directory.c 40-77, file.c 178-198).
THEOREM Typing == Spec => []TypeOK
<1>1. ASSUME DirInv PROVE TypeOK
  <2>1. ~Torn => NothingBehindEnd /\ Commands
    BY <1>1, WholeTyped DEF DirInv
  <2>2. DOMAIN image = Addresses /\ \A a \in Addresses : image[a].first \in Marks /\ image[a].long \in BOOLEAN
    BY <1>1 DEF DirInv, Image, WellFormed
  <2>3. /\ chain \in Seq(Volume) /\ IsInjective(chain) /\ chain[1] = First
        /\ taken \subseteq Volume \ Range(chain)
        /\ saved \in Seq(Volume) /\ Len(saved) <= Len(chain)
        /\ \A k \in 1 .. Len(saved) : saved[k] = chain[k]
    BY <1>1 DEF DirInv, Clusters
  <2>4. Range(chain) \subseteq Volume
    BY <2>3 DEF Range
  <2>5. saved = SubSeq(chain, 1, Len(saved))
    <3>1. saved = [k \in 1 .. Len(saved) |-> chain[k]]
      BY <2>3
    <3>2. SubSeq(chain, 1, Len(saved)) = [k \in 1 .. Len(saved) |-> chain[k]]
      BY <2>3
    <3> QED
      BY <3>1, <3>2
  <2>6. kills \in 0 .. MaxKills
    BY <1>1 DEF DirInv
  <2>7. Commands
    BY <2>1 DEF Commands, Torn
  <2> QED
    BY <2>1, <2>2, <2>3, <2>4, <2>5, <2>6, <2>7 DEF TypeOK, Commands
<1> QED
  BY <1>1, AlwaysDir, PTL

\* What was written is found by its alias, also behind long-name slots that are not
\* its own, and after any kills of which none left a cluster without its end in the
\* directory (file.c 421-471).
THEOREM Finding == Spec => []EntriesFound
<1>1. DirInv => EntriesFound
  <2> SUFFICES ASSUME RowInv, NEW n \in Names, NEW i \in EntriesOf(n) PROVE Found(n)
    BY DEF EntriesFound, DirInv
  <2>1. i \in Indices /\ IsShort(i) /\ Slot(i).owner = n
    BY DEF EntriesOf
  <2>2. i \in Shorts /\ IsEntry(Row[i]) /\ Row[i] = Slot(i) /\ i \in 0 .. Count - 1
    BY <2>1, ShortsAre, RowIs DEF Indices
  <2>3. Written(Row[i])
    BY <2>2 DEF RowInv, Filled, IsEntry
  <2>4. Slot(i).text = Alias[n]
    <3>1. CASE Row[i] = DotSlot
      BY <2>1, <2>2, <3>1, DotIsShort, SlotsAssumption
    <3>2. ASSUME NEW m \in Names, Row[i] = ShortSlot(m) PROVE Slot(i).text = Alias[n]
      <4>1. ShortSlot(m).owner = m /\ ShortSlot(m).text = Alias[m]
        BY DEF ShortSlot
      <4> QED
        BY <2>1, <2>2, <3>2, <4>1
    <3>3. ASSUME NEW m \in Names, NEW q \in 1 .. Length(m), Row[i] = LongSlot(m, q) PROVE FALSE
      <4>1. LongSlot(m, q).long = TRUE
        BY DEF LongSlot
      <4> QED
        BY <2>2, <3>3, <4>1 DEF IsEntry
    <3> QED
      BY <2>3, <3>1, <3>2, <3>3 DEF Written
  <2> QED
    BY <2>2, <2>4 DEF Found, Matching, Matches
<1> QED
  BY <1>1, AlwaysDir, PTL
-----------------------------------------------------------------------------
(***************************************************************************)
(* As long as nothing was killed or lost and the clusters of a directory    *)
(* follow each other, it is a row of whole entries: a lookup and a listing   *)
(* see the names that were written.                                         *)
(***************************************************************************)
(* The slots of an entry by how far they are from its end. *)

Piece(n, q) == IF q = 0 THEN ShortSlot(n) ELSE LongSlot(n, q)

Orders(n) == 0 .. Length(n)

LEMMA OrdersAre ==
    ASSUME NEW n \in Names
    PROVE  0 \in Orders(n) /\ Length(n) \in Orders(n) /\ Length(n) \in Nat \ {0} /\ Orders(n) \subseteq Nat
<1>1. Length(n) \in Nat \ {0}
  BY NameLength
<1> QED
  BY <1>1 DEF Orders

LEMMA PieceShort ==
    ASSUME NEW n \in Names
    PROVE  /\ Piece(n, 0).first = "used" /\ Piece(n, 0).long = FALSE /\ Piece(n, 0).order = 0
           /\ Piece(n, 0).owner = n /\ Piece(n, 0).text = Alias[n]
<1>1. Piece(n, 0) = ShortSlot(n)
  BY DEF Piece
<1>2. /\ ShortSlot(n).first = "used" /\ ShortSlot(n).long = FALSE /\ ShortSlot(n).order = 0
      /\ ShortSlot(n).owner = n /\ ShortSlot(n).text = Alias[n]
  BY DEF ShortSlot
<1> QED
  BY <1>1, <1>2

LEMMA PieceLong ==
    ASSUME NEW n \in Names, NEW q \in Orders(n), q # 0
    PROVE  /\ Piece(n, q).first = "used" /\ Piece(n, q).long = TRUE /\ Piece(n, q).order = q
           /\ Piece(n, q).owner = n
<1>1. Piece(n, q) = LongSlot(n, q)
  BY DEF Piece
<1>2. /\ LongSlot(n, q).first = "used" /\ LongSlot(n, q).long = TRUE /\ LongSlot(n, q).order = q
      /\ LongSlot(n, q).owner = n
  BY DEF LongSlot
<1> QED
  BY <1>1, <1>2

LEMMA PieceText ==
    ASSUME NEW n \in Names, NEW q \in Orders(n), q # 0
    PROVE  Piece(n, q).text = Pieces[n][q]
<1>1. Piece(n, q) = LongSlot(n, q)
  BY DEF Piece
<1>2. LongSlot(n, q).text = Pieces[n][q]
  BY DEF LongSlot
<1> QED
  BY <1>1, <1>2

LEMMA PieceIs ==
    ASSUME NEW n \in Names, NEW q \in Orders(n)
    PROVE  /\ Piece(n, q).first = "used" /\ Piece(n, q).order = q /\ Piece(n, q).owner = n
           /\ Piece(n, q) # DotSlot
<1>1. n # Dots
  BY SlotsAssumption
<1>2. Piece(n, q).first = "used" /\ Piece(n, q).order = q /\ Piece(n, q).owner = n
  <2>1. CASE q = 0
    BY <2>1, PieceShort
  <2>2. CASE q # 0
    BY <2>2, PieceLong
  <2> QED
    BY <2>1, <2>2
<1> QED
  BY <1>1, <1>2, DotIsShort

LEMMA OnePiece ==
    ASSUME NEW n \in Names, NEW q \in Orders(n), NEW k \in Names, NEW p \in Orders(k),
           Piece(n, q) = Piece(k, p)
    PROVE  n = k /\ q = p
<1>1. Piece(n, q).owner = n /\ Piece(n, q).order = q
  BY PieceIs
<1>2. Piece(k, p).owner = k /\ Piece(k, p).order = p
  BY PieceIs
<1> QED
  BY <1>1, <1>2

LEMMA WrittenIs ==
    ASSUME NEW slot
    PROVE  Written(slot) <=> slot = DotSlot \/ \E n \in Names : \E q \in Orders(n) : slot = Piece(n, q)
<1>1. \A n \in Names : Length(n) \in Nat \ {0}
  BY NameLength
<1>2. ASSUME NEW n \in Names PROVE 0 \in Orders(n) /\ Piece(n, 0) = ShortSlot(n)
  BY <1>1, <1>2 DEF Orders, Piece
<1>3. ASSUME NEW n \in Names, NEW q \in 1 .. Length(n) PROVE q \in Orders(n) /\ Piece(n, q) = LongSlot(n, q)
  BY <1>1, <1>3 DEF Orders, Piece
<1>4. ASSUME NEW n \in Names, NEW q \in Orders(n) PROVE q = 0 \/ q \in 1 .. Length(n)
  BY <1>1, <1>4 DEF Orders
<1>5. ASSUME Written(slot) PROVE slot = DotSlot \/ \E n \in Names : \E q \in Orders(n) : slot = Piece(n, q)
  BY <1>2, <1>3, <1>5 DEF Written
<1>6. ASSUME NEW n \in Names, NEW q \in Orders(n), slot = Piece(n, q) PROVE Written(slot)
  <2>1. CASE q = 0
    BY <1>2, <1>6, <2>1 DEF Written
  <2>2. CASE q \in 1 .. Length(n)
    BY <1>3, <1>6, <2>2 DEF Written
  <2> QED
    BY <1>4, <2>1, <2>2
<1> QED
  BY <1>5, <1>6 DEF Written

LEMMA EntryPieces ==
    ASSUME NEW n \in Names, NEW k \in 1 .. Length(n) + 1
    PROVE  SlotsOf(n)[k] = Piece(n, (Length(n) + 1) - k) /\ (Length(n) + 1) - k \in Orders(n)
<1>1. Length(n) \in Nat \ {0}
  BY NameLength
<1>2. CASE k = Length(n) + 1
  <2>1. (Length(n) + 1) - k = 0
    BY <1>1, <1>2
  <2>2. SlotsOf(n)[k] = ShortSlot(n)
    BY <1>2, EntrySlots
  <2> QED
    BY <1>1, <2>1, <2>2 DEF Piece, Orders
<1>3. CASE k \in 1 .. Length(n)
  <2>1. (Length(n) + 1) - k \in Orders(n) /\ (Length(n) + 1) - k # 0
    BY <1>1, <1>3 DEF Orders
  <2>2. \A p \in 1 .. Length(n) : SlotsOf(n)[p] = LongSlot(n, Length(n) + 1 - p)
    BY EntrySlots
  <2>3. SlotsOf(n)[k] = LongSlot(n, (Length(n) + 1) - k)
    <3>1. Length(n) + 1 - k = (Length(n) + 1) - k
      BY <1>1
    <3>2. SlotsOf(n)[k] = LongSlot(n, Length(n) + 1 - k)
      BY <1>3, <2>2
    <3> QED
      BY Zenon, <3>1, <3>2
  <2> QED
    BY <2>1, <2>3 DEF Piece
<1> QED
  BY <1>1, <1>2, <1>3

-----------------------------------------------------------------------------
(* A row of whole entries, but for what a command has in hand. *)

\* Every long-name slot, but for x, has the next slot of its entry behind it.
Followed(row, m, x) ==
    \A j \in 0 .. m - 1 : \A n \in Names : \A q \in Orders(n) :
        row[j] = Piece(n, q) /\ q # 0 /\ j # x => j + 1 < m /\ row[j + 1] = Piece(n, q - 1)

\* Every slot of an entry, but for y, has the slot before it in front of it.
Preceded(row, m, y) ==
    \A j \in 0 .. m - 1 : \A n \in Names : \A q \in Orders(n) :
        row[j] = Piece(n, q) /\ q # Length(n) /\ j # y => j > 0 /\ row[j - 1] = Piece(n, q + 1)

Absent(row, m, n) == \A j \in 0 .. m - 1 : row[j] # Piece(n, 0)

\* No name has two entries.
Single(row, m) ==
    \A i, j \in 0 .. m - 1 : \A n \in Names : row[i] = Piece(n, 0) /\ row[j] = Piece(n, 0) => i = j

\* What the last slot that a creation wrote waits for.
Ahead(n, a, rest) == IF Done(n, rest) = 0 THEN -1 ELSE a - 1

\* What is left of the entry that ends with slot e: all from order r on.
Left(row, m, e, n, r) ==
    /\ e \in 1 .. m - 1 /\ n \in Names /\ r \in Orders(n) /\ r < e
    /\ \A q \in 0 .. r : row[e - q] = Piece(n, q)
    /\ row[e - r - 1].first = "used" => ~row[e - r - 1].long
    /\ Followed(row, m, -1) /\ Preceded(row, m, e - r) /\ Single(row, m)

\* A slot of an entry was written, the last one or another.
Further(row, m, n, a, rest) ==
    /\ Followed(row, m, IF Len(rest) = 1 THEN -1 ELSE a) /\ Preceded(row, m, -1) /\ Single(row, m)
    /\ Len(rest) # 1 => Absent(row, m, n)
    /\ \E j \in 0 .. m - 1 : Len(rest) = 1 => row[j] = Piece(n, 0)

LEMMA PutNeat ==
    ASSUME NEW row, NEW m \in Nat, DOMAIN row = 0 .. m - 1,
           NEW n, NEW a, NEW rest, NEW s, Placing(row, m, n, a, rest, s), a < m,
           Followed(row, m, Ahead(n, a, rest)), Preceded(row, m, -1), Single(row, m), Absent(row, m, n),
           NEW new, new = Put(row, a, Head(rest))
    PROVE  Further(new, m, n, a, rest)
<1>1. /\ n \in Names /\ a \in 1 .. m /\ Remaining(n, rest)
      /\ \A i \in a .. m - 1 : i < a + Len(rest) => row[i].first # "used"
      /\ Begun(row, n, a, Done(n, rest))
  BY DEF Placing
<1>2. PICK l : l = Len(rest)
  OBVIOUS
<1>3. PICK t : t = Length(n)
  OBVIOUS
<1>4. t \in Nat \ {0} /\ l \in 1 .. t + 1
  BY <1>1, <1>2, <1>3, NameLength DEF Remaining
<1>5. PICK d : d = Done(n, rest)
  OBVIOUS
<1>6. d = (t + 1) - l /\ d \in 0 .. t
  BY <1>2, <1>3, <1>4, <1>5 DEF Done
<1>7. Head(rest) = Piece(n, l - 1) /\ l - 1 \in Orders(n)
  <2>1. Head(rest) = SlotsOf(n)[d + 1]
    BY <1>1, <1>5, HeadOfRest
  <2>2. d + 1 \in 1 .. Length(n) + 1 /\ (Length(n) + 1) - (d + 1) = l - 1
    BY <1>3, <1>4, <1>6
  <2> QED
    BY <1>1, <2>1, <2>2, EntryPieces
<1>8. d # 0 => row[a - 1] = Piece(n, l) /\ l \in Orders(n)
  <2> SUFFICES ASSUME d # 0 PROVE row[a - 1] = Piece(n, l) /\ l \in Orders(n)
    OBVIOUS
  <2>1. d \in 1 .. d /\ a - d + d - 1 = a - 1
    BY <1>1, <1>6
  <2>2. row[a - 1] = SlotsOf(n)[d]
    BY <1>1, <1>5, <2>1 DEF Begun
  <2>3. d \in 1 .. Length(n) + 1 /\ (Length(n) + 1) - d = l
    BY <1>3, <1>4, <1>6
  <2> QED
    BY <1>1, <2>2, <2>3, EntryPieces
<1>9. \A j \in 0 .. m - 1 : new[j] = IF j = a THEN Piece(n, l - 1) ELSE row[j]
  BY <1>7 DEF Put
<1>10. a \in 1 .. m - 1 /\ row[a].first # "used"
  BY <1>1, <1>2, <1>4
<1>11. \A k \in Names : \A q \in Orders(k) : row[a] # Piece(k, q)
  BY <1>10, PieceIs
<1>12. Followed(new, m, IF l = 1 THEN -1 ELSE a)
  <2> SUFFICES ASSUME NEW j \in 0 .. m - 1, NEW k \in Names, NEW q \in Orders(k),
                      new[j] = Piece(k, q), q # 0, j # (IF l = 1 THEN -1 ELSE a)
               PROVE  j + 1 < m /\ new[j + 1] = Piece(k, q - 1)
    BY DEF Followed
  <2>1. CASE j = a
    <3>1. k = n /\ q = l - 1
      BY <1>1, <1>7, <1>9, <2>1, OnePiece
    <3> QED
      BY <1>4, <2>1, <3>1
  <2>2. CASE j # a /\ j = Ahead(n, a, rest)
    <3>1. d # 0 /\ j = a - 1
      BY <1>5, <2>2 DEF Ahead
    <3>2. Piece(k, q) = Piece(n, l) /\ l \in Orders(n)
      BY <1>8, <1>9, <2>2, <3>1
    <3>3. k = n /\ q = l
      BY <1>1, <3>2, OnePiece
    <3>4. j + 1 = a
      BY <1>10, <3>1
    <3> QED
      BY <1>9, <1>10, <3>3, <3>4
  <2>3. CASE j # a /\ j # Ahead(n, a, rest)
    <3>1. row[j] = Piece(k, q)
      BY <1>9, <2>3
    <3>2. j + 1 < m /\ row[j + 1] = Piece(k, q - 1)
      BY <2>3, <3>1 DEF Followed
    <3>3. q - 1 \in Orders(k) /\ j + 1 \in 0 .. m - 1
      BY <3>2, OrdersAre DEF Orders
    <3>4. j + 1 # a
      BY <1>11, <3>2, <3>3
    <3> QED
      BY <1>9, <3>2, <3>3, <3>4
  <2> QED
    BY <2>1, <2>2, <2>3
<1>13. Preceded(new, m, -1)
  <2> SUFFICES ASSUME NEW j \in 0 .. m - 1, NEW k \in Names, NEW q \in Orders(k),
                      new[j] = Piece(k, q), q # Length(k)
               PROVE  j > 0 /\ new[j - 1] = Piece(k, q + 1)
    BY DEF Preceded
  <2>1. CASE j = a
    <3>1. k = n /\ q = l - 1
      BY <1>1, <1>7, <1>9, <2>1, OnePiece
    <3>2. d # 0
      BY <1>3, <1>4, <1>6, <3>1
    <3>3. row[a - 1] = Piece(n, l) /\ q + 1 = l
      BY <1>4, <1>8, <3>1, <3>2
    <3>4. a - 1 \in 0 .. m - 1 /\ a - 1 # a
      BY <1>10
    <3> QED
      BY <1>9, <1>10, <2>1, <3>1, <3>3, <3>4
  <2>2. CASE j # a
    <3>1. row[j] = Piece(k, q) /\ j # -1
      BY <1>9, <2>2
    <3>2. j > 0 /\ row[j - 1] = Piece(k, q + 1)
      BY <3>1 DEF Preceded
    <3>3. q + 1 \in Orders(k) /\ j - 1 \in 0 .. m - 1
      BY <3>2, OrdersAre DEF Orders
    <3>4. j - 1 # a
      BY <1>11, <3>2, <3>3
    <3> QED
      BY <1>9, <3>2, <3>3, <3>4
  <2> QED
    BY <2>1, <2>2
<1>14. Single(new, m)
  <2> SUFFICES ASSUME NEW i \in 0 .. m - 1, NEW j \in 0 .. m - 1, NEW k \in Names,
                      new[i] = Piece(k, 0), new[j] = Piece(k, 0)
               PROVE  i = j
    BY DEF Single
  <2>1. 0 \in Orders(k)
    BY OrdersAre
  <2>2. i = a \/ j = a => k = n
    BY <1>1, <1>7, <1>9, <2>1, OnePiece
  <2>3. CASE i = a \/ j = a
    <3>1. \A h \in 0 .. m - 1 : row[h] # Piece(k, 0)
      BY <2>2, <2>3 DEF Absent
    <3> QED
      BY <1>9, <3>1
  <2>4. CASE i # a /\ j # a
    BY <1>9, <2>4 DEF Single
  <2> QED
    BY <2>3, <2>4
<1>15. l # 1 => Absent(new, m, n)
  <2> SUFFICES ASSUME l # 1, NEW j \in 0 .. m - 1, new[j] = Piece(n, 0) PROVE FALSE
    BY DEF Absent
  <2>1. 0 \in Orders(n)
    BY <1>1, OrdersAre
  <2>2. j = a
    BY <1>9 DEF Absent
  <2>3. l - 1 = 0
    BY <1>1, <1>7, <1>9, <2>1, <2>2, OnePiece
  <2> QED
    BY <1>4, <2>3
<1>16. \E j \in 0 .. m - 1 : l = 1 => new[j] = Piece(n, 0)
  BY <1>9, <1>10
<1> QED
  BY <1>2, <1>12, <1>13, <1>14, <1>15, <1>16 DEF Further

\* New clusters are empty.
LEMMA GrowNeat ==
    ASSUME NEW row, NEW m \in Nat, NEW more \in Nat, NEW x, NEW n \in Names,
           Followed(row, m, x), Preceded(row, m, -1), Single(row, m), Absent(row, m, n),
           NEW new, new = [i \in 0 .. m + more - 1 |-> IF i < m THEN row[i] ELSE ZeroSlot]
    PROVE  Followed(new, m + more, x) /\ Preceded(new, m + more, -1) /\ Single(new, m + more) /\ Absent(new, m + more, n)
<1>1. ASSUME NEW j \in 0 .. m + more - 1, NEW k \in Names, NEW q \in Orders(k), new[j] = Piece(k, q)
      PROVE  j \in 0 .. m - 1 /\ row[j] = Piece(k, q)
  <2>1. ZeroSlot # Piece(k, q)
    BY PieceIs, ZeroIsZero
  <2> QED
    BY <1>1, <2>1
<1>2. \A j \in 0 .. m - 1 : new[j] = row[j]
  OBVIOUS
<1>3. Followed(new, m + more, x)
  <2> SUFFICES ASSUME NEW j \in 0 .. m + more - 1, NEW k \in Names, NEW q \in Orders(k),
                      new[j] = Piece(k, q), q # 0, j # x
               PROVE  j + 1 < m + more /\ new[j + 1] = Piece(k, q - 1)
    BY DEF Followed
  <2>1. j \in 0 .. m - 1 /\ row[j] = Piece(k, q)
    BY <1>1
  <2>2. j + 1 < m /\ row[j + 1] = Piece(k, q - 1)
    BY <2>1 DEF Followed
  <2> QED
    BY <1>2, <2>2
<1>4. Preceded(new, m + more, -1)
  <2> SUFFICES ASSUME NEW j \in 0 .. m + more - 1, NEW k \in Names, NEW q \in Orders(k),
                      new[j] = Piece(k, q), q # Length(k)
               PROVE  j > 0 /\ new[j - 1] = Piece(k, q + 1)
    BY DEF Preceded
  <2>1. j \in 0 .. m - 1 /\ row[j] = Piece(k, q) /\ j # -1
    BY <1>1
  <2>2. j > 0 /\ row[j - 1] = Piece(k, q + 1)
    BY <2>1 DEF Preceded
  <2> QED
    BY <1>2, <2>1, <2>2
<1>5. \A k \in Names : 0 \in Orders(k)
  BY OrdersAre
<1>6. Single(new, m + more)
  BY <1>1, <1>5 DEF Single
<1>7. Absent(new, m + more, n)
  BY <1>1, <1>5 DEF Absent
<1> QED
  BY <1>3, <1>4, <1>6, <1>7

\* A long-name slot of the entry that is removed is deleted.
LEMMA DeleteLongNeat ==
    ASSUME NEW row, NEW m \in Nat, NEW e, NEW n, NEW r, Left(row, m, e, n, r), r # 0,
           NEW new, new = [i \in 0 .. m - 1 |-> IF i = e - r THEN Deleted(row[i]) ELSE row[i]]
    PROVE  Left(new, m, e, n, r - 1)
<1>1. /\ e \in 1 .. m - 1 /\ n \in Names /\ r \in Orders(n) /\ r < e /\ r \in Nat
      /\ \A q \in 0 .. r : row[e - q] = Piece(n, q)
      /\ row[e - r - 1].first = "used" => ~row[e - r - 1].long
      /\ Followed(row, m, -1) /\ Preceded(row, m, e - r) /\ Single(row, m)
  BY OrdersAre DEF Left
<1>2. PICK y : y = e - r
  OBVIOUS
<1>3. y \in 1 .. e - 1 /\ y \in 1 .. m - 1
  BY <1>1, <1>2
<1>4. /\ \A j \in 0 .. m - 1 : j # y => new[j] = row[j]
      /\ new[y].first = "deleted"
  BY <1>2, <1>3, DeletedIsDeleted
<1>5. ASSUME NEW j \in 0 .. m - 1, NEW k \in Names, NEW q \in Orders(k), new[j] = Piece(k, q)
      PROVE  j # y /\ row[j] = Piece(k, q)
  BY <1>4, <1>5, PieceIs
<1>6. Followed(new, m, -1)
  <2> SUFFICES ASSUME NEW j \in 0 .. m - 1, NEW k \in Names, NEW q \in Orders(k), new[j] = Piece(k, q), q # 0
               PROVE  j + 1 < m /\ new[j + 1] = Piece(k, q - 1)
    BY DEF Followed
  <2>1. j # y /\ row[j] = Piece(k, q) /\ j # -1
    BY <1>5
  <2>2. j + 1 < m /\ row[j + 1] = Piece(k, q - 1)
    BY <1>1, <2>1 DEF Followed
  <2>3. j + 1 # y
    <3> SUFFICES ASSUME j + 1 = y PROVE FALSE
      OBVIOUS
    <3>0. Piece(k, q).first = "used" /\ Piece(k, q).long = TRUE
      BY PieceLong
    <3>1. row[j].first = "used" /\ row[j].long = TRUE
      BY <2>1, <3>0
    <3>2. e - r - 1 = j
      BY <1>1, <1>2
    <3> QED
      BY <1>1, <3>1, <3>2
  <2> QED
    BY <1>4, <2>2, <2>3
<1>7. Preceded(new, m, y + 1)
  <2> SUFFICES ASSUME NEW j \in 0 .. m - 1, NEW k \in Names, NEW q \in Orders(k),
                      new[j] = Piece(k, q), q # Length(k), j # y + 1
               PROVE  j > 0 /\ new[j - 1] = Piece(k, q + 1)
    BY DEF Preceded
  <2>1. j # y /\ row[j] = Piece(k, q)
    BY <1>5
  <2>2. j > 0 /\ row[j - 1] = Piece(k, q + 1)
    BY <1>1, <1>2, <2>1 DEF Preceded
  <2>3. j - 1 \in 0 .. m - 1 /\ j - 1 # y
    BY <1>3, <2>2
  <2> QED
    BY <1>4, <2>2, <2>3
<1>8. Single(new, m)
  BY <1>1, <1>5, OrdersAre DEF Single
<1>9. r - 1 \in Orders(n) /\ r - 1 < e /\ r - 1 \in Nat /\ e - (r - 1) = y + 1 /\ e - (r - 1) - 1 = y
  BY <1>1, <1>2, OrdersAre DEF Orders
<1>10. \A q \in 0 .. r - 1 : new[e - q] = Piece(n, q)
  <2> SUFFICES ASSUME NEW q \in 0 .. r - 1 PROVE new[e - q] = Piece(n, q)
    OBVIOUS
  <2>1. q \in 0 .. r /\ e - q \in 0 .. m - 1 /\ e - q # y
    BY <1>1, <1>2
  <2> QED
    BY <1>1, <1>4, <2>1
<1> QED
  BY <1>1, <1>4, <1>6, <1>7, <1>8, <1>9, <1>10 DEF Left

\* The short entry is deleted last.
LEMMA DeleteShortNeat ==
    ASSUME NEW row, NEW m \in Nat, DOMAIN row = 0 .. m - 1, NEW e, NEW n, Left(row, m, e, n, 0),
           NEW new, new = [row EXCEPT ![e] = Deleted(row[e])]
    PROVE  Followed(new, m, -1) /\ Preceded(new, m, -1) /\ Single(new, m) /\ Absent(new, m, n)
<1>1. /\ e \in 1 .. m - 1 /\ n \in Names /\ 0 \in Orders(n) /\ row[e] = Piece(n, 0)
      /\ row[e - 1].first = "used" => ~row[e - 1].long
      /\ Followed(row, m, -1) /\ Preceded(row, m, e) /\ Single(row, m)
  <2>1. /\ e \in 1 .. m - 1 /\ n \in Names /\ 0 \in Orders(n)
        /\ \A q \in 0 .. 0 : row[e - q] = Piece(n, q)
        /\ row[e - 0 - 1].first = "used" => ~row[e - 0 - 1].long
        /\ Followed(row, m, -1) /\ Preceded(row, m, e - 0) /\ Single(row, m)
    BY Zenon DEF Left
  <2>2. e - 0 = e /\ e - 0 - 1 = e - 1 /\ 0 \in 0 .. 0
    BY <2>1
  <2> QED
    BY Zenon, <2>1, <2>2
<1>2. /\ \A j \in 0 .. m - 1 : j # e => new[j] = row[j]
      /\ new[e].first = "deleted"
  BY <1>1, DeletedIsDeleted
<1>3. ASSUME NEW j \in 0 .. m - 1, NEW k \in Names, NEW q \in Orders(k), new[j] = Piece(k, q)
      PROVE  j # e /\ row[j] = Piece(k, q)
  BY <1>2, <1>3, PieceIs
<1>4. Followed(new, m, -1)
  <2> SUFFICES ASSUME NEW j \in 0 .. m - 1, NEW k \in Names, NEW q \in Orders(k), new[j] = Piece(k, q), q # 0
               PROVE  j + 1 < m /\ new[j + 1] = Piece(k, q - 1)
    BY DEF Followed
  <2>1. j # e /\ row[j] = Piece(k, q) /\ j # -1
    BY <1>3
  <2>2. j + 1 < m /\ row[j + 1] = Piece(k, q - 1)
    BY <1>1, <2>1 DEF Followed
  <2>3. j + 1 # e
    <3> SUFFICES ASSUME j + 1 = e PROVE FALSE
      OBVIOUS
    <3>0. Piece(k, q).first = "used" /\ Piece(k, q).long = TRUE
      BY PieceLong
    <3>1. row[j].first = "used" /\ row[j].long = TRUE
      BY <2>1, <3>0
    <3>2. e - 1 = j
      BY <1>1
    <3> QED
      BY <1>1, <3>1, <3>2
  <2> QED
    BY <1>2, <2>2, <2>3
<1>5. Preceded(new, m, -1)
  <2> SUFFICES ASSUME NEW j \in 0 .. m - 1, NEW k \in Names, NEW q \in Orders(k), new[j] = Piece(k, q), q # Length(k)
               PROVE  j > 0 /\ new[j - 1] = Piece(k, q + 1)
    BY DEF Preceded
  <2>1. j # e /\ row[j] = Piece(k, q)
    BY <1>3
  <2>2. j > 0 /\ row[j - 1] = Piece(k, q + 1)
    BY <1>1, <2>1 DEF Preceded
  <2>3. q + 1 \in Orders(k) /\ q + 1 # 0
    BY OrdersAre DEF Orders
  <2>4. j - 1 # e
    BY <1>1, <2>2, <2>3, OnePiece
  <2>5. j - 1 \in 0 .. m - 1
    BY <2>2
  <2> QED
    BY <1>2, <2>2, <2>4, <2>5
<1>6. Single(new, m)
  BY <1>1, <1>3, OrdersAre DEF Single
<1>7. Absent(new, m, n)
  BY <1>1, <1>3 DEF Single, Absent
<1> QED
  BY <1>4, <1>5, <1>6, <1>7

-----------------------------------------------------------------------------
(* What lies in front of a short entry, and how it is read. *)

LEMMA BackRun ==
    ASSUME NEW row, NEW m \in Nat, Preceded(row, m, -1), row[0] = DotSlot,
           NEW e \in 0 .. m - 1, NEW n \in Names, row[e] = Piece(n, 0)
    PROVE  \A q \in Orders(n) : q < e /\ row[e - q] = Piece(n, q)
<1> DEFINE Reached == {q \in Nat : q \in Orders(n) => q < e /\ row[e - q] = Piece(n, q)}
<1>1. Orders(n) \subseteq Nat /\ 0 \in Orders(n) /\ e \in Nat /\ Length(n) \in Nat
  BY OrdersAre
<1>2. ASSUME NEW q \in Orders(n), q <= e, row[e - q] = Piece(n, q) PROVE q < e
  <2>1. row[e - q] # DotSlot
    BY <1>2, PieceIs
  <2>2. e - q # 0
    BY <2>1
  <2> QED
    BY <1>1, <1>2, <2>2
<1>3. 0 \in Reached
  <2>1. e - 0 = e /\ 0 <= e
    BY <1>1
  <2>2. row[e - 0] = Piece(n, 0)
    BY Zenon, <2>1
  <2>3. 0 < e
    BY <1>1, <1>2, <2>1, <2>2
  <2> QED
    BY <2>2, <2>3
<1>4. ASSUME NEW q \in Nat, q \in Reached PROVE q + 1 \in Reached
  <2> SUFFICES ASSUME q + 1 \in Orders(n) PROVE q + 1 < e /\ row[e - (q + 1)] = Piece(n, q + 1)
    OBVIOUS
  <2>1. q \in Orders(n) /\ q # Length(n)
    BY <1>1 DEF Orders
  <2>2. q < e /\ row[e - q] = Piece(n, q) /\ e - q \in 0 .. m - 1 /\ e - q # -1
    BY <1>1, <1>4, <2>1
  <2>3. row[(e - q) - 1] = Piece(n, q + 1)
    BY <2>1, <2>2 DEF Preceded
  <2>4. (e - q) - 1 = e - (q + 1) /\ q + 1 <= e
    BY <1>1, <2>2
  <2>5. row[e - (q + 1)] = Piece(n, q + 1)
    BY Zenon, <2>3, <2>4
  <2> QED
    BY <1>2, <2>4, <2>5
<1>5. Nat \subseteq Reached
  <2> HIDE DEF Reached
  <2> QED
    BY <1>3, <1>4, SetInduction
<1> QED
  BY <1>1, <1>5

LEMMA ForwardRun ==
    ASSUME NEW row, NEW m \in Nat, Followed(row, m, -1),
           NEW j \in 0 .. m - 1, NEW n \in Names, NEW q \in Orders(n), row[j] = Piece(n, q)
    PROVE  \A p \in 0 .. q : j + p < m /\ row[j + p] = Piece(n, q - p)
<1> DEFINE Reached == {p \in Nat : p <= q => j + p < m /\ row[j + p] = Piece(n, q - p)}
<1>1. q \in Nat /\ j \in Nat /\ \A p \in 0 .. q : q - p \in Orders(n)
  BY OrdersAre DEF Orders
<1>2. 0 \in Reached
  <2>1. j + 0 = j /\ q - 0 = q
    BY <1>1
  <2>2. row[j + 0] = Piece(n, q - 0)
    BY Zenon, <2>1
  <2> QED
    BY <2>1, <2>2
<1>3. ASSUME NEW p \in Nat, p \in Reached PROVE p + 1 \in Reached
  <2> SUFFICES ASSUME p + 1 <= q PROVE j + (p + 1) < m /\ row[j + (p + 1)] = Piece(n, q - (p + 1))
    OBVIOUS
  <2>1. j + p \in 0 .. m - 1 /\ row[j + p] = Piece(n, q - p) /\ q - p # 0 /\ j + p # -1 /\ q - p \in Orders(n)
    BY <1>1, <1>3
  <2>2. (j + p) + 1 < m /\ row[(j + p) + 1] = Piece(n, (q - p) - 1)
    BY <2>1 DEF Followed
  <2>3. (j + p) + 1 = j + (p + 1) /\ (q - p) - 1 = q - (p + 1)
    BY <1>1
  <2> QED
    BY Zenon, <2>2, <2>3
<1>4. Nat \subseteq Reached
  <2> HIDE DEF Reached
  <2> QED
    BY <1>2, <1>3, SetInduction
<1> QED
  BY <1>1, <1>4

\* An entry is whole.
LEMMA LeftAll ==
    ASSUME NEW row, NEW m, Filled(row, m), Followed(row, m, -1), Preceded(row, m, -1), Single(row, m),
           NEW e \in 0 .. m - 1, NEW n \in Names, row[e] = Piece(n, 0)
    PROVE  Left(row, m, e, n, Length(n))
<1>1. m \in Nat /\ row[0] = DotSlot /\ \A i \in 0 .. m - 1 : row[i].first = "used" => Written(row[i])
  BY DEF Filled
<1>2. \A q \in Orders(n) : q < e /\ row[e - q] = Piece(n, q)
  BY <1>1, BackRun
<1>3. PICK l : l = Length(n)
  OBVIOUS
<1>4. l \in Orders(n) /\ l \in Nat \ {0} /\ l < e /\ row[e - l] = Piece(n, l)
  BY <1>2, <1>3, OrdersAre
<1>5. ASSUME row[e - l - 1].first = "used", row[e - l - 1].long PROVE FALSE
  <2>1. e - l - 1 \in 0 .. m - 1 /\ e - l - 1 # -1 /\ (e - l - 1) + 1 = e - l
    BY <1>1, <1>4
  <2>2. row[e - l - 1] # DotSlot
    BY <1>5, DotIsShort
  <2>3. PICK k \in Names : \E p \in Orders(k) : row[e - l - 1] = Piece(k, p)
    BY <1>1, <1>5, <2>1, <2>2, WrittenIs
  <2>4. PICK p \in Orders(k) : row[e - l - 1] = Piece(k, p)
    BY <2>3
  <2>5. p # 0
    <3> SUFFICES ASSUME p = 0 PROVE FALSE
      OBVIOUS
    <3>1. Piece(k, 0).long = FALSE
      BY PieceShort
    <3> QED
      BY <1>5, <2>4, <3>1
  <2>6. row[e - l] = Piece(k, p - 1)
    BY <2>1, <2>4, <2>5 DEF Followed
  <2>7. p - 1 \in Orders(k)
    BY <2>5, OrdersAre DEF Orders
  <2>8. n = k /\ l = p - 1
    <3>1. Piece(n, l) = Piece(k, p - 1)
      BY Zenon, <1>4, <2>6
    <3> QED
      BY <1>4, <2>7, <3>1, OnePiece
  <2> QED
    BY <1>3, <1>4, <2>8 DEF Orders
<1>6. Preceded(row, m, e - l)
  BY DEF Preceded
<1>7. e \in 1 .. m - 1 /\ \A q \in 0 .. l : row[e - q] = Piece(n, q)
  BY <1>1, <1>2, <1>3, <1>4 DEF Orders
<1>8. Left(row, m, e, n, l)
  BY <1>4, <1>5, <1>6, <1>7 DEF Left
<1> QED
  BY <1>3, <1>8

\* A directory without left-over slots.
Whole == Followed(Row, Count, -1) /\ Preceded(Row, Count, -1) /\ Single(Row, Count)

\* The long-name slots collected in front of a short entry are its own.
LEMMA OwnRun ==
    ASSUME RowInv, Whole, NEW e \in Indices, NEW n \in Names, Row[e] = Piece(n, 0)
    PROVE  LongRun(e) = {e - q : q \in 1 .. Length(n)}
<1>1. /\ Count \in Nat /\ Indices = 0 .. Count - 1 /\ Row[0] = DotSlot
      /\ \A i \in Indices : Row[i] = Slot(i)
      /\ \A i \in Indices : Row[i].first = "used" => Written(Row[i])
  BY RowIs DEF RowInv, Filled, Indices
<1>2. \A q \in Orders(n) : q < e /\ Row[e - q] = Piece(n, q)
  BY <1>1, BackRun DEF Whole
<1>3. e \in Nat /\ \A i \in Indices : IsShort(i) <=> IsEntry(Row[i])
  BY <1>1, ShortsAre
<1>4. PICK since \in -1 .. e - 1 :
          /\ since # -1 => IsShort(since)
          /\ \A j \in 0 .. e - 1 : IsShort(j) => j <= since
          /\ LongRun(e) = {j \in since + 1 .. e - 1 : Used(j)}
  BY <1>3, LongRunIs
<1>5. \A j \in 0 .. e - 1 : j \in Indices /\ (Used(j) <=> Row[j].first = "used")
  BY <1>1 DEF Used
<1>6. ASSUME NEW q \in 1 .. Length(n) PROVE e - q \in LongRun(e)
  <2>1. q \in Orders(n) /\ q # 0 /\ q \in Nat
    BY OrdersAre DEF Orders
  <2>2. e - q \in 0 .. e - 1 /\ Row[e - q] = Piece(n, q)
    BY <1>2, <1>3, <2>1
  <2>3. Used(e - q)
    <3>1. Piece(n, q).first = "used"
      BY <2>1, PieceIs
    <3> QED
      BY <1>5, <2>2, <3>1
  <2>4. since < e - q
    <3> SUFFICES ASSUME since >= e - q PROVE FALSE
      BY <1>3, <2>2
    <3>1. since # -1 /\ since \in Indices /\ since \in 0 .. e - 1
      BY <1>1, <1>3, <2>2
    <3>2. e - since \in 1 .. q /\ e - (e - since) = since
      BY <1>3, <2>1, <3>1
    <3>3. e - since \in Orders(n) /\ e - since # 0
      BY <2>1, <3>2, OrdersAre DEF Orders
    <3>4. Row[since] = Piece(n, e - since)
      BY <1>2, <3>2, <3>3
    <3>5. Piece(n, e - since).long = TRUE
      BY <3>3, PieceLong
    <3> QED
      BY <1>3, <1>4, <3>1, <3>4, <3>5 DEF IsEntry
  <2> QED
    BY <1>4, <2>2, <2>3, <2>4
<1>7. ASSUME NEW j \in LongRun(e) PROVE \E q \in 1 .. Length(n) : j = e - q
  <2>1. j \in 0 .. e - 1 /\ since < j /\ j \in Indices /\ Row[j].first = "used"
    BY <1>1, <1>3, <1>4, <1>5
  <2>2. ~IsShort(j)
    BY <1>4, <2>1
  <2>3. Row[j] # DotSlot /\ Written(Row[j])
    BY <1>1, <1>3, <2>1, <2>2, DotIsShort DEF IsEntry
  <2>4. PICK k \in Names : \E p \in Orders(k) : Row[j] = Piece(k, p)
    BY <2>3, WrittenIs
  <2>5. PICK p \in Orders(k) : Row[j] = Piece(k, p)
    BY <2>4
  <2>6. p \in Nat /\ p # 0
    <3>1. Piece(k, 0).first = "used" /\ Piece(k, 0).long = FALSE
      BY PieceShort
    <3>2. p # 0
      BY <1>3, <2>1, <2>2, <2>5, <3>1 DEF IsEntry
    <3> QED
      BY <3>2, OrdersAre
  <2>7. \A h \in 0 .. p : j + h < Count /\ Row[j + h] = Piece(k, p - h)
    BY <1>1, <2>1, <2>5, ForwardRun DEF Whole
  <2>8. ~(j + p < e)
    <3> SUFFICES ASSUME j + p < e PROVE FALSE
      OBVIOUS
    <3>1. p \in 0 .. p /\ p - p = 0
      BY <2>6
    <3>2. Row[j + p] = Piece(k, 0)
      BY Zenon, <2>7, <3>1
    <3>3. Piece(k, 0).first = "used" /\ Piece(k, 0).long = FALSE
      BY PieceShort
    <3>4. j + p \in 0 .. e - 1 /\ j + p \in Indices
      BY <1>1, <2>1, <2>6
    <3>5. IsShort(j + p)
      BY <1>3, <3>2, <3>3, <3>4 DEF IsEntry
    <3>6. j + p <= since
      BY <1>4, <3>4, <3>5
    <3> QED
      BY <2>1, <2>6, <3>6
  <2>9. e - j \in 1 .. p /\ j + (e - j) = e
    BY <1>3, <2>1, <2>6, <2>8
  <2>10. Piece(n, 0) = Piece(k, p - (e - j))
    BY <2>7, <2>9
  <2>11. 0 \in Orders(n) /\ p - (e - j) \in Orders(k)
    BY <2>6, <2>9, OrdersAre DEF Orders
  <2>12. n = k /\ 0 = p - (e - j)
    BY <2>10, <2>11, OnePiece
  <2>13. p \in 1 .. Length(n) /\ j = e - p
    BY <1>3, <2>1, <2>6, <2>9, <2>12, OrdersAre DEF Orders
  <2> QED
    BY <2>13
<1>8. LongRun(e) \subseteq {e - q : q \in 1 .. Length(n)}
  BY <1>7
<1>9. {e - q : q \in 1 .. Length(n)} \subseteq LongRun(e)
  BY <1>6
<1> QED
  BY <1>8, <1>9

\* In front of a dot there are none.
LEMMA DotRun ==
    ASSUME RowInv, Whole, NEW e \in Indices, Row[e] = DotSlot
    PROVE  LongRun(e) = {}
<1>1. /\ Count \in Nat /\ Indices = 0 .. Count - 1
      /\ \A i \in Indices : Row[i] = Slot(i)
      /\ \A i \in Indices : Row[i].first = "used" => Written(Row[i])
  BY RowIs DEF RowInv, Filled, Indices
<1>2. e \in Nat /\ \A i \in Indices : IsShort(i) <=> IsEntry(Row[i])
  BY <1>1, ShortsAre
<1>3. PICK since \in -1 .. e - 1 :
          /\ since # -1 => IsShort(since)
          /\ \A j \in 0 .. e - 1 : IsShort(j) => j <= since
          /\ LongRun(e) = {j \in since + 1 .. e - 1 : Used(j)}
  BY <1>2, LongRunIs
<1>4. \A j \in 0 .. e - 1 : j \in Indices /\ (Used(j) <=> Row[j].first = "used")
  BY <1>1 DEF Used
<1>5. ASSUME NEW j \in LongRun(e) PROVE FALSE
  <2>1. j \in 0 .. e - 1 /\ since < j /\ j \in Indices /\ Row[j].first = "used"
    BY <1>1, <1>2, <1>3, <1>4
  <2>2. ~IsShort(j)
    BY <1>3, <2>1
  <2>3. Row[j] # DotSlot /\ Written(Row[j])
    BY <1>1, <1>2, <2>1, <2>2, DotIsShort DEF IsEntry
  <2>4. PICK k \in Names : \E p \in Orders(k) : Row[j] = Piece(k, p)
    BY <2>3, WrittenIs
  <2>5. PICK p \in Orders(k) : Row[j] = Piece(k, p)
    BY <2>4
  <2>6. p \in Nat
    BY OrdersAre
  <2>7. \A h \in 0 .. p : j + h < Count /\ Row[j + h] = Piece(k, p - h)
    BY <1>1, <2>1, <2>5, ForwardRun DEF Whole
  <2>8. ~(j + p < e)
    <3> SUFFICES ASSUME j + p < e PROVE FALSE
      OBVIOUS
    <3>1. p \in 0 .. p /\ p - p = 0
      BY <2>6
    <3>2. Row[j + p] = Piece(k, 0)
      BY Zenon, <2>7, <3>1
    <3>3. Piece(k, 0).first = "used" /\ Piece(k, 0).long = FALSE
      BY PieceShort
    <3>4. j + p \in 0 .. e - 1 /\ j + p \in Indices
      BY <1>1, <2>1, <2>6
    <3>5. IsShort(j + p)
      BY <1>2, <3>2, <3>3, <3>4 DEF IsEntry
    <3>6. j + p <= since
      BY <1>3, <3>4, <3>5
    <3> QED
      BY <2>1, <2>6, <3>6
  <2>9. e - j \in 0 .. p /\ j + (e - j) = e
    BY <1>2, <2>1, <2>6, <2>8
  <2>10. Row[e] = Piece(k, p - (e - j))
    BY <2>7, <2>9
  <2>11. p - (e - j) \in Orders(k)
    BY <2>6, <2>9, OrdersAre DEF Orders
  <2> QED
    BY <2>10, <2>11, PieceIs
<1> QED
  BY <1>5

\* Put together, they are its name.
LEMMA OwnName ==
    ASSUME RowInv, Whole, NEW e \in Indices, NEW n \in Names, Row[e] = Piece(n, 0)
    PROVE  /\ LongRun(e) # {} /\ Cardinality(LongRun(e)) = Length(n)
           /\ Combined(LongRun(e)) = Pieces[n]
<1>1. /\ Count \in Nat /\ Indices = 0 .. Count - 1 /\ Row[0] = DotSlot
      /\ \A i \in Indices : Row[i] = Slot(i)
  BY RowIs DEF RowInv, Filled, Indices
<1>2. \A q \in Orders(n) : q < e /\ Row[e - q] = Piece(n, q)
  BY <1>1, BackRun DEF Whole
<1>3. PICK l : l = Length(n)
  OBVIOUS
<1>4. l \in Nat \ {0} /\ e \in Nat /\ l < e /\ Orders(n) = 0 .. l
  BY <1>1, <1>2, <1>3, OrdersAre DEF Orders
<1>5. PICK run : run = LongRun(e)
  OBVIOUS
<1>6. run = {e - q : q \in 1 .. l}
  BY <1>3, <1>5, OwnRun
<1>7. ASSUME NEW a \in 1 .. l + 1
      PROVE  {e - q : q \in 1 .. a - 1} = (e + 1) - a .. e - 1 /\ Cardinality({e - q : q \in 1 .. a - 1}) = a - 1
  <2>1. \A j \in (e + 1) - a .. e - 1 : e - j \in 1 .. a - 1 /\ j = e - (e - j)
    BY <1>4
  <2>2. \A q \in 1 .. a - 1 : e - q \in (e + 1) - a .. e - 1
    BY <1>4
  <2>3. {e - q : q \in 1 .. a - 1} = (e + 1) - a .. e - 1
    BY <2>1, <2>2
  <2>4. (e + 1) - a \in Int /\ e - 1 \in Int
    BY <1>4
  <2>5. Cardinality((e + 1) - a .. e - 1) = IF (e + 1) - a > e - 1 THEN 0 ELSE e - 1 - ((e + 1) - a) + 1
    BY <2>4, FS_Interval
  <2>6. Cardinality((e + 1) - a .. e - 1) = a - 1
    BY <1>4, <2>5
  <2> QED
    BY <2>3, <2>6
<1>8. Cardinality(run) = l
  <2>1. l + 1 \in 1 .. l + 1 /\ (l + 1) - 1 = l
    BY <1>4
  <2>2. Cardinality({e - q : q \in 1 .. (l + 1) - 1}) = (l + 1) - 1
    BY <1>7, <2>1
  <2> QED
    BY Zenon, <1>6, <2>1, <2>2
<1>9. \A q \in 1 .. l : e - q \in run /\ Slot(e - q).order = q /\ Slot(e - q).text = Pieces[n][q]
  <2> SUFFICES ASSUME NEW q \in 1 .. l PROVE e - q \in run /\ Slot(e - q).order = q /\ Slot(e - q).text = Pieces[n][q]
    OBVIOUS
  <2>1. q \in Orders(n) /\ q # 0 /\ e - q \in Indices
    BY <1>1, <1>4
  <2>2. Slot(e - q) = Piece(n, q)
    BY <1>1, <1>2, <2>1
  <2>3. Piece(n, q).order = q /\ Piece(n, q).text = Pieces[n][q]
    BY <2>1, PieceIs, PieceText
  <2> QED
    BY <1>6, <2>2, <2>3
<1>10. ASSUME NEW q \in 1 .. l PROVE Cardinality(InFront(run, e - q)) = q - 1
  <2>1. \A p \in 1 .. l : e - p \in InFront(run, e - q) <=> p < q
    BY <1>4, <1>9 DEF InFront
  <2>2. InFront(run, e - q) \subseteq run
    BY DEF InFront
  <2>3. InFront(run, e - q) = {e - p : p \in 1 .. q - 1}
    BY <1>4, <1>6, <2>1, <2>2
  <2>4. q \in 1 .. l + 1
    BY <1>4
  <2> QED
    BY <1>7, <2>3, <2>4
<1>11. ASSUME NEW p \in 1 .. l
       PROVE  Slot(CHOOSE k \in run : Cardinality(InFront(run, k)) = p - 1).text = Pieces[n][p]
  <2>1. e - p \in run /\ Cardinality(InFront(run, e - p)) = p - 1
    BY <1>9, <1>10
  <2>2. PICK k : k = CHOOSE h \in run : Cardinality(InFront(run, h)) = p - 1
    OBVIOUS
  <2>3. k \in run /\ Cardinality(InFront(run, k)) = p - 1
    BY <2>1, <2>2
  <2>4. PICK q \in 1 .. l : k = e - q
    BY <1>6, <2>3
  <2>5. q - 1 = p - 1
    BY <1>10, <2>3, <2>4
  <2>6. k = e - p
    BY <1>4, <2>4, <2>5
  <2> QED
    BY <1>9, <2>2, <2>6
<1>12. Combined(run) = [p \in 1 .. l |-> Pieces[n][p]]
  BY <1>8, <1>11 DEF Combined
<1>13. Pieces[n] = [p \in 1 .. l |-> Pieces[n][p]]
  <2>1. PICK T : T = UNION {Range(Pieces[m]) : m \in Names}
    OBVIOUS
  <2>2. PICK s : s = Pieces[n]
    OBVIOUS
  <2>3. s \in Seq(T) /\ l = Len(s)
    BY Zenon, <1>3, <2>1, <2>2, NameLength DEF Length
  <2>4. s = [p \in 1 .. l |-> s[p]]
    BY <2>3
  <2> QED
    BY <2>2, <2>4
<1> QED
  BY <1>3, <1>4, <1>5, <1>8, <1>9, <1>12, <1>13

-----------------------------------------------------------------------------
(* Addresses of a directory whose clusters follow each other. *)

LEMMA InOnePiece ==
    ASSUME RowInv, Contiguous
    PROVE  \A i \in Indices : AddressOf(i) = First * ClusterSlots + i
<1>1. chain \in Seq(Volume) /\ chain # <<>> /\ chain[1] = First /\ Count = RowLength(chain) /\ Indices = 0 .. Count - 1
  BY RowIs DEF RowInv, Clusters, Indices
<1>2. ClusterSlots \in Nat /\ First \in Nat
  BY SlotsAssumption
<1>3. PICK l : l = Len(chain)
  OBVIOUS
<1>4. l \in Nat
  BY <1>1, <1>3
<1> DEFINE Reached == {k \in Nat : k < l => chain[k + 1] = First + k}
<1>5. 0 \in Reached
  BY <1>1, <1>2
<1>6. ASSUME NEW k \in Nat, k \in Reached PROVE k + 1 \in Reached
  <2> SUFFICES ASSUME k + 1 < l PROVE chain[(k + 1) + 1] = First + (k + 1)
    OBVIOUS
  <2>1. k + 1 \in 1 .. l - 1 /\ k < l
    BY <1>4
  <2>2. chain[(k + 1) + 1] = chain[k + 1] + 1
    BY <1>3, <2>1 DEF Contiguous
  <2>3. chain[k + 1] = First + k
    BY <1>6, <2>1
  <2>4. (First + k) + 1 = First + (k + 1)
    BY <1>2
  <2> QED
    BY Zenon, <2>2, <2>3, <2>4
<1>7. Nat \subseteq Reached
  <2> HIDE DEF Reached
  <2> QED
    BY <1>5, <1>6, SetInduction
<1> SUFFICES ASSUME NEW i \in Indices PROVE AddressOf(i) = First * ClusterSlots + i
  OBVIOUS
<1>8. PICK q, r : q = i \div ClusterSlots /\ r = i % ClusterSlots
  OBVIOUS
<1>9. i \in 0 .. l * ClusterSlots - 1
  BY <1>1, <1>3 DEF RowLength
<1>10. q + 1 \in 1 .. l /\ r \in 0 .. ClusterSlots - 1 /\ i = q * ClusterSlots + r
  BY <1>4, <1>8, <1>9, Places
<1>11. q \in Int
  BY <1>2, <1>8, <1>9, SlotsAssumption
<1>12. q \in Nat /\ q < l
  BY <1>4, <1>10, <1>11
<1>13. chain[q + 1] = First + q
  BY <1>7, <1>12
<1>14. AddressOf(i) = (First + q) * ClusterSlots + r
  BY <1>8, <1>13 DEF AddressOf
<1>15. (First + q) * ClusterSlots = First * ClusterSlots + q * ClusterSlots
  BY ONLY <1>2, <1>12
<1>16. PICK x, y : x = First * ClusterSlots /\ y = q * ClusterSlots
  OBVIOUS
<1>17. x \in Nat /\ y \in Nat /\ r \in Nat
  BY <1>2, <1>10, <1>12, <1>16
<1> QED
  BY <1>10, <1>14, <1>15, <1>16, <1>17

-----------------------------------------------------------------------------
(* What a lookup finds in a directory without left-over slots. *)

LEMMA ShortIsPiece ==
    ASSUME RowInv, NEW i \in Shorts
    PROVE  i \in Indices /\ Row[i] = Slot(i) /\ (Row[i] = DotSlot \/ \E m \in Names : Row[i] = Piece(m, 0))
<1>1. i \in Indices /\ IsEntry(Row[i]) /\ Row[i] = Slot(i)
  BY ShortsAre, RowIs
<1>2. Written(Row[i])
  BY <1>1 DEF RowInv, Filled, Indices, IsEntry
<1>3. ASSUME NEW m \in Names, NEW q \in Orders(m), Row[i] = Piece(m, q) PROVE Row[i] = Piece(m, 0)
  <2>1. q # 0 => Piece(m, q).long = TRUE
    BY PieceLong
  <2>2. q = 0
    BY <1>1, <1>3, <2>1 DEF IsEntry
  <2> QED
    BY <1>3, <2>2
<1>4. Row[i] = DotSlot \/ \E m \in Names : \E q \in Orders(m) : Row[i] = Piece(m, q)
  BY <1>2, WrittenIs
<1> QED
  BY <1>1, <1>3, <1>4

\* A dot has neither a long name nor the alias of a name.
LEMMA DotNoMatch ==
    ASSUME RowInv, Whole, NEW i \in Indices, Row[i] = DotSlot, NEW n \in Names
    PROVE  ~Matches(i, n)
<1>1. Slot(i).text = NoText /\ Alias[n] \in Range(Alias)
  BY RowIs, DotIsShort, SlotsAssumption DEF Range
<1>2. Cardinality(LongRun(i)) = 0 /\ Length(n) # 0
  BY DotRun, FS_EmptySet, NameLength
<1>3. ~ByLongName(i, n)
  BY <1>2 DEF ByLongName, Length
<1> QED
  BY <1>1, <1>3, SlotsAssumption DEF Matches

\* What is found by its alias or by its long name has that long name.
LEMMA FoundName ==
    ASSUME RowInv, Whole, IsInjective(Alias), NEW n \in Names, Found(n)
    PROVE  /\ Find(n) \in Indices
           /\ \E m \in Names : /\ Row[Find(n)] = Piece(m, 0) /\ Pieces[m] = Pieces[n]
                               /\ LongNameFrom(n) = AddressOf(Find(n)) - Length(m)
<1>1. PICK e : e = Find(n)
  OBVIOUS
<1>2. e \in 1 .. Count - 1 /\ IsEntry(Row[e]) /\ Matches(e, n) /\ Count \in Nat
  BY <1>1, FoundEntry DEF RowInv, Filled
<1>3. e \in Indices
  BY <1>2 DEF Indices
<1>4. e \in Shorts
  BY <1>2, <1>3, ShortsAre
<1>5. Row[e] # DotSlot
  BY <1>2, <1>3, DotNoMatch
<1>6. PICK m \in Names : Row[e] = Piece(m, 0) /\ Row[e] = Slot(e)
  BY <1>4, <1>5, ShortIsPiece
<1>7. Cardinality(LongRun(e)) = Length(m) /\ Combined(LongRun(e)) = Pieces[m]
  BY <1>3, <1>6, OwnName
<1>8. Slot(e).text = Alias[m]
  BY <1>6, PieceShort
<1>9. Pieces[m] = Pieces[n]
  <2>1. CASE Slot(e).text = Alias[n]
    <3>1. m = n
      BY <1>8, <2>1, SlotsAssumption DEF IsInjective
    <3> QED
      BY <3>1
  <2>2. CASE ByLongName(e, n)
    BY <1>7, <2>2 DEF ByLongName
  <2> QED
    BY <1>2, <2>1, <2>2 DEF Matches
<1>10. ByLongName(e, n)
  BY <1>7, <1>9 DEF ByLongName, Length
<1>11. LongNameFrom(n) = AddressOf(e) - Length(m)
  <2>1. LongNameFrom(n) = AddressOf(e) - (IF ByLongName(e, n) THEN Cardinality(LongRun(e)) ELSE 0)
    BY Zenon, <1>1 DEF LongNameFrom
  <2> QED
    BY Zenon, <1>7, <1>10, <2>1
<1> QED
  BY <1>1, <1>3, <1>6, <1>9, <1>11

\* What is not found has no entry.
LEMMA NotFound ==
    ASSUME RowInv, NEW n \in Names, ~Found(n)
    PROVE  Absent(Row, Count, n)
<1> SUFFICES ASSUME NEW j \in 0 .. Count - 1, Row[j] = Piece(n, 0) PROVE FALSE
  BY DEF Absent
<1>1. Piece(n, 0).first = "used" /\ Piece(n, 0).long = FALSE /\ Piece(n, 0).text = Alias[n]
  BY PieceShort
<1>2. j \in Indices /\ IsEntry(Row[j]) /\ Slot(j).text = Alias[n]
  BY <1>1, RowIs DEF Indices, IsEntry
<1>3. j \in Shorts
  BY <1>2, ShortsAre
<1> QED
  BY <1>2, <1>3 DEF Found, Matching, Matches

-----------------------------------------------------------------------------
(* The invariant of an orderly directory. *)

\* A removal has deleted the slots of one entry from its first down to order r.
Underway(e, n, r) ==
    /\ Left(Row, Count, e, n, r)
    /\ entry = AddressOf(e) /\ at = AddressOf(e) - r
    /\ IsInjective(Pieces) => n = target

Neat ==
    /\ pc = "idle" => Whole
    /\ pc \in {"add", "clear"} =>
          /\ Followed(Row, Count, Ahead(target, at, todo)) /\ Preceded(Row, Count, -1)
          /\ Single(Row, Count) /\ Absent(Row, Count, target)
    /\ pc = "remove" => \E e, n, r : Underway(e, n, r)
    /\ pc # "idle" => result = "none" /\ target \in Names
    /\ result \in {"created", "removed"} => target \in Names
    /\ result = "created" => \E i \in Indices : Row[i] = Piece(target, 0)
    /\ result = "removed" /\ IsInjective(Pieces) => Absent(Row, Count, target)

\* An orderly directory was orderly before.
LEMMA OrderlyBefore ==
    ASSUME DirInv, [Next]_vars, Orderly'
    PROVE  Orderly /\ ~Crash /\ ~CrashTorn /\ ~AddFails
<1>1. kills \in Nat
  BY SlotsAssumption DEF DirInv
<1>2. ~Crash /\ ~CrashTorn
  BY <1>1 DEF Crash, CrashTorn, Killed, Orderly
<1>3. ~AddFails
  BY DEF AddFails, Orderly
<1>4. UNCHANGED <<kills, lost>>
  BY <1>2, <1>3 DEF Next, OpenThere, Create, RemoveFound, RemoveMissing, AddSlot, Grow, Clear, RemoveLong, RemoveShort,
     OtherTakes, OtherFrees, StaysTorn, past, vars
<1>5. Contiguous
  <2>1. CASE Clear
    <3>1. PICK c : chain' = Append(chain, c)
      BY <2>1 DEF Clear
    <3>2. chain \in Seq(Volume)
      BY DEF DirInv, Clusters
    <3>3. /\ Len(chain') = Len(chain) + 1 /\ Len(chain) \in Nat
          /\ \A k \in 1 .. Len(chain) : chain'[k] = chain[k]
      BY <3>1, <3>2
    <3>4. \A i \in 1 .. Len(chain') - 1 : chain'[i + 1] = chain'[i] + 1
      BY DEF Orderly, Contiguous
    <3>5. ASSUME NEW i \in 1 .. Len(chain) - 1 PROVE chain[i + 1] = chain[i] + 1
      <4>1. i \in 1 .. Len(chain') - 1 /\ i \in 1 .. Len(chain) /\ i + 1 \in 1 .. Len(chain)
        BY <3>3
      <4> QED
        BY <3>3, <3>4, <4>1
    <3> QED
      BY <3>5 DEF Contiguous
  <2>2. CASE ~Clear
    <3>1. chain' = chain
      BY <1>2, <1>3, <2>2 DEF Next, OpenThere, Create, RemoveFound, RemoveMissing, AddSlot, Grow, RemoveLong,
         RemoveShort, OtherTakes, OtherFrees, StaysTorn, vars
    <3> QED
      BY <3>1 DEF Orderly, Contiguous
  <2> QED
    BY <2>1, <2>2
<1> QED
  BY <1>2, <1>3, <1>4, <1>5 DEF Orderly

\* When the directory stays as it is and no command runs.
LEMMA IdleNeat ==
    ASSUME Neat, pc = "idle", pc' = "idle", Row' = Row, Count' = Count,
           result' = "none" \/ UNCHANGED <<result, target>>
    PROVE  Neat'
<1>1. Whole'
  BY DEF Neat, Whole
<1>2. CASE result' = "none"
  BY <1>1, <1>2 DEF Neat
<1>3. CASE UNCHANGED <<result, target>>
  BY <1>1, <1>3 DEF Neat, Indices
<1> QED
  BY <1>2, <1>3

LEMMA CreateNeat == ASSUME RowInv, Neat, NEW n \in Names, Create(n) PROVE Neat'
<1>1. /\ pc = "idle" /\ ~Found(n) /\ pc' = "add" /\ target' = n /\ todo' = SlotsOf(n) /\ result' = "none"
      /\ UNCHANGED <<image, chain>>
  BY DEF Create
<1>2. Row' = Row /\ Count' = Count
  BY <1>1, RowKept
<1>3. Whole /\ Absent(Row, Count, n)
  BY <1>1, NotFound DEF Neat
<1>4. Done(n, SlotsOf(n)) = 0
  <2>1. PICK l : l = Length(n)
    OBVIOUS
  <2>2. l \in Nat /\ Len(SlotsOf(n)) = l + 1
    BY <2>1, EntrySlots, NameLength
  <2> QED
    BY <2>1, <2>2 DEF Done
<1>5. Ahead(n, at', SlotsOf(n)) = -1
  BY <1>4 DEF Ahead
<1>6. Ahead(target, at, todo)' = -1
  BY <1>1, <1>5 DEF Ahead, Done
<1> QED
  BY <1>1, <1>2, <1>3, <1>6 DEF Neat, Whole

LEMMA AddSlotNeat == ASSUME RowInv, Neat, AddSlot PROVE Neat'
<1>1. pc = "add" /\ at < Count /\ target' = target
  BY DEF AddSlot
<1>2. /\ Row' = [Row EXCEPT ![at] = Head(todo)] /\ Count' = Count
  BY AddSlotRow
<1>3. /\ Placing(Row, Count, target, at, todo, RowLength(saved)) /\ Filled(Row, Count) /\ DOMAIN Row = 0 .. Count - 1
      /\ Count \in Nat
  BY <1>1, RowIs DEF RowInv, Adding, Indices, Filled
<1>4. /\ Followed(Row, Count, Ahead(target, at, todo)) /\ Preceded(Row, Count, -1)
      /\ Single(Row, Count) /\ Absent(Row, Count, target) /\ result = "none"
  BY <1>1 DEF Neat
<1>5. /\ Followed(Row', Count, IF Len(todo) = 1 THEN -1 ELSE at) /\ Preceded(Row', Count, -1) /\ Single(Row', Count)
      /\ Len(todo) # 1 => Absent(Row', Count, target)
      /\ \E j \in 0 .. Count - 1 : Len(todo) = 1 => Row'[j] = Piece(target, 0)
  <2>1. Row' = Put(Row, at, Head(todo))
    BY <1>2 DEF Put
  <2>2. Further(Row', Count, target, at, todo)
    BY <1>1, <1>3, <1>4, <2>1, PutNeat
  <2> QED
    BY <2>2 DEF Further
<1>6. target \in Names /\ Remaining(target, todo) /\ at \in Nat
  BY <1>3 DEF Placing
<1>7. CASE Len(todo) = 1
  <2>1. pc' = "idle" /\ result' = "created"
    BY <1>7 DEF AddSlot, Ends
  <2>2. Whole'
    BY <1>2, <1>5, <1>7 DEF Whole
  <2>3. \E j \in 0 .. Count' - 1 : Row'[j] = Piece(target, 0)
    BY <1>2, <1>5, <1>7
  <2>4. Indices' = 0 .. Count' - 1
    BY DEF Indices
  <2>5. (\E j \in Indices : Row[j] = Piece(target, 0))'
    BY <1>1, <2>3, <2>4 DEF Piece, ShortSlot
  <2> QED
    BY <1>1, <1>6, <2>1, <2>2, <2>5 DEF Neat
<1>8. CASE Len(todo) # 1
  <2>1. todo' = Tail(todo) /\ at' = at + 1 /\ UNCHANGED <<pc, result>>
    BY <1>8 DEF AddSlot
  <2>2. Len(todo) > 1 /\ Done(target, todo) \in Nat
    <3>1. Len(todo) \in Nat /\ Len(todo) >= 1
      BY <1>6, NameLength DEF Remaining
    <3>2. Done(target, todo) \in 0 .. Length(target)
      BY <1>6, HeadOfRest
    <3>3. PICK x, y, z : x = Len(todo) /\ y = Done(target, todo) /\ z = Length(target)
      OBVIOUS
    <3>4. x \in Nat /\ x >= 1 /\ x # 1 /\ z \in Nat /\ y \in 0 .. z
      BY Zenon, <1>6, <1>8, <3>1, <3>2, <3>3, NameLength
    <3>5. x > 1 /\ y \in Nat
      BY ONLY <3>4
    <3> QED
      BY Zenon, <3>3, <3>5
  <2>3. Done(target, Tail(todo)) = Done(target, todo) + 1
    BY <1>6, <2>2, HeadOfRest
  <2>4. Ahead(target, at + 1, Tail(todo)) = at
    BY <1>6, <2>2, <2>3 DEF Ahead
  <2>5. Ahead(target, at, todo)' = at
    BY <1>1, <2>1, <2>4 DEF Ahead, Done
  <2>6. /\ Followed(Row', Count', Ahead(target, at, todo)') /\ Preceded(Row', Count', -1) /\ Single(Row', Count')
        /\ Absent(Row', Count', target')
    BY Zenon, <1>1, <1>2, <1>5, <1>8, <2>5
  <2> QED
    BY <1>1, <1>4, <2>1, <2>6 DEF Neat
<1> QED
  BY <1>7, <1>8

LEMMA GrowStepNeat == ASSUME RowInv, Neat, Grow PROVE Neat'
<1>1. pc = "add" /\ pc' = "clear" /\ UNCHANGED <<target, at, todo, result>>
  BY DEF Grow, command
<1>2. Row' = Row /\ Count' = Count
  BY GrowRow
<1>3. Ahead(target, at, todo)' = Ahead(target, at, todo) /\ Indices' = Indices
  BY <1>1, <1>2 DEF Ahead, Done, Indices
<1> QED
  BY <1>1, <1>2, <1>3 DEF Neat

LEMMA ClearStepNeat == ASSUME RowInv, Neat, Clear PROVE Neat'
<1>1. pc = "clear" /\ pc' = "add" /\ UNCHANGED <<target, at, todo, result>>
  BY DEF Clear, command
<1>2. /\ Count' = Count + ClusterSlots
      /\ Row' = [i \in 0 .. Count + ClusterSlots - 1 |-> IF i < Count THEN Row[i] ELSE ZeroSlot]
  BY ClearRow
<1>3. ClusterSlots \in Nat /\ Count \in Nat /\ target \in Names
  BY <1>1, SlotsAssumption DEF RowInv, Filled, Adding, Placing
<1>4. /\ Followed(Row, Count, Ahead(target, at, todo)) /\ Preceded(Row, Count, -1)
      /\ Single(Row, Count) /\ Absent(Row, Count, target) /\ result = "none"
  BY <1>1 DEF Neat
<1>5. /\ Followed(Row', Count + ClusterSlots, Ahead(target, at, todo)) /\ Preceded(Row', Count + ClusterSlots, -1)
      /\ Single(Row', Count + ClusterSlots) /\ Absent(Row', Count + ClusterSlots, target)
  BY <1>2, <1>3, <1>4, GrowNeat
<1>6. Ahead(target, at, todo)' = Ahead(target, at, todo)
  BY <1>1 DEF Ahead, Done
<1>7. /\ Followed(Row', Count', Ahead(target, at, todo)') /\ Preceded(Row', Count', -1)
      /\ Single(Row', Count') /\ Absent(Row', Count', target')
  BY Zenon, <1>1, <1>2, <1>5, <1>6
<1> QED
  BY <1>1, <1>4, <1>7 DEF Neat

LEMMA RemoveFoundNeat ==
    ASSUME RowInv, Neat, IsInjective(Alias), NEW n \in Names, RemoveFound(n)
    PROVE  Neat'
<1>1. /\ pc = "idle" /\ Found(n) /\ pc' = "remove" /\ target' = n /\ result' = "none"
      /\ entry' = AddressOf(Find(n)) /\ at' = LongNameFrom(n) /\ UNCHANGED <<image, chain>>
  BY DEF RemoveFound
<1>2. Row' = Row /\ Count' = Count /\ Whole
  BY <1>1, RowKept DEF Neat
<1>3. PICK e : e = Find(n)
  OBVIOUS
<1>4. e \in Indices /\ \E m \in Names : /\ Row[e] = Piece(m, 0) /\ Pieces[m] = Pieces[n]
                                        /\ LongNameFrom(n) = AddressOf(e) - Length(m)
  BY <1>1, <1>2, <1>3, FoundName
<1>5. PICK m \in Names : /\ Row[e] = Piece(m, 0) /\ Pieces[m] = Pieces[n]
                         /\ LongNameFrom(n) = AddressOf(e) - Length(m)
  BY <1>4
<1>6. Filled(Row, Count) /\ e \in 0 .. Count - 1
  BY <1>4 DEF RowInv, Indices
<1>7. Left(Row, Count, e, m, Length(m))
  BY <1>2, <1>5, <1>6, LeftAll DEF Whole
<1>8. IsInjective(Pieces) => m = n
  <2>1. DOMAIN Pieces = Names
    BY SlotsAssumption
  <2> QED
    BY <1>5, <2>1 DEF IsInjective
<1>9. AddressOf(e)' = AddressOf(e)
  BY <1>1 DEF AddressOf
<1>10. Underway(e, m, Length(m))'
  <2>1. entry' = AddressOf(e)' /\ at' = AddressOf(e)' - Length(m)
    BY Zenon, <1>1, <1>3, <1>5, <1>9
  <2>2. Left(Row', Count', e, m, Length(m))
    BY Zenon, <1>2, <1>7
  <2>3. IsInjective(Pieces) => m = target'
    BY <1>1, <1>8
  <2>4. Length(m)' = Length(m)
    BY DEF Length
  <2> QED
    BY Zenon, <2>1, <2>2, <2>3, <2>4 DEF Underway
<1>11. \E f, k, r : Underway(f, k, r)'
  BY Zenon, <1>10
<1> QED
  BY <1>1, <1>11 DEF Neat

\* What is left of the entry, by addresses.
LEMMA UnderwayIs ==
    ASSUME RowInv, Contiguous, NEW e, NEW n, NEW r, Underway(e, n, r)
    PROVE  /\ e \in 1 .. Count - 1 /\ n \in Names /\ r \in Orders(n) /\ r \in Nat /\ r < e
           /\ e \in Indices /\ e - r \in Indices
           /\ at = AddressOf(e - r) /\ Row[e - r] = Piece(n, r) /\ Row[e - r] = image[at]
           /\ \A i \in Indices : AddressOf(i) = at => i = e - r
<1>1. Left(Row, Count, e, n, r) /\ entry = AddressOf(e) /\ at = AddressOf(e) - r
  BY DEF Underway
<1>2. /\ e \in 1 .. Count - 1 /\ n \in Names /\ r \in Orders(n) /\ r < e
      /\ \A q \in 0 .. r : Row[e - q] = Piece(n, q)
  BY <1>1 DEF Left
<1>3. r \in Nat /\ Count \in Nat /\ Indices = 0 .. Count - 1
  BY <1>2, OrdersAre DEF RowInv, Filled, Indices
<1>4. e \in Indices /\ e - r \in Indices /\ Row[e - r] = Piece(n, r)
  BY <1>2, <1>3
<1>5. PICK b : b = First * ClusterSlots
  OBVIOUS
<1>6. b \in Nat
  BY <1>5, SlotsAssumption
<1>7. \A i \in Indices : AddressOf(i) = b + i
  BY <1>5, InOnePiece
<1>8. at = (b + e) - r /\ AddressOf(e - r) = b + (e - r)
  BY <1>1, <1>4, <1>7
<1>9. at = AddressOf(e - r)
  BY <1>2, <1>3, <1>6, <1>8
<1>10. \A i \in Indices : AddressOf(i) = at => i = e - r
  BY <1>2, <1>3, <1>6, <1>7, <1>8
<1>11. Row[e - r] = image[at]
  BY <1>4, <1>9, RowIs DEF Slot
<1> QED
  BY <1>2, <1>3, <1>4, <1>9, <1>10, <1>11

LEMMA RemoveLongNeat == ASSUME RowInv, Neat, Contiguous, RemoveLong PROVE Neat'
<1>1. /\ pc = "remove" /\ image[at].long /\ at' = at + 1 /\ UNCHANGED <<chain, pc, target, entry, result>>
  BY DEF RemoveLong
<1>2. PICK e, n, r : Underway(e, n, r)
  BY <1>1 DEF Neat
<1>3. /\ e \in 1 .. Count - 1 /\ n \in Names /\ r \in Orders(n) /\ r \in Nat /\ r < e
      /\ e \in Indices /\ e - r \in Indices
      /\ at = AddressOf(e - r) /\ Row[e - r] = Piece(n, r) /\ Row[e - r] = image[at]
      /\ \A i \in Indices : AddressOf(i) = at => i = e - r
  BY <1>2, UnderwayIs
<1>4. r # 0
  <2> SUFFICES ASSUME r = 0 PROVE FALSE
    OBVIOUS
  <2>1. Piece(n, 0).long = FALSE
    BY <1>3, PieceShort
  <2>2. Piece(n, 0) = image[at]
    BY Zenon, <1>3
  <2> QED
    BY <1>1, <2>1, <2>2
<1>5. Count \in Nat /\ Indices = 0 .. Count - 1
  BY DEF RowInv, Filled, Indices
<1>6. /\ Row' = [i \in 0 .. Count - 1 |-> IF i \in {j \in Indices : AddressOf(j) = at} THEN Deleted(Row[i]) ELSE Row[i]]
      /\ Count' = Count
  BY RemoveLongRow
<1>7. \A i \in 0 .. Count - 1 : i \in {j \in Indices : AddressOf(j) = at} <=> i = e - r
  BY <1>3, <1>5
<1>8. Row' = [i \in 0 .. Count - 1 |-> IF i = e - r THEN Deleted(Row[i]) ELSE Row[i]]
  BY <1>6, <1>7
<1>9. Left(Row, Count, e, n, r)
  BY <1>2 DEF Underway
<1>10. Left(Row', Count, e, n, r - 1)
  BY <1>4, <1>5, <1>8, <1>9, DeleteLongNeat
<1>11. entry = AddressOf(e) /\ at = AddressOf(e) - r /\ (IsInjective(Pieces) => n = target)
  BY <1>2 DEF Underway
<1>12. AddressOf(e) \in Int
  <2>1. AddressOf(e) = First * ClusterSlots + e
    BY <1>3, InOnePiece
  <2>2. First * ClusterSlots \in Nat
    BY SlotsAssumption
  <2> QED
    BY <1>3, <2>1, <2>2
<1>13. at + 1 = AddressOf(e) - (r - 1)
  BY <1>3, <1>11, <1>12
<1>14. AddressOf(e)' = AddressOf(e)
  BY <1>1 DEF AddressOf
<1>15. Underway(e, n, r - 1)'
  <2>1. Left(Row', Count', e, n, r - 1)
    BY Zenon, <1>6, <1>10
  <2>2. entry' = AddressOf(e)' /\ at' = AddressOf(e)' - (r - 1) /\ (IsInjective(Pieces) => n = target')
    BY Zenon, <1>1, <1>11, <1>13, <1>14
  <2> QED
    BY Zenon, <2>1, <2>2 DEF Underway
<1>16. \E f, k, s : Underway(f, k, s)'
  BY Zenon, <1>15
<1>17. pc' = "remove" /\ result' = "none" /\ target' \in Names
  BY <1>1 DEF Neat
<1> QED
  BY <1>16, <1>17 DEF Neat

LEMMA RemoveShortNeat == ASSUME RowInv, Neat, Contiguous, RemoveShort PROVE Neat'
<1>1. /\ pc = "remove" /\ ~image[at].long /\ pc' = "idle" /\ result' = "removed" /\ UNCHANGED <<chain, target>>
  BY DEF RemoveShort, Ends
<1>2. PICK e, n, r : Underway(e, n, r)
  BY <1>1 DEF Neat
<1>3. /\ e \in 1 .. Count - 1 /\ n \in Names /\ r \in Orders(n) /\ r \in Nat /\ r < e
      /\ e \in Indices /\ e - r \in Indices
      /\ at = AddressOf(e - r) /\ Row[e - r] = Piece(n, r) /\ Row[e - r] = image[at]
      /\ \A i \in Indices : AddressOf(i) = at => i = e - r
  BY <1>2, UnderwayIs
<1>4. r = 0
  <2> SUFFICES ASSUME r # 0 PROVE FALSE
    OBVIOUS
  <2>1. Piece(n, r).long = TRUE
    BY <1>3, PieceLong
  <2>2. Piece(n, r) = image[at]
    BY Zenon, <1>3
  <2> QED
    BY <1>1, <2>1, <2>2
<1>5. Left(Row, Count, e, n, 0) /\ entry = AddressOf(e) /\ (IsInjective(Pieces) => n = target)
  BY <1>2, <1>4 DEF Underway
<1>6. PICK f \in Nat : Removes(f) /\ Count' = Count /\ Row' = [Row EXCEPT ![f] = Deleted(Row[f])]
  BY RemoveShortRow
<1>7. f = e
  <2>1. f \in 1 .. Count - 1 /\ AddressOf(f) = AddressOf(e) /\ Count \in Nat
    BY <1>5, <1>6 DEF Removes, RowInv, Filled
  <2>2. f \in Indices
    BY <2>1 DEF Indices
  <2>3. AddressOf(f) = First * ClusterSlots + f /\ AddressOf(e) = First * ClusterSlots + e
    BY <1>3, <2>2, InOnePiece
  <2>4. PICK b : b = First * ClusterSlots
    OBVIOUS
  <2>5. b + f = b + e
    BY Zenon, <2>1, <2>3, <2>4
  <2>6. b \in Nat /\ e \in Nat
    BY <1>3, <2>1, <2>4, SlotsAssumption
  <2> QED
    BY ONLY <2>5, <2>6, f \in Nat
<1>8. DOMAIN Row = 0 .. Count - 1 /\ Count \in Nat
  BY RowIs DEF RowInv, Filled, Indices
<1>9. Row' = [Row EXCEPT ![e] = Deleted(Row[e])]
  BY <1>6, <1>7
<1>10. Followed(Row', Count, -1) /\ Preceded(Row', Count, -1) /\ Single(Row', Count) /\ Absent(Row', Count, n)
  BY <1>5, <1>8, <1>9, DeleteShortNeat
<1>11. Whole'
  BY <1>6, <1>10 DEF Whole
<1>12. target' \in Names
  BY <1>1 DEF Neat
<1> QED
  BY <1>1, <1>5, <1>6, <1>10, <1>11, <1>12 DEF Neat

LEMMA InitNeat == Init => Neat
<1> SUFFICES ASSUME Init PROVE Neat
  OBVIOUS
<1>1. RowInv /\ pc = "idle" /\ result = "none"
  BY InitRow DEF Init
<1>2. \A a \in Addresses : image[a].owner \notin Names
  <2>1. DotSlot.owner = Dots /\ ZeroSlot.owner = Nobody
    BY DotIsShort DEF ZeroSlot
  <2>2. DataSlot(DataLooksLong).owner = Nobody
    <3>1. "first" \in SlotFields /\ "long" \in SlotFields /\ "owner" \in SlotFields \ {"first", "long"}
      BY DEF SlotFields
    <3>2. DataSlot(DataLooksLong)["owner"] = ZeroSlot["owner"]
      BY <3>1, ZeroFields, TwoReplaced DEF DataSlot
    <3> QED
      BY <2>1, <3>2
  <2>3. \A a \in Addresses : image[a] \in {DataSlot(DataLooksLong), DotSlot, ZeroSlot}
    BY DEF Init
  <2>4. Dots \notin Names /\ Nobody \notin Names
    BY SlotsAssumption
  <2> QED
    BY <2>1, <2>2, <2>3, <2>4
<1>3. \A j \in 0 .. Count - 1 : \A n \in Names : \A q \in Orders(n) : Row[j] # Piece(n, q)
  <2> SUFFICES ASSUME NEW j \in 0 .. Count - 1, NEW n \in Names, NEW q \in Orders(n), Row[j] = Piece(n, q) PROVE FALSE
    OBVIOUS
  <2>1. chain \in Seq(Volume) /\ j \in 0 .. RowLength(chain) - 1
    BY <1>1, RowIs DEF RowInv, Clusters
  <2>2. AddressIn(chain, j) \in Addresses /\ Row[j] = image[AddressIn(chain, j)]
    BY <2>1, AddressOnVolume DEF Row, RowOf, RowLength
  <2>3. Piece(n, q).owner = n
    BY PieceIs
  <2>4. Row[j].owner \notin Names
    BY <1>2, <2>2
  <2> QED
    BY <2>3, <2>4
<1>4. Followed(Row, Count, -1) /\ Preceded(Row, Count, -1)
  BY <1>3 DEF Followed, Preceded
<1>5. Single(Row, Count)
  BY <1>3, OrdersAre DEF Single
<1> QED
  BY <1>1, <1>4, <1>5 DEF Neat, Whole

LEMMA StepNeat ==
    ASSUME RowInv, Orderly, Neat, IsInjective(Alias), [Next]_vars, ~Crash, ~CrashTorn, ~AddFails
    PROVE  Neat'
<1>0. Contiguous
  BY DEF Orderly
<1>1. ASSUME NEW n \in Names, OpenThere(n) \/ RemoveMissing(n) PROVE Neat'
  <2>1. pc = "idle" /\ pc' = "idle" /\ result' = "none"
    BY <1>1 DEF OpenThere, RemoveMissing
  <2>2. Row' = Row /\ Count' = Count
    BY <1>1, QuietRow
  <2> QED
    BY <2>1, <2>2, IdleNeat
<1>2. CASE OtherTakes
  <2>1. pc = "idle" /\ pc' = "idle" /\ UNCHANGED <<result, target>>
    BY <1>2 DEF OtherTakes
  <2> QED
    BY <1>2, <2>1, OtherTakesRow, IdleNeat
<1>3. CASE OtherFrees
  <2>1. pc = "idle" /\ pc' = "idle" /\ UNCHANGED <<result, target>>
    BY <1>3 DEF OtherFrees
  <2>2. Row' = Row /\ Count' = Count
    BY <1>3, QuietRow
  <2> QED
    BY <2>1, <2>2, IdleNeat
<1>4. CASE StaysTorn \/ UNCHANGED vars
  <2>1. UNCHANGED <<pc, target, at, todo, entry, result, chain>> /\ UNCHANGED vars
    BY <1>4 DEF StaysTorn, vars
  <2>2. Row' = Row /\ Count' = Count
    BY <2>1, StutterRow
  <2>3. Whole' <=> Whole
    BY <2>2 DEF Whole
  <2>4. Ahead(target, at, todo)' = Ahead(target, at, todo) /\ Indices' = Indices
    BY <2>1, <2>2 DEF Ahead, Done, Indices
  <2>5. ASSUME NEW e, NEW n, NEW r, Underway(e, n, r) PROVE Underway(e, n, r)'
    BY <2>1, <2>2, <2>5 DEF Underway, AddressOf
  <2>6. pc = "remove" => \E e, n, r : Underway(e, n, r)'
    BY <2>5 DEF Neat
  <2> QED
    BY <2>1, <2>2, <2>3, <2>4, <2>6 DEF Neat
<1>5. ASSUME NEW n \in Names, Create(n) PROVE Neat'
  BY <1>5, CreateNeat
<1>6. ASSUME NEW n \in Names, RemoveFound(n) PROVE Neat'
  BY <1>6, RemoveFoundNeat
<1>7. CASE AddSlot \/ Grow \/ Clear
  BY <1>7, AddSlotNeat, GrowStepNeat, ClearStepNeat
<1>8. CASE RemoveLong \/ RemoveShort
  BY <1>0, <1>8, RemoveLongNeat, RemoveShortNeat
<1> QED
  BY <1>1, <1>2, <1>3, <1>4, <1>5, <1>6, <1>7, <1>8 DEF Next

\* A directory in which nothing was killed is whole.
LEMMA OrderlyWhole == ASSUME DirInv, Orderly PROVE RowInv
  BY DEF DirInv, Orderly

LEMMA AlwaysNeat == ASSUME IsInjective(Alias) PROVE Spec => [](DirInv /\ (Orderly => Neat))
<1>1. Init => DirInv /\ (Orderly => Neat)
  BY InitRow, InitNeat DEF DirInv, RowInv, Process, Torn
<1>2. DirInv /\ (Orderly => Neat) /\ [Next]_vars => (DirInv /\ (Orderly => Neat))'
  <2> SUFFICES ASSUME DirInv, Orderly => Neat, [Next]_vars PROVE DirInv' /\ (Orderly' => Neat')
    OBVIOUS
  <2>1. DirInv'
    BY StepDir
  <2>2. ASSUME Orderly' PROVE Neat'
    <3>1. Orderly /\ ~Crash /\ ~CrashTorn /\ ~AddFails
      BY <2>2, OrderlyBefore
    <3> QED
      BY <3>1, OrderlyWhole, StepNeat
  <2> QED
    BY <2>1, <2>2
<1> QED
  BY <1>1, <1>2, PTL DEF Spec

-----------------------------------------------------------------------------
(* What a reader of the directory sees. *)

\* As long as the clusters follow each other, nothing was killed and no entry
\* lost, a listing between commands names what is there, each once and by its
\* long name, whatever the size of the directory and its names.  No two names
\* share an alias: a removal that finds the entry of another name by its alias would
\* leave the long-name slots of that one (directory.c 122-213, file.c 471-507).
THEOREM Listing == ASSUME IsInjective(Alias) PROVE Spec => []ListingExact
<1>1. DirInv /\ (Orderly => Neat) => ListingExact
  <2> SUFFICES ASSUME RowInv, Neat, pc = "idle", Orderly
               PROVE  /\ \A i \in Shorts : Slot(i).owner # Dots => Listed(i) = Pieces[Slot(i).owner]
                      /\ \A i, j \in Shorts : Slot(i).owner = Slot(j).owner /\ Slot(i).owner # Dots => i = j
                      /\ \A i \in Indices : Used(i) /\ Slot(i).long =>
                            i + 1 \in Indices /\ Used(i + 1) /\ Slot(i + 1).owner = Slot(i).owner
    BY OrderlyWhole DEF ListingExact
  <2>1. Whole
    BY DEF Neat
  <2>2. ASSUME NEW i \in Shorts, Slot(i).owner # Dots
        PROVE  Slot(i).owner \in Names /\ i \in 0 .. Count - 1 /\ Row[i] = Piece(Slot(i).owner, 0)
    <3>1. i \in Indices /\ Row[i] = Slot(i) /\ (Row[i] = DotSlot \/ \E m \in Names : Row[i] = Piece(m, 0))
      BY ShortIsPiece
    <3>2. PICK m \in Names : Row[i] = Piece(m, 0)
      BY <2>2, <3>1, DotIsShort
    <3>3. Piece(m, 0).owner = m
      BY PieceShort
    <3> QED
      BY <3>1, <3>2, <3>3 DEF Indices
  <2>3. ASSUME NEW i \in Shorts, Slot(i).owner # Dots PROVE Listed(i) = Pieces[Slot(i).owner]
    <3>1. PICK n \in Names : n = Slot(i).owner /\ Row[i] = Piece(n, 0)
      BY <2>2, <2>3
    <3>2. i \in Indices
      BY <2>2, <2>3 DEF Indices
    <3>3. LongRun(i) # {} /\ Combined(LongRun(i)) = Pieces[n]
      BY <2>1, <3>1, <3>2, OwnName
    <3> QED
      BY <3>1, <3>3 DEF Listed
  <2>4. ASSUME NEW i \in Shorts, NEW j \in Shorts, Slot(i).owner = Slot(j).owner, Slot(i).owner # Dots PROVE i = j
    BY <2>1, <2>2, <2>4 DEF Whole, Single
  <2>5. ASSUME NEW i \in Indices, Used(i), Slot(i).long
        PROVE  i + 1 \in Indices /\ Used(i + 1) /\ Slot(i + 1).owner = Slot(i).owner
    <3>1. Row[i] = Slot(i) /\ i \in 0 .. Count - 1 /\ Count \in Nat
      BY RowIs DEF Indices, RowInv, Filled
    <3>2. Row[i].first = "used" /\ Row[i] # DotSlot
      BY <2>5, <3>1, DotIsShort DEF Used
    <3>3. Written(Row[i])
      BY <3>1, <3>2 DEF RowInv, Filled
    <3>4. PICK n \in Names : \E q \in Orders(n) : Row[i] = Piece(n, q)
      BY <3>2, <3>3, WrittenIs
    <3>5. PICK q \in Orders(n) : Row[i] = Piece(n, q)
      BY <3>4
    <3>6. q # 0
      <4> SUFFICES ASSUME q = 0 PROVE FALSE
        OBVIOUS
      <4>1. Piece(n, 0).long = FALSE
        BY PieceShort
      <4> QED
        BY <2>5, <3>1, <3>5, <4>1
    <3>7. i + 1 < Count /\ Row[i + 1] = Piece(n, q - 1)
      BY <2>1, <3>1, <3>5, <3>6 DEF Whole, Followed
    <3>8. q - 1 \in Orders(n)
      BY <3>6, OrdersAre DEF Orders
    <3>9. Piece(n, q - 1).first = "used" /\ Piece(n, q - 1).owner = n
      BY <3>8, PieceIs
    <3>10. Piece(n, q).owner = n
      BY PieceIs
    <3>11. i + 1 \in Indices /\ Row[i + 1] = Slot(i + 1)
      BY <3>1, <3>7, RowIs DEF Indices
    <3> QED
      BY <3>1, <3>5, <3>7, <3>9, <3>10, <3>11 DEF Used
  <2> QED
    BY <2>3, <2>4, <2>5
<1> QED
  BY <1>1, AlwaysNeat, PTL

\* In an orderly directory a lookup between commands finds what was made and
\* nothing in its place, what was created is there and what was removed is not
\* found (file.c 377-513).
THEOREM Lookups ==
    ASSUME IsInjective(Alias), IsInjective(Pieces)
    PROVE  Spec => [](Orderly => LookupExact /\ LastCommandHolds)
<1>1. DirInv /\ (Orderly => Neat) => (Orderly => FoundIsOwn /\ LastCommandHolds)
  <2> SUFFICES ASSUME RowInv, Neat PROVE FoundIsOwn /\ LastCommandHolds
    BY OrderlyWhole
  <2>1. ASSUME NEW n \in Names, pc = "idle", Found(n)
        PROVE  Find(n) \in 0 .. Count - 1 /\ Row[Find(n)] = Piece(n, 0) /\ Owner(n) = n
    <3>1. Whole
      BY <2>1 DEF Neat
    <3>2. PICK e : e = Find(n)
      OBVIOUS
    <3>3. e \in Indices /\ \E m \in Names : Row[e] = Piece(m, 0) /\ Pieces[m] = Pieces[n]
      BY <2>1, <3>1, <3>2, FoundName
    <3>4. PICK m \in Names : Row[e] = Piece(m, 0) /\ Pieces[m] = Pieces[n]
      BY <3>3
    <3>5. m = n
      BY <3>4, SlotsAssumption DEF IsInjective
    <3>6. Piece(n, 0).owner = n
      BY PieceShort
    <3>7. Row[e] = Slot(e)
      BY <3>3, RowIs
    <3>8. Slot(e).owner = n
      BY <3>4, <3>5, <3>6, <3>7
    <3> QED
      BY <3>2, <3>3, <3>4, <3>5, <3>8 DEF Owner, Indices
  <2>2. FoundIsOwn
    BY <2>1 DEF FoundIsOwn
  <2>3. ASSUME result = "created" PROVE EntriesOf(target) # {}
    <3>1. PICK i \in Indices : Row[i] = Piece(target, 0)
      BY <2>3 DEF Neat
    <3>2. target \in Names
      BY <2>3 DEF Neat
    <3>3. Piece(target, 0).first = "used" /\ Piece(target, 0).long = FALSE /\ Piece(target, 0).owner = target
      BY <3>2, PieceShort
    <3>4. Row[i] = Slot(i)
      BY RowIs
    <3>5. IsShort(i) /\ Slot(i).owner = target
      BY <3>1, <3>3, <3>4 DEF IsShort, Used
    <3> QED
      BY <3>5 DEF EntriesOf
  <2>4. ASSUME result = "removed", Found(target) PROVE FALSE
    <3>1. target \in Names /\ pc = "idle" /\ Absent(Row, Count, target)
      BY <2>4 DEF Neat
    <3>2. Find(target) \in 0 .. Count - 1 /\ Row[Find(target)] = Piece(target, 0)
      BY <2>1, <2>4, <3>1
    <3> QED
      BY <3>1, <3>2 DEF Absent
  <2> QED
    BY <2>2, <2>3, <2>4 DEF LastCommandHolds
<1>2. Spec => [](Orderly => FoundIsOwn /\ LastCommandHolds)
  BY <1>1, AlwaysNeat, PTL
<1>3. Spec => []EntriesFound
  BY Finding
<1>4. (Orderly => FoundIsOwn /\ LastCommandHolds) /\ EntriesFound => (Orderly => LookupExact /\ LastCommandHolds)
  BY DEF LookupExact
<1> QED
  BY <1>2, <1>3, <1>4, PTL

-----------------------------------------------------------------------------
(* What happens to the entries of other names. *)

\* Where no entry comes or goes but those of other names.
LEMMA EntriesKept ==
    ASSUME NEW n,
           \A i \in Indices : IsEntry(Row[i]) /\ Row[i].owner = n => i \in Indices' /\ IsEntry(Row'[i]) /\ Row'[i].owner = n,
           \A i \in Indices' : IsEntry(Row'[i]) /\ Row'[i].owner = n => i \in Indices /\ IsEntry(Row[i]) /\ Row[i].owner = n
    PROVE  EntriesOf(n)' = EntriesOf(n)
<1>1. \A i \in Indices : Row[i] = Slot(i)
  BY RowIs
<1>2. \A i \in Indices' : Row'[i] = Slot(i)'
  BY DEF Row, RowOf, RowLength, AddressIn, Indices, Count, Slot, AddressOf
<1>3. EntriesOf(n) = {i \in Indices : IsEntry(Row[i]) /\ Row[i].owner = n}
  BY <1>1 DEF EntriesOf, IsShort, IsEntry, Used
<1>4. EntriesOf(n)' = {i \in Indices' : IsEntry(Row'[i]) /\ Row'[i].owner = n}
  BY <1>2 DEF EntriesOf, IsShort, IsEntry, Used
<1> QED
  BY <1>3, <1>4

\* A step makes or removes no entries but those of the name it is about.
LEMMA StepOthers ==
    ASSUME RowInv, Neat, Contiguous, IsInjective(Pieces), [Next]_vars, ~CrashTorn, NEW n \in Names \ {target'}
    PROVE  EntriesOf(n)' = EntriesOf(n)
<1>1. /\ Count \in Nat /\ Indices = 0 .. Count - 1 /\ Indices' = 0 .. Count' - 1
      /\ DOMAIN Row = 0 .. Count - 1
  BY RowIs DEF RowInv, Filled, Indices
<1>2. ASSUME Row' = Row, Count' = Count PROVE EntriesOf(n)' = EntriesOf(n)
  <2>1. Indices' = Indices
    BY <1>1, <1>2
  <2> QED
    BY <1>2, <2>1, EntriesKept
<1>3. CASE AddSlot
  <2>1. pc = "add" /\ at < Count /\ target' = target /\ Row' = [Row EXCEPT ![at] = Head(todo)] /\ Count' = Count
    BY <1>3, AddSlotRow DEF AddSlot
  <2>2. Placing(Row, Count, target, at, todo, RowLength(saved))
    BY <2>1 DEF RowInv, Adding
  <2>3. target \in Names /\ Remaining(target, todo) /\ at \in Nat /\ at \in 0 .. Count - 1
    BY <1>1, <2>1, <2>2 DEF Placing
  <2>4. Row[at].first # "used"
    <3>1. PICK l : l = Len(todo)
      OBVIOUS
    <3>2. l \in Nat /\ l >= 1
      BY <2>3, <3>1, NameLength DEF Remaining
    <3>3. at \in at .. Count - 1 /\ at < at + l
      BY <1>1, <2>3, <3>2
    <3> QED
      BY <2>2, <3>1, <3>3 DEF Placing
  <2>5. ASSUME IsEntry(Head(todo)) PROVE Head(todo).owner # n
    <3>1. Len(todo) = 1
      <4>1. PICK l : l = Len(todo)
        OBVIOUS
      <4>2. l \in Nat /\ l >= 1
        BY <2>3, <4>1, NameLength DEF Remaining
      <4>3. ~(l > 1)
        BY <2>3, <2>5, <4>1, RestIsWritten
      <4> QED
        BY <4>1, <4>2, <4>3
    <3>2. Head(todo) = ShortSlot(target)
      BY <2>3, <3>1, HeadOfRest
    <3>3. ShortSlot(target).owner = target
      BY ShortIsShort
    <3> QED
      BY <2>1, <3>2, <3>3
  <2>6. \A i \in Indices : Row'[i] = IF i = at THEN Head(todo) ELSE Row[i]
    BY <1>1, <2>1
  <2>7. Indices' = Indices
    BY <1>1, <2>1
  <2> QED
    BY <2>4, <2>5, <2>6, <2>7, EntriesKept DEF IsEntry
<1>4. CASE Clear
  <2>1. /\ Count' = Count + ClusterSlots /\ ClusterSlots \in Nat
        /\ Row' = [i \in 0 .. Count + ClusterSlots - 1 |-> IF i < Count THEN Row[i] ELSE ZeroSlot]
    BY <1>4, ClearRow, SlotsAssumption
  <2>2. ~IsEntry(ZeroSlot)
    BY ZeroIsZero DEF IsEntry
  <2>3. \A i \in Indices : i \in Indices' /\ Row'[i] = Row[i]
    BY <1>1, <2>1
  <2>4. \A i \in Indices' : i \notin Indices => Row'[i] = ZeroSlot
    BY <1>1, <2>1
  <2> QED
    BY <2>2, <2>3, <2>4, EntriesKept
<1>5. CASE RemoveLong
  <2>1. /\ Row' = [i \in 0 .. Count - 1 |-> IF i \in {j \in Indices : AddressOf(j) = at} THEN Deleted(Row[i]) ELSE Row[i]]
        /\ Count' = Count /\ \A i \in Indices : AddressOf(i) = at => Row[i].long
    BY <1>5, RemoveLongRow
  <2>2. \A i \in Indices : Row'[i] = Row[i] \/ (Row[i].long /\ Row'[i] = Deleted(Row[i]))
    BY <1>1, <2>1
  <2>3. \A i \in Indices : Row'[i] = Row[i] \/ (~IsEntry(Row[i]) /\ ~IsEntry(Row'[i]))
    BY <2>2, DeletedIsDeleted DEF IsEntry
  <2>4. Indices' = Indices
    BY <1>1, <2>1
  <2> QED
    BY <2>3, <2>4, EntriesKept
<1>6. CASE RemoveShort
  <2>1. pc = "remove" /\ target' = target
    BY <1>6 DEF RemoveShort
  <2>2. PICK e, m, r : Underway(e, m, r)
    BY <2>1 DEF Neat
  <2>3. /\ e \in 1 .. Count - 1 /\ e \in Indices /\ m \in Names /\ r \in Nat
    BY <2>2, UnderwayIs
  <2>4. Left(Row, Count, e, m, r) /\ entry = AddressOf(e) /\ m = target
    BY <2>2 DEF Underway
  <2>5. Row[e] = Piece(m, 0)
    <3>1. \A q \in 0 .. r : Row[e - q] = Piece(m, q)
      BY <2>4 DEF Left
    <3>2. 0 \in 0 .. r /\ e - 0 = e
      BY <2>3
    <3>3. Row[e - 0] = Piece(m, 0)
      BY <3>1, <3>2
    <3> QED
      BY Zenon, <3>2, <3>3
  <2>6. PICK f \in Nat : Removes(f) /\ Count' = Count /\ Row' = [Row EXCEPT ![f] = Deleted(Row[f])]
    BY <1>6, RemoveShortRow
  <2>7. f \in Indices /\ AddressOf(f) = AddressOf(e)
    BY <1>1, <2>4, <2>6 DEF Removes
  <2>8. f = e
    <3>1. PICK b : b = First * ClusterSlots
      OBVIOUS
    <3>2. AddressOf(f) = b + f /\ AddressOf(e) = b + e
      BY <2>3, <2>7, <3>1, InOnePiece
    <3>3. b + f = b + e
      BY Zenon, <2>7, <3>2
    <3>4. b \in Nat /\ e \in Nat
      BY <2>3, <3>1, SlotsAssumption
    <3> QED
      BY ONLY <3>3, <3>4, f \in Nat
  <2>9. Row[e].owner # n
    <3>1. Piece(m, 0).owner = m
      BY <2>3, PieceShort
    <3> QED
      BY <2>1, <2>4, <2>5, <3>1
  <2>10. Indices' = Indices
    BY <1>1, <2>6
  <2>11. \A i \in Indices : i # e => Row'[i] = Row[i]
    BY <1>1, <2>6, <2>8
  <2>12. ~IsEntry(Row'[e])
    <3>1. Row'[e] = Deleted(Row[e])
      BY <1>1, <2>3, <2>6, <2>8
    <3>2. Deleted(Row[e]).first = "deleted"
      BY DeletedIsDeleted
    <3> QED
      BY <3>1, <3>2 DEF IsEntry
  <2> QED
    BY <2>9, <2>10, <2>11, <2>12, EntriesKept
<1>7. CASE Crash
  <2>1. /\ Count' \in Nat /\ Count' <= Count /\ RowLength(saved) <= Count'
        /\ Row' = [i \in 0 .. Count' - 1 |-> Row[i]]
    BY <1>7, CrashRow
  <2>2. PICK a, b, s : a = Count /\ b = Count' /\ s = RowLength(saved)
    OBVIOUS
  <2>3. s \in Nat
    BY <2>2, RowLengths DEF RowInv, Clusters
  <2>4. a \in Nat /\ b \in Nat /\ b <= a /\ s <= b /\ Indices = 0 .. a - 1 /\ Indices' = 0 .. b - 1
    BY Zenon, <1>1, <2>1, <2>2
  <2>5. Row' = [i \in 0 .. b - 1 |-> Row[i]]
    BY Zenon, <2>1, <2>2
  <2>6. ASSUME NEW i \in Indices, IsEntry(Row[i]) PROVE i \in Indices'
    <3>1. ~(s <= i)
      <4>1. CASE pc \in {"add", "clear"}
        <5>1. Placing(Row, a, target, at, todo, s)
          BY <2>2, <4>1 DEF RowInv, Adding
        <5> QED
          BY <2>4, <2>6, <5>1 DEF Placing
      <4>2. CASE pc \notin {"add", "clear"}
        <5>1. s = a
          BY <2>2, <4>2, RowIs DEF RowInv, Process
        <5> QED
          BY <2>4, <5>1
      <4> QED
        BY <4>1, <4>2
    <3> QED
      BY ONLY <2>3, <2>4, <3>1, i \in Indices
  <2>7. \A i \in Indices' : i \in Indices /\ Row'[i] = Row[i]
    <3>1. \A i \in 0 .. b - 1 : i \in 0 .. a - 1
      BY ONLY <2>4
    <3>2. \A i \in 0 .. b - 1 : Row'[i] = Row[i]
      BY ONLY <2>5
    <3> QED
      BY <2>4, <3>1, <3>2
  <2> QED
    BY <2>6, <2>7, EntriesKept
<1>8. CASE \/ \E k \in Names : OpenThere(k) \/ RemoveMissing(k)
           \/ AddFails \/ OtherFrees
  BY <1>2, <1>8, QuietRow
<1>9. ASSUME NEW k \in Names, Create(k) \/ RemoveFound(k) PROVE EntriesOf(n)' = EntriesOf(n)
  <2>1. UNCHANGED <<image, chain>>
    BY <1>9 DEF Create, RemoveFound
  <2> QED
    BY <1>2, <2>1, RowKept
<1>10. CASE OtherTakes \/ Grow
  BY <1>2, <1>10, OtherTakesRow, GrowRow
<1>11. CASE StaysTorn \/ UNCHANGED vars
  BY <1>2, <1>11, StutterRow DEF StaysTorn
<1> QED
  BY <1>3, <1>4, <1>5, <1>6, <1>7, <1>8, <1>9, <1>10, <1>11 DEF Next

\* The entries of names that the command was not given stay.
OthersKept == \A n \in Names \ {target'} : EntriesOf(n)' = EntriesOf(n)

\* In an orderly directory a command, and a kill in the middle of one that does not
\* leave a cluster without its end in it, makes or removes entries only for the name
\* it was given (directory.c 7-77).
THEOREM Others ==
    ASSUME IsInjective(Alias), IsInjective(Pieces)
    PROVE  Spec => [][Orderly /\ ~Torn' => OthersKept]_vars
<1>1. DirInv /\ (Orderly => Neat) /\ [Next]_vars => [Orderly /\ ~Torn' => OthersKept]_vars
  <2> SUFFICES ASSUME DirInv, Neat, Orderly, [Next]_vars, ~Torn' PROVE OthersKept
    OBVIOUS
  <2>1. ~CrashTorn
    BY DEF CrashTorn, Killed, Torn
  <2> QED
    BY <2>1, OrderlyWhole, StepOthers DEF OthersKept, Orderly
<1> QED
  BY <1>1, AlwaysNeat, PTL DEF Spec
=============================================================================

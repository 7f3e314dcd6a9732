--------------------------- MODULE MbrTable_proofs ---------------------------
(***************************************************************************)
(* The search for a free region is right for every disk, every number of    *)
(* commands and every argument that is Ordinary: what it finds is free, and *)
(* what it does not find is not there.                                     *)
(***************************************************************************)
EXTENDS MbrTable, Integers, TLAPS

\* Where the region of an entry begins and ends, without machine words.
From(i) == table[i].first * SectorSize
Until(i) == (table[i].first + table[i].size) * SectorSize

\* A used entry is a region behind the boot sector and on the disk, at or
\* behind the default start; an unused one is the empty region at 0.
Owned ==
    \A i \in Slots :
        IF table[i].used
        THEN /\ SearchFrom(0) <= From(i)
             /\ From(i) < Until(i)
             /\ Until(i) <= DiskSize
        ELSE From(i) = 0 /\ Until(i) = 0

Apart ==
    \A i, j \in Used : i # j => Until(i) <= From(j) \/ Until(j) <= From(i)

Inv == TypeOK /\ Owned /\ Apart

-----------------------------------------------------------------------------
(* Arithmetic. *)

LEMMA Unwrapped ==
    ASSUME NEW x \in Nat, x < Word
    PROVE  x % Word = x
  BY DiskAssumption

LEMMA WholeSectors ==
    ASSUME NEW x \in Nat, x % SectorSize = 0
    PROVE  /\ x \div SectorSize \in Nat
           /\ (x \div SectorSize) * SectorSize = x
  BY DiskAssumption

\* Rounding up gives whole sectors, and not fewer bytes.
LEMMA RoundedUp ==
    ASSUME NEW x \in Nat
    PROVE  /\ x % SectorSize \in 0 .. SectorSize - 1
           /\ (x + SectorSize - (x % SectorSize)) % SectorSize = 0
<1> DEFINE q == x \div SectorSize
           over == x % SectorSize
<1>1. q \in Nat /\ over \in 0 .. SectorSize - 1 /\ x = q * SectorSize + over
  BY DiskAssumption
<1>2. x + SectorSize - over = (q + 1) * SectorSize
  BY <1>1, DiskAssumption
<1>3. ((q + 1) * SectorSize) % SectorSize = 0
  BY <1>1, DiskAssumption
<1>4. (x + SectorSize - over) % SectorSize = 0
  BY <1>2, <1>3
<1> QED
  BY <1>1, <1>4

\* A number of sectors on the disk fits an entry.
LEMMA FitsEntry ==
    ASSUME Ordinary, NEW x \in Nat, x % SectorSize = 0, x <= DiskSize
    PROVE  /\ (x \div SectorSize) % LbaWord \in 0 .. LbaWord - 1
           /\ ((x \div SectorSize) % LbaWord) * SectorSize = x
<1> DEFINE q == x \div SectorSize
<1>1. q \in Nat /\ q * SectorSize = x
  BY WholeSectors
<1>2. q < LbaWord
  BY <1>1, DiskAssumption DEF Ordinary
<1>3. q % LbaWord = q /\ q \in 0 .. LbaWord - 1
  BY <1>1, <1>2, DiskAssumption
<1> QED
  BY <1>1, <1>3

-----------------------------------------------------------------------------
(* What the code reads from the entries. *)

\* No word wraps, so the code's starts and ends are the regions'.
LEMMA StartEnd ==
    ASSUME Inv, NEW i \in Slots
    PROVE  /\ Start(i) = From(i) /\ End(i) = Until(i)
           /\ From(i) \in Nat /\ Until(i) \in Nat
           /\ From(i) <= Until(i) /\ Until(i) <= DiskSize
           /\ Until(i) # 0 => table[i].used
           /\ table[i].used => From(i) < Until(i)
<1> DEFINE f == table[i].first
           z == table[i].size
<1>1. /\ f \in Nat /\ z \in Nat /\ table[i].used \in BOOLEAN
      /\ SectorSize \in Nat /\ DiskSize \in Nat /\ Word \in Nat /\ DiskSize < Word
  <2>1. table[i] \in [used : BOOLEAN, bootable : BOOLEAN,
                      first : 0 .. LbaWord - 1, size : 0 .. LbaWord - 1]
    BY DEF Inv, TypeOK
  <2> QED
    BY <2>1, DiskAssumption
<1>2. /\ From(i) \in Nat /\ Until(i) \in Nat /\ Until(i) = From(i) + z * SectorSize
      /\ z * SectorSize \in Nat
  <2>1. From(i) = f * SectorSize /\ Until(i) = (f + z) * SectorSize
    BY DEF From, Until
  <2> HIDE DEF f, z
  <2> QED
    BY <1>1, <2>1
<1>3. Until(i) <= DiskSize /\ From(i) <= Until(i)
  BY <1>1, <1>2 DEF Inv, Owned
<1>4. Start(i) = From(i)
  <2>1. Start(i) = From(i) % Word
    BY DEF Start, From
  <2> QED
    BY <1>1, <1>2, <1>3, <2>1, Unwrapped
<1>5. End(i) = Until(i)
  <2>1. End(i) = (From(i) + z * SectorSize) % Word
    BY <1>4 DEF End
  <2>2. End(i) = Until(i) % Word
    BY <1>2, <2>1
  <2>3. Until(i) < Word
    BY <1>1, <1>2, <1>3
  <2> QED
    BY <1>2, <2>2, <2>3, Unwrapped
<1> QED
  BY <1>2, <1>3, <1>4, <1>5 DEF Inv, Owned

\* Among four slots, an order reaches every one.
LEMMA OrderOnto ==
    ASSUME NEW order \in SortedOrders, NEW i \in Slots
    PROVE  \E k \in Slots : order[k] = i
<1>1. /\ order[1] \in Slots /\ order[2] \in Slots /\ order[3] \in Slots /\ order[4] \in Slots
      /\ order[1] # order[2] /\ order[1] # order[3] /\ order[1] # order[4]
      /\ order[2] # order[3] /\ order[2] # order[4] /\ order[3] # order[4]
  BY DEF SortedOrders, Orders, Slots
<1> QED
  BY <1>1 DEF Slots

\* In the order of qsort, a used entry ends in front of the next used one, and
\* the unused ones come first.
LEMMA Sorted ==
    ASSUME Inv, NEW order \in SortedOrders, NEW j \in Slots, NEW k \in Slots, j < k
    PROVE  /\ order[j] \in Slots /\ order[k] \in Slots
           /\ Start(order[j]) <= Start(order[k])
           /\ table[order[j]].used => table[order[k]].used
           /\ End(order[j]) <= Start(order[k]) \/ Start(order[k]) = 0
<1>1. order \in [Slots -> Slots] /\ order[j] # order[k]
  BY DEF SortedOrders, Orders, Slots
<1>2. \A i \in Slots : Start(i) \in Nat
  BY StartEnd
<1>3. /\ Start(order[1]) <= Start(order[2])
      /\ Start(order[2]) <= Start(order[3])
      /\ Start(order[3]) <= Start(order[4])
  BY DEF SortedOrders
<1>4. Start(order[j]) <= Start(order[k])
  BY <1>1, <1>2, <1>3 DEF Slots
<1> DEFINE a == order[j]
           b == order[k]
<1>5. a \in Slots /\ b \in Slots /\ a # b
  BY <1>1
<1> HIDE DEF a, b
<1>6. /\ Start(a) = From(a) /\ End(a) = Until(a) /\ Start(b) = From(b) /\ End(b) = Until(b)
      /\ From(a) \in Nat /\ From(b) \in Nat /\ Until(a) \in Nat /\ Until(b) \in Nat
  BY <1>5, StartEnd
<1>7. From(a) <= From(b)
  BY <1>4, <1>6 DEF a, b
<1>8. SearchFrom(0) \in Nat /\ SearchFrom(0) > 0
  BY DiskAssumption DEF SearchFrom, Later
<1>9. CASE table[a].used
  <2>1. table[b].used
    <3>1. From(b) > 0
      BY <1>5, <1>6, <1>7, <1>8, <1>9 DEF Inv, Owned
    <3> QED
      BY <1>5, <3>1 DEF Inv, Owned
  <2>2. Until(a) <= From(b) \/ Until(b) <= From(a)
    BY <1>5, <1>9, <2>1 DEF Inv, Apart, Used
  <2>3. From(a) < Until(a) /\ From(b) < Until(b)
    BY <1>5, <1>9, <2>1 DEF Inv, Owned
  <2> QED
    BY <1>1, <1>4, <1>6, <1>7, <2>1, <2>2, <2>3 DEF a, b
<1>10. CASE ~table[a].used
  <2>1. Until(a) = 0
    BY <1>5, <1>10 DEF Inv, Owned
  <2> QED
    BY <1>1, <1>4, <1>6, <1>10, <2>1 DEF a, b
<1> QED
  BY <1>9, <1>10

-----------------------------------------------------------------------------
(* What the search returns. *)

\* What is searched for: whole sectors, at least one, whose sum with any place
\* on the disk, or with the place the search begins at, does not wrap.
Wanted(from, size) ==
    /\ from \in Nat /\ SectorSize <= from
    /\ size \in Nat /\ size > 0 /\ size % SectorSize = 0
    /\ from + size < Word /\ DiskSize + size < Word

LEMMA Asked ==
    ASSUME Ordinary, NEW startArg \in StartArgs, NEW sizeArg \in SizeArgs
    PROVE  Wanted(SearchFrom(startArg), SizeFor(SearchFrom(startArg), sizeArg))
<1> DEFINE from == SearchFrom(startArg)
           over == sizeArg % SectorSize
<1>1. startArg \in Nat /\ sizeArg \in Nat /\ sizeArg > 0
  BY DiskAssumption DEF Ordinary
<1>2. /\ SectorSize \in Nat \ {0} /\ DiskSize \in Nat /\ DefaultStart \in Nat /\ Word \in Nat
  BY DiskAssumption
<1>3. from \in Nat /\ SectorSize <= from
  BY <1>1, <1>2 DEF SearchFrom, Later
<1>4. Later(from, DiskSize) + sizeArg + SectorSize < Word
  BY DEF Ordinary
<1> HIDE DEF from
<1>5. from + sizeArg + SectorSize < Word /\ DiskSize + sizeArg + SectorSize < Word
  BY <1>1, <1>2, <1>3, <1>4 DEF Later
<1>6. over \in 0 .. SectorSize - 1 /\ (sizeArg + SectorSize - over) % SectorSize = 0
  BY <1>1, RoundedUp
<1>7. SizeFor(from, sizeArg)
        = IF over = 0 THEN sizeArg ELSE (sizeArg + SectorSize - over) % Word
  BY <1>1 DEF SizeFor
<1> HIDE DEF over
<1>8. CASE over = 0
  <2>1. sizeArg % SectorSize = 0
    BY <1>8 DEF over
  <2> QED
    BY <1>1, <1>2, <1>3, <1>5, <1>7, <1>8, <2>1 DEF Wanted, from
<1>9. CASE over # 0
  <2> DEFINE up == sizeArg + SectorSize - over
  <2>1. up \in Nat /\ up > 0 /\ up <= sizeArg + SectorSize
    BY <1>1, <1>2, <1>6
  <2>2. up % SectorSize = 0
    BY <1>6
  <2>3. SizeFor(from, sizeArg) = up % Word
    BY <1>7, <1>9
  <2> HIDE DEF up
  <2>4. from + up < Word /\ DiskSize + up < Word /\ up < Word
    BY <1>1, <1>2, <1>3, <1>5, <2>1
  <2>5. SizeFor(from, sizeArg) = up
    BY <2>1, <2>3, <2>4, Unwrapped
  <2> QED
    BY <1>3, <2>1, <2>2, <2>4, <2>5 DEF Wanted, from
<1> QED
  BY <1>8, <1>9

\* A gap that fits either lies in front of where the search began, or has room
\* for the whole region behind its start.
LEMMA Gap ==
    ASSUME Inv, NEW order \in SortedOrders, NEW k \in 1 .. 3,
           NEW from, NEW size, Wanted(from, size)
    PROVE  LET start == Later(End(order[k]), from)
               next == Start(order[k + 1])
           IN  /\ start \in Nat /\ next \in Nat /\ next <= DiskSize
               /\ GapFits(order, k, from, size) =>
                    \/ next < from /\ start = from
                    \/ start + size <= next
               /\ start + size <= next => GapFits(order, k, from, size)
<1> DEFINE e == End(order[k])
           n == Start(order[k + 1])
           start == Later(e, from)
<1>1. order[k] \in Slots /\ order[k + 1] \in Slots
  BY DEF SortedOrders, Orders, Slots
<1>2. e \in Nat /\ n \in Nat /\ e <= DiskSize /\ n <= DiskSize
  <2>1. DiskSize \in Nat
    BY DiskAssumption
  <2> QED
    BY <1>1, <2>1, StartEnd
<1> HIDE DEF e, n
<1>3. /\ from \in Nat /\ size \in Nat /\ size > 0 /\ from < Word
      /\ DiskSize \in Nat /\ Word \in Nat /\ DiskSize < Word
  BY DiskAssumption DEF Wanted
<1>4. start \in Nat /\ from <= start /\ e <= start /\ start \in {e, from} /\ start < Word
  BY <1>2, <1>3 DEF Later
<1>5. GapFits(order, k, from, size) <=> n > e /\ Minus(n, start) >= size
  BY DEF GapFits, e, n
<1>6. ASSUME start <= n PROVE Minus(n, start) = n - start
  <2>1. n + Word - start = (n - start) + Word /\ n - start \in Nat /\ n - start < Word
    BY <1>2, <1>3, <1>4, <1>6
  <2>2. (n - start + Word) % Word = n - start
    BY <1>3, <2>1
  <2> QED
    BY <2>1, <2>2 DEF Minus
<1>7. ASSUME GapFits(order, k, from, size), ~(n < from /\ start = from)
      PROVE  start + size <= n
  <2>1. start <= n
    BY <1>2, <1>3, <1>4, <1>5, <1>7 DEF Later
  <2> HIDE DEF start
  <2> QED
    BY <1>2, <1>3, <1>4, <1>5, <1>6, <1>7, <2>1
<1>8. ASSUME start + size <= n PROVE GapFits(order, k, from, size)
  <2> HIDE DEF start
  <2>1. start <= n /\ n > e
    BY <1>2, <1>3, <1>4, <1>8
  <2>2. Minus(n, start) >= size
    BY <1>2, <1>3, <1>4, <1>6, <1>8, <2>1
  <2> QED
    BY <1>5, <2>1, <2>2
<1> QED
  BY <1>2, <1>4, <1>7, <1>8 DEF e, n

\* A creation works on an unused entry, which sorts first: the region in front
\* of the first one is empty, and what is found is the first gap that fits, or
\* the end of the last region.
LEMMA Search ==
    ASSUME Inv, NEW order \in SortedOrders, NEW i \in Slots, ~table[i].used,
           NEW from, NEW size, Wanted(from, size)
    PROVE  LET start == NextFreeRegion(order, from, size)
           IN  \/ \E k \in 1 .. 3 : /\ start = Later(End(order[k]), from)
                                    /\ GapFits(order, k, from, size)
               \/ /\ start = Later(End(order[4]), from)
                  /\ \A k \in 1 .. 3 : ~GapFits(order, k, from, size)
<1> DEFINE fitting == {k \in 1 .. 3 : GapFits(order, k, from, size)}
           gap == CHOOSE k \in fitting : \A j \in fitting : k <= j
<1>1. ~table[order[1]].used /\ order[1] \in Slots
  <2>1. PICK k \in Slots : order[k] = i
    BY OrderOnto
  <2>2. CASE k = 1
    BY <2>1, <2>2
  <2>3. CASE k > 1
    BY <2>1, <2>3, Sorted DEF Slots
  <2> QED
    BY <2>2, <2>3 DEF Slots
<1>2. Start(order[1]) = 0
  BY <1>1, StartEnd DEF Inv, Owned
<1>3. ~(Start(order[1]) > from)
  BY <1>2 DEF Wanted
<1>4. fitting # {} => gap \in fitting
  <2>1. fitting # {} => \E k \in fitting : \A j \in fitting : k <= j
    OBVIOUS
  <2> HIDE DEF fitting
  <2> QED
    BY <2>1
<1>5. NextFreeRegion(order, from, size)
        = IF fitting # {} THEN Later(End(order[gap]), from) ELSE Later(End(order[4]), from)
  BY <1>3 DEF NextFreeRegion
<1>6. CASE fitting # {}
  BY <1>4, <1>5, <1>6
<1>7. CASE fitting = {}
  BY <1>5, <1>7
<1> QED
  BY <1>6, <1>7

\* In the order of qsort, ends are sorted, too.
LEMMA EndsSorted ==
    ASSUME Inv, NEW order \in SortedOrders, NEW j \in Slots, NEW k \in Slots, j <= k,
           table[order[j]].used
    PROVE  End(order[j]) <= End(order[k])
<1>1. order[j] \in Slots /\ order[k] \in Slots
  BY DEF SortedOrders, Orders
<1>2. /\ End(order[j]) \in Nat /\ End(order[k]) \in Nat /\ Start(order[k]) \in Nat
      /\ Start(order[k]) <= End(order[k])
  BY <1>1, StartEnd
<1>3. CASE j < k
  <2>1. table[order[k]].used
    BY <1>3, Sorted
  <2>2. Start(order[k]) # 0
    BY <1>1, <2>1, StartEnd, DiskAssumption DEF Inv, Owned, SearchFrom, Later
  <2> QED
    BY <1>2, <1>3, <2>2, Sorted
<1>4. CASE j = k
  BY <1>2, <1>4
<1> QED
  BY <1>3, <1>4 DEF Slots

\* A region that is found, on the disk and aligned is behind the default start
\* and apart from every partition.
LEMMA FoundIsFree ==
    ASSUME Inv, NEW order \in SortedOrders, NEW i \in Slots, ~table[i].used,
           NEW from, NEW size, Wanted(from, size),
           from = SearchFrom(0) \/ from % SectorSize # 0,
           NextFreeRegion(order, from, size) % SectorSize = 0
    PROVE  LET start == NextFreeRegion(order, from, size)
           IN  /\ start \in Nat /\ start + size < Word
               /\ SearchFrom(0) <= start
               /\ \A j \in Used : Until(j) <= start \/ start + size <= From(j)
<1> DEFINE start == NextFreeRegion(order, from, size)
<1>1. /\ from \in Nat /\ from > 0 /\ size \in Nat
      /\ DiskSize + size < Word /\ from + size < Word /\ DiskSize \in Nat /\ Word \in Nat
  BY DiskAssumption DEF Wanted
<1>2. SearchFrom(0) \in Nat /\ SearchFrom(0) > 0
  BY DiskAssumption DEF SearchFrom, Later
<1>3. \A k \in Slots : /\ order[k] \in Slots
                       /\ End(order[k]) \in Nat /\ End(order[k]) <= DiskSize
                       /\ Start(order[k]) \in Nat /\ Start(order[k]) <= DiskSize
                       /\ End(order[k]) > 0 => SearchFrom(0) <= End(order[k])
                       /\ Start(order[k]) > 0 => SearchFrom(0) <= Start(order[k])
  <2> SUFFICES ASSUME NEW k \in Slots
               PROVE /\ order[k] \in Slots
                     /\ End(order[k]) \in Nat /\ End(order[k]) <= DiskSize
                     /\ Start(order[k]) \in Nat /\ Start(order[k]) <= DiskSize
                     /\ End(order[k]) > 0 => SearchFrom(0) <= End(order[k])
                     /\ Start(order[k]) > 0 => SearchFrom(0) <= Start(order[k])
    OBVIOUS
  <2>1. PICK a \in Slots : a = order[k]
    BY DEF SortedOrders, Orders
  <2>2. /\ Start(a) = From(a) /\ End(a) = Until(a) /\ From(a) \in Nat /\ Until(a) \in Nat
        /\ From(a) <= Until(a) /\ Until(a) <= DiskSize
    BY StartEnd
  <2>3. CASE table[a].used
    BY <1>1, <1>2, <2>1, <2>2, <2>3 DEF Inv, Owned
  <2>4. CASE ~table[a].used
    BY <1>1, <2>1, <2>2, <2>4 DEF Inv, Owned
  <2> QED
    BY <2>3, <2>4
<1>4. ASSUME NEW k \in Slots, start = Later(End(order[k]), from)
      PROVE  /\ start \in Nat /\ start + size < Word /\ SearchFrom(0) <= start
             /\ End(order[k]) <= start
             /\ start = from => from = SearchFrom(0)
  <2>1. start \in {from, End(order[k])} /\ End(order[k]) <= start /\ from <= start
    BY <1>1, <1>3, <1>4 DEF Later
  <2>2. start = from => from = SearchFrom(0)
    OBVIOUS
  <2> HIDE DEF start
  <2> QED
    BY <1>1, <1>2, <1>3, <2>1, <2>2
<1>5. ASSUME NEW j \in Used
      PROVE  \E m \in Slots : order[m] = j /\ From(j) = Start(order[m]) /\ Until(j) = End(order[m])
                              /\ table[order[m]].used /\ From(j) \in Nat /\ Until(j) \in Nat
  <2>1. j \in Slots /\ table[j].used
    BY DEF Used
  <2> QED
    BY <2>1, OrderOnto, StartEnd
<1>6. CASE \E k \in 1 .. 3 : start = Later(End(order[k]), from) /\ GapFits(order, k, from, size)
  <2>1. PICK k \in 1 .. 3 : start = Later(End(order[k]), from) /\ GapFits(order, k, from, size)
    BY <1>6
  <2>2. k \in Slots /\ k + 1 \in Slots
    BY DEF Slots
  <2>3. /\ start \in Nat /\ start + size < Word /\ SearchFrom(0) <= start
        /\ End(order[k]) <= start /\ (start = from => from = SearchFrom(0))
    BY <1>4, <2>1, <2>2
  <2>4. start + size <= Start(order[k + 1])
    <3>1. (Start(order[k + 1]) < from /\ start = from) \/ start + size <= Start(order[k + 1])
      BY <2>1, Gap
    <3>2. Start(order[k + 1]) > 0
      BY <1>3, <2>1, <2>2 DEF GapFits
    <3> HIDE DEF start
    <3> QED
      BY <1>1, <1>2, <1>3, <2>2, <2>3, <3>1, <3>2
  <2>5. ASSUME NEW j \in Used PROVE Until(j) <= start \/ start + size <= From(j)
    <3>1. PICK m \in Slots : order[m] = j /\ From(j) = Start(order[m]) /\ Until(j) = End(order[m])
                             /\ table[order[m]].used /\ From(j) \in Nat /\ Until(j) \in Nat
      BY <1>5
    <3> HIDE DEF start
    <3>2. CASE m <= k
      <4>1. End(order[m]) <= End(order[k])
        BY <2>2, <3>1, <3>2, EndsSorted
      <4> QED
        BY <1>3, <2>2, <2>3, <3>1, <4>1
    <3>3. CASE m = k + 1
      BY <2>4, <3>1, <3>3
    <3>4. CASE m > k + 1
      <4>1. Start(order[k + 1]) <= Start(order[m])
        BY <2>2, <3>4, Sorted
      <4> QED
        BY <1>1, <1>3, <2>2, <2>3, <2>4, <3>1, <4>1
    <3> QED
      BY <2>2, <3>2, <3>3, <3>4 DEF Slots
  <2> QED
    BY <2>3, <2>5
<1>7. CASE start = Later(End(order[4]), from)
  <2>1. 4 \in Slots
    BY DEF Slots
  <2>2. /\ start \in Nat /\ start + size < Word /\ SearchFrom(0) <= start
        /\ End(order[4]) <= start
    BY <1>4, <1>7, <2>1
  <2>3. ASSUME NEW j \in Used PROVE Until(j) <= start
    <3>1. PICK m \in Slots : order[m] = j /\ Until(j) = End(order[m])
                             /\ table[order[m]].used /\ Until(j) \in Nat
      BY <1>5
    <3>2. End(order[m]) <= End(order[4])
      BY <2>1, <3>1, EndsSorted DEF Slots
    <3> HIDE DEF start
    <3> QED
      BY <1>3, <2>1, <2>2, <3>1, <3>2
  <2> QED
    BY <2>2, <2>3
<1> QED
  BY <1>6, <1>7, Search

\* When what is found does not fit the disk, no region does: one that does lies
\* in front of the last partition, so in front of the one before, and so on down
\* to the first of four, but there is an unused entry.
LEMMA NotFoundIsFull ==
    ASSUME Inv, NEW order \in SortedOrders, NEW i \in Slots, ~table[i].used,
           NEW from, NEW size, Wanted(from, size),
           (NextFreeRegion(order, from, size) + size) % Word > DiskSize
    PROVE  ~Room(from, size)
<1> DEFINE start == NextFreeRegion(order, from, size)
<1> SUFFICES ASSUME Room(from, size) PROVE FALSE
  OBVIOUS
<1>1. /\ from \in Nat /\ from > 0 /\ size \in Nat /\ size > 0 /\ DiskSize \in Nat
      /\ DiskSize + size < Word /\ from + size < Word /\ Word \in Nat
  BY DiskAssumption DEF Wanted
<1>2. PICK s \in from .. DiskSize - size :
        \A j \in Used : (s .. s + size - 1) \cap Bytes(j) = {}
  BY DEF Room
<1>3. s \in Nat /\ from <= s /\ s + size <= DiskSize
  BY <1>1, <1>2
<1>4. \A k \in Slots : /\ order[k] \in Slots
                       /\ End(order[k]) \in Nat /\ End(order[k]) <= DiskSize
                       /\ Start(order[k]) \in Nat
                       /\ Start(order[k]) <= End(order[k])
                       /\ End(order[k]) # 0 => table[order[k]].used
  <2>1. order \in [Slots -> Slots]
    BY DEF SortedOrders, Orders
  <2> QED
    BY <2>1, StartEnd
<1>5. ASSUME NEW k \in Slots, s < End(order[k])
      PROVE  table[order[k]].used /\ s + size <= Start(order[k])
  <2>1. PICK a \in Slots : a = order[k]
    BY <1>4
  <2>2. /\ table[a].used /\ Start(a) = From(a) /\ End(a) = Until(a)
        /\ From(a) \in Nat /\ Until(a) \in Nat /\ From(a) < Until(a)
    BY <1>3, <1>4, <1>5, <2>1, StartEnd
  <2>3. (s .. s + size - 1) \cap (From(a) .. Until(a) - 1) = {}
    BY <1>2, <2>2 DEF Used, Bytes, From, Until
  <2>4. s + size <= From(a)
    <3>1. s < Until(a)
      BY <1>5, <2>1, <2>2
    <3>2. SUFFICES ASSUME ~(s + size <= From(a)) PROVE FALSE
      OBVIOUS
    <3> DEFINE x == IF s < From(a) THEN From(a) ELSE s
    <3>3. x \in s .. s + size - 1 /\ x \in From(a) .. Until(a) - 1
      BY <1>1, <1>3, <2>2, <3>1, <3>2
    <3> QED
      BY <2>3, <3>3
  <2> QED
    BY <2>1, <2>2, <2>4
<1>6. ASSUME NEW k \in Slots, start = Later(End(order[k]), from)
      PROVE  start \in Nat /\ start + size > DiskSize
  <2>1. start \in Nat /\ start + size \in Nat /\ start + size < Word
    BY <1>1, <1>4, <1>6 DEF Later
  <2>2. (start + size) % Word = start + size
    BY <2>1, Unwrapped
  <2> HIDE DEF start
  <2> QED
    BY <2>1, <2>2 DEF start
<1>7. ASSUME NEW k \in 1 .. 3, start = Later(End(order[k]), from),
             GapFits(order, k, from, size)
      PROVE  FALSE
  <2>1. k \in Slots
    BY DEF Slots
  <2>2. start \in Nat /\ start + size > DiskSize
    BY <1>6, <1>7, <2>1
  <2>3. /\ Start(order[k + 1]) \in Nat /\ Start(order[k + 1]) <= DiskSize
        /\ (Start(order[k + 1]) < from /\ start = from) \/ start + size <= Start(order[k + 1])
    BY <1>7, Gap
  <2> HIDE DEF start
  <2> QED
    BY <1>1, <1>3, <2>2, <2>3
<1>8. ASSUME NEW k \in 1 .. 3, ~GapFits(order, k, from, size), s + size <= Start(order[k + 1])
      PROVE  s + size <= Start(order[k])
  <2>1. k \in Slots /\ k + 1 \in Slots
    BY DEF Slots
  <2>2. Later(End(order[k]), from) + size > Start(order[k + 1])
    BY <1>8, <1>1, <1>4, <2>1, Gap
  <2>3. s < End(order[k])
    BY <1>1, <1>3, <1>4, <1>8, <2>1, <2>2 DEF Later
  <2> QED
    BY <1>5, <2>1, <2>3
<1>9. CASE start = Later(End(order[4]), from) /\ \A k \in 1 .. 3 : ~GapFits(order, k, from, size)
  <2>1. 4 \in Slots /\ 1 \in Slots
    BY DEF Slots
  <2>2. s < End(order[4])
    <3>1. start \in Nat /\ start + size > DiskSize /\ start \in {from, End(order[4])}
      BY <1>6, <1>9, <2>1 DEF Later
    <3> HIDE DEF start
    <3> QED
      BY <1>1, <1>3, <1>4, <2>1, <3>1
  <2>3. s + size <= Start(order[4])
    BY <1>5, <2>1, <2>2
  <2>4. s + size <= Start(order[3])
    BY <1>8, <1>9, <2>3
  <2>5. s + size <= Start(order[2])
    BY <1>8, <1>9, <2>4
  <2>6. s + size <= Start(order[1])
    BY <1>8, <1>9, <2>5
  <2>7. table[order[1]].used
    BY <1>1, <1>3, <1>4, <2>1, <2>6
  <2>8. PICK k \in Slots : order[k] = i
    BY OrderOnto
  <2>9. k # 1 => table[order[k]].used
    BY <2>1, <2>7, Sorted DEF Slots
  <2> QED
    BY <2>7, <2>8, <2>9
<1> QED
  BY <1>7, <1>9, Search

-----------------------------------------------------------------------------
(* The commands. *)

Entry == [used : BOOLEAN, bootable : BOOLEAN, first : 0 .. LbaWord - 1, size : 0 .. LbaWord - 1]

LEMMA EnteredType ==
    ASSUME NEW start \in Nat, NEW size \in Nat, NEW bootable \in BOOLEAN
    PROVE  Entered(start, size, bootable) \in Entry
<1>1. ASSUME NEW x \in Nat PROVE (x \div SectorSize) % LbaWord \in 0 .. LbaWord - 1
  <2>1. x \div SectorSize \in Nat
    BY DiskAssumption
  <2> QED
    BY <2>1, DiskAssumption
<1> QED
  BY <1>1 DEF Entered, Entry

LEMMA AskedType ==
    ASSUME TypeOK, NEW startArg \in StartArgs, NEW sizeArg \in SizeArgs
    PROVE  /\ SearchFrom(startArg) \in 0 .. Word - 1
           /\ SizeFor(SearchFrom(startArg), sizeArg) \in 0 .. Word - 1
<1> DEFINE from == SearchFrom(startArg)
<1>1. from \in 0 .. Word - 1
  BY DiskAssumption DEF SearchFrom, Later
<1>2. \A x \in Int : x % Word \in 0 .. Word - 1
  BY DiskAssumption
<1> HIDE DEF from
<1>3. \A i \in Slots : End(i) \in Int
  <2> SUFFICES ASSUME NEW i \in Slots PROVE End(i) \in Int
    OBVIOUS
  <2>1. /\ table[i].first * SectorSize \in Int /\ table[i].size * SectorSize \in Int
    <3>1. table[i] \in Entry
      BY DEF TypeOK, Entry
    <3>2. table[i].first \in Nat /\ table[i].size \in Nat
      BY <3>1 DEF Entry
    <3> QED
      BY <3>2, DiskAssumption
  <2>2. Start(i) \in Int
    BY <1>2, <2>1 DEF Start
  <2>3. Start(i) + table[i].size * SectorSize \in Int
    BY <2>1, <2>2
  <2> QED
    BY <1>2, <2>3 DEF End
<1>4. EndOfUsedRegion(from) \in Int
  <2> DEFINE ends == {End(i) : i \in Slots} \cup {from}
  <2>1. ends = {End(1), End(2), End(3), End(4), from}
    BY DEF Slots
  <2>2. \A e \in ends : e \in Int
    BY <1>1, <1>3
  <2>3. \E e \in ends : \A d \in ends : d <= e
    <3>1. \A a, b \in Int : \E m \in {a, b} : a <= m /\ b <= m
      OBVIOUS
    <3>2. /\ End(1) \in Int /\ End(2) \in Int /\ End(3) \in Int /\ End(4) \in Int
          /\ from \in Int
      BY <2>1, <2>2
    <3> HIDE DEF ends
    <3>3. PICK m \in {End(1), End(2)} : End(1) <= m /\ End(2) <= m
      BY <3>1, <3>2
    <3>4. PICK n \in {End(3), End(4)} : End(3) <= n /\ End(4) <= n
      BY <3>1, <3>2
    <3>5. PICK p \in {m, n} : m <= p /\ n <= p
      BY <3>1, <3>2, <3>3, <3>4
    <3>6. PICK q \in {p, from} : p <= q /\ from <= q
      BY <3>1, <3>2, <3>3, <3>4, <3>5
    <3>7. q \in ends /\ \A d \in ends : d <= q
      BY <2>1, <3>2, <3>3, <3>4, <3>5, <3>6
    <3> QED
      BY <3>7
  <2> HIDE DEF ends
  <2>4. (CHOOSE e \in ends : \A d \in ends : d <= e) \in ends
    BY <2>3
  <2> QED
    BY <2>2, <2>4 DEF EndOfUsedRegion, ends
<1>5. sizeArg \in 0 .. Word - 1 /\ DiskSize \in Int /\ Word \in Int /\ SectorSize \in Nat
  BY DiskAssumption
<1> DEFINE size == IF sizeArg = 0 THEN Minus(DiskSize, EndOfUsedRegion(from)) ELSE sizeArg
<1>6. size \in 0 .. Word - 1
  <2>1. DiskSize + Word - EndOfUsedRegion(from) \in Int
    BY <1>4, <1>5
  <2>2. Minus(DiskSize, EndOfUsedRegion(from)) \in 0 .. Word - 1
    BY <1>2, <2>1 DEF Minus
  <2> QED
    BY <1>5, <2>2
<1> DEFINE over == size % SectorSize
<1>7. SizeFor(from, sizeArg) = IF over = 0 THEN size ELSE (size + SectorSize - over) % Word
  BY DEF SizeFor
<1> HIDE DEF size
<1>8. over \in Int
  BY <1>6, DiskAssumption
<1> HIDE DEF over
<1>9. (size + SectorSize - over) % Word \in 0 .. Word - 1
  BY <1>2, <1>5, <1>6, <1>8
<1> QED
  BY <1>1, <1>6, <1>7, <1>9 DEF from

\* Wherever the search ends, it is a number.
LEMMA FoundType ==
    ASSUME TypeOK, NEW order \in SortedOrders, NEW from \in Nat, NEW size
    PROVE  NextFreeRegion(order, from, size) \in Nat
<1> DEFINE fitting == {k \in 1 .. 3 : GapFits(order, k, from, size)}
           gap == CHOOSE k \in fitting : \A j \in fitting : k <= j
<1>1. \A k \in Slots : Later(End(order[k]), from) \in Nat
  <2> SUFFICES ASSUME NEW k \in Slots PROVE Later(End(order[k]), from) \in Nat
    OBVIOUS
  <2>1. PICK i \in Slots : i = order[k]
    BY DEF SortedOrders, Orders
  <2>2. table[i].first \in Nat /\ table[i].size \in Nat
    <3>1. table[i] \in Entry
      BY DEF TypeOK, Entry
    <3> QED
      BY <3>1 DEF Entry
  <2>3. \A x \in Nat : x % Word \in Nat
    BY DiskAssumption
  <2>4. table[i].first * SectorSize \in Nat /\ table[i].size * SectorSize \in Nat
    BY <2>2, DiskAssumption
  <2>5. End(i) \in Nat
    BY <2>3, <2>4 DEF End, Start
  <2> QED
    BY <2>1, <2>5 DEF Later
<1>2. fitting # {} => gap \in Slots
  <2>1. fitting # {} => \E k \in fitting : \A j \in fitting : k <= j
    OBVIOUS
  <2>2. fitting \subseteq Slots
    BY DEF Slots
  <2> HIDE DEF fitting
  <2> QED
    BY <2>1, <2>2
<1>3. NextFreeRegion(order, from, size)
        \in {from, Later(End(order[4]), from)}
            \cup (IF fitting # {} THEN {Later(End(order[gap]), from)} ELSE {})
  BY DEF NextFreeRegion
<1> HIDE DEF fitting, gap
<1> QED
  BY <1>1, <1>2, <1>3 DEF Slots

LEMMA StepType == TypeOK /\ [Next]_vars => TypeOK'
<1> SUFFICES ASSUME TypeOK, [Next]_vars PROVE TypeOK'
  OBVIOUS
<1>a. table \in [Slots -> Entry]
  BY DEF TypeOK, Entry
<1>b. NoSearch \in [from : 0 .. Word - 1, size : 0 .. Word - 1]
  BY DiskAssumption DEF NoSearch
<1>1. ASSUME NEW i \in Slots, CreateExisting(i) \/ RemoveMissing(i) PROVE TypeOK'
  BY <1>1, <1>b DEF CreateExisting, RemoveMissing, TypeOK
<1>2. ASSUME NEW i \in Slots, NEW startArg \in StartArgs, NEW sizeArg \in SizeArgs,
             NEW bootable \in BOOLEAN, Create(i, startArg, sizeArg, bootable)
      PROVE  TypeOK'
  <2> DEFINE from == SearchFrom(startArg)
             size == SizeFor(from, sizeArg)
  <2>1. from \in 0 .. Word - 1 /\ size \in 0 .. Word - 1
    BY AskedType
  <2>2. PICK order \in SortedOrders :
          /\ asked' = [from |-> from, size |-> size]
          /\ \/ result' = "no space" /\ table' = table
             \/ result' = "failed" /\ table' = [table EXCEPT ![i].bootable = bootable]
             \/ /\ result' = "created"
                /\ table' = [table EXCEPT ![i] =
                               Entered(NextFreeRegion(order, from, size), size, bootable)]
    BY <1>2 DEF Create
  <2> HIDE DEF from, size
  <2>3. Entered(NextFreeRegion(order, from, size), size, bootable) \in Entry
    BY <2>1, FoundType, EnteredType
  <2>4. [table[i] EXCEPT !.bootable = bootable] \in Entry
    BY <1>a DEF Entry
  <2>5. table' \in [Slots -> Entry]
    BY <1>a, <2>2, <2>3, <2>4
  <2>6. asked' \in [from : 0 .. Word - 1, size : 0 .. Word - 1]
    BY <2>1, <2>2
  <2> QED
    BY <2>2, <2>5, <2>6 DEF TypeOK, Entry
<1>3. ASSUME NEW i \in Slots, Remove(i) PROVE TypeOK'
  <2>1. Unused \in Entry
    BY DiskAssumption DEF Unused, Entry
  <2>2. table' \in [Slots -> Entry]
    BY <1>3, <1>a, <2>1 DEF Remove
  <2> QED
    BY <1>3, <1>b, <2>2 DEF Remove, TypeOK, Entry
<1>4. CASE UNCHANGED vars
  BY <1>4 DEF vars, TypeOK
<1> QED
  BY <1>1, <1>2, <1>3, <1>4 DEF Next

LEMMA InitType == Init => TypeOK
  BY DiskAssumption DEF Init, TypeOK, Unused, NoSearch

\* The entries keep to their fields, whatever the arguments are.
THEOREM Typing == Spec => []TypeOK
  BY InitType, StepType, PTL DEF Spec

LEMMA InitInv == Init => Inv
<1> SUFFICES ASSUME Init PROVE Inv
  OBVIOUS
<1>1. \A i \in Slots : table[i] = Unused
  BY DEF Init
<1>2. \A i \in Slots : ~table[i].used /\ From(i) = 0 /\ Until(i) = 0
  BY <1>1, DiskAssumption DEF Unused, From, Until
<1> QED
  BY <1>2, InitType DEF Inv, Owned, Apart, Used

\* The region of the entry a creation makes, if it makes one, is the one that
\* was found; of the other entries only the boot flag of one can change.
LEMMA StepInv == Ordinary /\ Inv /\ [Next]_vars => Inv'
<1> SUFFICES ASSUME Ordinary, Inv, [Next]_vars PROVE Inv'
  OBVIOUS
<1>a. TypeOK' /\ table \in [Slots -> Entry] /\ table' \in [Slots -> Entry]
  BY StepType DEF Inv, TypeOK, Entry
<1>b. ASSUME \A j \in Slots : /\ table'[j].used = table[j].used
                              /\ table'[j].first = table[j].first
                              /\ table'[j].size = table[j].size
      PROVE  Inv'
  <2>1. \A j \in Slots : From(j)' = From(j) /\ Until(j)' = Until(j)
    BY <1>b DEF From, Until
  <2>2. Used' = Used
    BY <1>b DEF Used
  <2>3. Owned'
    BY <1>b, <2>1 DEF Inv, Owned
  <2>4. Apart'
    <3>1. \A j \in Used : j \in Slots
      BY DEF Used
    <3> QED
      BY <2>1, <2>2, <3>1 DEF Inv, Apart
  <2> QED
    BY <1>a, <2>3, <2>4 DEF Inv
<1>c. ASSUME NEW i \in Slots, \A j \in Slots \ {i} : table'[j] = table[j],
             IF table'[i].used
             THEN /\ SearchFrom(0) <= From(i)' /\ From(i)' < Until(i)' /\ Until(i)' <= DiskSize
                  /\ \A j \in Used \ {i} : Until(j) <= From(i)' \/ Until(i)' <= From(j)
             ELSE From(i)' = 0 /\ Until(i)' = 0
      PROVE  Inv'
  <2>1. \A j \in Slots \ {i} : From(j)' = From(j) /\ Until(j)' = Until(j)
                               /\ table'[j].used = table[j].used
    BY <1>c DEF From, Until
  <2>2. Owned'
    BY <1>c, <2>1 DEF Inv, Owned
  <2>3. \A j \in Used' : j \in Slots /\ (j # i => j \in Used)
    BY <2>1 DEF Used
  <2>4. Apart'
    <3> SUFFICES ASSUME NEW j \in Used', NEW k \in Used', j # k
                 PROVE  Until(j)' <= From(k)' \/ Until(k)' <= From(j)'
      BY DEF Apart
    <3>1. CASE j # i /\ k # i
      BY <2>1, <2>3, <3>1 DEF Inv, Apart
    <3>2. CASE j = i \/ k = i
      <4>1. table'[i].used
        BY <3>2 DEF Used
      <4> QED
        BY <1>c, <2>1, <2>3, <3>2, <4>1
    <3> QED
      BY <3>1, <3>2
  <2> QED
    BY <1>a, <2>2, <2>4 DEF Inv
<1>1. ASSUME NEW i \in Slots, CreateExisting(i) \/ RemoveMissing(i) PROVE Inv'
  BY <1>1, <1>b DEF CreateExisting, RemoveMissing
<1>2. ASSUME NEW i \in Slots, NEW startArg \in StartArgs, NEW sizeArg \in SizeArgs,
             NEW bootable \in BOOLEAN, Create(i, startArg, sizeArg, bootable)
      PROVE  Inv'
  <2> DEFINE from == SearchFrom(startArg)
             size == SizeFor(from, sizeArg)
  <2>1. Wanted(from, size)
    BY Asked
  <2>2. from = SearchFrom(0) \/ from % SectorSize # 0
    BY DEF Ordinary
  <2>3. ~table[i].used
    BY <1>2 DEF Create
  <2>4. PICK order \in SortedOrders :
          LET start == NextFreeRegion(order, from, size)
          IN  \/ table' = table
              \/ table' = [table EXCEPT ![i].bootable = bootable]
              \/ /\ (start + size) % Word <= DiskSize
                 /\ start % SectorSize = 0
                 /\ table' = [table EXCEPT ![i] = Entered(start, size, bootable)]
    BY <1>2 DEF Create
  <2> DEFINE start == NextFreeRegion(order, from, size)
  <2> HIDE DEF from, size
  <2>5. CASE table' = table \/ table' = [table EXCEPT ![i].bootable = bootable]
    <3>1. \A j \in Slots : /\ table'[j].used = table[j].used
                           /\ table'[j].first = table[j].first
                           /\ table'[j].size = table[j].size
      BY <2>5, <1>a DEF Entry
    <3> QED
      BY <1>b, <3>1
  <2>6. CASE /\ (start + size) % Word <= DiskSize
             /\ start % SectorSize = 0
             /\ table' = [table EXCEPT ![i] = Entered(start, size, bootable)]
    <3>1. /\ start \in Nat /\ start + size < Word /\ SearchFrom(0) <= start
          /\ \A j \in Used : Until(j) <= start \/ start + size <= From(j)
      BY <2>1, <2>2, <2>3, <2>6, FoundIsFree DEF Inv
    <3> HIDE DEF start
    <3>2. size \in Nat /\ size > 0 /\ size % SectorSize = 0 /\ DiskSize \in Nat
      BY <2>1, DiskAssumption DEF Wanted
    <3>3. start + size <= DiskSize
      <4>1. (start + size) % Word = start + size
        BY <3>1, <3>2, Unwrapped
      <4> QED
        BY <2>6, <4>1
    <3>4. start <= DiskSize /\ size <= DiskSize
      BY <3>1, <3>2, <3>3
    <3> DEFINE f == (start \div SectorSize) % LbaWord
               z == (size \div SectorSize) % LbaWord
    <3>5. /\ f \in Nat /\ f * SectorSize = start
          /\ z \in Nat /\ z * SectorSize = size
      <4>1. \A x \in 0 .. LbaWord - 1 : x \in Nat
        BY DiskAssumption
      <4> QED
        BY <2>6, <3>1, <3>2, <3>4, <4>1, FitsEntry
    <3>6. table'[i].used = TRUE /\ table'[i].first = f /\ table'[i].size = z
      BY <2>6, <1>a DEF Entered
    <3> HIDE DEF f, z
    <3>7. From(i)' = start /\ Until(i)' = start + size
      <4>1. (f + z) * SectorSize = f * SectorSize + z * SectorSize
        BY <3>5, DiskAssumption
      <4> QED
        BY <3>5, <3>6, <4>1 DEF From, Until
    <3>8. \A j \in Slots \ {i} : table'[j] = table[j]
      BY <2>6, <1>a
    <3>9. start < start + size
      BY <3>1, <3>2
    <3> QED
      BY <1>c, <3>1, <3>3, <3>6, <3>7, <3>8, <3>9
  <2> QED
    BY <2>4, <2>5, <2>6
<1>3. ASSUME NEW i \in Slots, Remove(i) PROVE Inv'
  <2>1. table'[i] = Unused /\ \A j \in Slots \ {i} : table'[j] = table[j]
    BY <1>3, <1>a DEF Remove
  <2>2. ~table'[i].used /\ From(i)' = 0 /\ Until(i)' = 0
    BY <2>1, DiskAssumption DEF Unused, From, Until
  <2> QED
    BY <1>c, <2>1, <2>2
<1>4. CASE UNCHANGED vars
  BY <1>4, <1>b DEF vars
<1> QED
  BY <1>1, <1>2, <1>3, <1>4 DEF Next

\* mbr.c:103-136, main.c:300-341: with ordinary arguments, a partition that is
\* created has no byte in common with another and lies on the disk.
THEOREM Regions == ASSUME Ordinary PROVE Spec => []RegionsOwned
<1>1. Inv => RegionsOwned
  <2> SUFFICES ASSUME Inv PROVE RegionsOwned
    OBVIOUS
  <2>1. \A i \in Slots : From(i) \in Nat /\ Until(i) \in Nat /\ DiskSize \in Nat
                         /\ Bytes(i) = From(i) .. Until(i) - 1
    BY StartEnd, DiskAssumption DEF Bytes, From, Until
  <2>2. SectorSize <= SearchFrom(0) /\ SectorSize \in Nat /\ SearchFrom(0) \in Nat
    BY DiskAssumption DEF SearchFrom, Later
  <2>3. PartitionsOnDisk
    BY <2>1, <2>2 DEF PartitionsOnDisk, Used, Inv, Owned
  <2>4. PartitionsDisjoint
    <3> SUFFICES ASSUME NEW i \in Used, NEW j \in Used, i # j
                 PROVE  Bytes(i) \cap Bytes(j) = {}
      BY DEF PartitionsDisjoint
    <3>1. Until(i) <= From(j) \/ Until(j) <= From(i)
      BY DEF Inv, Apart
    <3> QED
      BY <2>1, <3>1 DEF Used
  <2> QED
    BY <2>3, <2>4 DEF RegionsOwned
<1>2. Inv /\ [Next]_vars => Inv'
  BY StepInv
<1> QED
  BY InitInv, <1>1, <1>2, PTL DEF Spec

\* main.c:319-328: with ordinary arguments, a creation says that there is not
\* enough space only when no region of the size it looks for is free.
THEOREM Refusals == ASSUME Ordinary PROVE Spec => RefusesOnlyWhenFull
<1>1. Inv /\ [Next]_vars => Inv'
  BY StepInv
<1>2. Inv /\ [Next]_vars => [result' = "no space" => ~Room(asked'.from, asked'.size)]_vars
  <2> SUFFICES ASSUME Inv, Next, result' = "no space"
               PROVE  ~Room(asked'.from, asked'.size)
    OBVIOUS
  <2>1. PICK i \in Slots, startArg \in StartArgs, sizeArg \in SizeArgs, bootable \in BOOLEAN :
          Create(i, startArg, sizeArg, bootable)
    BY DEF Next, CreateExisting, Remove, RemoveMissing
  <2> DEFINE from == SearchFrom(startArg)
             size == SizeFor(from, sizeArg)
  <2>2. PICK order \in SortedOrders :
          /\ asked' = [from |-> from, size |-> size]
          /\ (NextFreeRegion(order, from, size) + size) % Word > DiskSize
    BY <2>1 DEF Create
  <2>3. Wanted(from, size) /\ ~table[i].used
    BY <2>1, Asked DEF Create
  <2> HIDE DEF from, size
  <2>4. ~Room(from, size)
    BY <2>2, <2>3, NotFoundIsFull
  <2> QED
    BY <2>2, <2>4
<1> QED
  BY InitInv, <1>1, <1>2, PTL DEF Spec, RefusesOnlyWhenFull
=============================================================================

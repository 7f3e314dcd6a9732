-------------------------- MODULE FatBuffer_proofs --------------------------
(***************************************************************************)
(* The window over the FAT implements the table of FatTable, the copies of  *)
(* the FAT are written whole and only at the end, and a failing access does *)
(* no damage outside its window: for every volume geometry and every size   *)
(* of the window.                                                          *)
(***************************************************************************)
EXTENDS FatBufferFaults, TLAPS

-----------------------------------------------------------------------------
(* Where an entry lies. *)

\* The nibbles of an entry are inside the bytes Offset(c)..LastByte(c), which
\* are inside the first FAT and fit in one window.
LEMMA EntryPlace ==
    ASSUME NEW c \in Cluster
    PROVE  /\ Stride * c \in Nat
           /\ Offset(c) \in Nat
           /\ LastByte(c) \in Nat
           /\ 2 * Offset(c) <= Stride * c
           /\ Stride * c + EntryNibbles <= 2 * LastByte(c) + 2
           /\ LastByte(c) < FatBytes
           /\ LastByte(c) < Offset(c) + BufferSize
           /\ Offset(c) <= LastByte(c)
<1> c \in Nat /\ c + 1 <= N
  BY GeometryAssumption DEF Cluster
<1>1. CASE Stride = 3
  BY <1>1, GeometryAssumption DEF Offset, LastByte, EntryNibbles
<1>2. CASE Stride = 4
  BY <1>2, GeometryAssumption DEF Offset, LastByte, EntryNibbles
<1>3. CASE Stride = 8
  BY <1>3, GeometryAssumption DEF Offset, LastByte, EntryNibbles
<1> QED
  BY <1>1, <1>2, <1>3, StrideAssumption

\* The entries of two clusters share no nibble.
LEMMA EntriesDisjoint ==
    ASSUME NEW c \in Cluster, NEW d \in Cluster, c # d,
           NEW i \in 0 .. EntryNibbles - 1, NEW j \in 0 .. EntryNibbles - 1
    PROVE  Stride * c + i # Stride * d + j
<1> c \in Nat /\ d \in Nat
  BY GeometryAssumption DEF Cluster
<1>1. CASE Stride = 3
  BY <1>1 DEF EntryNibbles
<1>2. CASE Stride = 4
  BY <1>2 DEF EntryNibbles
<1>3. CASE Stride = 8
  BY <1>3 DEF EntryNibbles
<1> QED
  BY <1>1, <1>2, <1>3, StrideAssumption

LEMMA EntryNibblesNat == EntryNibbles \in Nat \ {0} /\ EntryNibbles <= Stride
  BY StrideAssumption DEF EntryNibbles

\* Every place of the first FAT, and of a window inside the FATs, is a place
\* of the image in front of Other.
LEMMA Regions ==
    /\ 4 * FatBytes <= 2 * NumFats * FatBytes
    /\ 2 * NumFats * FatBytes <= 2 * ImageBytes
    /\ NumFats * FatBytes \in Nat
  BY GeometryAssumption

-----------------------------------------------------------------------------
(* The invariant. *)

\* Outside a read-write session the window holds what the disk holds, as far
\* as the first FAT goes; a window larger than a FAT never moves.
Coherent ==
    /\ mode = "ro" => View = disk
    /\ mode \in {"closed", "copying"} =>
         /\ \A n \in 0 .. 2 * FatBytes - 1 : View[n] = disk[n]
         /\ ret = NoResult
    /\ BufferSize > FatBytes => start = 0

Inv == TypeOK /\ Coherent

-----------------------------------------------------------------------------
(* What bringing an entry into the window does. *)

\* Where the window ends, whatever its start.
LEMMA WindowPlaces ==
    ASSUME NEW s \in Nat, s + BufferSize <= 2 * FatBytes,
           NEW k \in 0 .. 2 * BufferSize - 1
    PROVE  2 * s + k \in Places
  BY Regions, GeometryAssumption DEF Places

LEMMA LoadType ==
    ASSUME NEW s \in Nat, s + BufferSize <= 2 * FatBytes,
           NEW image \in [Places -> Nibble]
    PROVE  Load(image, s) \in [0 .. 2 * BufferSize - 1 -> Nibble]
  BY WindowPlaces DEF Load

LEMMA ViewType ==
    ASSUME TypeOK
    PROVE  View \in [Places -> Nibble]
<1> SUFFICES ASSUME NEW n \in Places
             PROVE  (IF InWindow(n) THEN buffer[n - 2 * start] ELSE disk[n]) \in Nibble
  BY DEF View
<1>1. ASSUME InWindow(n) PROVE n - 2 * start \in 0 .. 2 * BufferSize - 1
  BY <1>1, GeometryAssumption DEF InWindow, TypeOK, Places
<1> QED
  BY <1>1 DEF TypeOK

\* The state an access works in: a disk, a start and a window that show the
\* same image as before, and hold the entry.
LEMMA AccessEntry ==
    ASSUME Inv, mode \in {"rw", "ro"}, NEW c \in Cluster
    PROVE  /\ DiskFor(c) \in [Places -> Nibble]
           /\ DiskFor(c) \in {disk, View}
           /\ mode = "ro" => DiskFor(c) = disk
           /\ StartFor(c) \in Nat
           /\ StartFor(c) + BufferSize <= 2 * FatBytes
           /\ BufferSize > FatBytes => StartFor(c) = 0
           /\ BufferFor(c) \in [0 .. 2 * BufferSize - 1 -> Nibble]
           /\ 2 * StartFor(c) <= Stride * c
           /\ Stride * c + EntryNibbles <= 2 * (StartFor(c) + BufferSize)
           /\ \A n \in Places :
                 View[n] = IF 2 * StartFor(c) <= n /\ n < 2 * (StartFor(c) + BufferSize)
                           THEN BufferFor(c)[n - 2 * StartFor(c)] ELSE DiskFor(c)[n]
<1> DEFINE p == Offset(c)
<1>1. /\ p \in Nat /\ LastByte(c) \in Nat /\ LastByte(c) < FatBytes
      /\ LastByte(c) < p + BufferSize /\ p <= LastByte(c)
      /\ 2 * p <= Stride * c /\ Stride * c + EntryNibbles <= 2 * LastByte(c) + 2
      /\ Stride * c \in Nat /\ EntryNibbles \in Nat
  BY EntryPlace, EntryNibblesNat
<1>2. CASE ~Miss(c)
  <2>1. DiskFor(c) = disk /\ StartFor(c) = start /\ BufferFor(c) = buffer
    BY <1>2 DEF DiskFor, StartFor, BufferFor
  <2>2. 2 * start <= Stride * c /\ Stride * c + EntryNibbles <= 2 * (start + BufferSize)
    <3>1. start \in Nat /\ BufferSize \in Nat
      BY GeometryAssumption DEF Inv, TypeOK
    <3>2. start <= p /\ LastByte(c) < start + BufferSize
      BY <1>1, <1>2, <3>1 DEF Miss
    <3> HIDE DEF p
    <3> QED
      BY <1>1, <3>1, <3>2
  <2>3. \A n \in Places :
          View[n] = IF 2 * start <= n /\ n < 2 * (start + BufferSize)
                    THEN buffer[n - 2 * start] ELSE disk[n]
    BY DEF View, InWindow
  <2> QED
    BY <2>1, <2>2, <2>3 DEF Inv, TypeOK, Coherent
<1>3. CASE Miss(c)
  <2>1. /\ DiskFor(c) = View
        /\ StartFor(c) = p
        /\ BufferFor(c) = Load(View, p)
    <3>1. Flushed = View
      BY DEF Flushed, Inv, Coherent
    <3> QED
      BY <3>1, <1>3 DEF DiskFor, StartFor, BufferFor
  <2>2. ~(BufferSize > FatBytes)
    BY <1>1, <1>3, GeometryAssumption DEF Miss, Inv, Coherent
  <2>3. p + BufferSize <= 2 * FatBytes
    BY <1>1, <2>2, GeometryAssumption
  <2>4. View \in [Places -> Nibble]
    BY ViewType DEF Inv
  <2>5. Load(View, p) \in [0 .. 2 * BufferSize - 1 -> Nibble]
    BY <1>1, <2>3, <2>4, LoadType
  <2>6. ASSUME NEW n \in Places, 2 * p <= n, n < 2 * (p + BufferSize)
        PROVE  Load(View, p)[n - 2 * p] = View[n]
    <3>1. n - 2 * p \in 0 .. 2 * BufferSize - 1
      BY <1>1, <2>6, GeometryAssumption DEF Places
    <3>2. 2 * p + (n - 2 * p) = n
      BY <1>1 DEF Places
    <3> QED
      BY <3>1, <3>2 DEF Load
  <2>7. Stride * c + EntryNibbles <= 2 * (p + BufferSize)
    BY <1>1, GeometryAssumption
  <2>8. mode = "ro" => View = disk
    BY DEF Inv, Coherent
  <2> QED
    BY <1>1, <2>1, <2>2, <2>3, <2>4, <2>5, <2>6, <2>7, <2>8
<1> QED
  BY <1>2, <1>3

\* A read changes nothing that can be seen, and returns the entry.
LEMMA ReadSees ==
    ASSUME Inv, NEW c \in Cluster, Read(c)
    PROVE  /\ View' = View
           /\ disk' \in {disk, View}
           /\ ret' = Entry(View, c)
<1> USE DEF Read
<1>1. \A n \in Places : View'[n] = View[n]
  BY AccessEntry DEF View, InWindow
<1>2. View' = View
  BY <1>1 DEF View
<1>3. ret' = Entry(View, c)
  <2>1. ASSUME NEW i \in 0 .. EntryNibbles - 1
        PROVE  BufferFor(c)[Stride * c + i - 2 * StartFor(c)] = View[Stride * c + i]
    <3>1. /\ Stride * c \in Nat /\ StartFor(c) \in Nat /\ EntryNibbles \in Nat
          /\ 2 * StartFor(c) <= Stride * c
          /\ Stride * c + EntryNibbles <= 2 * (StartFor(c) + BufferSize)
          /\ StartFor(c) + BufferSize <= 2 * FatBytes
      BY AccessEntry, EntryPlace, EntryNibblesNat
    <3>2. /\ Stride * c + i \in Places
          /\ 2 * StartFor(c) <= Stride * c + i
          /\ Stride * c + i < 2 * (StartFor(c) + BufferSize)
      <4> HIDE DEF Read
      <4> DEFINE e == Stride * c
      <4>1. e \in Nat /\ 2 * StartFor(c) <= e /\ e + EntryNibbles <= 2 * (StartFor(c) + BufferSize)
        BY <3>1
      <4> HIDE DEF e
      <4>2. /\ e + i \in Places /\ 2 * StartFor(c) <= e + i
            /\ e + i < 2 * (StartFor(c) + BufferSize)
        BY <3>1, <4>1, Regions, GeometryAssumption DEF Places
      <4> QED
        BY <4>2 DEF e
    <3>3. \A n \in Places :
            (2 * StartFor(c) <= n /\ n < 2 * (StartFor(c) + BufferSize)) =>
               View[n] = BufferFor(c)[n - 2 * StartFor(c)]
      BY AccessEntry
    <3> DEFINE n == Stride * c + i
    <3>4. n \in Places /\ 2 * StartFor(c) <= n /\ n < 2 * (StartFor(c) + BufferSize)
      BY <3>2
    <3> HIDE DEF n, Read
    <3>5. View[n] = BufferFor(c)[n - 2 * StartFor(c)]
      BY <3>3, <3>4
    <3>6. n - 2 * StartFor(c) = Stride * c + i - 2 * StartFor(c)
      BY <3>1 DEF n
    <3> QED
      BY <3>5, <3>6 DEF n
  <2> QED
    BY <2>1 DEF Entry
<1> QED
  BY <1>2, <1>3, AccessEntry

\* A write changes the nibbles of its entry and no other.
LEMMA WriteSees ==
    ASSUME Inv, NEW c \in Cluster, NEW v \in Written, Write(c, v)
    PROVE  /\ disk' \in {disk, View}
           /\ \A n \in Places :
                View'[n] = IF n - Stride * c \in 0 .. EntryNibbles - 1
                           THEN v[n - Stride * c] ELSE View[n]
<1> USE DEF Write, Patched
<1>1. /\ Stride * c \in Nat /\ StartFor(c) \in Nat /\ EntryNibbles \in Nat
      /\ 2 * StartFor(c) <= Stride * c
      /\ Stride * c + EntryNibbles <= 2 * (StartFor(c) + BufferSize)
      /\ BufferSize \in Nat
  BY AccessEntry, EntryPlace, EntryNibblesNat, GeometryAssumption
<1>2. ASSUME NEW n \in Places
      PROVE  View'[n] = IF n - Stride * c \in 0 .. EntryNibbles - 1
                        THEN v[n - Stride * c] ELSE View[n]
  <2> DEFINE e == Stride * c
             s == StartFor(c)
  <2>1. n \in Nat
    BY DEF Places
  <2>2. CASE 2 * s <= n /\ n < 2 * (s + BufferSize)
    <3>1. View'[n] = buffer'[n - 2 * s]
      BY <2>2 DEF View, InWindow
    <3>2. n - 2 * s \in 0 .. 2 * BufferSize - 1
      BY <1>1, <2>1, <2>2
    <3>3. n - 2 * s + 2 * s - e = n - e
      BY <1>1, <2>1
    <3>4. buffer'[n - 2 * s] = IF n - e \in 0 .. EntryNibbles - 1
                               THEN v[n - e] ELSE BufferFor(c)[n - 2 * s]
      BY <3>2, <3>3
    <3>5. View[n] = BufferFor(c)[n - 2 * s]
      BY <2>2, AccessEntry
    <3> QED
      BY <3>1, <3>4, <3>5
  <2>3. CASE ~(2 * s <= n /\ n < 2 * (s + BufferSize))
    <3>1. View'[n] = DiskFor(c)[n]
      BY <2>3 DEF View, InWindow
    <3>2. View[n] = DiskFor(c)[n]
      BY <2>3, AccessEntry
    <3>3. ~(n - e \in 0 .. EntryNibbles - 1)
      <4>1. /\ e \in Nat /\ s \in Nat /\ EntryNibbles \in Nat /\ BufferSize \in Nat
            /\ 2 * s <= e /\ e + EntryNibbles <= 2 * (s + BufferSize)
        BY <1>1
      <4> HIDE DEF e, s
      <4> QED
        BY <2>1, <2>3, <4>1
    <3> QED
      BY <3>1, <3>2, <3>3
  <2> QED
    BY <2>2, <2>3
<1> QED
  BY <1>2, AccessEntry

-----------------------------------------------------------------------------
(* The invariant is inductive. *)

\* With the first window loaded, what is seen is what is on the disk.
LEMMA FirstWindowSees ==
    ASSUME disk' \in [Places -> Nibble], FirstWindow
    PROVE  /\ View' = disk'
           /\ start' = 0
           /\ buffer' \in [0 .. 2 * BufferSize - 1 -> Nibble]
<1>1. start' = 0 /\ buffer' = Load(disk', 0)
  BY DEF FirstWindow
<1>2. ASSUME NEW n \in Places, InWindow(n)'
      PROVE  buffer'[n - 2 * start'] = disk'[n]
  <2>1. n \in 0 .. 2 * BufferSize - 1 /\ n - 2 * start' = n /\ 2 * 0 + n = n
    BY <1>1, <1>2, GeometryAssumption DEF InWindow, Places
  <2> QED
    BY <1>1, <2>1 DEF Load
<1>3. \A n \in Places : View'[n] = disk'[n]
  BY <1>2 DEF View
<1>4. View' = disk'
  BY <1>3 DEF View
<1>5. Load(disk', 0) \in [0 .. 2 * BufferSize - 1 -> Nibble]
  BY LoadType, GeometryAssumption
<1> QED
  BY <1>1, <1>4, <1>5

LEMMA InitInv == Init => Inv
<1> SUFFICES ASSUME Init PROVE Inv
  OBVIOUS
<1>1. disk \in [Places -> Nibble] /\ buffer = Load(disk, 0) /\ start = 0
  BY ValueAssumption DEF Init
<1>2. Load(disk, 0) \in [0 .. 2 * BufferSize - 1 -> Nibble]
  BY <1>1, LoadType, GeometryAssumption
<1>3. [dst |-> 1, done |-> 0] \in [dst : 1 .. NumFats, done : 0 .. FatBytes]
  BY GeometryAssumption
<1>4. TypeOK
  BY <1>1, <1>2, <1>3, GeometryAssumption DEF Init, TypeOK
<1>5. ASSUME NEW n \in 0 .. 2 * FatBytes - 1 PROVE View[n] = disk[n]
  <2>1. n \in Places
    BY Regions, GeometryAssumption DEF Places
  <2>2. InWindow(n) => n - 2 * start \in 0 .. 2 * BufferSize - 1 /\ 2 * 0 + (n - 2 * start) = n
    BY <1>1, GeometryAssumption DEF InWindow
  <2> QED
    BY <1>1, <2>1, <2>2 DEF View, Load
<1> QED
  BY <1>1, <1>4, <1>5 DEF Init, Inv, Coherent

\* The places one chunk of a copy is written to are behind the first FAT and
\* in front of Other.
LEMMA ChunkPlaces ==
    ASSUME TypeOK, copying.dst < NumFats, copying.done < FatBytes
    PROVE  /\ ToCopy \in Nat /\ copying.done + ToCopy <= FatBytes
           /\ 2 * FatBytes * copying.dst \in Nat
           /\ 2 * FatBytes <= 2 * FatBytes * copying.dst
           /\ 2 * FatBytes * copying.dst + 2 * FatBytes <= 2 * NumFats * FatBytes
<1> DEFINE d == copying.dst
<1>1. d \in Nat /\ d >= 1 /\ d < NumFats /\ copying.done \in 0 .. FatBytes
      /\ FatBytes \in Nat /\ NumFats \in Nat /\ ChunkSize \in Nat
  BY GeometryAssumption DEF TypeOK
<1> HIDE DEF d
<1>2. FatBytes * d \in Nat /\ FatBytes <= FatBytes * d
  BY <1>1
<1>3. FatBytes * d + FatBytes <= NumFats * FatBytes
  <2>1. FatBytes * (d + 1) <= FatBytes * NumFats
    BY <1>1
  <2> QED
    BY <1>1, <2>1
<1>4. ToCopy \in Nat /\ copying.done + ToCopy <= FatBytes
  BY <1>1 DEF ToCopy
<1> QED
  BY <1>1, <1>2, <1>3, <1>4 DEF d

\* One chunk leaves the first FAT and everything behind the FATs alone.
LEMMA ChunkSees ==
    ASSUME Inv, CopyChunk
    PROVE  /\ disk' \in [Places -> Nibble]
           /\ \A n \in 0 .. 2 * FatBytes - 1 : disk'[n] = disk[n] /\ View'[n] = View[n]
           /\ \A n \in Other : disk'[n] = disk[n]
<1> DEFINE from == 2 * copying.done
           base == 2 * FatBytes * copying.dst
           to == base + from
<1>1. /\ ToCopy \in Nat /\ copying.done + ToCopy <= FatBytes
      /\ base \in Nat /\ 2 * FatBytes <= base
      /\ base + 2 * FatBytes <= 2 * NumFats * FatBytes
      /\ from \in Nat /\ copying.done \in Nat /\ copying.dst \in Nat
  <2>1. TypeOK /\ copying.dst < NumFats /\ copying.done < FatBytes
    BY DEF CopyChunk, Inv
  <2>2. copying.dst \in Nat /\ copying.done \in Nat
    BY <2>1, GeometryAssumption DEF TypeOK
  <2>3. from \in Nat
    BY <2>2
  <2> HIDE DEF from
  <2> QED
    BY <2>1, <2>2, <2>3, ChunkPlaces
<1>2. disk' = [n \in Places |-> IF to <= n /\ n < to + 2 * ToCopy
                               THEN disk[n - to + from] ELSE disk[n]]
  BY DEF CopyChunk, CopyFrom, CopyTo
<1> HIDE DEF base
<1>3. ASSUME NEW n \in Places, to <= n, n < to + 2 * ToCopy
      PROVE  n - to + from \in Places /\ n >= 2 * FatBytes /\ n < 2 * NumFats * FatBytes
  BY <1>1, <1>3, Regions, GeometryAssumption DEF Places
<1>4. disk' \in [Places -> Nibble]
  BY <1>2, <1>3 DEF Inv, TypeOK
<1>5. \A n \in 0 .. 2 * FatBytes - 1 : n \in Places
  BY Regions, GeometryAssumption DEF Places
<1>6. \A n \in 0 .. 2 * FatBytes - 1 : disk'[n] = disk[n]
  BY <1>2, <1>3, <1>5, GeometryAssumption
<1>7. \A n \in 0 .. 2 * FatBytes - 1 : View'[n] = View[n]
  BY <1>5, <1>6 DEF View, InWindow, CopyChunk
<1>8. \A n \in Other : n \in Places /\ n >= 2 * NumFats * FatBytes
  BY Regions, GeometryAssumption DEF Other, Places
<1>9. \A n \in Other : disk'[n] = disk[n]
  <2> SUFFICES ASSUME NEW n \in Other PROVE disk'[n] = disk[n]
    OBVIOUS
  <2> DEFINE behind == 2 * NumFats * FatBytes
  <2>1. n \in Places /\ n >= behind /\ n \in Nat
    BY <1>8 DEF Places
  <2>2. behind \in Nat
    BY GeometryAssumption
  <2> HIDE DEF behind
  <2>3. ~(n < behind)
    BY <2>1, <2>2
  <2>4. ~(to <= n /\ n < to + 2 * ToCopy)
    BY <1>3, <2>1, <2>3 DEF behind
  <2> QED
    BY <1>2, <2>1, <2>4
<1> QED
  BY <1>4, <1>6, <1>7, <1>9

LEMMA StepInv == Inv /\ [Next]_vars => Inv'
<1> SUFFICES ASSUME Inv, [Next]_vars PROVE Inv'
  OBVIOUS
<1> USE DEF Inv
<1>1. ASSUME NEW m \in {"rw", "ro"}, Open(m) PROVE Inv'
  <2>1. disk' \in [Places -> Nibble] /\ FirstWindow
    BY <1>1 DEF Open, TypeOK
  <2>2. View' = disk' /\ start' = 0 /\ buffer' \in [0 .. 2 * BufferSize - 1 -> Nibble]
    BY <2>1, FirstWindowSees
  <2> QED
    BY <1>1, <2>1, <2>2, GeometryAssumption DEF Open, TypeOK, Coherent
<1>2. ASSUME NEW c \in Cluster, Read(c) PROVE Inv'
  <2>1. View' = View /\ disk' \in {disk, View} /\ ret' = Entry(View, c)
    BY <1>2, ReadSees
  <2>2. mode \in {"rw", "ro"} /\ mode' = mode /\ copying' = copying
        /\ disk' = DiskFor(c) /\ start' = StartFor(c) /\ buffer' = BufferFor(c)
    BY <1>2 DEF Read
  <2>3. Entry(View, c) \in Value
    <3>1. \A i \in 0 .. EntryNibbles - 1 : Stride * c + i \in Places
      <4> DEFINE e == Stride * c
      <4>1. e \in Nat /\ EntryNibbles \in Nat /\ LastByte(c) \in Nat
            /\ e + EntryNibbles <= 2 * LastByte(c) + 2 /\ LastByte(c) < FatBytes
        BY EntryPlace, EntryNibblesNat
      <4> HIDE DEF e
      <4>2. \A i \in 0 .. EntryNibbles - 1 : e + i \in Places
        BY <4>1, Regions, GeometryAssumption DEF Places
      <4> QED
        BY <4>2 DEF e
    <3> QED
      BY <3>1, ViewType DEF Entry, Value
  <2>4. TypeOK'
    BY <2>1, <2>2, <2>3, AccessEntry DEF TypeOK
  <2>5. Coherent'
    BY <2>1, <2>2, AccessEntry DEF Coherent
  <2> QED
    BY <2>4, <2>5
<1>3. ASSUME NEW c \in Cluster, NEW v \in Written, Write(c, v) PROVE Inv'
  <2>1. mode = "rw" /\ mode' = mode /\ copying' = copying /\ ret' = Done
        /\ disk' = DiskFor(c) /\ start' = StartFor(c)
    BY <1>3 DEF Write
  <2>2. buffer' \in [0 .. 2 * BufferSize - 1 -> Nibble]
    <3>1. v \in [0 .. EntryNibbles - 1 -> Nibble]
      BY ValueAssumption DEF Value
    <3>2. BufferFor(c) \in [0 .. 2 * BufferSize - 1 -> Nibble]
      BY <2>1, AccessEntry
    <3>3. ASSUME NEW k \in 0 .. 2 * BufferSize - 1
          PROVE  (LET i == k + 2 * StartFor(c) - Stride * c
                  IN  IF i \in 0 .. EntryNibbles - 1
                      THEN v[i] ELSE BufferFor(c)[k]) \in Nibble
      BY <3>1, <3>2
    <3> QED
      BY <1>3, <3>3 DEF Write, Patched
  <2>3. TypeOK'
    BY <2>1, <2>2, AccessEntry DEF TypeOK
  <2>4. Coherent'
    BY <2>1, AccessEntry DEF Coherent
  <2> QED
    BY <2>3, <2>4
<1>4. CASE ReadBeyondLast \/ WriteRefused
  <2>1. UNCHANGED <<disk, buffer, start, mode, copying>> /\ ret' \in {BadRead, Refused}
        /\ mode \in {"rw", "ro"}
    BY <1>4 DEF ReadBeyondLast, WriteRefused
  <2>2. View' = View
    BY <2>1 DEF View, InWindow
  <2> QED
    BY <2>1, <2>2 DEF TypeOK, Coherent
<1>5. ASSUME NEW n \in Other, NEW x \in Nibble, WriteOther(n, x) PROVE Inv'
  BY <1>5 DEF WriteOther, TypeOK, Coherent
<1>6. CASE CloseFlush
  <2>1. disk' = View /\ UNCHANGED <<buffer, start>> /\ mode' = "copying"
        /\ ret' = NoResult /\ copying' = [dst |-> 1, done |-> 0]
    BY <1>6 DEF CloseFlush, Flushed
  <2>2. \A n \in Places : View'[n] = disk'[n]
    BY <2>1 DEF View, InWindow
  <2>3. \A n \in 0 .. 2 * FatBytes - 1 : n \in Places
    BY Regions, GeometryAssumption DEF Places
  <2> QED
    BY <2>1, <2>2, <2>3, ViewType, GeometryAssumption DEF TypeOK, Coherent
<1>7. CASE CopyChunk
  <2>1. /\ disk' \in [Places -> Nibble]
        /\ \A n \in 0 .. 2 * FatBytes - 1 : disk'[n] = disk[n] /\ View'[n] = View[n]
    BY <1>7, ChunkSees
  <2>2. copying' = [copying EXCEPT !.done = @ + ToCopy] /\ mode = "copying"
        /\ UNCHANGED <<buffer, start, mode, ret>>
    BY <1>7 DEF CopyChunk
  <2>3. copying' \in [dst : 1 .. NumFats, done : 0 .. FatBytes]
    <3>1. ToCopy \in Nat /\ copying.done + ToCopy <= FatBytes
      BY <1>7, ChunkPlaces DEF CopyChunk
    <3>2. copying \in [dst : 1 .. NumFats, done : 0 .. FatBytes]
      BY DEF TypeOK
    <3>3. copying.done + ToCopy \in 0 .. FatBytes
      BY <3>1, <3>2, GeometryAssumption
    <3>4. copying' = [copying EXCEPT !.done = copying.done + ToCopy]
      BY <2>2
    <3> QED
      BY <3>2, <3>3, <3>4
  <2> QED
    BY <2>1, <2>2, <2>3 DEF TypeOK, Coherent
<1>8. CASE NextCopy
  <2>1. UNCHANGED <<disk, buffer, start, mode, ret>>
        /\ copying' = [dst |-> copying.dst + 1, done |-> 0] /\ copying.dst < NumFats
    BY <1>8 DEF NextCopy
  <2>2. View' = View
    BY <2>1 DEF View, InWindow
  <2>3. copying' \in [dst : 1 .. NumFats, done : 0 .. FatBytes]
    BY <2>1, GeometryAssumption DEF TypeOK
  <2> QED
    BY <2>1, <2>2, <2>3 DEF TypeOK, Coherent
<1>9. CASE CloseDone \/ CloseReadOnly \/ Crash
  <2>1. /\ disk' = disk /\ mode' = "closed" /\ ret' = NoResult /\ FirstWindow
        /\ copying' \in {copying, [dst |-> 1, done |-> 0]}
    BY <1>9 DEF CloseDone, CloseReadOnly, Crash, Coherent
  <2>2. View' = disk' /\ start' = 0 /\ buffer' \in [0 .. 2 * BufferSize - 1 -> Nibble]
    BY <2>1, FirstWindowSees DEF TypeOK
  <2> QED
    BY <2>1, <2>2, GeometryAssumption DEF TypeOK, Coherent
<1>10. CASE UNCHANGED vars
  <2>1. View' = View
    BY <1>10 DEF vars, View, InWindow
  <2> QED
    BY <1>10, <2>1 DEF vars, TypeOK, Coherent
<1> QED
  BY <1>1, <1>2, <1>3, <1>4, <1>5, <1>6, <1>7, <1>8, <1>9, <1>10 DEF Next

\* The state of the window and of the image has its type at every step.
THEOREM Typing == Spec => []TypeOK
<1>1. Inv => TypeOK
  BY DEF Inv
<1> QED
  BY <1>1, InitInv, StepInv, PTL DEF Spec

-----------------------------------------------------------------------------
(* The window implements the table. *)

\* An entry read from any image of the volume is a value.
LEMMA EntryType ==
    ASSUME NEW image \in [Places -> Nibble], NEW c \in Cluster
    PROVE  /\ Entry(image, c) \in Value
           /\ \A i \in 0 .. EntryNibbles - 1 :
                 Stride * c + i \in Places /\ Stride * c + i \in 0 .. 2 * FatBytes - 1
<1> DEFINE e == Stride * c
<1>1. e \in Nat /\ EntryNibbles \in Nat /\ LastByte(c) \in Nat
      /\ e + EntryNibbles <= 2 * LastByte(c) + 2 /\ LastByte(c) < FatBytes
  BY EntryPlace, EntryNibblesNat
<1> HIDE DEF e
<1>2. \A i \in 0 .. EntryNibbles - 1 : e + i \in Places /\ e + i \in 0 .. 2 * FatBytes - 1
  <2>1. FatBytes \in Nat /\ ImageBytes \in Nat /\ 2 * FatBytes <= 2 * ImageBytes
    BY Regions, GeometryAssumption
  <2> QED
    BY <1>1, <2>1 DEF Places
<1>3. \A i \in 0 .. EntryNibbles - 1 :
         Stride * c + i \in Places /\ Stride * c + i \in 0 .. 2 * FatBytes - 1
  BY <1>2 DEF e
<1> QED
  BY <1>3 DEF Entry, Value

\* Two images that agree on the first FAT hold the same entries.
LEMMA SameEntries ==
    ASSUME NEW a \in [Places -> Nibble], NEW b,
           \A n \in 0 .. 2 * FatBytes - 1 : a[n] = b[n]
    PROVE  [c \in Cluster |-> Entry(a, c)] = [c \in Cluster |-> Entry(b, c)]
<1> SUFFICES ASSUME NEW c \in Cluster PROVE Entry(a, c) = Entry(b, c)
  OBVIOUS
<1>1. \A i \in 0 .. EntryNibbles - 1 : a[Stride * c + i] = b[Stride * c + i]
  BY EntryType
<1> QED
  BY <1>1 DEF Entry

\* Nothing of the table lies behind the FATs, so what a write-back changes
\* there is nothing.
LEMMA OtherOutside ==
    ASSUME TypeOK, NEW n \in Other
    PROVE  n \in Places /\ ~InWindow(n) /\ View[n] = disk[n]
           /\ ~(n \in 0 .. 2 * FatBytes - 1)
<1> DEFINE behind == 2 * NumFats * FatBytes
<1>1. n \in Places /\ n \in Nat /\ n >= behind /\ behind \in Nat /\ 4 * FatBytes <= behind
  BY Regions, GeometryAssumption DEF Other, Places
<1>2. start \in Nat /\ start + BufferSize <= 2 * FatBytes /\ FatBytes \in Nat /\ BufferSize \in Nat
  BY GeometryAssumption DEF TypeOK
<1> HIDE DEF behind
<1>3. ~(n < 2 * (start + BufferSize)) /\ ~(n \in 0 .. 2 * FatBytes - 1)
  BY <1>1, <1>2, GeometryAssumption
<1> QED
  BY <1>1, <1>3 DEF View, InWindow

LEMMA InitTable == Init => Table!Init
<1> SUFFICES ASSUME Init PROVE Table!Init
  OBVIOUS
<1>1. Inv
  BY InitInv
<1>2. View \in [Places -> Nibble] /\ disk \in [Places -> Nibble]
  BY <1>1, ViewType DEF Inv, TypeOK
<1>3. \A n \in 0 .. 2 * FatBytes - 1 : View[n] = disk[n]
  BY <1>1 DEF Inv, Coherent, Init
<1>4. [c \in Cluster |-> Entry(disk, c)] = [c \in Cluster |-> Entry(View, c)]
  BY <1>2, <1>3, SameEntries
<1>5. [c \in Cluster |-> Entry(View, c)] \in [Cluster -> Value]
  BY <1>2, EntryType
<1>6. [n \in Other |-> disk[n]] \in [Other -> Nibble]
  BY <1>1, <1>2, OtherOutside DEF Inv
<1> QED
  BY <1>4, <1>5, <1>6 DEF Init, Table!Init

\* A write changes the entry of its cluster and no other.
LEMMA WriteTable ==
    ASSUME Inv, NEW c \in Cluster, NEW v \in Written, Write(c, v)
    PROVE  [d \in Cluster |-> Entry(View, d)]'
             = [[d \in Cluster |-> Entry(View, d)] EXCEPT ![c] = v]
<1>1. \A n \in Places :
        View'[n] = IF n - Stride * c \in 0 .. EntryNibbles - 1
                   THEN v[n - Stride * c] ELSE View[n]
  BY WriteSees
<1>2. v \in [0 .. EntryNibbles - 1 -> Nibble]
  BY ValueAssumption DEF Value
<1>3. View \in [Places -> Nibble] /\ EntryNibbles \in Nat
  BY ViewType, EntryNibblesNat DEF Inv
<1>4. Entry(View', c) = v
  <2>1. ASSUME NEW i \in 0 .. EntryNibbles - 1
        PROVE  View'[Stride * c + i] = v[i]
    <3> DEFINE n == Stride * c + i
    <3>1. n \in Places
      BY <1>3, EntryType
    <3>2. Stride * c \in Nat
      BY EntryPlace
    <3>3. n - Stride * c = i
      BY <3>2, <1>3
    <3> HIDE DEF n
    <3>4. View'[n] = v[i]
      BY <1>1, <3>1, <3>3
    <3> QED
      BY <3>4 DEF n
  <2> QED
    BY <1>2, <2>1 DEF Entry
<1>5. ASSUME NEW d \in Cluster, d # c PROVE Entry(View', d) = Entry(View, d)
  <2>1. ASSUME NEW i \in 0 .. EntryNibbles - 1
        PROVE  View'[Stride * d + i] = View[Stride * d + i]
    <3> DEFINE n == Stride * d + i
    <3>1. n \in Places
      BY <1>3, EntryType
    <3>2. Stride * c \in Nat /\ Stride * d \in Nat
      BY EntryPlace
    <3>3. \A j \in 0 .. EntryNibbles - 1 : n # Stride * c + j
      BY <1>5, EntriesDisjoint
    <3>4. ~(n - Stride * c \in 0 .. EntryNibbles - 1)
      <4>1. n \in Nat
        BY <3>2, <1>3
      <4> HIDE DEF n
      <4>2. SUFFICES ASSUME n - Stride * c \in 0 .. EntryNibbles - 1 PROVE FALSE
        OBVIOUS
      <4>3. n = Stride * c + (n - Stride * c)
        BY <3>2, <4>1
      <4> QED
        BY <3>3, <4>2, <4>3
    <3> HIDE DEF n
    <3>5. View'[n] = View[n]
      BY <1>1, <3>1, <3>4
    <3> QED
      BY <3>5 DEF n
  <2> QED
    BY <2>1 DEF Entry
<1> QED
  BY <1>4, <1>5

\* The window over the disk, the disk, and what lies behind, as the table
\* sees them.
Seen == [c \in Cluster |-> Entry(View, c)]
Stored == [c \in Cluster |-> Entry(disk, c)]
Behind == [n \in Other |-> disk[n]]

\* An access leaves an image that is the old one or the old view.
LEMMA AccessSaves ==
    ASSUME Inv, disk' \in {disk, View}
    PROVE  Stored' \in {Stored, Seen} /\ Behind' = Behind
  BY OtherOutside DEF Inv, Stored, Seen, Behind

LEMMA StepTable == Inv /\ Inv' /\ [Next]_vars => [Table!Next]_(Table!vars)
<1> SUFFICES ASSUME Inv, Inv', [Next]_vars
             PROVE  Table!Next \/ UNCHANGED Table!vars
  OBVIOUS
<1>a. View \in [Places -> Nibble] /\ disk \in [Places -> Nibble]
      /\ View' \in [Places -> Nibble] /\ disk' \in [Places -> Nibble]
  <2>1. TypeOK /\ (TypeOK => View \in [Places -> Nibble])
    BY ViewType DEF Inv
  <2>2. TypeOK' /\ (TypeOK => View \in [Places -> Nibble])'
    BY ViewType, PTL DEF Inv
  <2> QED
    BY <2>1, <2>2 DEF TypeOK
<1>1. ASSUME NEW m \in {"rw", "ro"}, Open(m) PROVE Table!Next
  <2>1. FirstWindow /\ disk' = disk /\ mode = "closed" /\ mode' = m /\ ret' = NoResult
    BY <1>1 DEF Open
  <2>2. View' = disk
    BY <2>1, <1>a, FirstWindowSees
  <2>3. Seen = Stored
    BY <1>a, <2>1, SameEntries DEF Seen, Stored, Inv, Coherent
  <2>4. Seen' = Seen /\ Stored' = Stored /\ Behind' = Behind
    BY <2>1, <2>2, <2>3 DEF Seen, Stored, Behind
  <2>5. Table!Open(m)
    BY <2>1, <2>4 DEF Table!Open, Seen, Stored, Behind
  <2> QED
    BY <2>5 DEF Table!Next
<1>2. ASSUME NEW c \in Cluster, Read(c) PROVE Table!Next
  <2>1. View' = View /\ disk' \in {disk, View} /\ ret' = Entry(View, c)
        /\ mode \in {"rw", "ro"} /\ mode' = mode
    BY <1>2, ReadSees DEF Read
  <2>2. Stored' \in {Stored, Seen} /\ Behind' = Behind /\ Seen' = Seen
    BY <2>1, AccessSaves DEF Seen
  <2>3. Table!Read(c)
    BY <2>1, <2>2 DEF Table!Read, Table!MaySave, Seen, Stored, Behind
  <2> QED
    BY <2>3 DEF Table!Next
<1>3. ASSUME NEW c \in Cluster, NEW v \in Written, Write(c, v) PROVE Table!Next
  <2>1. disk' \in {disk, View} /\ mode = "rw" /\ mode' = mode /\ ret' = Done
    BY <1>3, WriteSees DEF Write
  <2>2. Stored' \in {Stored, Seen} /\ Behind' = Behind
    BY <2>1, AccessSaves
  <2>3. Seen' = [Seen EXCEPT ![c] = v]
    BY <1>3, WriteTable DEF Seen
  <2>4. Table!Write(c, v)
    BY <2>1, <2>2, <2>3 DEF Table!Write, Table!MaySave, Seen, Stored, Behind
  <2> QED
    BY <2>4 DEF Table!Next
<1>4. CASE ReadBeyondLast \/ WriteRefused
  <2>1. UNCHANGED <<disk, buffer, start, mode>> /\ ret' \in {BadRead, Refused}
        /\ mode \in {"rw", "ro"}
    BY <1>4 DEF ReadBeyondLast, WriteRefused
  <2>2. View' = View
    BY <2>1 DEF View, InWindow
  <2>3. Table!Reject(ret')
    BY <2>1, <2>2 DEF Table!Reject
  <2> QED
    BY <2>1, <2>3 DEF Table!Next
<1>5. ASSUME NEW n \in Other, NEW x \in Nibble, WriteOther(n, x) PROVE Table!Next
  <2>1. disk' = [disk EXCEPT ![n] = x] /\ UNCHANGED <<buffer, start, mode, copying, ret>>
        /\ mode = "rw"
    BY <1>5 DEF WriteOther
  <2>2. n \in Places /\ ~InWindow(n) /\ ~(n \in 0 .. 2 * FatBytes - 1)
    BY OtherOutside DEF Inv
  <2>3. \A k \in 0 .. 2 * FatBytes - 1 : k \in Places
    BY Regions, GeometryAssumption DEF Places
  <2>4. \A k \in 0 .. 2 * FatBytes - 1 : disk[k] = disk'[k] /\ View[k] = View'[k]
    BY <2>1, <2>2, <2>3, <1>a DEF View, InWindow
  <2>5. Seen' = Seen
    BY <2>4, <1>a, SameEntries DEF Seen
  <2>6. Stored' = Stored
    BY <2>4, <1>a, SameEntries DEF Stored
  <2>7. Behind' = [Behind EXCEPT ![n] = x]
    BY <2>1, <1>a, OtherOutside DEF Behind, Inv
  <2>8. Table!WriteOther(n, x)
    BY <2>1, <2>5, <2>6, <2>7 DEF Table!WriteOther, Seen, Stored, Behind
  <2> QED
    BY <2>8 DEF Table!Next
<1>6. CASE CloseFlush
  <2>1. disk' = View /\ mode = "rw" /\ mode' = "copying" /\ ret' = NoResult
        /\ UNCHANGED <<buffer, start>>
    BY <1>6 DEF CloseFlush, Flushed
  <2>2. \A n \in Places : View'[n] = View[n]
    BY <2>1 DEF View, InWindow
  <2>3. View' = View
    BY <2>2 DEF View
  <2>4. Seen' = Seen /\ Stored' = Seen
    BY <2>1, <2>3 DEF Seen, Stored
  <2>5. Behind' = Behind
    BY <2>1, AccessSaves
  <2>6. Table!Close
    BY <2>1, <2>4, <2>5 DEF Table!Close, Seen, Stored, Behind
  <2> QED
    BY <2>6 DEF Table!Next
<1>7. CASE CopyChunk
  <2>1. /\ \A n \in 0 .. 2 * FatBytes - 1 : disk[n] = disk'[n] /\ View[n] = View'[n]
        /\ \A n \in Other : disk'[n] = disk[n]
    BY <1>7, ChunkSees
  <2>2. Seen' = Seen
    BY <2>1, <1>a, SameEntries DEF Seen
  <2>3. Stored' = Stored
    BY <2>1, <1>a, SameEntries DEF Stored
  <2>4. Behind' = Behind
    BY <2>1 DEF Behind
  <2>5. UNCHANGED <<mode, ret>>
    BY <1>7 DEF CopyChunk
  <2> QED
    BY <2>2, <2>3, <2>4, <2>5 DEF Table!vars, Seen, Stored, Behind
<1>8. CASE NextCopy
  <2>1. UNCHANGED <<disk, buffer, start, mode, ret>>
    BY <1>8 DEF NextCopy
  <2>2. View' = View
    BY <2>1 DEF View, InWindow
  <2> QED
    BY <2>1, <2>2 DEF Table!vars
<1>9. CASE CloseDone \/ CloseReadOnly \/ Crash
  <2>1. /\ disk' = disk /\ mode' = "closed" /\ mode \in {"rw", "ro", "copying"}
        /\ ret' = NoResult /\ FirstWindow
    BY <1>9 DEF CloseDone, CloseReadOnly, Crash, Inv, TypeOK, Coherent
  <2>2. View' = disk
    BY <2>1, <1>a, FirstWindowSees
  <2>3. Seen' = Stored /\ Stored' = Stored /\ Behind' = Behind
    BY <2>1, <2>2 DEF Seen, Stored, Behind
  <2>4. CASE mode = "copying"
    <3>1. ret = NoResult /\ Seen = Stored
      BY <2>4, <1>a, SameEntries DEF Seen, Stored, Inv, Coherent
    <3> QED
      BY <2>1, <2>3, <2>4, <3>1 DEF Table!vars, Seen, Stored, Behind
  <2>5. CASE mode # "copying"
    <3>1. Table!Crash
      BY <2>1, <2>3, <2>5 DEF Table!Crash, Seen, Stored, Behind
    <3> QED
      BY <3>1 DEF Table!Next
  <2> QED
    BY <2>4, <2>5
<1>10. CASE UNCHANGED vars
  <2>1. View' = View
    BY <1>10 DEF vars, View, InWindow
  <2> QED
    BY <1>10, <2>1 DEF vars, Table!vars
<1> QED
  BY <1>1, <1>2, <1>3, <1>4, <1>5, <1>6, <1>7, <1>8, <1>9, <1>10 DEF Next

\* fat.c:47-448: through the window, FAT_ReadFATEntry and FAT_WriteFATEntry
\* are reads and writes of one table, and the image a killed process leaves
\* behind holds that table as it was at one earlier moment.
THEOREM Implements == Spec => ImplementsTable
<1>1. Inv /\ [Next]_vars => Inv'
  BY StepInv
<1> QED
  BY InitInv, <1>1, InitTable, StepTable, PTL DEF Spec, Table!Spec, ImplementsTable

-----------------------------------------------------------------------------
(* The copies of the FAT. *)

\* The entries are in the first FAT, so of the window only what lies there
\* can differ from the disk: what reaches into the first copy does not.
OnlyFirstDiffers ==
    mode # "copying" =>
        \A n \in Places : n >= 2 * FatBytes => View[n] = disk[n]

CopyInv == OnlyFirstDiffers /\ CopiesAgree

\* Where place n of copy i is on the disk, and that it is in front of the
\* next copy.
LEMMA CopyPlace ==
    ASSUME NEW i \in 1 .. NumFats - 1, NEW n \in 0 .. 2 * FatBytes - 1
    PROVE  /\ 2 * FatBytes * i \in Nat
           /\ 2 * FatBytes * i >= 2 * FatBytes
           /\ 2 * FatBytes * i + n \in Places
           /\ 2 * FatBytes * i + n < 2 * NumFats * FatBytes
<1>1. i \in Nat /\ i >= 1 /\ i + 1 <= NumFats /\ NumFats \in Nat /\ FatBytes \in Nat
  BY GeometryAssumption
<1>2. FatBytes * i \in Nat /\ FatBytes <= FatBytes * i
  BY <1>1
<1>3. FatBytes * i + FatBytes <= NumFats * FatBytes
  <2>1. FatBytes * (i + 1) <= FatBytes * NumFats
    BY <1>1
  <2> QED
    BY <1>1, <2>1
<1> DEFINE base == FatBytes * i
<1>4. /\ base \in Nat /\ FatBytes <= base /\ base + FatBytes <= NumFats * FatBytes
      /\ 2 * FatBytes * i = 2 * base
  BY <1>1, <1>2, <1>3
<1> DEFINE end == NumFats * FatBytes
<1>5. end \in Nat /\ end <= ImageBytes /\ ImageBytes \in Nat
      /\ 2 * NumFats * FatBytes = 2 * end
  BY <1>1, GeometryAssumption
<1> HIDE DEF base, end
<1>6. base + FatBytes <= end
  BY <1>4 DEF end
<1>7. 2 * base + n < 2 * end /\ 2 * base + n \in Nat
  BY <1>1, <1>4, <1>5, <1>6
<1> QED
  BY <1>1, <1>4, <1>5, <1>7 DEF Places

LEMMA InitCopyInv == Init => CopyInv
<1> SUFFICES ASSUME Init PROVE CopyInv
  OBVIOUS
<1>1. Inv
  BY InitInv
<1>2. ASSUME NEW n \in Places, InWindow(n) PROVE buffer[n - 2 * start] = disk[n]
  <2>1. n \in 0 .. 2 * BufferSize - 1 /\ n - 2 * start = n /\ 2 * 0 + n = n
    BY <1>2, GeometryAssumption DEF InWindow, Places, Init
  <2> QED
    BY <2>1 DEF Load, Init
<1>3. \A n \in Places : View[n] = disk[n]
  BY <1>2 DEF View
<1> QED
  BY <1>3 DEF CopyInv, OnlyFirstDiffers, CopiesAgree, Init

\* A write leaves what it sees behind the first FAT as it was.
LEMMA WriteInFirst ==
    ASSUME Inv, NEW c \in Cluster, NEW v \in Written, Write(c, v),
           NEW n \in Places, n >= 2 * FatBytes
    PROVE  View'[n] = View[n]
<1> DEFINE e == Stride * c
<1>1. e \in Nat /\ EntryNibbles \in Nat /\ LastByte(c) \in Nat
      /\ e + EntryNibbles <= 2 * LastByte(c) + 2 /\ LastByte(c) < FatBytes
  BY EntryPlace, EntryNibblesNat
<1>2. n \in Nat /\ FatBytes \in Nat
  BY GeometryAssumption DEF Places
<1> HIDE DEF e
<1>3. ~(n - e \in 0 .. EntryNibbles - 1)
  BY <1>1, <1>2
<1> QED
  BY <1>3, WriteSees DEF e

\* One chunk of copy dst agrees with the first FAT, and the copies and the
\* chunks before it still do.
LEMMA ChunkAgrees ==
    ASSUME Inv, CopyInv, CopyChunk
    PROVE  CopiesAgree'
<1> DEFINE from == 2 * copying.done
           base == 2 * FatBytes * copying.dst
           to == base + from
<1>1. /\ ToCopy \in Nat /\ copying.done + ToCopy <= FatBytes
      /\ base \in Nat /\ 2 * FatBytes <= base
      /\ copying.dst \in 1 .. NumFats - 1 /\ copying.done \in Nat
  <2>1. TypeOK /\ copying.dst < NumFats /\ copying.done < FatBytes
    BY DEF CopyChunk, Inv
  <2>2. copying.dst \in 1 .. NumFats - 1 /\ copying.done \in Nat
    BY <2>1, GeometryAssumption DEF TypeOK
  <2> QED
    BY <2>1, <2>2, ChunkPlaces
<1>2. disk' = [n \in Places |-> IF to <= n /\ n < to + 2 * ToCopy
                               THEN disk[n - to + from] ELSE disk[n]]
  BY DEF CopyChunk, CopyFrom, CopyTo
<1>3. /\ copying'.dst = copying.dst /\ copying'.done = copying.done + ToCopy
      /\ mode = "copying"
  BY DEF CopyChunk, Inv, TypeOK
<1>4. \A n \in 0 .. 2 * FatBytes - 1 : disk'[n] = disk[n]
  BY ChunkSees
<1>5. SUFFICES ASSUME NEW i \in 1 .. NumFats - 1, NEW n \in 0 .. 2 * FatBytes - 1,
                      i < copying.dst \/ (i = copying.dst /\ n < 2 * copying'.done)
               PROVE  disk'[2 * FatBytes * i + n] = disk'[2 * FatBytes * 0 + n]
  BY <1>3 DEF CopiesAgree, FatCopy
<1> DEFINE p == 2 * FatBytes * i + n
<1>6. 2 * FatBytes * 0 + n = n /\ n \in Nat /\ FatBytes \in Nat
  BY GeometryAssumption
<1>7. p \in Places /\ p \in Nat
  BY CopyPlace DEF Places
<1>8. i < copying.dst \/ (i = copying.dst /\ n < from) => disk[p] = disk[n]
  BY <1>3, <1>6 DEF CopyInv, CopiesAgree, FatCopy
<1>9. CASE i < copying.dst
  <2>1. p < base
    <3>1. 2 * FatBytes * (i + 1) <= base
      BY <1>1, <1>6, <1>9
    <3>2. 2 * FatBytes * (i + 1) = 2 * FatBytes * i + 2 * FatBytes
      BY <1>6
    <3>3. 2 * FatBytes * i \in Nat
      BY CopyPlace
    <3> HIDE DEF base
    <3> QED
      BY <1>1, <1>6, <3>1, <3>2, <3>3
  <2>2. ~(to <= p)
    <3> HIDE DEF base, p
    <3> QED
      BY <1>1, <1>7, <2>1
  <2> QED
    BY <1>2, <1>4, <1>6, <1>7, <1>8, <1>9, <2>2
<1>10. CASE i = copying.dst /\ n < from
  <2>1. p = base + n
    BY <1>10
  <2>2. ~(to <= p)
    <3> HIDE DEF base, p
    <3> QED
      BY <1>1, <1>6, <1>10, <2>1
  <2> QED
    BY <1>2, <1>4, <1>6, <1>7, <1>8, <1>10, <2>2
<1>11. CASE i = copying.dst /\ n >= from
  <2>1. p = base + n /\ n < 2 * (copying.done + ToCopy)
    BY <1>3, <1>5, <1>11
  <2>2. to <= p /\ p < to + 2 * ToCopy /\ p - to + from = n
    <3> HIDE DEF base, p
    <3> QED
      BY <1>1, <1>6, <1>11, <2>1
  <2> QED
    BY <1>2, <1>4, <1>6, <1>7, <2>2
<1> QED
  BY <1>1, <1>5, <1>6, <1>9, <1>10, <1>11

LEMMA StepCopyInv == Inv /\ CopyInv /\ [Next]_vars => CopyInv'
<1> SUFFICES ASSUME Inv, CopyInv, [Next]_vars PROVE CopyInv'
  OBVIOUS
<1> USE DEF CopyInv
<1>a. disk \in [Places -> Nibble]
  BY DEF Inv, TypeOK
<1>1. ASSUME NEW m \in {"rw", "ro"}, Open(m) PROVE CopyInv'
  <2>1. View' = disk' /\ mode' = m
    BY <1>1, <1>a, FirstWindowSees DEF Open
  <2> QED
    BY <2>1 DEF OnlyFirstDiffers, CopiesAgree
<1>2. ASSUME NEW c \in Cluster, Read(c) PROVE CopyInv'
  <2>1. View' = View /\ disk' \in {disk, View} /\ mode \in {"rw", "ro"} /\ mode' = mode
    BY <1>2, ReadSees DEF Read
  <2> QED
    BY <2>1 DEF OnlyFirstDiffers, CopiesAgree
<1>3. ASSUME NEW c \in Cluster, NEW v \in Written, Write(c, v) PROVE CopyInv'
  <2>1. disk' \in {disk, View} /\ mode = "rw" /\ mode' = mode
    BY <1>3, WriteSees DEF Write
  <2>2. \A n \in Places : n >= 2 * FatBytes => View'[n] = View[n]
    BY <1>3, WriteInFirst
  <2> QED
    BY <2>1, <2>2 DEF OnlyFirstDiffers, CopiesAgree
<1>4. CASE ReadBeyondLast \/ WriteRefused
  <2>1. UNCHANGED <<disk, buffer, start, mode, copying>>
    BY <1>4 DEF ReadBeyondLast, WriteRefused
  <2> QED
    BY <2>1 DEF OnlyFirstDiffers, CopiesAgree, FatCopy, View, InWindow
<1>5. ASSUME NEW n \in Other, NEW x \in Nibble, WriteOther(n, x) PROVE CopyInv'
  <2>1. disk' = [disk EXCEPT ![n] = x] /\ UNCHANGED <<buffer, start, mode>> /\ mode = "rw"
    BY <1>5 DEF WriteOther
  <2>2. n \in Places /\ ~InWindow(n)
    BY OtherOutside DEF Inv
  <2>3. \A k \in Places : InWindow(k)' <=> InWindow(k)
    BY <2>1 DEF InWindow
  <2>4. \A k \in Places : View'[k] = IF InWindow(k) THEN buffer[k - 2 * start] ELSE disk'[k]
    BY <2>1, <2>3 DEF View
  <2>5. \A k \in Places : InWindow(k) => View'[k] = View[k] /\ disk'[k] = disk[k]
    BY <2>1, <2>2, <2>4, <1>a DEF View
  <2>6. \A k \in Places : k >= 2 * FatBytes => View'[k] = disk'[k]
    BY <2>1, <2>4, <2>5 DEF OnlyFirstDiffers
  <2> QED
    BY <2>1, <2>6 DEF OnlyFirstDiffers, CopiesAgree
<1>6. CASE CloseFlush
  <2>1. mode' = "copying" /\ copying' = [dst |-> 1, done |-> 0]
    BY <1>6 DEF CloseFlush
  <2>2. CopiesAgree'
    BY <2>1, GeometryAssumption DEF CopiesAgree
  <2> QED
    BY <2>1, <2>2 DEF OnlyFirstDiffers
<1>7. CASE CopyChunk
  BY <1>7, ChunkAgrees DEF OnlyFirstDiffers, CopyChunk
<1>8. CASE NextCopy
  <2>1. /\ UNCHANGED <<disk, mode>> /\ mode = "copying"
        /\ copying'.dst = copying.dst + 1 /\ copying'.done = 0
        /\ copying.done = FatBytes /\ copying.dst \in Nat
    BY <1>8, GeometryAssumption DEF NextCopy, Inv, TypeOK
  <2>2. ASSUME NEW i \in 1 .. NumFats - 1, NEW n \in 0 .. 2 * FatBytes - 1,
               i < copying'.dst \/ (i = copying'.dst /\ n < 2 * copying'.done)
        PROVE  FatCopy(i, n) = FatCopy(0, n)
    <3>1. i < copying.dst \/ (i = copying.dst /\ n < 2 * copying.done)
      BY <2>1, <2>2, GeometryAssumption
    <3> QED
      BY <2>1, <3>1 DEF CopiesAgree
  <2>3. CopiesAgree'
    BY <2>1, <2>2 DEF CopiesAgree, FatCopy
  <2> QED
    BY <2>1, <2>3 DEF OnlyFirstDiffers
<1>9. CASE CloseDone \/ CloseReadOnly \/ Crash
  <2>1. disk' = disk /\ mode' = "closed" /\ FirstWindow
    BY <1>9 DEF CloseDone, CloseReadOnly, Crash
  <2>2. View' = disk'
    BY <2>1, <1>a, FirstWindowSees
  <2> QED
    BY <2>1, <2>2 DEF OnlyFirstDiffers, CopiesAgree
<1>10. CASE UNCHANGED vars
  BY <1>10 DEF vars, OnlyFirstDiffers, CopiesAgree, FatCopy, View, InWindow
<1> QED
  BY <1>1, <1>2, <1>3, <1>4, <1>5, <1>6, <1>7, <1>8, <1>9, <1>10 DEF Next

\* While the file system is open, no step changes a copy of the FAT: what a
\* write-back puts there is what is there already.
LEMMA CopiesWait ==
    ASSUME Inv, CopyInv, [Next]_vars, mode \in {"rw", "ro"}
    PROVE  SameCopies
<1>1. ASSUME NEW n \in Places, n >= 2 * FatBytes, ~(n \in Other)
      PROVE  disk'[n] = disk[n]
  <2>a. View[n] = disk[n]
    BY <1>1 DEF CopyInv, OnlyFirstDiffers
  <2>b. disk \in [Places -> Nibble]
    BY DEF Inv, TypeOK
  <2>1. ASSUME NEW m \in {"rw", "ro"}, Open(m) PROVE FALSE
    BY <2>1 DEF Open
  <2>2. ASSUME NEW c \in Cluster, Read(c) PROVE disk'[n] = disk[n]
    BY <2>2, <2>a, ReadSees
  <2>3. ASSUME NEW c \in Cluster, NEW v \in Written, Write(c, v) PROVE disk'[n] = disk[n]
    BY <2>3, <2>a, WriteSees
  <2>4. CASE CloseFlush
    BY <2>4, <2>a DEF CloseFlush, Flushed
  <2>5. ASSUME NEW k \in Other, NEW x \in Nibble, WriteOther(k, x) PROVE disk'[n] = disk[n]
    BY <2>5, <1>1, <2>b DEF WriteOther
  <2>6. ~CopyChunk /\ ~NextCopy /\ ~CloseDone
    BY DEF CopyChunk, NextCopy, CloseDone
  <2>7. CASE ReadBeyondLast \/ WriteRefused \/ CloseReadOnly \/ Crash \/ UNCHANGED vars
    BY <2>7 DEF ReadBeyondLast, WriteRefused, CloseReadOnly, Crash, vars
  <2> QED
    BY <2>1, <2>2, <2>3, <2>4, <2>5, <2>6, <2>7 DEF Next
<1>2. SUFFICES ASSUME NEW i \in 1 .. NumFats - 1, NEW n \in 0 .. 2 * FatBytes - 1
               PROVE  disk'[2 * FatBytes * i + n] = disk[2 * FatBytes * i + n]
  BY DEF SameCopies, FatCopy
<1> DEFINE p == 2 * FatBytes * i + n
           behind == 2 * NumFats * FatBytes
<1>3. /\ 2 * FatBytes * i \in Nat /\ 2 * FatBytes * i >= 2 * FatBytes
      /\ p \in Places /\ p < behind /\ behind \in Nat
  BY CopyPlace, GeometryAssumption
<1>4. p >= 2 * FatBytes
  BY <1>3, GeometryAssumption
<1> HIDE DEF p, behind
<1>5. ~(p \in Other)
  <2>1. p \in Nat
    BY <1>3 DEF Places
  <2>2. \A k \in Other : k \in Int /\ k >= behind
    BY Regions DEF Other, behind
  <2> QED
    BY <1>3, <2>1, <2>2
<1>6. disk'[p] = disk[p]
  BY <1>1, <1>3, <1>4, <1>5
<1> QED
  BY <1>6 DEF p

\* fat.c:280-312, 844-887: the copies are written by FAT_CloseFilesystem only,
\* and whatever it has copied agrees with the first FAT.
THEOREM CopiesAreExact == Spec => CopiesExact
<1>1. Inv /\ [Next]_vars => Inv'
  BY StepInv
<1>2. CopyInv => CopiesAgree
  BY DEF CopyInv
<1>3. Inv /\ CopyInv /\ [Next]_vars
        => [(mode \in {"rw", "ro"}) => SameCopies]_vars
  BY CopiesWait
<1> QED
  BY InitInv, InitCopyInv, <1>1, <1>2, <1>3, StepCopyInv, PTL
     DEF Spec, CopiesExact, CopiesWaitForClose

-----------------------------------------------------------------------------
(* The reserved bits of a FAT32 entry. *)

\* The eighth nibble of an entry is in the first FAT and in no entry.
LEMMA ReservedPlace ==
    ASSUME Stride = 8, NEW c \in Cluster, NEW p, p = 8 * c + 7
    PROVE  /\ p \in Places
           /\ p \in 0 .. 2 * FatBytes - 1
           /\ \A d \in Cluster : ~(p - Stride * d \in 0 .. EntryNibbles - 1)
<1>1. c \in Nat /\ c + 1 <= N /\ N \in Nat /\ FatBytes \in Nat /\ 8 * N <= 2 * FatBytes
  BY GeometryAssumption DEF Cluster
<1>2. 2 * FatBytes <= 2 * ImageBytes /\ ImageBytes \in Nat
  BY Regions, GeometryAssumption
<1>3. \A d \in Cluster : d \in Nat
  BY GeometryAssumption DEF Cluster
<1> QED
  BY <1>1, <1>2, <1>3 DEF Places, EntryNibbles

LEMMA StepReserved ==
    ASSUME Inv, [Next]_vars, Stride = 8, mode' \in {"rw", "ro"}
    PROVE  SameReserved
<1> SUFFICES ASSUME NEW c \in Cluster PROVE View'[8 * c + 7] = View[8 * c + 7]
  BY DEF SameReserved
<1> DEFINE p == 8 * c + 7
<1>a. /\ p \in Places /\ p \in 0 .. 2 * FatBytes - 1
      /\ \A d \in Cluster : ~(p - Stride * d \in 0 .. EntryNibbles - 1)
  BY ReservedPlace
<1>b. disk \in [Places -> Nibble]
  BY DEF Inv, TypeOK
<1> HIDE DEF p
<1>0. SUFFICES View'[p] = View[p]
  BY DEF p
<1>1. ASSUME NEW m \in {"rw", "ro"}, Open(m) PROVE View'[p] = View[p]
  <2>1. View' = disk
    BY <1>1, <1>b, FirstWindowSees DEF Open
  <2>2. View[p] = disk[p]
    BY <1>1, <1>a DEF Open, Inv, Coherent
  <2> QED
    BY <2>1, <2>2
<1>2. ASSUME NEW d \in Cluster, Read(d) PROVE View'[p] = View[p]
  BY <1>2, ReadSees
<1>3. ASSUME NEW d \in Cluster, NEW v \in Written, Write(d, v) PROVE View'[p] = View[p]
  BY <1>3, <1>a, WriteSees
<1>4. CASE ReadBeyondLast \/ WriteRefused \/ UNCHANGED vars
  <2>1. UNCHANGED <<disk, buffer, start>>
    BY <1>4 DEF ReadBeyondLast, WriteRefused, vars
  <2> QED
    BY <2>1 DEF View, InWindow
<1>5. ASSUME NEW n \in Other, NEW x \in Nibble, WriteOther(n, x) PROVE View'[p] = View[p]
  <2>1. disk' = [disk EXCEPT ![n] = x] /\ UNCHANGED <<buffer, start>>
    BY <1>5 DEF WriteOther
  <2>2. n # p
    BY <1>a, OtherOutside DEF Inv
  <2>3. disk'[p] = disk[p]
    BY <2>1, <2>2, <1>b
  <2> QED
    BY <2>1, <2>3, <1>a DEF View, InWindow
<1>6. ~CloseFlush /\ ~CopyChunk /\ ~NextCopy /\ ~CloseDone /\ ~CloseReadOnly /\ ~Crash
  BY DEF CloseFlush, CopyChunk, NextCopy, CloseDone, CloseReadOnly, Crash
<1> QED
  BY <1>1, <1>2, <1>3, <1>4, <1>5, <1>6 DEF Next

\* fat.c:432-452: FAT_WriteFATEntry leaves the four bits above a FAT32 entry
\* as they are, and so do the window's own writes.
THEOREM ReservedKept == Spec => ReservedBitsKept
<1>1. Inv /\ [Next]_vars => Inv'
  BY StepInv
<1>2. Inv /\ [Next]_vars
        => [Stride = 8 /\ mode' \in {"rw", "ro"} => SameReserved]_vars
  BY StepReserved
<1> QED
  BY InitInv, <1>1, <1>2, PTL DEF Spec, ReservedBitsKept

-----------------------------------------------------------------------------
(* An image file that fails. *)

\* What is left of Inv when a short load has damaged the window: a read-only
\* view need no longer be what the disk holds.
FaultInv ==
    /\ TypeOK
    /\ BufferSize > FatBytes => start = 0
    /\ mode = "copying" => ret = NoResult

\* An access goes to a window inside the FATs, and to a disk and a window
\* that hold what the disk held wherever the old window does not reach.
LEMMA AccessTyped ==
    ASSUME FaultInv, mode \in {"rw", "ro"}, NEW c \in Cluster
    PROVE  /\ Miss(c) => /\ ~(BufferSize > FatBytes)
                         /\ Offset(c) \in Nat /\ Offset(c) + BufferSize <= 2 * FatBytes
           /\ Flushed \in [Places -> Nibble]
           /\ \A n \in Places : ~InWindow(n) => Flushed[n] = disk[n]
           /\ DiskFor(c) \in [Places -> Nibble]
           /\ \A n \in Places : ~InWindow(n) => DiskFor(c)[n] = disk[n]
           /\ StartFor(c) \in Nat
           /\ StartFor(c) + BufferSize <= 2 * FatBytes
           /\ BufferSize > FatBytes => StartFor(c) = 0
           /\ BufferFor(c) \in [0 .. 2 * BufferSize - 1 -> Nibble]
           /\ 2 * StartFor(c) <= Stride * c
           /\ Stride * c + EntryNibbles <= 2 * (StartFor(c) + BufferSize)
<1> DEFINE p == Offset(c)
<1>1. /\ p \in Nat /\ LastByte(c) \in Nat /\ LastByte(c) < FatBytes
      /\ LastByte(c) < p + BufferSize /\ p <= LastByte(c)
      /\ 2 * p <= Stride * c /\ Stride * c + EntryNibbles <= 2 * LastByte(c) + 2
      /\ Stride * c \in Nat /\ EntryNibbles \in Nat
  BY EntryPlace, EntryNibblesNat
<1>2. ASSUME Miss(c) PROVE ~(BufferSize > FatBytes) /\ p + BufferSize <= 2 * FatBytes
  <2>1. ~(BufferSize > FatBytes)
    BY <1>1, <1>2, GeometryAssumption DEF Miss, FaultInv
  <2> QED
    BY <1>1, <2>1, GeometryAssumption
<1>3. Flushed \in [Places -> Nibble] /\ \A n \in Places : ~InWindow(n) => Flushed[n] = disk[n]
  <2>1. disk \in [Places -> Nibble] /\ View \in [Places -> Nibble]
    BY ViewType DEF FaultInv, TypeOK
  <2>2. \A n \in Places : ~InWindow(n) => View[n] = disk[n]
    BY DEF View
  <2> QED
    BY <2>1, <2>2 DEF Flushed
<1>4. DiskFor(c) \in {disk, Flushed} /\ disk \in [Places -> Nibble]
  BY DEF DiskFor, FaultInv, TypeOK
<1>5. CASE ~Miss(c)
  <2>1. StartFor(c) = start /\ BufferFor(c) = buffer /\ start \in Nat /\ BufferSize \in Nat
    BY <1>5, GeometryAssumption DEF StartFor, BufferFor, FaultInv, TypeOK
  <2>2. start <= p /\ LastByte(c) < start + BufferSize
    BY <1>1, <1>5, <2>1 DEF Miss
  <2>3. 2 * start <= Stride * c /\ Stride * c + EntryNibbles <= 2 * (start + BufferSize)
    <3> HIDE DEF p
    <3> QED
      BY <1>1, <2>1, <2>2
  <2> QED
    BY <1>3, <1>4, <1>5, <2>1, <2>3 DEF FaultInv, TypeOK
<1>6. CASE Miss(c)
  <2>1. StartFor(c) = p /\ BufferFor(c) = Load(DiskFor(c), p)
    BY <1>6 DEF StartFor, BufferFor
  <2>2. DiskFor(c) \in [Places -> Nibble]
    BY <1>3, <1>4
  <2>3. BufferFor(c) \in [0 .. 2 * BufferSize - 1 -> Nibble]
    BY <1>1, <1>2, <1>6, <2>1, <2>2, LoadType
  <2>4. Stride * c + EntryNibbles <= 2 * (p + BufferSize)
    BY <1>1, GeometryAssumption
  <2> QED
    BY <1>1, <1>2, <1>3, <1>4, <1>6, <2>1, <2>2, <2>3, <2>4
<1> QED
  BY <1>5, <1>6

LEMMA InitFaultInv == Init => FaultInv
  BY InitInv DEF Inv, Coherent, FaultInv, Init

\* A step of the faultless program keeps FaultInv, too.
LEMMA NextFaultInv == FaultInv /\ [Next]_vars => FaultInv'
<1> SUFFICES ASSUME FaultInv, [Next]_vars PROVE FaultInv'
  OBVIOUS
<1> USE DEF FaultInv
<1>1. ASSUME FirstWindow, disk' \in [Places -> Nibble]
      PROVE  start' = 0 /\ buffer' \in [0 .. 2 * BufferSize - 1 -> Nibble]
  BY <1>1, FirstWindowSees
<1>2. ASSUME NEW m \in {"rw", "ro"}, Open(m) PROVE FaultInv'
  BY <1>1, <1>2, GeometryAssumption DEF Open, TypeOK
<1>3. ASSUME NEW c \in Cluster, Read(c) PROVE FaultInv'
  <2>1. mode \in {"rw", "ro"} /\ mode' = mode /\ copying' = copying
        /\ disk' = DiskFor(c) /\ start' = StartFor(c) /\ buffer' = BufferFor(c)
    BY <1>3 DEF Read
  <2>2. ret' \in Value
    <3> DEFINE e == Stride * c
               s == StartFor(c)
    <3>1. /\ e \in Nat /\ s \in Nat /\ EntryNibbles \in Nat /\ BufferSize \in Nat
          /\ 2 * s <= e /\ e + EntryNibbles <= 2 * (s + BufferSize)
      BY <2>1, AccessTyped, EntryPlace, EntryNibblesNat, GeometryAssumption
    <3>2. BufferFor(c) \in [0 .. 2 * BufferSize - 1 -> Nibble]
      BY <2>1, AccessTyped
    <3>3. ret' = [i \in 0 .. EntryNibbles - 1 |-> BufferFor(c)[e + i - 2 * s]]
      BY <1>3 DEF Read
    <3> HIDE DEF e, s
    <3>4. \A i \in 0 .. EntryNibbles - 1 : e + i - 2 * s \in 0 .. 2 * BufferSize - 1
      BY <3>1
    <3> QED
      BY <3>2, <3>3, <3>4 DEF Value
  <2> QED
    BY <2>1, <2>2, AccessTyped DEF TypeOK
<1>4. ASSUME NEW c \in Cluster, NEW v \in Written, Write(c, v) PROVE FaultInv'
  <2>1. mode = "rw" /\ mode' = mode /\ copying' = copying /\ ret' = Done
        /\ disk' = DiskFor(c) /\ start' = StartFor(c) /\ buffer' = Patched(c, v)
    BY <1>4 DEF Write
  <2>2. v \in [0 .. EntryNibbles - 1 -> Nibble]
    BY ValueAssumption DEF Value
  <2>3. BufferFor(c) \in [0 .. 2 * BufferSize - 1 -> Nibble]
    BY <2>1, AccessTyped
  <2>4. Patched(c, v) \in [0 .. 2 * BufferSize - 1 -> Nibble]
    BY <2>2, <2>3 DEF Patched
  <2> QED
    BY <2>1, <2>4, AccessTyped DEF TypeOK
<1>5. CASE ReadBeyondLast \/ WriteRefused
  BY <1>5 DEF ReadBeyondLast, WriteRefused, TypeOK
<1>6. ASSUME NEW n \in Other, NEW x \in Nibble, WriteOther(n, x) PROVE FaultInv'
  BY <1>6 DEF WriteOther, TypeOK
<1>7. CASE CloseFlush
  <2>1. disk' = View
    BY <1>7 DEF CloseFlush, Flushed
  <2> QED
    BY <1>7, <2>1, ViewType, GeometryAssumption DEF CloseFlush, TypeOK
<1>8. CASE CopyChunk
  <2>1. /\ copying.dst < NumFats /\ copying.done < FatBytes
        /\ copying' = [copying EXCEPT !.done = copying.done + ToCopy]
        /\ UNCHANGED <<buffer, start, mode, ret>>
    BY <1>8 DEF CopyChunk
  <2>2. /\ ToCopy \in Nat /\ copying.done + ToCopy <= FatBytes
        /\ 2 * FatBytes * copying.dst \in Nat
        /\ 2 * FatBytes <= 2 * FatBytes * copying.dst
        /\ 2 * FatBytes * copying.dst + 2 * FatBytes <= 2 * NumFats * FatBytes
    BY <2>1, ChunkPlaces
  <2>3. copying' \in [dst : 1 .. NumFats, done : 0 .. FatBytes]
    <3>1. copying \in [dst : 1 .. NumFats, done : 0 .. FatBytes]
      BY DEF TypeOK
    <3>2. copying.done + ToCopy \in 0 .. FatBytes
      BY <2>2, <3>1, GeometryAssumption
    <3> QED
      BY <2>1, <3>1, <3>2
  <2>4. disk' \in [Places -> Nibble]
    <3> DEFINE base == 2 * FatBytes * copying.dst
               from == 2 * copying.done
    <3>1. disk' = [n \in Places |-> IF base + from <= n /\ n < base + from + 2 * ToCopy
                                   THEN disk[n - (base + from) + from] ELSE disk[n]]
      BY <1>8 DEF CopyChunk, CopyFrom, CopyTo
    <3>2. base \in Nat /\ from \in Nat
      <4>1. copying.done \in Nat
        BY GeometryAssumption DEF TypeOK
      <4> QED
        BY <2>2, <4>1
    <3> HIDE DEF base, from
    <3>3. \A n \in Places : base + from <= n => n - (base + from) + from \in Places
      BY <3>2, GeometryAssumption DEF Places
    <3> QED
      BY <3>1, <3>3 DEF TypeOK
  <2> QED
    BY <2>1, <2>3, <2>4 DEF TypeOK
<1>9. CASE NextCopy
  <2>1. copying' \in [dst : 1 .. NumFats, done : 0 .. FatBytes]
    BY <1>9, GeometryAssumption DEF NextCopy, TypeOK
  <2> QED
    BY <1>9, <2>1 DEF NextCopy, TypeOK
<1>10. CASE CloseDone \/ CloseReadOnly \/ Crash
  <2>1. /\ disk' = disk /\ mode' = "closed" /\ FirstWindow /\ ret' \in {ret, NoResult}
        /\ copying' \in {copying, [dst |-> 1, done |-> 0]}
    BY <1>10 DEF CloseDone, CloseReadOnly, Crash
  <2> QED
    BY <1>1, <2>1, GeometryAssumption DEF TypeOK
<1>11. CASE UNCHANGED vars
  BY <1>11 DEF vars, TypeOK
<1> QED
  BY <1>2, <1>3, <1>4, <1>5, <1>6, <1>7, <1>8, <1>9, <1>10, <1>11 DEF Next

\* A load that stops early leaves a mixture of the two windows.
LEMMA FrontType ==
    ASSUME NEW bytes, NEW new \in [0 .. 2 * BufferSize - 1 -> Nibble],
           NEW old \in [0 .. 2 * BufferSize - 1 -> Nibble]
    PROVE  Front(bytes, new, old) \in [0 .. 2 * BufferSize - 1 -> Nibble]
  BY DEF Front

LEMMA StepFaultInv == FaultInv /\ [FaultyNext]_vars => FaultInv'
<1> SUFFICES ASSUME FaultInv, [FaultyNext]_vars PROVE FaultInv'
  OBVIOUS
<1>1. ASSUME NEW c \in Cluster, NEW bytes \in 0 .. BufferSize - 1, FlushFails(c, bytes)
      PROVE  FaultInv'
  <2>1. disk' \in [Places -> Nibble]
    BY <1>1, ViewType DEF FlushFails, FaultInv, TypeOK
  <2> QED
    BY <1>1, <2>1 DEF FlushFails, FaultInv, TypeOK
<1>2. ASSUME NEW c \in Cluster, NEW bytes \in 0 .. BufferSize - 1, LoadFails(c, bytes)
      PROVE  FaultInv'
  <2>1. /\ mode \in {"rw", "ro"} /\ Miss(c)
        /\ disk' = Flushed /\ buffer' = Front(bytes, Load(disk', Offset(c)), buffer)
        /\ ret' \in {BadRead, Refused} /\ UNCHANGED <<start, mode, copying>>
    BY <1>2 DEF LoadFails
  <2>2. disk' \in [Places -> Nibble]
    BY <2>1, AccessTyped
  <2>3. Load(disk', Offset(c)) \in [0 .. 2 * BufferSize - 1 -> Nibble]
    BY <2>1, <2>2, AccessTyped, LoadType
  <2>4. buffer' \in [0 .. 2 * BufferSize - 1 -> Nibble]
    BY <2>1, <2>3, FrontType DEF FaultInv, TypeOK
  <2> QED
    BY <2>1, <2>2, <2>4 DEF FaultInv, TypeOK
<1> QED
  BY <1>1, <1>2, NextFaultInv DEF FaultyNext

\* The window may move, but an entry it does not reach keeps its value.
LEMMA StepConfined ==
    ASSUME FaultInv, [FaultyNext]_vars, ret' \in {BadRead, Refused}, mode # "closed"
    PROVE  KeptOutside
<1> SUFFICES ASSUME NEW n \in Places \ Other, ~InWindow(n)
             PROVE  View'[n] = View[n]
  BY DEF KeptOutside
<1>a. n \in Places /\ n \in Int /\ View[n] = disk[n] /\ disk \in [Places -> Nibble]
  BY DEF Places, View, FaultInv, TypeOK
<1>b. View'[n] = IF InWindow(n)' THEN buffer'[n - 2 * start'] ELSE disk'[n]
  BY <1>a DEF View
<1>1. ASSUME NEW c \in Cluster, Read(c) PROVE View'[n] = View[n]
  <2>1. mode \in {"rw", "ro"} /\ disk' = DiskFor(c) /\ start' = StartFor(c)
        /\ buffer' = BufferFor(c)
    BY <1>1 DEF Read
  <2>2. DiskFor(c)[n] = disk[n]
    BY <2>1, <1>a, AccessTyped
  <2>3. CASE ~Miss(c)
    <3>1. buffer' = buffer /\ start' = start
      BY <2>1, <2>3 DEF BufferFor, StartFor
    <3> QED
      BY <1>a, <1>b, <2>1, <2>2, <3>1 DEF InWindow
  <2>4. CASE Miss(c) /\ InWindow(n)'
    <3>1. buffer' = Load(DiskFor(c), start') /\ start' \in Nat
      BY <2>1, <2>4, AccessTyped DEF BufferFor, StartFor
    <3>2. n - 2 * start' \in 0 .. 2 * BufferSize - 1 /\ 2 * start' + (n - 2 * start') = n
      <4>1. PICK s \in Nat : s = start'
        BY <3>1
      <4>2. 2 * s <= n /\ n < 2 * (s + BufferSize) /\ BufferSize \in Nat
        BY <2>4, <4>1, GeometryAssumption DEF InWindow
      <4>3. n - 2 * s \in 0 .. 2 * BufferSize - 1 /\ 2 * s + (n - 2 * s) = n
        BY <1>a, <4>2
      <4> QED
        BY <4>1, <4>3
    <3>3. buffer'[n - 2 * start'] = DiskFor(c)[n]
      BY <3>1, <3>2 DEF Load
    <3> QED
      BY <1>a, <1>b, <2>2, <2>4, <3>3
  <2>5. CASE ~InWindow(n)'
    BY <1>a, <1>b, <2>1, <2>2, <2>5
  <2> QED
    BY <2>3, <2>4, <2>5
<1>2. ASSUME NEW c \in Cluster, NEW v \in Written, Write(c, v) PROVE FALSE
  BY <1>2, ResultAssumption DEF Write
<1>3. CASE ReadBeyondLast \/ WriteRefused \/ UNCHANGED vars \/ NextCopy
  <2>1. UNCHANGED <<disk, buffer, start>>
    BY <1>3 DEF ReadBeyondLast, WriteRefused, vars, NextCopy
  <2> QED
    BY <1>a, <1>b, <2>1 DEF InWindow
<1>4. ASSUME NEW k \in Other, NEW x \in Nibble, WriteOther(k, x) PROVE View'[n] = View[n]
  <2>1. UNCHANGED <<buffer, start>> /\ disk'[n] = disk[n]
    BY <1>4, <1>a DEF WriteOther
  <2> QED
    BY <1>a, <1>b, <2>1 DEF InWindow
<1>5. ~CopyChunk /\ ~CloseFlush /\ ~CloseDone /\ ~CloseReadOnly /\ ~Crash
      /\ \A m \in {"rw", "ro"} : ~Open(m)
  BY ResultAssumption
     DEF CopyChunk, CloseFlush, CloseDone, CloseReadOnly, Crash, Open, FaultInv
<1>6. ASSUME NEW c \in Cluster, NEW bytes \in 0 .. BufferSize - 1, FlushFails(c, bytes)
      PROVE  View'[n] = View[n]
  <2>1. UNCHANGED <<buffer, start>> /\ disk'[n] = disk[n]
    BY <1>6, <1>a DEF FlushFails
  <2> QED
    BY <1>a, <1>b, <2>1 DEF InWindow
<1>7. ASSUME NEW c \in Cluster, NEW bytes \in 0 .. BufferSize - 1, LoadFails(c, bytes)
      PROVE  View'[n] = View[n]
  <2>1. start' = start /\ disk' = Flushed /\ mode \in {"rw", "ro"}
    BY <1>7 DEF LoadFails
  <2>2. disk'[n] = disk[n]
    BY <2>1, <1>a, AccessTyped
  <2> QED
    BY <1>a, <1>b, <2>1, <2>2 DEF InWindow
<1> QED
  BY <1>1, <1>2, <1>3, <1>4, <1>5, <1>6, <1>7 DEF FaultyNext, Next

\* fat.c:47-61, 314-455: an entry access that reports a failure does no damage
\* to the FATs outside the window, wherever the failing transfer stopped.
THEOREM FailuresConfined == FaultySpec => FailureConfined
<1>1. FaultInv /\ [FaultyNext]_vars
        => [(ret' \in {BadRead, Refused} /\ mode # "closed") => KeptOutside]_vars
  BY StepConfined
<1> QED
  BY InitFaultInv, StepFaultInv, <1>1, PTL DEF FaultySpec, FailureConfined
=============================================================================

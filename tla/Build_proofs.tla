---------------------------- MODULE Build_proofs ----------------------------
(***************************************************************************)
(* What holds of lbt for every project without circles: which targets are   *)
(* called, and why an output that is found built is up to date, however     *)
(* earlier runs ended.                                                     *)
(***************************************************************************)
EXTENDS Build, Induction, FiniteSetTheorems, SequenceTheorems

-----------------------------------------------------------------------------
(* Lists *)

LEMMA ListedIs ==
    ASSUME NEW s, Listed(s)
    PROVE  Len(s) \in Nat /\ DOMAIN s = 1 .. Len(s)
  BY DEF Listed

LEMMA EmptyListed == Listed(<<>>) /\ Len(<<>>) = 0 /\ DOMAIN <<>> = {}
  BY DEF Listed, ToSet

LEMMA Relisted ==
    ASSUME NEW V, NEW s \in Seq(V)
    PROVE  Listed(s) /\ ToSet(s) \subseteq V
<1>1. /\ s = [k \in 1 .. Len(s) |-> s[k]] /\ Len(s) \in Nat
      /\ \A k \in 1 .. Len(s) : s[k] \in ToSet(s) /\ s[k] \in V
  BY DEF ToSet
<1>2. ToSet(s) \subseteq V
  BY DEF ToSet
<1> QED
  BY <1>1, <1>2 DEF Listed

LEMMA WiderList ==
    ASSUME NEW V, NEW s, Listed(s), ToSet(s) \subseteq V
    PROVE  s \in Seq(V)
<1>1. s \in [1 .. Len(s) -> ToSet(s)] /\ Len(s) \in Nat
  BY DEF Listed
<1>2. s \in [1 .. Len(s) -> V]
  BY <1>1
<1> QED
  BY <1>1, <1>2

LEMMA AppendListed ==
    ASSUME NEW s, Listed(s), NEW e
    PROVE  LET t == Append(s, e)
           IN  /\ Listed(t) /\ Len(t) = Len(s) + 1 /\ DOMAIN t = 1 .. Len(s) + 1
               /\ \A k \in 1 .. Len(s) : t[k] = s[k]
               /\ t[Len(s) + 1] = e
<1>1. PICK V : V = ToSet(s) \cup {e}
  OBVIOUS
<1>2. s \in Seq(V) /\ e \in V
  BY <1>1, WiderList
<1>3. PICK t : t = Append(s, e)
  OBVIOUS
<1>4. /\ t \in Seq(V) /\ Len(t) = Len(s) + 1 /\ DOMAIN t = 1 .. Len(s) + 1
      /\ \A k \in 1 .. Len(s) : t[k] = s[k]
      /\ t[Len(s) + 1] = e
  BY <1>2, <1>3
<1> QED
  BY <1>3, <1>4, Relisted

LEMMA ConcatListed ==
    ASSUME NEW s, NEW t, Listed(s), Listed(t)
    PROVE  LET u == s \o t
           IN  /\ Listed(u) /\ Len(u) = Len(s) + Len(t) /\ DOMAIN u = 1 .. Len(s) + Len(t)
               /\ \A k \in 1 .. Len(s) : u[k] = s[k]
               /\ \A k \in 1 .. Len(t) : u[Len(s) + k] = t[k]
               /\ ToSet(u) = ToSet(s) \cup ToSet(t)
<1>1. PICK V : V = ToSet(s) \cup ToSet(t)
  OBVIOUS
<1>2. s \in Seq(V) /\ t \in Seq(V)
  BY <1>1, WiderList
<1>3. PICK u : u = s \o t
  OBVIOUS
<1>4. /\ u \in Seq(V) /\ Len(u) = Len(s) + Len(t) /\ DOMAIN u = 1 .. Len(s) + Len(t)
      /\ Len(s) \in Nat /\ Len(t) \in Nat
  BY <1>2, <1>3
<1>5. \A k \in 1 .. Len(s) : u[k] = s[k]
  BY <1>2, <1>3
<1>6. ASSUME NEW k \in 1 .. Len(t)
      PROVE  u[Len(s) + k] = t[k]
  BY <1>2, <1>3, <1>4, <1>6, ConcatProperties
<1>7. Listed(u) /\ ToSet(u) \subseteq V
  BY <1>4, Relisted
<1>8. V \subseteq ToSet(u)
  <2>1. DOMAIN s = 1 .. Len(s) /\ DOMAIN t = 1 .. Len(t)
    BY ListedIs
  <2>2. \A k \in DOMAIN s : k \in DOMAIN u /\ u[k] = s[k]
    BY <1>4, <1>5, <2>1
  <2>3. \A k \in DOMAIN t : Len(s) + k \in DOMAIN u /\ u[Len(s) + k] = t[k]
    BY <1>4, <1>6, <2>1
  <2> QED
    BY <1>1, <2>2, <2>3 DEF ToSet
<1> QED
  BY <1>1, <1>3, <1>4, <1>5, <1>6, <1>7, <1>8

\* What FlattenSeq defines by recursion.
Flattening(f, n, s) == f = [i \in 1 .. n |-> IF i = 1 THEN s[i] ELSE f[i - 1] \o s[i]]

LEMMA Flattens ==
    ASSUME NEW s, NEW n \in Nat
    PROVE  \E f : Flattening(f, n, s)
<1> DEFINE T == {m \in Nat : \E f : Flattening(f, m, s)}
<1>1. 0 \in T
  <2>1. PICK f : f = [i \in 1 .. 0 |-> s[i]]
    OBVIOUS
  <2>2. f = [i \in 1 .. 0 |-> IF i = 1 THEN s[i] ELSE f[i - 1] \o s[i]]
    BY <2>1
  <2> QED
    BY <2>2 DEF Flattening
<1>2. ASSUME NEW m \in Nat, m \in T
      PROVE  m + 1 \in T
  <2>1. PICK f : Flattening(f, m, s)
    BY <1>2
  <2>2. PICK last : last = IF m + 1 = 1 THEN s[m + 1] ELSE f[m] \o s[m + 1]
    OBVIOUS
  <2>3. PICK g : g = [i \in 1 .. m + 1 |-> IF i = m + 1 THEN last ELSE f[i]]
    OBVIOUS
  <2>4a. \A i \in 1 .. m : f[i] = IF i = 1 THEN s[i] ELSE f[i - 1] \o s[i]
    BY <2>1 DEF Flattening
  <2>4b. \A i \in 1 .. m : g[i] = f[i]
    BY <2>3
  <2>4. \A i \in 1 .. m : g[i] = f[i] /\ f[i] = IF i = 1 THEN s[i] ELSE f[i - 1] \o s[i]
    BY <2>4a, <2>4b
  <2>5. ASSUME NEW i \in 1 .. m + 1
        PROVE  g[i] = IF i = 1 THEN s[i] ELSE g[i - 1] \o s[i]
    <3>1. CASE i = m + 1
      <4>1. i # 1 => i - 1 \in 1 .. m /\ i - 1 = m
        BY <3>1
      <4> QED
        BY <2>2, <2>3, <2>4, <3>1, <4>1
    <3>2. CASE i # m + 1
      <4>1. i \in 1 .. m /\ (i # 1 => i - 1 \in 1 .. m)
        BY <3>2
      <4> QED
        BY <2>4, <4>1
    <3> QED
      BY <3>1, <3>2
  <2>6. Flattening(g, m + 1, s)
    BY <2>3, <2>5 DEF Flattening
  <2> QED
    BY <2>6
<1> HIDE DEF T
<1>3. n \in T
  BY <1>1, <1>2, SetInduction
<1> QED
  BY <1>3 DEF T

\* What is read into one list from lists of elements of V.
Flat(w, k, s) ==
    /\ (\A i \in 1 .. k : Len(s[i]) = 1) => Len(w) = k
    /\ (\A i \in 1 .. k : Len(s[i]) <= 1) =>
           /\ Len(w) <= k
           /\ Len(w) = k => \A i \in 1 .. k : Len(s[i]) = 1 /\ w[i] = s[i][1]
    /\ (\A i \in 1 .. k : Len(s[i]) = 0) => w = <<>>

LEMMA FlatNext ==
    ASSUME NEW V, NEW s \in Seq(Seq(V)), NEW k \in Nat, k + 1 \in DOMAIN s,
           NEW v \in Seq(V), Flat(v, k, s)
    PROVE  LET w == v \o s[k + 1] IN w \in Seq(V) /\ Flat(w, k + 1, s)
<1>1. PICK e \in Seq(V) : e = s[k + 1]
  OBVIOUS
<1>2. PICK w : w = v \o e
  OBVIOUS
<1>3. /\ w \in Seq(V) /\ Len(w) = Len(v) + Len(e) /\ Len(v) \in Nat /\ Len(e) \in Nat
      /\ \A i \in 1 .. Len(v) : w[i] = v[i]
  BY <1>2
<1>4. Len(e) = 1 => w[Len(v) + 1] = e[1]
  BY <1>2, <1>3, ConcatProperties
<1>5. \A i \in 1 .. k + 1 : i \in 1 .. k \/ i = k + 1
  OBVIOUS
<1>6. ASSUME \A i \in 1 .. k + 1 : Len(s[i]) = 1
      PROVE  Len(w) = k + 1
  <2>1. Len(e) = 1 /\ \A i \in 1 .. k : Len(s[i]) = 1
    BY <1>1, <1>6
  <2>2. Len(v) = k
    BY <2>1 DEF Flat
  <2> QED
    BY <1>3, <2>1, <2>2
<1>7. ASSUME \A i \in 1 .. k + 1 : Len(s[i]) <= 1
      PROVE  /\ Len(w) <= k + 1
             /\ Len(w) = k + 1 => \A i \in 1 .. k + 1 : Len(s[i]) = 1 /\ w[i] = s[i][1]
  <2>1. Len(e) <= 1 /\ Len(v) <= k /\ (Len(v) = k => \A i \in 1 .. k : Len(s[i]) = 1 /\ v[i] = s[i][1])
    <3>1. Len(e) <= 1 /\ \A i \in 1 .. k : Len(s[i]) <= 1
      BY <1>1, <1>7
    <3> QED
      BY <3>1 DEF Flat
  <2>2. Len(w) <= k + 1 /\ (Len(w) = k + 1 => Len(v) = k /\ Len(e) = 1)
    <3>1. \A x, y \in Nat : y <= 1 /\ x <= k => x + y <= k + 1 /\ (x + y = k + 1 => x = k /\ y = 1)
      OBVIOUS
    <3> QED
      BY <1>3, <2>1, <3>1
  <2>3. ASSUME Len(w) = k + 1, NEW i \in 1 .. k + 1
        PROVE  Len(s[i]) = 1 /\ w[i] = s[i][1]
    <3>1. CASE i \in 1 .. k
      BY <1>3, <2>1, <2>2, <2>3, <3>1
    <3>2. CASE i = k + 1
      BY <1>1, <1>4, <2>2, <2>3, <3>2
    <3> QED
      BY <1>5, <3>1, <3>2
  <2> QED
    BY <2>2, <2>3
<1>8. ASSUME \A i \in 1 .. k + 1 : Len(s[i]) = 0
      PROVE  w = <<>>
  <2>1. Len(e) = 0 /\ v = <<>>
    BY <1>1, <1>5, <1>8 DEF Flat
  <2> QED
    BY <1>3, <2>1
<1> QED
  BY <1>1, <1>2, <1>3, <1>6, <1>7, <1>8 DEF Flat

LEMMA FlattenSeq_ ==
    ASSUME NEW V, NEW s \in Seq(Seq(V))
    PROVE  FlattenSeq(s) \in Seq(V) /\ Flat(FlattenSeq(s), Len(s), s)
<1>1. Len(s) \in Nat /\ DOMAIN s = 1 .. Len(s)
  OBVIOUS
<1>2. CASE Len(s) = 0
  <2>1. FlattenSeq(s) = s /\ s = <<>>
    BY <1>2 DEF FlattenSeq
  <2> QED
    BY <1>2, <2>1 DEF Flat
<1>3. CASE Len(s) # 0
  <2>1. PICK f : f = CHOOSE g : g = [i \in 1 .. Len(s) |-> IF i = 1 THEN s[i] ELSE g[i - 1] \o s[i]]
    OBVIOUS
  <2>2. FlattenSeq(s) = f[Len(s)]
    BY <1>3, <2>1 DEF FlattenSeq
  <2>3. f = CHOOSE g : Flattening(g, Len(s), s)
    BY <2>1 DEF Flattening
  <2>4. Flattening(f, Len(s), s)
    BY <1>1, <2>3, Flattens
  <2>5. \A i \in 1 .. Len(s) : f[i] = IF i = 1 THEN s[i] ELSE f[i - 1] \o s[i]
    BY <2>4 DEF Flattening
  <2> DEFINE T == {k \in Nat : k \in 1 .. Len(s) => f[k] \in Seq(V) /\ Flat(f[k], k, s)}
  <2>6. 0 \in T
    BY <1>1
  <2>7. ASSUME NEW k \in Nat, k \in T
        PROVE  k + 1 \in T
    <3>1. SUFFICES ASSUME k + 1 \in 1 .. Len(s)
                   PROVE  f[k + 1] \in Seq(V) /\ Flat(f[k + 1], k + 1, s)
      OBVIOUS
    <3>2. CASE k = 0
      <4>1. /\ <<>> \in Seq(V) /\ Flat(<<>>, 0, s)
        BY DEF Flat
      <4>2. s[1] \in Seq(V) /\ <<>> \o s[1] = s[1]
        BY <1>1, <3>1
      <4>3. f[k + 1] = <<>> \o s[k + 1]
        BY <2>5, <3>1, <3>2, <4>2
      <4> QED
        BY <1>1, <3>1, <3>2, <4>1, <4>3, FlatNext
    <3>3. CASE k # 0
      <4>1. k \in 1 .. Len(s) /\ k + 1 # 1 /\ (k + 1) - 1 = k
        BY <1>1, <3>1, <3>3
      <4>2. f[k] \in Seq(V) /\ Flat(f[k], k, s)
        BY <2>7, <4>1
      <4>3. f[k + 1] = f[k] \o s[k + 1]
        BY <2>5, <3>1, <4>1
      <4> QED
        BY <1>1, <3>1, <4>2, <4>3, FlatNext
    <3> QED
      BY <3>2, <3>3
  <2> HIDE DEF T
  <2>8. Len(s) \in T
    BY <1>1, <2>6, <2>7, SetInduction
  <2> QED
    BY <1>1, <1>3, <2>2, <2>8 DEF T
<1> QED
  BY <1>2, <1>3

\* The members of a finite set, listed.
LEMMA SetToSeq_ ==
    ASSUME NEW S, IsFiniteSet(S)
    PROVE  SetToSeq(S) \in Seq(S)
<1>1. PICK n \in Nat : n = Cardinality(S) /\ ExistsBijection(1 .. n, S)
  BY FS_CardinalityType
<1>2. \E f \in [1 .. n -> S] : IsInjective(f)
  BY <1>1 DEF ExistsBijection, Bijection, Injection, IsInjective
<1>3. SetToSeq(S) \in [1 .. n -> S]
  BY <1>1, <1>2 DEF SetToSeq
<1> QED
  BY <1>1, <1>3

\* Lists of lists read into one.
LEMMA FlattenLists ==
    ASSUME NEW s, Listed(s), \A i \in DOMAIN s : Listed(s[i])
    PROVE  Listed(FlattenSeq(s)) /\ Flat(FlattenSeq(s), Len(s), s)
<1>1. PICK V : V = UNION {ToSet(s[i]) : i \in DOMAIN s}
  OBVIOUS
<1>2. \A i \in DOMAIN s : s[i] \in Seq(V)
  <2>1. TAKE i \in DOMAIN s
  <2>2. ToSet(s[i]) \subseteq V
    BY <1>1
  <2> QED
    BY <2>2, WiderList
<1>3. s \in Seq(Seq(V))
  <2>1. ToSet(s) \subseteq Seq(V)
    BY <1>2 DEF ToSet
  <2> QED
    BY <2>1, WiderList
<1>4. FlattenSeq(s) \in Seq(V) /\ Flat(FlattenSeq(s), Len(s), s)
  BY <1>3, FlattenSeq_
<1> QED
  BY <1>4, Relisted

LEMMA SameList ==
    ASSUME NEW s, NEW t, Listed(s), Listed(t), Len(s) = Len(t),
           \A i \in 1 .. Len(s) : s[i] = t[i]
    PROVE  s = t
<1>1. PICK V : V = ToSet(s) \cup ToSet(t)
  OBVIOUS
<1>2. s \in Seq(V) /\ t \in Seq(V)
  BY <1>1, WiderList
<1> QED
  BY <1>2, SeqEqual

-----------------------------------------------------------------------------
(* The calls of execute_target *)

\* What a target that is asked for gives.
Gives(given, t) == IF IsElsewhere(t) THEN <<>> ELSE OutputsMade(given, t)

LEMMA JobsListed ==
    ASSUME NEW t \in Targets, NEW inputs, Listed(inputs)
    PROVE  Listed(Jobs(t, inputs))
<1>1. inputs \in Seq(ToSet(inputs)) /\ DOMAIN inputs = 1 .. Len(inputs) /\ Len(inputs) \in Nat
  BY DEF Listed
<1>2. CASE inputs = <<>>
  BY <1>2, EmptyListed DEF Jobs
<1>3. CASE inputs # <<>> /\ ForEach(t)
  <2>1. PICK s : s = [i \in 1 .. Len(inputs) |->
                        [tool |-> Config[t].out, inputs |-> <<inputs[i]>>,
                         output |-> Replaced(OutPath(t), inputs[i])]]
    OBVIOUS
  <2>2. Jobs(t, inputs) = s
    BY <1>1, <1>3, <2>1 DEF Jobs
  <2>3. s \in Seq(ToSet(s))
    <3>1. DOMAIN s = 1 .. Len(inputs)
      BY <2>1
    <3>2. \A i \in DOMAIN s : s[i] \in ToSet(s)
      BY DEF ToSet
    <3>3. s \in [1 .. Len(inputs) -> ToSet(s)]
      BY <2>1, <3>1, <3>2
    <3> QED
      BY <1>1, <3>3
  <2> QED
    BY <2>2, <2>3 DEF Listed
<1>4. CASE inputs # <<>> /\ ~ForEach(t)
  <2>1. PICK job : Jobs(t, inputs) = <<job>>
    BY <1>4 DEF Jobs
  <2>2. <<job>> \in Seq({job})
    OBVIOUS
  <2> QED
    BY <2>1, <2>2, Relisted
<1> QED
  BY <1>2, <1>3, <1>4

LEMMA OutputsListed ==
    ASSUME NEW given, NEW t, Listed(JobsOf(given, t))
    PROVE  /\ Listed(OutputsMade(given, t))
           /\ Len(OutputsMade(given, t)) = Len(JobsOf(given, t))
           /\ \A i \in DOMAIN JobsOf(given, t) :
                 OutputsMade(given, t)[i] = JobsOf(given, t)[i].output
<1>1. PICK s : s = JobsOf(given, t)
  OBVIOUS
<1>2. PICK o : o = [i \in DOMAIN s |-> s[i].output]
  OBVIOUS
<1>3. DOMAIN s = 1 .. Len(s) /\ Len(s) \in Nat
  BY <1>1, ListedIs
<1>4. \A i \in DOMAIN o : o[i] \in ToSet(o)
  BY DEF ToSet
<1>5. o \in [1 .. Len(s) -> ToSet(o)]
  BY <1>2, <1>3, <1>4
<1>6. o \in Seq(ToSet(o)) /\ Len(o) = Len(s)
  BY <1>3, <1>5
<1> QED
  BY <1>1, <1>2, <1>6 DEF Listed, OutputsMade

\* What Planned says of the lists that targets give.
LEMMA GivenListed ==
    ASSUME NEW given, Planned(given), NEW t \in Here
    PROVE  /\ Listed(InputsOf(given, t)) /\ Listed(JobsOf(given, t))
           /\ Listed(OutputsMade(given, t))
           /\ \A k \in 0 .. Len(Config[t].depends) : Listed(given[t][k])
<1>1. t \in Targets
  BY DEF Here
<1>2. \A k \in 0 .. Len(Config[t].depends) : Listed(given[t][k])
  BY DEF Planned
<1>3. Len(Config[t].depends) \in Nat /\ Config[t].files \in Seq(Sources)
  BY <1>1, BuildAssumption, ListedIs
<1>4. Listed(given[t][Len(Config[t].depends)]) /\ Listed(Config[t].files)
  BY <1>2, <1>3, Relisted
<1>5. Listed(InputsOf(given, t))
  BY <1>4, ConcatListed DEF InputsOf
<1>6. Listed(JobsOf(given, t))
  BY <1>1, <1>5, JobsListed DEF JobsOf
<1> QED
  BY <1>2, <1>5, <1>6, OutputsListed

\* A call that is walked: what it has gathered, of the sources and of what is
\* made already, and what it has given.
Call(given, made, f) ==
    /\ f.target \in Here /\ f.next \in Nat \ {0}
    /\ f = [target |-> f.target, phase |-> f.phase, next |-> f.next,
            inputs |-> f.inputs, outputs |-> f.outputs]
    /\ Listed(f.inputs) /\ ToSet(f.inputs) \subseteq Sources \cup made /\ Listed(f.outputs)
    /\ \/ f.phase = "before" /\ f.inputs = <<>> /\ f.outputs = <<>>
       \/ /\ f.phase = "depends" /\ f.next <= Len(Config[f.target].depends) + 1
          /\ f.outputs = <<>>
       \/ /\ f.phase = "files" /\ f.next = 1 /\ f.outputs = <<>>
          /\ f.inputs = given[f.target][Len(Config[f.target].depends)]
       \/ /\ f.phase = "each" /\ f.inputs = InputsOf(given, f.target)
          /\ f.next <= Len(JobsOf(given, f.target)) + 1
          /\ Len(f.outputs) = f.next - 1
          /\ \A i \in 1 .. f.next - 1 : f.outputs[i] = OutputsMade(given, f.target)[i]
       \/ /\ f.phase = "run" /\ f.inputs = InputsOf(given, f.target)
          /\ f.outputs = OutputsMade(given, f.target)

\* It is at work: it has the outputs of all it asked for.
Works(given, f) == f.phase = "depends" => f.inputs = given[f.target][f.next - 1]

\* It waits for d.
Waits(given, f, d) ==
    /\ f.next >= 2
    /\ \/ /\ f.phase = "before" /\ f.next - 1 \in DOMAIN Config[f.target].before
          /\ d = Config[f.target].before[f.next - 1]
       \/ /\ f.phase = "depends" /\ d = Config[f.target].depends[f.next - 1]
          /\ f.inputs = given[f.target][f.next - 2]

Stacked(given, made, s) ==
    /\ Listed(s)
    /\ \A i \in 1 .. Len(s) : Call(given, made, s[i])
    /\ \A i \in 1 .. Len(s) - 1 : Waits(given, s[i], s[i + 1].target)
    /\ s # <<>> => Works(given, s[Len(s)])

LEMMA TopReplaced ==
    ASSUME NEW s, Listed(s), s # <<>>, NEW e
    PROVE  LET t == ReplaceAt(s, Len(s), e)
           IN  /\ Listed(t) /\ Len(t) = Len(s) /\ t # <<>> /\ t[Len(s)] = e
               /\ \A i \in 1 .. Len(s) - 1 : t[i] = s[i]
<1>1. PICK V : V = ToSet(s) \cup {e}
  OBVIOUS
<1>2. s \in Seq(V) /\ e \in V
  BY <1>1, WiderList
<1>3. Len(s) \in DOMAIN s /\ Len(s) \in Nat \ {0} /\ DOMAIN s = 1 .. Len(s)
  BY <1>2
<1>4. PICK t : t = [s EXCEPT ![Len(s)] = e]
  OBVIOUS
<1>5. t \in Seq(V) /\ Len(t) = Len(s) /\ t[Len(s)] = e /\ \A i \in 1 .. Len(s) - 1 : t[i] = s[i]
  BY <1>2, <1>3, <1>4
<1>6. t # <<>>
  BY <1>3, <1>5
<1> QED
  BY <1>4, <1>5, <1>6, Relisted DEF ReplaceAt

LEMMA FrontListed ==
    ASSUME NEW s, Listed(s), s # <<>>
    PROVE  /\ Listed(Front(s)) /\ Len(Front(s)) = Len(s) - 1
           /\ \A i \in 1 .. Len(s) - 1 : Front(s)[i] = s[i]
           /\ Len(s) \in Nat \ {0}
<1>1. PICK V : V = ToSet(s)
  OBVIOUS
<1>2. s \in Seq(V) /\ Len(s) \in Nat \ {0}
  BY <1>1 DEF Listed
<1>3. PICK t : t = SubSeq(s, 1, Len(s) - 1)
  OBVIOUS
<1>4. t \in Seq(V) /\ Len(t) = Len(s) - 1 /\ \A i \in 1 .. Len(s) - 1 : t[i] = s[i]
  <2>0. PICK n : n = Len(s) - 1
    OBVIOUS
  <2>1. n \in Nat /\ n = Len(s) - 1 /\ n <= Len(s)
    BY <1>2, <2>0
  <2>2. \A i \in 1 .. n : s[i] \in V
    BY <1>2, <2>1
  <2>3. t = SubSeq(s, 1, n)
    BY <1>3, <2>1
  <2>4. Len(t) = n /\ t \in Seq(V)
    BY <1>2, <2>1, <2>2, <2>3
  <2>5. \A i \in 1 .. n : t[i] = s[i]
    BY <1>2, <2>1, <2>2, <2>3
  <2> QED
    BY <2>1, <2>4, <2>5
<1> QED
  BY <1>2, <1>3, <1>4, Relisted DEF Front

\* The call at the top goes on.
LEMMA TopGoesOn ==
    ASSUME NEW given, NEW made, NEW s, Stacked(given, made, s), s # <<>>,
           NEW f, Call(given, made, f), Works(given, f), f.target = s[Len(s)].target
    PROVE  Stacked(given, made, ReplaceAt(s, Len(s), f))
<1>1. PICK t : t = ReplaceAt(s, Len(s), f)
  OBVIOUS
<1>2. /\ Listed(t) /\ Len(t) = Len(s) /\ t[Len(s)] = f /\ Len(s) \in Nat
      /\ \A i \in 1 .. Len(s) - 1 : t[i] = s[i]
  BY <1>1, TopReplaced, ListedIs DEF Stacked
<1>3. ASSUME NEW i \in 1 .. Len(s)
      PROVE  Call(given, made, t[i])
  <2>1. i = Len(s) \/ i \in 1 .. Len(s) - 1
    BY <1>2
  <2>2. Call(given, made, s[i])
    BY DEF Stacked
  <2> QED
    BY <1>2, <2>1, <2>2
<1>4. ASSUME NEW i \in 1 .. Len(s) - 1
      PROVE  Waits(given, t[i], t[i + 1].target)
  <2>1. Waits(given, s[i], s[i + 1].target) /\ t[i] = s[i]
    BY <1>2 DEF Stacked
  <2>2. i + 1 = Len(s) \/ i + 1 \in 1 .. Len(s) - 1
    BY <1>2
  <2>3. t[i + 1].target = s[i + 1].target
    BY <1>2, <2>2
  <2> QED
    BY <2>1, <2>3
<1> QED
  BY <1>1, <1>2, <1>3, <1>4 DEF Stacked

LEMMA NewFrameIs ==
    ASSUME NEW given, Planned(given), NEW made, NEW d \in Here
    PROVE  /\ Call(given, made, NewFrame(d)) /\ Works(given, NewFrame(d))
           /\ NewFrame(d).target = d /\ NewFrame(d).inputs = <<>> /\ NewFrame(d).outputs = <<>>
           /\ NewFrame(d).phase = "before"
<1>1. PICK f : f = [target |-> d, phase |-> "before", next |-> 1,
                    inputs |-> <<>>, outputs |-> <<>>]
  OBVIOUS
<1>2. /\ f.target = d /\ f.phase = "before" /\ f.next = 1 /\ f.inputs = <<>> /\ f.outputs = <<>>
      /\ f = [target |-> f.target, phase |-> f.phase, next |-> f.next,
              inputs |-> f.inputs, outputs |-> f.outputs]
  BY <1>1
<1>3. Listed(<<>>) /\ ToSet(<<>>) = {}
  BY EmptyListed DEF ToSet
<1>4. f.phase # "depends"
  BY <1>2
<1>5. Call(given, made, f) /\ Works(given, f)
  BY <1>2, <1>3, <1>4 DEF Call, Works
<1> QED
  BY <1>1, <1>2, <1>5 DEF NewFrame

\* It calls another.
LEMMA TopCalls ==
    ASSUME NEW given, Planned(given), NEW made, NEW s, Stacked(given, made, s), s # <<>>,
           NEW f, Call(given, made, f), f.target = s[Len(s)].target,
           NEW d \in Here, Waits(given, f, d)
    PROVE  Stacked(given, made, Append(ReplaceAt(s, Len(s), f), NewFrame(d)))
<1>1. PICK t : t = ReplaceAt(s, Len(s), f)
  OBVIOUS
<1>2. /\ Listed(t) /\ Len(t) = Len(s) /\ t[Len(s)] = f /\ Len(s) \in Nat
      /\ \A i \in 1 .. Len(s) - 1 : t[i] = s[i]
  BY <1>1, TopReplaced, ListedIs DEF Stacked
<1>3. PICK u : u = Append(t, NewFrame(d))
  OBVIOUS
<1>4. /\ Listed(u) /\ Len(u) = Len(s) + 1 /\ u[Len(s) + 1] = NewFrame(d) /\ u[Len(s)] = f
      /\ \A i \in 1 .. Len(s) - 1 : u[i] = s[i]
  <2>1. \A i \in 1 .. Len(s) - 1 : i \in 1 .. Len(s)
    BY <1>2
  <2>2. Len(s) \in 1 .. Len(s)
    BY TopReplaced, ListedIs DEF Stacked, Listed
  <2> QED
    BY <1>2, <1>3, <2>1, <2>2, AppendListed
<1>5. ASSUME NEW i \in 1 .. Len(s) + 1
      PROVE  Call(given, made, u[i])
  <2>1. i = Len(s) + 1 \/ i = Len(s) \/ i \in 1 .. Len(s) - 1
    BY <1>2
  <2>2. i \in 1 .. Len(s) - 1 => Call(given, made, s[i])
    BY <1>2 DEF Stacked
  <2> QED
    BY <1>4, <2>1, <2>2, NewFrameIs
<1>6. ASSUME NEW i \in 1 .. Len(s)
      PROVE  Waits(given, u[i], u[i + 1].target)
  <2>1. CASE i = Len(s)
    BY <1>4, <2>1, NewFrameIs
  <2>2. CASE i # Len(s)
    <3>1. i \in 1 .. Len(s) - 1
      BY <1>2, <2>2
    <3>2. Waits(given, s[i], s[i + 1].target) /\ u[i] = s[i]
      BY <1>4, <3>1 DEF Stacked
    <3>3. i + 1 = Len(s) \/ i + 1 \in 1 .. Len(s) - 1
      BY <1>2, <3>1
    <3>4. u[i + 1].target = s[i + 1].target
      BY <1>4, <3>3
    <3> QED
      BY <3>2, <3>4
  <2> QED
    BY <2>1, <2>2
<1>7. Len(u) - 1 = Len(s)
  BY <1>2, <1>4
<1> QED
  BY <1>1, <1>3, <1>4, <1>5, <1>6, <1>7, NewFrameIs DEF Stacked

LEMMA TopIs ==
    ASSUME NEW given, NEW made, Stacked(given, made, stack), stack # <<>>
    PROVE  /\ Call(given, made, Top) /\ Works(given, Top)
           /\ Top.target \in Here /\ Top.target \in Targets
           /\ Len(stack) \in 1 .. Len(stack) /\ Len(stack) \in Nat
<1>1. Len(stack) \in 1 .. Len(stack) /\ Len(stack) \in Nat
  BY TopReplaced DEF Stacked, Listed
<1>2. Call(given, made, Top)
  BY <1>1 DEF Stacked, Top
<1> QED
  BY <1>1, <1>2 DEF Stacked, Top, Call, Here

\* What the call at the top has made goes to the one that waits for it.
LEMMA TopReturns ==
    ASSUME NEW given, Planned(given), NEW made, Stacked(given, made, stack), stack # <<>>,
           Top.phase = "run", ToSet(Top.outputs) \subseteq made
    PROVE  Stacked(given, made, Return(Top.outputs))
<1>1. PICK below : below = Front(stack)
  OBVIOUS
<1>2. /\ Listed(below) /\ Len(below) = Len(stack) - 1 /\ Len(stack) \in Nat \ {0}
      /\ \A i \in 1 .. Len(stack) - 1 : below[i] = stack[i]
  BY <1>1, FrontListed DEF Stacked
<1>3. \A i \in 1 .. Len(stack) - 1 : i \in 1 .. Len(stack)
  BY <1>2
<1>4. \A i \in 1 .. Len(below) : Call(given, made, below[i])
  BY <1>2, <1>3 DEF Stacked
<1>5. \A i \in 1 .. Len(below) - 1 : Waits(given, below[i], below[i + 1].target)
  <2>1. TAKE i \in 1 .. Len(below) - 1
  <2>2. i \in 1 .. Len(stack) - 1 /\ i + 1 \in 1 .. Len(stack) - 1
    BY <1>2
  <2> QED
    BY <1>2, <2>2 DEF Stacked
<1>6. CASE below = <<>>
  <2>1. Return(Top.outputs) = <<>>
    BY <1>1, <1>6 DEF Return
  <2> QED
    BY <2>1, EmptyListed DEF Stacked
<1>7. CASE below # <<>>
  <2>1. PICK caller : caller = below[Len(below)]
    OBVIOUS
  <2>2. Len(below) \in 1 .. Len(below) /\ Len(below) \in 1 .. Len(stack) - 1
    BY <1>2, <1>7, TopReplaced DEF Listed
  <2>3. Call(given, made, caller) /\ Waits(given, caller, Top.target)
    <3>1. Waits(given, stack[Len(below)], stack[Len(below) + 1].target)
      BY <2>2 DEF Stacked
    <3>2. Len(below) + 1 = Len(stack)
      BY <1>2
    <3> QED
      BY <1>2, <1>4, <2>1, <2>2, <3>1, <3>2 DEF Top
  <2>4. CASE caller.phase # "depends"
    <3>1. Return(Top.outputs) = below
      BY <1>1, <2>1, <2>4 DEF Return
    <3>2. Works(given, caller)
      BY <2>4 DEF Works
    <3> QED
      BY <1>2, <1>4, <1>5, <2>1, <3>1, <3>2 DEF Stacked
  <2>5. CASE caller.phase = "depends"
    <3>1. PICK f : f = [caller EXCEPT !.inputs = @ \o Top.outputs]
      OBVIOUS
    <3>2. Return(Top.outputs) = ReplaceAt(below, Len(below), f)
      BY <1>1, <1>7, <2>1, <2>5, <3>1 DEF Return
    <3>3. /\ f.target = caller.target /\ f.phase = "depends" /\ f.next = caller.next
          /\ f.inputs = caller.inputs \o Top.outputs /\ f.outputs = caller.outputs
          /\ f = [target |-> f.target, phase |-> f.phase, next |-> f.next,
                  inputs |-> f.inputs, outputs |-> f.outputs]
      BY <2>3, <2>5, <3>1 DEF Call
    <3>4. PICK needs : needs = Config[caller.target].depends
      OBVIOUS
    <3>5. /\ caller.target \in Here /\ caller.next \in Nat /\ caller.next >= 2
          /\ caller.next <= Len(needs) + 1 /\ Top.target = needs[caller.next - 1]
          /\ caller.inputs = given[caller.target][caller.next - 2] /\ Len(needs) \in Nat
      <4>1. caller.target \in Targets
        BY <2>3 DEF Call, Here
      <4>2. Len(needs) \in Nat
        BY <3>4, <4>1, BuildAssumption, ListedIs
      <4> QED
        BY <2>3, <2>5, <3>4, <4>2 DEF Call, Waits
    <3>6. PICK k : k = caller.next - 1
      OBVIOUS
    <3>7. k \in 1 .. Len(needs) /\ k - 1 = caller.next - 2
      BY <3>5, <3>6
    <3>8. given[caller.target][k] = given[caller.target][k - 1] \o
             (IF IsElsewhere(needs[k]) THEN <<>> ELSE OutputsMade(given, needs[k]))
      BY <3>4, <3>5, <3>7 DEF Planned
    <3>9. Top.outputs = OutputsMade(given, Top.target) /\ ~IsElsewhere(Top.target)
      BY TopIs DEF Call, IsElsewhere, Here
    <3>10. f.inputs = given[caller.target][k]
      BY <3>3, <3>5, <3>6, <3>7, <3>8, <3>9
    <3>11. Works(given, f)
      BY <3>3, <3>6, <3>10 DEF Works
    <3>12. Call(given, made, f)
      <4>1. Listed(f.inputs) /\ ToSet(f.inputs) \subseteq Sources \cup made
        <5>1. Listed(caller.inputs) /\ ToSet(caller.inputs) \subseteq Sources \cup made
          BY <2>3 DEF Call
        <5>2. Listed(Top.outputs)
          BY TopIs DEF Call
        <5> QED
          BY <3>3, <5>1, <5>2, ConcatListed
      <4> QED
        BY <2>3, <2>5, <3>3, <3>4, <3>5, <4>1 DEF Call
    <3>13. Stacked(given, made, ReplaceAt(below, Len(below), f))
      <4>1. PICK t : t = ReplaceAt(below, Len(below), f)
        OBVIOUS
      <4>2. /\ Listed(t) /\ Len(t) = Len(below) /\ t[Len(below)] = f
            /\ \A i \in 1 .. Len(below) - 1 : t[i] = below[i]
        BY <1>2, <1>7, <4>1, TopReplaced
      <4>3. ASSUME NEW i \in 1 .. Len(below)
            PROVE  Call(given, made, t[i])
        <5>1. i = Len(below) \/ i \in 1 .. Len(below) - 1
          BY <1>2
        <5> QED
          BY <1>4, <3>12, <4>2, <5>1
      <4>4. ASSUME NEW i \in 1 .. Len(below) - 1
            PROVE  Waits(given, t[i], t[i + 1].target)
        <5>1. i + 1 = Len(below) \/ i + 1 \in 1 .. Len(below) - 1
          BY <1>2
        <5>2. t[i + 1].target = below[i + 1].target
          BY <2>1, <3>3, <4>2, <5>1
        <5> QED
          BY <1>5, <4>2, <5>2
      <4> QED
        BY <3>11, <4>1, <4>2, <4>3, <4>4 DEF Stacked
    <3> QED
      BY <3>2, <3>13
  <2> QED
    BY <2>4, <2>5
<1> QED
  BY <1>6, <1>7

LEMMA JobsAre ==
    ASSUME NEW t \in Targets, NEW inputs, Listed(inputs), NEW i \in DOMAIN Jobs(t, inputs)
    PROVE  LET job == Jobs(t, inputs)[i]
           IN  /\ Listed(job.inputs) /\ ToSet(job.inputs) \subseteq ToSet(inputs)
               /\ job = [tool |-> job.tool, inputs |-> job.inputs, output |-> job.output]
<1>1. inputs # <<>>
  BY EmptyListed DEF Jobs
<1>2. CASE ForEach(t)
  <2>1. PICK input : input = inputs[i]
    OBVIOUS
  <2>2. i \in DOMAIN inputs /\ input \in ToSet(inputs)
    BY <1>1, <1>2, <2>1 DEF Jobs, ToSet
  <2>3. PICK job : job = [tool |-> Config[t].out, inputs |-> <<input>>,
                          output |-> Replaced(OutPath(t), input)]
    OBVIOUS
  <2>4. Jobs(t, inputs)[i] = job
    BY <1>1, <1>2, <2>1, <2>2, <2>3 DEF Jobs
  <2>5. job = [tool |-> job.tool, inputs |-> job.inputs, output |-> job.output] /\ job.inputs = <<input>>
    BY <2>3
  <2>6. <<input>> \in Seq({input})
    OBVIOUS
  <2>7. Listed(<<input>>) /\ ToSet(<<input>>) \subseteq {input}
    BY <2>6, Relisted
  <2> QED
    BY <2>2, <2>4, <2>5, <2>7
<1>3. CASE ~ForEach(t)
  <2>1. PICK job : job = [tool |-> Config[t].out, inputs |-> inputs,
                          output |-> Replaced(OutPath(t), inputs[1])]
    OBVIOUS
  <2>2. Jobs(t, inputs) = <<job>>
    BY <1>1, <1>3, <2>1 DEF Jobs
  <2>3. Jobs(t, inputs)[i] = job
    BY <2>2
  <2> QED
    BY <2>1, <2>3
<1> QED
  BY <1>2, <1>3

\* Every job is one of a target of this system.
LEMMA AllJobsAre ==
    ASSUME NEW given, Planned(given), NEW job \in AllJobs(given)
    PROVE  /\ Listed(job.inputs)
           /\ job = [tool |-> job.tool, inputs |-> job.inputs, output |-> job.output]
<1>1. PICK t \in Here : job \in ToSet(JobsOf(given, t))
  BY DEF AllJobs
<1>2. PICK i \in DOMAIN JobsOf(given, t) : job = JobsOf(given, t)[i]
  BY <1>1 DEF ToSet
<1>3. t \in Targets /\ Listed(InputsOf(given, t))
  BY GivenListed DEF Here
<1> QED
  BY <1>2, <1>3, JobsAre DEF JobsOf

LEMMA JobIs ==
    ASSUME NEW given, Planned(given), NEW made, Stacked(given, made, stack), HasJob
    PROVE  /\ Job = JobsOf(given, Top.target)[Top.next]
           /\ Top.next \in DOMAIN JobsOf(given, Top.target)
           /\ Job.output = OutputsMade(given, Top.target)[Top.next]
           /\ Job \in AllJobs(given) /\ ToSet(Job.inputs) \subseteq Sources \cup made
<1>1. Call(given, made, Top) /\ Top.target \in Here /\ Top.target \in Targets /\ Top.phase = "each"
  BY TopIs DEF HasJob
<1>2. Top.inputs = InputsOf(given, Top.target) /\ Top.next \in Nat \ {0}
      /\ ToSet(Top.inputs) \subseteq Sources \cup made
  BY <1>1 DEF Call
<1>3. Listed(InputsOf(given, Top.target)) /\ Listed(JobsOf(given, Top.target))
  BY <1>1, GivenListed
<1>4. Jobs(Top.target, Top.inputs) = JobsOf(given, Top.target)
  BY <1>2 DEF JobsOf
<1>5. Top.next \in DOMAIN JobsOf(given, Top.target)
  <2>1. Top.next <= Len(JobsOf(given, Top.target))
    BY <1>4 DEF HasJob
  <2> QED
    BY <1>2, <1>3, <2>1, ListedIs
<1>6. Job = JobsOf(given, Top.target)[Top.next]
  BY <1>4 DEF Job
<1>7. Job \in AllJobs(given)
  BY <1>1, <1>5, <1>6 DEF AllJobs, ToSet
<1>8. ToSet(Job.inputs) \subseteq ToSet(Top.inputs)
  BY <1>1, <1>2, <1>3, <1>4, <1>5, <1>6, JobsAre
<1> QED
  BY <1>2, <1>3, <1>5, <1>6, <1>7, <1>8, OutputsListed

LEMMA JobIsDone ==
    ASSUME NEW given, Planned(given), NEW made, Stacked(given, made, stack), HasJob
    PROVE  Stacked(given, made, JobDone)
<1>1. Call(given, made, Top) /\ Top.target \in Here /\ Top.phase = "each" /\ stack # <<>>
  BY TopIs DEF HasJob
<1>2. PICK o : o = Append(Top.outputs, Job.output)
  OBVIOUS
<1>3. PICK f : f = [Top EXCEPT !.next = @ + 1, !.outputs = Append(@, Job.output)]
  OBVIOUS
<1>4. /\ f.target = Top.target /\ f.phase = "each" /\ f.next = Top.next + 1
      /\ f.inputs = Top.inputs /\ f.outputs = o
      /\ f = [target |-> f.target, phase |-> f.phase, next |-> f.next,
              inputs |-> f.inputs, outputs |-> f.outputs]
  BY <1>1, <1>2, <1>3 DEF Call
<1>5. /\ Listed(Top.outputs) /\ Len(Top.outputs) = Top.next - 1 /\ Top.next \in Nat \ {0}
      /\ \A i \in 1 .. Top.next - 1 : Top.outputs[i] = OutputsMade(given, Top.target)[i]
      /\ Top.inputs = InputsOf(given, Top.target)
  BY <1>1 DEF Call
<1>6. /\ Listed(o) /\ Len(o) = Top.next /\ o[Top.next] = Job.output
      /\ \A i \in 1 .. Top.next - 1 : o[i] = Top.outputs[i]
  <2>1. (Top.next - 1) + 1 = Top.next
    BY <1>5
  <2> QED
    BY <1>2, <1>5, <2>1, AppendListed
<1>7. Job.output = OutputsMade(given, Top.target)[Top.next]
      /\ Top.next <= Len(JobsOf(given, Top.target))
  <2>1. Top.next \in DOMAIN JobsOf(given, Top.target) /\ Listed(JobsOf(given, Top.target))
    BY <1>1, JobIs, GivenListed
  <2> QED
    BY <2>1, JobIs, ListedIs
<1>8. \A i \in 1 .. Top.next : o[i] = OutputsMade(given, Top.target)[i]
  <2>1. \A i \in 1 .. Top.next : i = Top.next \/ i \in 1 .. Top.next - 1
    BY <1>5
  <2> QED
    BY <1>5, <1>6, <1>7, <2>1
<1>9. f.next \in Nat \ {0} /\ f.next - 1 = Top.next /\ f.next <= Len(JobsOf(given, Top.target)) + 1
  <2>1. Len(JobsOf(given, Top.target)) \in Nat
    BY <1>1, GivenListed, ListedIs
  <2> QED
    BY <1>4, <1>5, <1>7, <2>1
<1>10. Call(given, made, f)
  BY <1>1, <1>4, <1>5, <1>6, <1>8, <1>9 DEF Call
<1>11. Works(given, f)
  BY <1>4 DEF Works
<1> QED
  BY <1>1, <1>3, <1>4, <1>10, <1>11, TopGoesOn DEF JobDone, SetTop, Top

\* What the targets that are done gave.
Yielded == UNION {ToSet(executed[t]) : t \in DOMAIN executed}

\* Where a run is in its walk of the targets.
WalkOK(given) ==
    /\ Listed(queue)
    /\ Stacked(given, Yielded, stack)
    /\ \A t \in DOMAIN executed : t \in Here /\ executed[t] = OutputsMade(given, t)
    /\ pc \in {"idle", "walk", "tool", "record", "write", "writing"}
    /\ pc \in {"tool", "record"} => HasJob
    /\ pc \notin {"walk", "tool", "record"} => stack = <<>>

LEMMA EmptyStack ==
    ASSUME NEW given, NEW made
    PROVE  Stacked(given, made, <<>>)
  BY EmptyListed DEF Stacked

\* One more target in the list of those required.
LEMMA Requires ==
    ASSUME NEW given, Planned(given), WalkOK(given), stack # <<>>,
           NEW phase, NEW list, NEW after, Require(phase, list, after), Listed(list),
           \/ phase = "before" /\ after = "depends" /\ list = Config[Top.target].before
           \/ phase = "depends" /\ after = "files" /\ list = Config[Top.target].depends
    PROVE  Stacked(given, Yielded, stack')
<1>1. /\ Stacked(given, Yielded, stack) /\ Call(given, Yielded, Top) /\ Works(given, Top)
      /\ Top.target \in Here /\ Top.target \in Targets /\ Top.phase = phase
  BY TopIs DEF WalkOK, Require
<1>2. /\ Top.next \in Nat \ {0} /\ Len(list) \in Nat /\ DOMAIN list = 1 .. Len(list)
      /\ Top.outputs = <<>> /\ Listed(Top.inputs) /\ ToSet(Top.inputs) \subseteq Sources \cup Yielded
      /\ phase = "before" => Top.inputs = <<>>
      /\ phase = "depends" => Top.next <= Len(list) + 1 /\ Top.inputs = given[Top.target][Top.next - 1]
  BY <1>1, ListedIs DEF Call, Works
<1>3. CASE Top.next > Len(list)
  <2>1. PICK f : f = [Top EXCEPT !.phase = after, !.next = 1]
    OBVIOUS
  <2>2. /\ f.target = Top.target /\ f.phase = after /\ f.next = 1
        /\ f.inputs = Top.inputs /\ f.outputs = Top.outputs
        /\ f = [target |-> f.target, phase |-> f.phase, next |-> f.next,
                inputs |-> f.inputs, outputs |-> f.outputs]
    BY <1>1, <2>1 DEF Call
  <2>3. stack' = ReplaceAt(stack, Len(stack), f)
    BY <1>3, <2>1 DEF Require, SetTop
  <2>4. given[Top.target][0] = <<>>
    BY <1>1 DEF Planned
  <2>5. phase = "depends" => Top.inputs = given[Top.target][Len(list)]
    <3>1. phase = "depends" => Top.next - 1 = Len(list)
      BY <1>2, <1>3
    <3> QED
      BY <1>2, <3>1
  <2>6. Call(given, Yielded, f)
    <3>1. CASE phase = "before"
      <4>1. 1 <= Len(Config[Top.target].depends) + 1
        BY <1>1, BuildAssumption, ListedIs
      <4> QED
        BY <1>1, <1>2, <2>2, <3>1, <4>1 DEF Call
    <3>2. CASE phase = "depends"
      BY <1>1, <1>2, <2>2, <2>5, <3>2 DEF Call
    <3> QED
      BY <3>1, <3>2
  <2>7. Works(given, f)
    BY <1>2, <2>2, <2>4 DEF Works
  <2> QED
    BY <1>1, <2>2, <2>3, <2>6, <2>7, TopGoesOn DEF Top
<1>4. CASE Top.next <= Len(list)
  <2>1. PICK d : d = list[Top.next]
    OBVIOUS
  <2>2. PICK gift : gift = IF phase = "depends" /\ IsDone(d) THEN OutputsOf(d) ELSE <<>>
    OBVIOUS
  <2>3. PICK f : f = [Top EXCEPT !.next = @ + 1, !.inputs = @ \o gift]
    OBVIOUS
  <2>4. /\ f.target = Top.target /\ f.phase = phase /\ f.next = Top.next + 1
        /\ f.inputs = Top.inputs \o gift /\ f.outputs = Top.outputs
        /\ f = [target |-> f.target, phase |-> f.phase, next |-> f.next,
                inputs |-> f.inputs, outputs |-> f.outputs]
    BY <1>1, <2>3 DEF Call
  <2>5. stack' = IF IsDone(d) THEN ReplaceAt(stack, Len(stack), f)
                 ELSE Append(ReplaceAt(stack, Len(stack), f), NewFrame(d))
    <3>1. ~(Top.next > Len(list))
      BY <1>2, <1>4
    <3> QED
      BY <2>1, <2>2, <2>3, <3>1 DEF Require, SetTop
  <2>6. ~IsDone(d) => d \in Here
    BY DEF IsDone, Here
  <2>7. phase = "before" => f.inputs = <<>>
    BY <1>2, <2>2, <2>4
  <2>8. IsDone(d) => /\ gift = IF phase = "depends" THEN Gives(given, d) ELSE <<>>
                     /\ Listed(gift) /\ ToSet(gift) \subseteq Yielded
    <3>1. \A t \in DOMAIN executed : /\ t \in Here /\ executed[t] = OutputsMade(given, t)
                                     /\ Listed(executed[t]) /\ ToSet(executed[t]) \subseteq Yielded
      BY GivenListed DEF WalkOK, Yielded
    <3>2. ToSet(<<>>) = {} /\ Listed(<<>>)
      BY EmptyListed DEF ToSet
    <3>3. CASE d \in DOMAIN executed
      <4>1. ~IsElsewhere(d)
        BY <3>1, <3>3 DEF Here, IsElsewhere
      <4>2. CASE phase = "depends"
        BY <2>2, <3>1, <3>3, <4>1, <4>2 DEF OutputsOf, Gives, IsDone
      <4>3. CASE phase # "depends"
        BY <2>2, <3>2, <4>3
      <4> QED
        BY <4>2, <4>3
    <3>4. CASE d \notin DOMAIN executed
      <4>1. gift = <<>>
        BY <2>2, <3>4 DEF OutputsOf
      <4>2. IsDone(d) => Gives(given, d) = <<>>
        BY <3>4 DEF IsDone, Gives, IsElsewhere
      <4> QED
        BY <3>2, <4>1, <4>2
    <3> QED
      BY <3>3, <3>4
  <2>9. phase = "depends" => given[Top.target][Top.next] = Top.inputs \o Gives(given, d)
    <3>1. Top.next \in 1 .. Len(list)
      BY <1>2, <1>4
    <3> QED
      BY <1>1, <1>2, <2>1, <3>1 DEF Planned, Gives
  <2>10. ASSUME Listed(f.inputs), ToSet(f.inputs) \subseteq Sources \cup Yielded
         PROVE  Call(given, Yielded, f)
    <3>1. f.next \in Nat \ {0} /\ (phase = "depends" => f.next <= Len(list) + 1)
      BY <1>2, <1>4, <2>4
    <3> QED
      BY <1>1, <1>2, <2>4, <2>7, <2>10, <3>1 DEF Call
  <2>11. CASE IsDone(d)
    <3>1. Listed(f.inputs) /\ ToSet(f.inputs) \subseteq Sources \cup Yielded
      BY <1>2, <2>4, <2>8, <2>11, ConcatListed
    <3>2. f.next - 1 = Top.next
      BY <1>2, <2>4
    <3>3. Works(given, f)
      BY <1>1, <2>4, <2>8, <2>9, <2>11, <3>2 DEF Works
    <3> QED
      BY <1>1, <2>4, <2>5, <2>10, <2>11, <3>1, <3>3, TopGoesOn DEF Top
  <2>12. CASE ~IsDone(d)
    <3>1. gift = <<>>
      BY <2>2, <2>12
    <3>2. f.inputs = Top.inputs
      BY <1>2, <2>4, <3>1 DEF Listed
    <3>3. f.next - 1 = Top.next /\ f.next - 2 = Top.next - 1 /\ f.next >= 2
      BY <1>2, <2>4
    <3>4. Top.next \in DOMAIN list
      BY <1>2, <1>4
    <3>5. Waits(given, f, d)
      BY <1>2, <2>1, <2>4, <3>2, <3>3, <3>4 DEF Waits
    <3> QED
      BY <1>1, <1>2, <2>4, <2>5, <2>6, <2>10, <2>12, <3>2, <3>5, TopCalls DEF Top
  <2> QED
    BY <2>11, <2>12
<1> QED
  BY <1>2, <1>3, <1>4

LEMMA MadeGrows ==
    ASSUME NEW given, NEW made, NEW more, made \subseteq more, NEW s, Stacked(given, made, s)
    PROVE  Stacked(given, more, s)
<1>1. \A i \in 1 .. Len(s) : Call(given, more, s[i])
  <2>1. TAKE i \in 1 .. Len(s)
  <2>2. Call(given, made, s[i])
    BY DEF Stacked
  <2> QED
    BY <2>2 DEF Call
<1> QED
  BY <1>1 DEF Stacked

LEMMA TailListed ==
    ASSUME NEW s, Listed(s), s # <<>>
    PROVE  Listed(Tail(s))
<1>1. Tail(s) \in Seq(ToSet(s))
  BY DEF Listed
<1> QED
  BY <1>1, Relisted

\* Steps that leave the walk, the memo and the queue alone.
LEMMA WalkUnmoved ==
    ASSUME NEW given, WalkOK(given), UNCHANGED <<queue, stack, executed>>,
           pc' \in {"idle", "walk", "tool", "record", "write", "writing"},
           pc' \in {"tool", "record"} => HasJob,
           pc' \notin {"walk", "tool", "record"} => stack = <<>>
    PROVE  WalkOK(given)'
<1>1. Yielded' = Yielded
  BY DEF Yielded
<1>2. HasJob' = HasJob
  BY DEF HasJob, Top
<1> QED
  BY <1>1, <1>2 DEF WalkOK

LEMMA WalkMoved ==
    ASSUME NEW given, WalkOK(given), executed' = executed, pc' = "walk",
           Stacked(given, Yielded, stack'), Listed(queue')
    PROVE  WalkOK(given)'
<1>1. Yielded' = Yielded
  BY DEF Yielded
<1> QED
  BY <1>1 DEF WalkOK

\* The walk is given up, or has not begun.
LEMMA WalkOver ==
    ASSUME NEW given, stack' = <<>>, Listed(queue'),
           (executed' = executed /\ WalkOK(given)) \/ executed' = None,
           pc' \in {"idle", "walk", "write"}
    PROVE  WalkOK(given)'
<1>1. \A t \in DOMAIN executed' : t \in Here /\ executed'[t] = OutputsMade(given, t)
  BY DEF WalkOK, None
<1>2. Stacked(given, Yielded, stack)'
  BY EmptyStack
<1> QED
  BY <1>1, <1>2 DEF WalkOK

LEMMA LeaveWalks ==
    ASSUME NEW given, Planned(given), WalkOK(given), Leave
    PROVE  WalkOK(given)' /\ Yielded \subseteq Yielded'
<1>1. /\ Stacked(given, Yielded, stack) /\ stack # <<>> /\ Top.phase = "run"
      /\ Top.outputs = OutputsMade(given, Top.target) /\ Top.target \in Here
  BY TopIs DEF WalkOK, Leave, Call
<1>2. executed' = With(executed, Top.target, Top.outputs) /\ stack' = Return(Top.outputs)
      /\ pc' = pc /\ queue' = queue /\ pc = "walk"
  BY DEF Leave, Memo
<1>3. \A t \in DOMAIN executed' : t \in Here /\ executed'[t] = OutputsMade(given, t)
  BY <1>1, <1>2 DEF WalkOK, With
<1>4. /\ DOMAIN executed' = DOMAIN executed \cup {Top.target}
      /\ executed'[Top.target] = Top.outputs
      /\ \A t \in DOMAIN executed : executed'[t] = executed[t]
  BY <1>1, <1>2 DEF WalkOK, With
<1>5. Yielded \subseteq Yielded' /\ ToSet(Top.outputs) \subseteq Yielded'
  BY <1>4 DEF Yielded
<1>6. PICK made : made = Yielded'
  OBVIOUS
<1>7. Stacked(given, made, stack)
  BY <1>1, <1>5, <1>6, MadeGrows
<1>8. Stacked(given, made, Return(Top.outputs))
  BY <1>1, <1>5, <1>6, <1>7, TopReturns
<1> QED
  BY <1>2, <1>3, <1>5, <1>6, <1>8 DEF WalkOK

LEMMA WalkSteps ==
    ASSUME NEW given, Planned(given), WalkOK(given), [Next]_vars
    PROVE  WalkOK(given)'
<1>1. CASE \E request \in Requests : Start(request)
  <2>1. PICK request \in Requests : Start(request)
    BY <1>1
  <2>2. stack' = <<>> /\ queue' = request /\ executed' = None /\ pc' = "walk" /\ Listed(request)
    BY <2>1, BuildAssumption DEF Start, WalkOK
  <2> QED
    BY <2>2, WalkOver
<1>2. CASE NextTarget
  <2>1. /\ executed' = executed /\ pc' = "walk" /\ queue # <<>> /\ queue' = Tail(queue)
        /\ stack' = IF IsDone(Head(queue)) THEN <<>> ELSE <<NewFrame(Head(queue))>>
    BY <1>2 DEF NextTarget
  <2>2. Listed(queue')
    BY <2>1, TailListed DEF WalkOK
  <2>3. Stacked(given, Yielded, stack')
    <3>1. CASE IsDone(Head(queue))
      BY <2>1, <3>1, EmptyStack
    <3>2. CASE ~IsDone(Head(queue))
      <4>1. PICK d \in Here : d = Head(queue)
        BY <3>2 DEF IsDone, Here
      <4>2. PICK f : f = NewFrame(d)
        OBVIOUS
      <4>3. Call(given, Yielded, f) /\ Works(given, f)
        BY <4>2, NewFrameIs
      <4>4. PICK s : s = <<f>>
        OBVIOUS
      <4>5. s \in Seq({f}) /\ Len(s) = 1 /\ s[1] = f /\ s # <<>>
        BY <4>4
      <4>6. Listed(s)
        BY <4>5, Relisted
      <4>7. Stacked(given, Yielded, s)
        <5>1. 1 .. 1 = {1} /\ 1 .. 0 = {} /\ 1 - 1 = 0
          OBVIOUS
        <5>2. \A i \in 1 .. Len(s) : Call(given, Yielded, s[i])
          BY <4>3, <4>5, <5>1
        <5>3. 1 .. Len(s) - 1 = {}
          BY <4>5, <5>1
        <5> QED
          BY <4>3, <4>5, <4>6, <5>2, <5>3 DEF Stacked
      <4> QED
        BY <2>1, <3>2, <4>1, <4>2, <4>4, <4>7
    <3> QED
      BY <3>1, <3>2
  <2> QED
    BY <2>1, <2>2, <2>3, WalkMoved
<1>3. CASE Before \/ Depends
  <2>1. stack # <<>> /\ executed' = executed /\ pc' = "walk" /\ queue' = queue
    BY <1>3 DEF Before, Depends, Require
  <2>2. Listed(Config[Top.target].before) /\ Listed(Config[Top.target].depends)
    BY <2>1, TopIs, BuildAssumption DEF WalkOK
  <2>3. Stacked(given, Yielded, stack')
    <3>1. CASE Before
      BY <2>1, <2>2, <3>1, Requires DEF Before
    <3>2. CASE Depends
      BY <2>1, <2>2, <3>2, Requires DEF Depends
    <3> QED
      BY <1>3, <3>1, <3>2
  <2> QED
    BY <2>1, <2>3, WalkMoved DEF WalkOK
<1>4. CASE Files
  <2>1. /\ stack # <<>> /\ executed' = executed /\ pc' = "walk" /\ queue' = queue /\ Top.phase = "files"
        /\ stack' = SetTop([Top EXCEPT !.phase = "each", !.inputs = @ \o Config[Top.target].files])
    BY <1>4 DEF Files
  <2>2. /\ Stacked(given, Yielded, stack) /\ Call(given, Yielded, Top) /\ Works(given, Top)
        /\ Top.target \in Here /\ Top.target \in Targets
    BY <2>1, TopIs DEF WalkOK
  <2>3. PICK f : f = [Top EXCEPT !.phase = "each", !.inputs = @ \o Config[Top.target].files]
    OBVIOUS
  <2>4. /\ f.target = Top.target /\ f.phase = "each" /\ f.next = Top.next
        /\ f.inputs = Top.inputs \o Config[Top.target].files /\ f.outputs = Top.outputs
    BY <2>2, <2>3 DEF Call
  <2>4a. f = [target |-> f.target, phase |-> f.phase, next |-> f.next,
              inputs |-> f.inputs, outputs |-> f.outputs]
    BY <2>2, <2>3 DEF Call
  <2>5. /\ Top.next = 1 /\ Top.outputs = <<>>
        /\ Top.inputs = given[Top.target][Len(Config[Top.target].depends)]
        /\ Listed(Top.inputs) /\ ToSet(Top.inputs) \subseteq Sources \cup Yielded
    BY <2>1, <2>2 DEF Call
  <2>6. f.inputs = InputsOf(given, Top.target)
    BY <2>4, <2>5 DEF InputsOf
  <2>7. Listed(f.inputs) /\ ToSet(f.inputs) \subseteq Sources \cup Yielded
    <3>1. Listed(Config[Top.target].files) /\ ToSet(Config[Top.target].files) \subseteq Sources
      BY <2>2, BuildAssumption, Relisted
    <3> QED
      BY <2>4, <2>5, <3>1, ConcatListed
  <2>8. Call(given, Yielded, f)
    <3>1. /\ f.next \in Nat \ {0} /\ 1 .. f.next - 1 = {} /\ Len(f.outputs) = f.next - 1
          /\ Listed(f.outputs)
      BY <2>4, <2>5, EmptyListed
    <3>2. f.next <= Len(JobsOf(given, Top.target)) + 1
      <4>1. Len(JobsOf(given, Top.target)) \in Nat
        BY <2>2, GivenListed, ListedIs
      <4> QED
        BY <2>4, <2>5, <4>1
    <3> QED
      BY <2>2, <2>4, <2>4a, <2>6, <2>7, <3>1, <3>2 DEF Call
  <2>9. Works(given, f)
    BY <2>4 DEF Works
  <2>10. stack' = ReplaceAt(stack, Len(stack), f)
    BY <2>1, <2>3 DEF SetTop
  <2>11. Stacked(given, Yielded, stack')
    BY <2>1, <2>2, <2>4, <2>8, <2>9, <2>10, TopGoesOn DEF Top
  <2> QED
    BY <2>1, <2>11, WalkMoved DEF WalkOK
<1>5. CASE Skip \/ Record
  <2>1. HasJob /\ stack' = JobDone /\ executed' = executed /\ pc' = "walk" /\ queue' = queue
    BY <1>5 DEF Skip, Record, WalkOK
  <2>2. Stacked(given, Yielded, stack')
    BY <2>1, JobIsDone DEF WalkOK
  <2> QED
    BY <2>1, <2>2, WalkMoved DEF WalkOK
<1>6. CASE NeedsTool \/ ToolRuns
  <2>1. HasJob /\ UNCHANGED <<queue, stack, executed>> /\ pc' \in {"tool", "record"}
    BY <1>6 DEF NeedsTool, ToolRuns, WalkOK
  <2> QED
    BY <2>1, WalkUnmoved
<1>7. CASE ToolFails \/ CommandFails
  <2>1. stack' = <<>> /\ executed' = executed /\ queue' = queue /\ pc' = "write"
    BY <1>7 DEF ToolFails, CommandFails, Fails
  <2>2. Listed(queue')
    BY <2>1 DEF WalkOK
  <2> QED
    BY <2>1, <2>2, WalkOver
<1>8. CASE RecordDies \/ Kill
  <2>1. Dies
    BY <1>8 DEF RecordDies, Kill
  <2>2. stack' = <<>> /\ executed' = None /\ Listed(queue') /\ pc' = "idle"
    BY <2>1, EmptyListed DEF Dies
  <2> QED
    BY <2>2, WalkOver
<1>9. CASE EachDone
  <2>1. /\ stack # <<>> /\ executed' = executed /\ pc' = "walk" /\ queue' = queue
        /\ Top.phase = "each" /\ ~HasJob /\ stack' = SetTop([Top EXCEPT !.phase = "run"])
    BY <1>9 DEF EachDone
  <2>2. /\ Stacked(given, Yielded, stack) /\ Call(given, Yielded, Top)
        /\ Top.target \in Here /\ Top.target \in Targets
    BY <2>1, TopIs DEF WalkOK
  <2>3. PICK f : f = [Top EXCEPT !.phase = "run"]
    OBVIOUS
  <2>4. /\ f.target = Top.target /\ f.phase = "run" /\ f.next = Top.next
        /\ f.inputs = Top.inputs /\ f.outputs = Top.outputs
        /\ f = [target |-> f.target, phase |-> f.phase, next |-> f.next,
                inputs |-> f.inputs, outputs |-> f.outputs]
    BY <2>2, <2>3 DEF Call
  <2>5. /\ Top.inputs = InputsOf(given, Top.target) /\ Top.next \in Nat \ {0} /\ Listed(Top.outputs)
        /\ Top.next <= Len(JobsOf(given, Top.target)) + 1 /\ Len(Top.outputs) = Top.next - 1
        /\ \A i \in 1 .. Top.next - 1 : Top.outputs[i] = OutputsMade(given, Top.target)[i]
    BY <2>1, <2>2 DEF Call
  <2>6. /\ Listed(OutputsMade(given, Top.target)) /\ Len(JobsOf(given, Top.target)) \in Nat
        /\ Len(OutputsMade(given, Top.target)) = Len(JobsOf(given, Top.target))
    BY <2>2, GivenListed, OutputsListed, ListedIs
  <2>7. ~(Top.next <= Len(JobsOf(given, Top.target)))
    BY <2>1, <2>5 DEF HasJob, JobsOf
  <2>8. Top.next - 1 = Len(JobsOf(given, Top.target))
    BY <2>5, <2>6, <2>7
  <2>9. Top.outputs = OutputsMade(given, Top.target)
    BY <2>5, <2>6, <2>8, SameList
  <2>10. Call(given, Yielded, f) /\ Works(given, f)
    BY <2>1, <2>2, <2>4, <2>9 DEF Call, Works
  <2>11. Stacked(given, Yielded, stack')
    BY <2>1, <2>2, <2>3, <2>4, <2>10, TopGoesOn DEF SetTop, Top
  <2> QED
    BY <2>1, <2>11, WalkMoved DEF WalkOK
<1>10. CASE Leave
  BY <1>10, LeaveWalks
<1>11. CASE TargetsDone \/ OpenCacheFile \/ Edit \/ RemoveHeader \/ UNCHANGED vars
  <2>1. /\ UNCHANGED <<queue, stack, executed>>
        /\ pc' = pc \/ (pc' \in {"write", "writing"} /\ stack = <<>>)
    BY <1>11 DEF TargetsDone, OpenCacheFile, Edit, RemoveHeader, vars, walk, WalkOK
  <2> QED
    BY <2>1, WalkUnmoved DEF WalkOK
<1>12. CASE CloseCacheFile \/ WriteWild \/ WriteNothing
  <2>1. Ends /\ pc \in {"write", "writing"}
    BY <1>12 DEF CloseCacheFile, WriteWild, WriteNothing
  <2>2. stack' = <<>> /\ executed' = None /\ Listed(queue') /\ pc' = "idle"
    BY <2>1, EmptyListed DEF Ends, WalkOK
  <2> QED
    BY <2>2, WalkOver
<1> QED
  BY <1>1, <1>2, <1>3, <1>4, <1>5, <1>6, <1>7, <1>8, <1>9, <1>10, <1>11, <1>12 DEF Next, Step

LEMMA WalkStarts ==
    ASSUME NEW given, Init
    PROVE  WalkOK(given)
<1>1. Listed(queue) /\ Stacked(given, Yielded, stack) /\ DOMAIN executed = {}
  BY EmptyListed, EmptyStack DEF Init, None
<1> QED
  BY <1>1 DEF Init, WalkOK

-----------------------------------------------------------------------------
(* What a step does to the calls, and what it does to the files *)

\* The first n calls are those there were.
Kept(n) == Len(stack') = n /\ \A i \in 1 .. n : stack'[i].target = stack[i].target

StackMove ==
    \/ stack' = <<>> /\ (executed' = executed \/ executed' = None)
    \/ Kept(Len(stack)) /\ executed' = executed
    \/ /\ stack # <<>> /\ Kept(Len(stack) - 1)
       /\ DOMAIN executed' = DOMAIN executed \cup {Top.target}
    \/ \E d \in Here \ DOMAIN executed :
          /\ executed' = executed
          /\ Len(stack') = Len(stack) + 1 /\ stack'[Len(stack) + 1].target = d
          /\ \A i \in 1 .. Len(stack) : stack'[i].target = stack[i].target
          /\ stack # <<>> => d \in ToSet(Config[Top.target].before) \cup ToSet(Config[Top.target].depends)

LEMMA TopMoves ==
    ASSUME Listed(stack), stack # <<>>, NEW f, f.target = Top.target, stack' = SetTop(f)
    PROVE  Kept(Len(stack))
<1>1. /\ Len(stack') = Len(stack) /\ stack'[Len(stack)] = f /\ Len(stack) \in Nat
      /\ \A i \in 1 .. Len(stack) - 1 : stack'[i] = stack[i]
  BY TopReplaced, ListedIs DEF SetTop
<1>2. \A i \in 1 .. Len(stack) : i = Len(stack) \/ i \in 1 .. Len(stack) - 1
  BY <1>1
<1> QED
  BY <1>1, <1>2 DEF Kept, Top

LEMMA RequireMoves ==
    ASSUME NEW given, Planned(given), WalkOK(given), stack # <<>>,
           NEW phase, NEW list, NEW after, Require(phase, list, after), Listed(list),
           ToSet(list) \subseteq ToSet(Config[Top.target].before) \cup ToSet(Config[Top.target].depends)
    PROVE  StackMove
<1>1. /\ Listed(stack) /\ Call(given, Yielded, Top) /\ executed' = executed /\ Len(stack) \in Nat
  BY TopIs DEF WalkOK, Require, Stacked
<1>2. Top.next \in Nat \ {0} /\ Len(list) \in Nat /\ DOMAIN list = 1 .. Len(list)
  BY <1>1, ListedIs DEF Call
<1>3. CASE Top.next > Len(list)
  <2>1. PICK f : f = [Top EXCEPT !.phase = after, !.next = 1]
    OBVIOUS
  <2>2. f.target = Top.target
    BY <1>1, <2>1 DEF Call
  <2>3. stack' = SetTop(f)
    BY <1>3, <2>1 DEF Require
  <2> QED
    BY <1>1, <2>2, <2>3, TopMoves DEF StackMove
<1>4. CASE Top.next <= Len(list)
  <2>1. PICK d : d = list[Top.next]
    OBVIOUS
  <2>2. PICK gift : gift = IF phase = "depends" /\ IsDone(d) THEN OutputsOf(d) ELSE <<>>
    OBVIOUS
  <2>3. PICK f : f = [Top EXCEPT !.next = @ + 1, !.inputs = @ \o gift]
    OBVIOUS
  <2>4. f.target = Top.target
    BY <1>1, <2>3 DEF Call
  <2>5. stack' = IF IsDone(d) THEN SetTop(f) ELSE Append(SetTop(f), NewFrame(d))
    <3>1. ~(Top.next > Len(list))
      BY <1>2, <1>4
    <3> QED
      BY <2>1, <2>2, <2>3, <3>1 DEF Require
  <2>6. CASE IsDone(d)
    BY <1>1, <2>4, <2>5, <2>6, TopMoves DEF StackMove
  <2>7. CASE ~IsDone(d)
    <3>1. d \in Here \ DOMAIN executed
      BY <2>7 DEF IsDone, Here
    <3>2. PICK t : t = SetTop(f)
      OBVIOUS
    <3>3. /\ Listed(t) /\ Len(t) = Len(stack) /\ t[Len(stack)] = f
          /\ \A i \in 1 .. Len(stack) - 1 : t[i] = stack[i]
      BY <1>1, <3>2, TopReplaced DEF SetTop
    <3>4. /\ Len(stack') = Len(stack) + 1 /\ stack'[Len(stack) + 1] = NewFrame(d)
          /\ \A i \in 1 .. Len(stack) : stack'[i] = t[i]
      BY <2>5, <2>7, <3>2, <3>3, AppendListed
    <3>5. \A i \in 1 .. Len(stack) : i = Len(stack) \/ i \in 1 .. Len(stack) - 1
      BY <1>1
    <3>6. \A i \in 1 .. Len(stack) : stack'[i].target = stack[i].target
      BY <2>4, <3>3, <3>4, <3>5 DEF Top
    <3>7. d \in ToSet(list)
      <4>1. Top.next \in DOMAIN list
        BY <1>2, <1>4
      <4> QED
        BY <2>1, <4>1 DEF ToSet
    <3>8. stack'[Len(stack) + 1].target = d
      BY <3>1, <3>4, NewFrameIs
    <3> QED
      BY <1>1, <3>1, <3>4, <3>6, <3>7, <3>8 DEF StackMove
  <2> QED
    BY <2>6, <2>7
<1> QED
  BY <1>2, <1>3, <1>4

LEMMA StackMoves ==
    ASSUME NEW given, Planned(given), WalkOK(given), [Next]_vars
    PROVE  StackMove
<1>0. Listed(stack) /\ (stack # <<>> => Call(given, Yielded, Top) /\ Top.target \in Targets)
  BY TopIs DEF WalkOK, Stacked
<1>1. CASE \E request \in Requests : Start(request)
  BY <1>1 DEF Start, WalkOK, StackMove
<1>2. CASE NextTarget
  <2>1. /\ executed' = executed /\ stack = <<>>
        /\ stack' = IF IsDone(Head(queue)) THEN <<>> ELSE <<NewFrame(Head(queue))>>
    BY <1>2 DEF NextTarget
  <2>2. CASE IsDone(Head(queue))
    BY <2>1, <2>2 DEF StackMove
  <2>3. CASE ~IsDone(Head(queue))
    <3>1. PICK d \in Here \ DOMAIN executed : d = Head(queue)
      BY <2>3 DEF IsDone, Here
    <3>2. PICK f : f = NewFrame(d)
      OBVIOUS
    <3>3. f.target = d
      BY <3>2 DEF NewFrame
    <3>4. stack' = <<f>> /\ Len(stack) = 0
      BY <2>1, <2>3, <3>1, <3>2
    <3>5. Len(stack') = Len(stack) + 1 /\ stack'[Len(stack) + 1].target = d
          /\ \A i \in 1 .. Len(stack) : FALSE
      BY <3>3, <3>4
    <3> QED
      BY <2>1, <3>1, <3>5 DEF StackMove
  <2> QED
    BY <2>2, <2>3
<1>3. CASE Before \/ Depends
  <2>1. stack # <<>>
    BY <1>3 DEF Before, Depends
  <2>2. Listed(Config[Top.target].before) /\ Listed(Config[Top.target].depends)
    BY <1>0, <2>1, BuildAssumption
  <2>3. CASE Before
    BY <2>1, <2>2, <2>3, RequireMoves DEF Before
  <2>4. CASE Depends
    BY <2>1, <2>2, <2>4, RequireMoves DEF Depends
  <2> QED
    BY <1>3, <2>3, <2>4
<1>4. CASE Files
  <2>1. PICK f : f = [Top EXCEPT !.phase = "each", !.inputs = @ \o Config[Top.target].files]
    OBVIOUS
  <2>2. stack # <<>> /\ executed' = executed /\ stack' = SetTop(f)
    BY <1>4, <2>1 DEF Files
  <2>3. f.target = Top.target
    BY <1>0, <2>1, <2>2 DEF Call
  <2> QED
    BY <1>0, <2>2, <2>3, TopMoves DEF StackMove
<1>5. CASE Skip \/ Record
  <2>1. PICK f : f = [Top EXCEPT !.next = @ + 1, !.outputs = Append(@, Job.output)]
    OBVIOUS
  <2>2. stack # <<>> /\ executed' = executed /\ stack' = SetTop(f)
    BY <1>5, <2>1 DEF Skip, Record, JobDone, HasJob, WalkOK
  <2>3. f.target = Top.target
    BY <1>0, <2>1, <2>2 DEF Call
  <2> QED
    BY <1>0, <2>2, <2>3, TopMoves DEF StackMove
<1>6. CASE UNCHANGED <<stack, executed>>
  BY <1>6 DEF StackMove, Kept
<1>7. CASE ToolFails \/ CommandFails
  BY <1>7 DEF ToolFails, CommandFails, Fails, StackMove
<1>8. CASE RecordDies \/ Kill
  BY <1>8 DEF RecordDies, Kill, Dies, StackMove
<1>9. CASE EachDone
  <2>1. PICK f : f = [Top EXCEPT !.phase = "run"]
    OBVIOUS
  <2>2. stack # <<>> /\ executed' = executed /\ stack' = SetTop(f)
    BY <1>9, <2>1 DEF EachDone
  <2>3. f.target = Top.target
    BY <1>0, <2>1, <2>2 DEF Call
  <2> QED
    BY <1>0, <2>2, <2>3, TopMoves DEF StackMove
<1>10. CASE Leave
  <2>1. /\ stack # <<>> /\ executed' = With(executed, Top.target, Top.outputs)
        /\ stack' = Return(Top.outputs)
    BY <1>10 DEF Leave, Memo
  <2>2. DOMAIN executed' = DOMAIN executed \cup {Top.target}
    BY <2>1 DEF With
  <2>3. PICK below : below = Front(stack)
    OBVIOUS
  <2>4. /\ Listed(below) /\ Len(below) = Len(stack) - 1 /\ Len(stack) \in Nat \ {0}
        /\ \A i \in 1 .. Len(stack) - 1 : below[i] = stack[i]
    BY <1>0, <2>1, <2>3, FrontListed
  <2>5. CASE below = <<>> \/ below[Len(below)].phase # "depends"
    <3>1. stack' = below
      BY <2>1, <2>3, <2>5 DEF Return
    <3> QED
      BY <2>1, <2>2, <2>4, <3>1 DEF StackMove, Kept
  <2>6. CASE below # <<>> /\ below[Len(below)].phase = "depends"
    <3>1. PICK caller : caller = below[Len(below)]
      OBVIOUS
    <3>2. PICK f : f = [caller EXCEPT !.inputs = @ \o Top.outputs]
      OBVIOUS
    <3>3. stack' = ReplaceAt(below, Len(below), f)
      BY <2>1, <2>3, <2>6, <3>1, <3>2 DEF Return
    <3>4. /\ Len(stack') = Len(below) /\ stack'[Len(below)] = f
          /\ \A i \in 1 .. Len(below) - 1 : stack'[i] = below[i]
      BY <2>4, <2>6, <3>3, TopReplaced
    <3>5. Len(below) \in 1 .. Len(stack) /\ Len(below) \in 1 .. Len(stack) - 1
      BY <2>4, <2>6, TopReplaced DEF Listed
    <3>6. Call(given, Yielded, caller)
      BY <2>4, <3>1, <3>5 DEF WalkOK, Stacked
    <3>7. f.target = caller.target
      BY <3>2, <3>6 DEF Call
    <3>8. \A i \in 1 .. Len(below) : i = Len(below) \/ i \in 1 .. Len(below) - 1
      BY <2>4
    <3>9. \A i \in 1 .. Len(stack) - 1 : stack'[i].target = stack[i].target
      BY <2>4, <3>1, <3>4, <3>7, <3>8
    <3> QED
      BY <2>1, <2>2, <2>4, <3>4, <3>9 DEF StackMove, Kept
  <2> QED
    BY <2>5, <2>6
<1>11. CASE CloseCacheFile \/ WriteWild \/ WriteNothing
  BY <1>11 DEF CloseCacheFile, WriteWild, WriteNothing, Ends, WalkOK, StackMove
<1> QED
  BY <1>1, <1>2, <1>3, <1>4, <1>5, <1>6, <1>7, <1>8, <1>9, <1>10, <1>11
     DEF Next, Step, NeedsTool, ToolRuns, TargetsDone, OpenCacheFile, Edit, RemoveHeader, vars, walk

\* What may happen to the files.
DiskMove ==
    \/ /\ seen' = seen
       /\ \/ disk' = disk
          \/ pc = "tool" /\ HasJob /\ disk' = Without(disk, {Job.output})
          \/ pc = "tool" /\ HasJob /\ Result(Job) # Absent /\ disk' = With(disk, Job.output, Result(Job))
          \/ pc = "tool" /\ HasJob /\ PartialOutputs /\ disk' = With(disk, Job.output, <<Partial>>)
          \/ pc = "walk" /\ disk' = Without(disk, DOMAIN disk \ (Sources \cup Headers))
          \/ \E h \in Headers \cap DOMAIN disk : disk' = Without(disk, {h})
    \/ \E p \in Sources \cup Headers, t \in Texts :
          /\ Reverts \/ t \notin seen
          /\ disk' = With(disk, p, t) /\ seen' = seen \cup {t}

LEMMA DiskMoves ==
    ASSUME NEW given, WalkOK(given), [Next]_vars
    PROVE  DiskMove
<1>1. CASE UNCHANGED <<disk, seen>>
  BY <1>1 DEF DiskMove
<1>2. CASE ToolRuns
  BY <1>2 DEF ToolRuns, WalkOK, DiskMove, world
<1>3. CASE pc = "tool" /\ Leftover /\ seen' = seen
  BY <1>3 DEF Leftover, WalkOK, DiskMove
<1>4. CASE Leave
  BY <1>4 DEF Leave, DiskMove, world
<1>5. CASE Edit
  BY <1>5 DEF Edit, DiskMove
<1>6. CASE RemoveHeader
  BY <1>6 DEF RemoveHeader, DiskMove, world
<1>7. CASE \E request \in Requests : Start(request)
  BY <1>7 DEF Start, DiskMove, world
<1> QED
  BY <1>1, <1>2, <1>3, <1>4, <1>5, <1>6, <1>7
     DEF Next, Step, NextTarget, Before, Depends, Require, Files, Skip, NeedsTool, ToolFails, Record,
         RecordDies, EachDone, CommandFails, TargetsDone, OpenCacheFile, CloseCacheFile, WriteWild,
         WriteNothing, Ends, Kill, vars, world

-----------------------------------------------------------------------------
(* Typing *)

\* Each call was made for one of lower rank than the call that made it.
Falling(rank, s) ==
    \A i, j \in 1 .. Len(s) : i < j => rank[s[j].target] < rank[s[i].target]

Walking(rank) ==
    /\ Falling(rank, stack)
    /\ \A i \in 1 .. Len(stack) : stack[i].target \notin DOMAIN executed

LEMMA CallsFall ==
    ASSUME NEW given, Planned(given), NEW rank, NoCircle(rank), WalkOK(given),
           Walking(rank), [Next]_vars
    PROVE  Walking(rank)'
<1>1. /\ Listed(stack) /\ Len(stack) \in Nat
      /\ \A i \in 1 .. Len(stack) : stack[i].target \in Here /\ rank[stack[i].target] \in Nat
  <2>1. \A i \in 1 .. Len(stack) : stack[i].target \in Here
    BY DEF WalkOK, Stacked, Call
  <2> QED
    BY <2>1, ListedIs DEF WalkOK, Stacked, Here, NoCircle
<1>2. StackMove
  BY StackMoves
<1>3. CASE stack' = <<>> /\ (executed' = executed \/ executed' = None)
  BY <1>3, EmptyListed DEF Walking, Falling
<1>4. CASE Kept(Len(stack)) /\ executed' = executed
  BY <1>1, <1>4 DEF Walking, Falling, Kept
<1>5. CASE /\ stack # <<>> /\ Kept(Len(stack) - 1)
           /\ DOMAIN executed' = DOMAIN executed \cup {Top.target}
  <2>1. Len(stack) \in 1 .. Len(stack)
    BY <1>5, TopIs DEF WalkOK
  <2>2. \A i \in 1 .. Len(stack) - 1 : i \in 1 .. Len(stack) /\ i < Len(stack)
    BY <1>1
  <2>3. \A i \in 1 .. Len(stack) - 1 : stack[i].target # Top.target
    BY <1>1, <2>1, <2>2 DEF Walking, Falling, Top
  <2> QED
    BY <1>5, <2>2, <2>3 DEF Walking, Falling, Kept
<1>6. ASSUME NEW d \in Here \ DOMAIN executed, executed' = executed,
             Len(stack') = Len(stack) + 1, stack'[Len(stack) + 1].target = d,
             \A i \in 1 .. Len(stack) : stack'[i].target = stack[i].target,
             stack # <<>> => d \in ToSet(Config[Top.target].before) \cup ToSet(Config[Top.target].depends)
      PROVE  Walking(rank)'
  <2>1. \A i \in 1 .. Len(stack) + 1 : i \in 1 .. Len(stack) \/ i = Len(stack) + 1
    BY <1>1
  <2>2. \A i \in 1 .. Len(stack) : rank[d] < rank[stack[i].target]
    <3>1. TAKE i \in 1 .. Len(stack)
    <3>2. stack # <<>>
      OBVIOUS
    <3>3. rank[d] < rank[Top.target] /\ rank[d] \in Nat
      BY <1>6, <3>2, TopIs DEF WalkOK, NoCircle, Here
    <3>4. i = Len(stack) \/ (i < Len(stack) /\ Len(stack) \in 1 .. Len(stack))
      BY <1>1
    <3>5. i < Len(stack) => rank[Top.target] < rank[stack[i].target]
      BY <1>1, <3>4 DEF Walking, Falling, Top
    <3>6. Len(stack) \in 1 .. Len(stack)
      BY <1>1, <3>4
    <3> QED
      BY <1>1, <3>3, <3>4, <3>5, <3>6 DEF Top
  <2>3. \A i \in 1 .. Len(stack') : stack'[i].target \notin DOMAIN executed'
    BY <1>6, <2>1 DEF Walking
  <2>4. ASSUME NEW i \in 1 .. Len(stack'), NEW j \in 1 .. Len(stack'), i < j
        PROVE  rank[stack'[j].target] < rank[stack'[i].target]
    <3>1. i \in 1 .. Len(stack) /\ (j \in 1 .. Len(stack) \/ j = Len(stack) + 1)
      <4>1. \A n \in Nat : \A x, y \in 1 .. n + 1 : x < y => x \in 1 .. n /\ (y \in 1 .. n \/ y = n + 1)
        OBVIOUS
      <4>2. i \in 1 .. Len(stack) + 1 /\ j \in 1 .. Len(stack) + 1
        BY <1>6
      <4> QED
        BY <1>1, <2>4, <4>1, <4>2
    <3>2. CASE j \in 1 .. Len(stack)
      BY <1>6, <2>4, <3>1, <3>2 DEF Walking, Falling
    <3>3. CASE j = Len(stack) + 1
      BY <1>6, <2>2, <3>1, <3>3
    <3> QED
      BY <3>1, <3>2, <3>3
  <2> QED
    BY <2>3, <2>4 DEF Walking, Falling
<1> QED
  BY <1>2, <1>3, <1>4, <1>5, <1>6 DEF StackMove

\* The sources and the headers.
BaseOK ==
    /\ \A p \in Sources : Exists(p)
    /\ \A p \in DOMAIN disk \cap (Sources \cup Headers) : disk[p] \in Texts

LEMMA BaseStays ==
    ASSUME NEW given, Planned(given), WalkOK(given), BaseOK, [Next]_vars
    PROVE  BaseOK'
<1>1. DiskMove
  BY DiskMoves
<1>2. HasJob => Job.output \notin Sources \cup Headers
  BY JobIs DEF WalkOK, Planned
<1>3. Sources \cap Headers = {}
  BY BuildAssumption
<1>4. CASE disk' = disk
  BY <1>4 DEF BaseOK, Exists
<1>5. CASE HasJob /\ disk' = Without(disk, {Job.output})
  BY <1>2, <1>5 DEF BaseOK, Exists, Without
<1>6. CASE HasJob /\ \E value : disk' = With(disk, Job.output, value)
  BY <1>2, <1>6 DEF BaseOK, Exists, With
<1>7. CASE disk' = Without(disk, DOMAIN disk \ (Sources \cup Headers))
  BY <1>7 DEF BaseOK, Exists, Without
<1>8. CASE \E p \in Sources \cup Headers, t \in Texts : disk' = With(disk, p, t)
  BY <1>8 DEF BaseOK, Exists, With
<1>9. CASE \E h \in Headers \cap DOMAIN disk : disk' = Without(disk, {h})
  BY <1>3, <1>9 DEF BaseOK, Exists, Without
<1> QED
  BY <1>1, <1>4, <1>5, <1>6, <1>7, <1>8, <1>9 DEF DiskMove

\* What is left of the types.
Plain ==
    /\ header \in {"valid", "null", "wild"}
    /\ header # "valid" => cacheFile = Torn
    /\ failed \in BOOLEAN /\ quiet \in BOOLEAN
    /\ kills \in 0 .. MaxKills /\ failures \in 0 .. MaxFailures

LEMMA PlainStays ==
    ASSUME Plain, [Next]_vars
    PROVE  Plain'
<1>1. MaxKills \in Nat /\ MaxFailures \in Nat
  BY BuildAssumption
<1>2. CASE \E request \in Requests : Start(request)
  BY <1>2 DEF Start, ParseCacheFile, Plain, world
<1>3. CASE NextTarget \/ Before \/ Depends \/ Files \/ Skip \/ NeedsTool \/ ToolRuns \/ EachDone \/ Leave
           \/ TargetsDone \/ RemoveHeader \/ UNCHANGED vars
  BY <1>3 DEF NextTarget, Before, Depends, Require, Files, Skip, NeedsTool, ToolRuns, EachDone, Leave,
              TargetsDone, RemoveHeader, Plain, cache, past, world, walk, vars
<1>4. CASE Edit \/ Record
  BY <1>4 DEF Edit, Record, Plain, cache, past, world, walk, vars
<1>5. CASE ToolFails \/ CommandFails
  <2>1. failures' = failures \/ (failures < MaxFailures /\ failures' = failures + 1)
    BY <1>5 DEF ToolFails, CommandFails
  <2>2. failures' \in 0 .. MaxFailures
    BY <1>1, <2>1 DEF Plain
  <2> QED
    BY <1>5, <2>2 DEF ToolFails, CommandFails, Fails, Plain, cache, past
<1>6. CASE RecordDies
  BY <1>6 DEF RecordDies, Dies, Plain, world
<1>7. CASE Kill
  <2>1. kills' \in 0 .. MaxKills
    BY <1>1, <1>7 DEF Kill, Plain
  <2> QED
    BY <1>7, <2>1 DEF Kill, Dies, Plain
<1>8. CASE OpenCacheFile \/ CloseCacheFile \/ WriteWild \/ WriteNothing
  BY <1>8 DEF OpenCacheFile, CloseCacheFile, WriteWild, WriteNothing, Ends, Plain, past, world
<1> QED
  BY <1>2, <1>3, <1>4, <1>5, <1>6, <1>7, <1>8 DEF Next, Step

LEMMA TypesFollow ==
    ASSUME NEW given, NEW rank, NoCircle(rank), WalkOK(given), Walking(rank), BaseOK, Plain
    PROVE  TypeOK
<1>1. /\ Listed(stack) /\ Len(stack) \in Nat /\ DOMAIN stack = 1 .. Len(stack)
      /\ \A i \in 1 .. Len(stack) : stack[i].target \in Here /\ rank[stack[i].target] \in Nat
  <2>1. \A i \in 1 .. Len(stack) : stack[i].target \in Here
    BY DEF WalkOK, Stacked, Call
  <2> QED
    BY <2>1, ListedIs DEF WalkOK, Stacked, Here, NoCircle
<1>2. ASSUME NEW i \in DOMAIN stack, NEW j \in DOMAIN stack, stack[i].target = stack[j].target
      PROVE  i = j
  <2>1. i < j \/ j < i \/ i = j
    BY <1>1
  <2> QED
    BY <1>1, <1>2, <2>1 DEF Walking, Falling
<1>3. DOMAIN executed \subseteq Targets
  BY DEF WalkOK, Here
<1>4. \A i \in DOMAIN stack : stack[i].target \notin DOMAIN executed
  BY <1>1 DEF Walking
<1>5. pc \in {"tool", "record"} => stack # <<>> /\ stack[Len(stack)].phase = "each"
  BY DEF WalkOK, HasJob, Top
<1>6. pc \in {"idle", "walk", "tool", "record", "write", "writing"}
  BY DEF WalkOK
<1> QED
  BY <1>2, <1>3, <1>4, <1>5, <1>6 DEF TypeOK, BaseOK, Plain

LEMMA TypesBegin ==
    ASSUME NEW given, NEW rank, Init
    PROVE  WalkOK(given) /\ Walking(rank) /\ BaseOK /\ Plain
<1>1. Walking(rank)
  BY EmptyListed DEF Init, Walking, Falling
<1>2. BaseOK
  BY BuildAssumption DEF Init, BaseOK, Exists
<1>3. Plain
  <2>1. 0 \in 0 .. MaxKills /\ 0 \in 0 .. MaxFailures
    BY BuildAssumption
  <2> QED
    BY <2>1 DEF Init, Plain
<1> QED
  BY <1>1, <1>2, <1>3, WalkStarts

\* main.rs, target.rs: whatever the user asks for, edits and interrupts, in a
\* project without circles a run never calls a target that waits already or is
\* done, sources stay, and a cache that was not understood is torn on the disk.
THEOREM Typing ==
    ASSUME NEW given, Planned(given), NEW rank, NoCircle(rank)
    PROVE  Spec => []TypeOK
<1> DEFINE Inv == WalkOK(given) /\ Walking(rank) /\ BaseOK /\ Plain
<1>1. Init => Inv
  BY TypesBegin
<1>2. Inv /\ [Next]_vars => Inv'
  BY WalkSteps, CallsFall, BaseStays, PlainStays
<1>3. Inv => TypeOK
  BY TypesFollow
<1> QED
  BY <1>1, <1>2, <1>3, PTL DEF Spec

-----------------------------------------------------------------------------
(* What tools read *)

One(x) == Listed(x) /\ Len(x) = 1

LEMMA OneLetter ==
    ASSUME NEW x, NEW y, One(x), One(y), x[1] = y[1]
    PROVE  x = y
<1>1. \A i \in 1 .. Len(x) : i = 1
  BY DEF One
<1>2. \A i \in 1 .. Len(x) : x[i] = y[i]
  BY <1>1
<1> QED
  BY <1>2, SameList DEF One

LEMMA MadeIsOne ==
    ASSUME NEW job, NEW F
    PROVE  /\ One(Made(job, F))
           /\ \A G : Made(job, F) = Made(job, G) => F = G
<1>1. PICK r : r = [tool |-> job.tool, from |-> F]
  OBVIOUS
<1>2. PICK s : s = <<r>>
  OBVIOUS
<1>3. s \in Seq({r}) /\ Len(s) = 1 /\ s[1] = r
  BY <1>2
<1>4. One(s)
  BY <1>3, Relisted DEF One
<1>5. ASSUME NEW G, Made(job, F) = Made(job, G)
      PROVE  F = G
  <2>1. PICK q : q = [tool |-> job.tool, from |-> G]
    OBVIOUS
  <2>2. <<r>> = <<q>>
    BY <1>1, <1>5, <2>1 DEF Made
  <2>3. r = q /\ r.from = F /\ q.from = G
    BY <1>1, <2>1, <2>2
  <2> QED
    BY <2>3
<1> QED
  BY <1>1, <1>2, <1>4, <1>5 DEF Made

\* The headers that the inputs of a job include, when they hold what F begins
\* with, and all that the job reads then.
Heads(job, F) == IncludedBy(job.inputs, F, {})
ReadBy(job, F) == job.inputs \o Heads(job, F)

LEMMA HeadersListed ==
    ASSUME NEW inputs, Listed(inputs), NEW F,
           \A i \in DOMAIN inputs : inputs[i] \in Sources => F[i] \in Texts
    PROVE  LET hs == IncludedBy(inputs, F, {})
           IN  Listed(hs) /\ ToSet(hs) \subseteq Headers
<1>1. DOMAIN inputs = 1 .. Len(inputs) /\ Len(inputs) \in Nat
  BY ListedIs
<1>2. PICK s : s = [i \in DOMAIN inputs |->
                      IF inputs[i] \in Sources THEN SetToSeq(Includes[F[i]] \ {}) ELSE <<>>]
  OBVIOUS
<1>3. \A i \in DOMAIN inputs : s[i] \in Seq(Headers)
  <2>1. TAKE i \in DOMAIN inputs
  <2>2. CASE inputs[i] \notin Sources
    BY <1>2, <2>2
  <2>3. CASE inputs[i] \in Sources
    <3>1. PICK hs : hs = Includes[F[i]] \ {}
      OBVIOUS
    <3>2. hs \subseteq Headers /\ IsFiniteSet(Headers)
      BY <2>3, <3>1, BuildAssumption
    <3>3. IsFiniteSet(hs)
      BY <3>2, FS_Subset
    <3>4. SetToSeq(hs) \in Seq(hs)
      BY <3>3, SetToSeq_
    <3>5. SetToSeq(hs) \in Seq(Headers)
      BY <3>2, <3>4
    <3> QED
      BY <1>2, <2>3, <3>1, <3>5
  <2> QED
    BY <2>2, <2>3
<1>4. s \in [1 .. Len(inputs) -> Seq(Headers)]
  BY <1>1, <1>2, <1>3
<1>5. s \in Seq(Seq(Headers))
  BY <1>1, <1>4
<1>6. FlattenSeq(s) \in Seq(Headers)
  BY <1>5, FlattenSeq_
<1> QED
  BY <1>2, <1>6, Relisted DEF IncludedBy

LEMMA SameHeaders ==
    ASSUME NEW inputs, NEW F, NEW G,
           \A i \in DOMAIN inputs : inputs[i] \in Sources => F[i] = G[i]
    PROVE  IncludedBy(inputs, F, {}) = IncludedBy(inputs, G, {})
<1>1. PICK s : s = [i \in DOMAIN inputs |->
                      IF inputs[i] \in Sources THEN SetToSeq(Includes[F[i]] \ {}) ELSE <<>>]
  OBVIOUS
<1>2. PICK t : t = [i \in DOMAIN inputs |->
                      IF inputs[i] \in Sources THEN SetToSeq(Includes[G[i]] \ {}) ELSE <<>>]
  OBVIOUS
<1>3. \A i \in DOMAIN inputs : s[i] = t[i]
  BY <1>1, <1>2
<1>4. s = t
  BY <1>1, <1>2, <1>3
<1> QED
  BY <1>1, <1>2, <1>4 DEF IncludedBy

LEMMA NoHeaders ==
    ASSUME NEW inputs, Listed(inputs), NEW F, ToSet(inputs) \cap Sources = {}
    PROVE  IncludedBy(inputs, F, {}) = <<>>
<1>1. DOMAIN inputs = 1 .. Len(inputs) /\ Len(inputs) \in Nat
  BY ListedIs
<1>2. PICK s : s = [i \in DOMAIN inputs |->
                      IF inputs[i] \in Sources THEN SetToSeq(Includes[F[i]] \ {}) ELSE <<>>]
  OBVIOUS
<1>3. \A i \in DOMAIN inputs : inputs[i] \notin Sources
  BY DEF ToSet
<1>4. \A i \in DOMAIN inputs : s[i] = <<>>
  BY <1>2, <1>3
<1>5. s \in [1 .. Len(inputs) -> {<<>>}]
  BY <1>1, <1>2, <1>4
<1>6. s \in Seq(Seq({})) /\ Len(s) = Len(inputs)
  <2>1. <<>> \in Seq({})
    OBVIOUS
  <2>2. s \in [1 .. Len(inputs) -> Seq({})]
    BY <1>5, <2>1
  <2> QED
    BY <1>1, <2>2
<1>7. \A i \in 1 .. Len(s) : Len(s[i]) = 0
  BY <1>1, <1>4, <1>6
<1>8. FlattenSeq(s) = <<>>
  BY <1>6, <1>7, FlattenSeq_ DEF Flat
<1> QED
  BY <1>2, <1>8 DEF IncludedBy

\* The first part of what a job reads is its inputs, the second the headers.
LEMMA ReadByIs ==
    ASSUME NEW job, Listed(job.inputs), NEW F, Listed(Heads(job, F))
    PROVE  /\ Listed(ReadBy(job, F)) /\ Len(job.inputs) \in Nat /\ Len(Heads(job, F)) \in Nat
           /\ Len(ReadBy(job, F)) = Len(job.inputs) + Len(Heads(job, F))
           /\ \A i \in 1 .. Len(job.inputs) : ReadBy(job, F)[i] = job.inputs[i]
           /\ \A i \in 1 .. Len(Heads(job, F)) :
                 ReadBy(job, F)[Len(job.inputs) + i] = Heads(job, F)[i]
           /\ ToSet(ReadBy(job, F)) = ToSet(job.inputs) \cup ToSet(Heads(job, F))
<1>1. PICK inputs, hs : inputs = job.inputs /\ hs = Heads(job, F)
  OBVIOUS
<1>2. Listed(inputs) /\ Listed(hs) /\ ReadBy(job, F) = inputs \o hs
  BY <1>1 DEF ReadBy
<1> QED
  BY <1>1, <1>2, ConcatListed, ListedIs

LEMMA ContentsAre ==
    ASSUME NEW paths, Listed(paths)
    PROVE  /\ Listed(Contents(paths)) /\ Len(Contents(paths)) = Len(paths)
           /\ \A i \in 1 .. Len(paths) : Contents(paths)[i] = disk[paths[i]]
<1>1. DOMAIN paths = 1 .. Len(paths) /\ Len(paths) \in Nat
  BY ListedIs
<1>2. PICK c : c = [i \in DOMAIN paths |-> disk[paths[i]]]
  OBVIOUS
<1>3. \A i \in DOMAIN c : c[i] \in ToSet(c)
  BY DEF ToSet
<1>4. c \in [1 .. Len(paths) -> ToSet(c)]
  BY <1>1, <1>2, <1>3
<1>5. c \in Seq(ToSet(c)) /\ Len(c) = Len(paths)
  BY <1>1, <1>4
<1> QED
  BY <1>1, <1>2, <1>5 DEF Listed, Contents

-----------------------------------------------------------------------------
(* What files have held, and what never returns to them *)

Bases == Sources \cup Headers
PathsOf(given) == Bases \cup {job.output : job \in AllJobs(given)}

\* What a job may have read, F, when each file has held what was says of it.
Reading(given, was, job, F) ==
    /\ ToSet(job.inputs) \subseteq PathsOf(given)
    /\ Listed(Heads(job, F)) /\ ToSet(Heads(job, F)) \subseteq Headers
    /\ Listed(F) /\ Len(F) = Len(ReadBy(job, F))
    /\ \A i \in 1 .. Len(F) : F[i] \in was[ReadBy(job, F)[i]]

\* Something of it never returns.
Gone(gone, job, F) == \E i \in 1 .. Len(F) : F[i] \in gone[ReadBy(job, F)[i]]
GoneInput(gone, job, F) == \E i \in 1 .. Len(job.inputs) : F[i] \in gone[job.inputs[i]]

History(given, was, gone) ==
    /\ seen \subseteq Texts
    /\ \A p \in Bases : was[p] = seen /\ gone[p] = {t \in seen : ~(Exists(p) /\ disk[p] = t)}
    /\ \A p \in Bases : Exists(p) => disk[p] \in seen
    /\ \A job \in AllJobs(given) :
          LET p == job.output
          IN  /\ Exists(p) => /\ disk[p] \in was[p] \ gone[p]
                              /\ \A v \in was[p] : v # disk[p] => v \in gone[p]
              /\ \A v \in was[p] : \E F : Reading(given, was, job, F) /\ v = Made(job, F)
              /\ \A v \in gone[p] : \E F : /\ Reading(given, was, job, F) /\ v = Made(job, F)
                                           /\ Gone(gone, job, F)

LEMMA Current ==
    ASSUME NEW given, Planned(given), Traceable(given), NEW was, NEW gone, History(given, was, gone),
           NEW p \in PathsOf(given)
    PROVE  /\ \A v \in was[p] : One(v)
           /\ Exists(p) => /\ disk[p] \in was[p] \ gone[p] /\ One(disk[p])
                           /\ \A v \in was[p] : v # disk[p] => v \in gone[p]
           /\ p \in Bases => was[p] \subseteq Texts
<1>1. CASE p \in Bases
  <2>1. was[p] = seen /\ gone[p] = {t \in seen : ~(Exists(p) /\ disk[p] = t)} /\ seen \subseteq Texts
        /\ (Exists(p) => disk[p] \in seen)
    BY <1>1 DEF History
  <2>2. \A v \in Texts : One(v)
    BY BuildAssumption DEF Traceable, One
  <2> QED
    BY <2>1, <2>2
<1>2. CASE p \notin Bases
  <2>1. PICK job \in AllJobs(given) : p = job.output
    BY <1>2 DEF PathsOf
  <2>2. /\ Exists(p) => /\ disk[p] \in was[p] \ gone[p]
                        /\ \A v \in was[p] : v # disk[p] => v \in gone[p]
        /\ \A v \in was[p] : \E F : v = Made(job, F)
    BY <2>1 DEF History
  <2>3. \A v \in was[p] : One(v)
    BY <2>2, MadeIsOne
  <2> QED
    BY <1>2, <2>2, <2>3
<1> QED
  BY <1>1, <1>2

Readable(job) ==
    /\ \A i \in DOMAIN job.inputs : Exists(job.inputs[i])
    /\ \A i \in DOMAIN Read(job) : Exists(Read(job)[i])

LEMMA ReadableIs ==
    ASSUME NEW job, Result(job) # Absent
    PROVE  Readable(job)
  BY DEF Result, Readable

LEMMA ResultIs ==
    ASSUME NEW job, Readable(job)
    PROVE  Result(job) = Made(job, Contents(Read(job)))
  BY DEF Result, Readable

\* The headers that a job's inputs include now.
LEMMA HeadersNow ==
    ASSUME NEW given, Planned(given), Traceable(given), NEW was, NEW gone, History(given, was, gone),
           NEW job \in AllJobs(given), ToSet(job.inputs) \subseteq PathsOf(given),
           \A i \in DOMAIN job.inputs : Exists(job.inputs[i])
    PROVE  LET hs == IncludedBy(job.inputs, Contents(job.inputs), {})
           IN  /\ Listed(job.inputs) /\ Listed(hs) /\ ToSet(hs) \subseteq Headers
               /\ DepFile(job) = hs /\ Read(job) = job.inputs \o hs
<1>1. Listed(job.inputs)
  BY AllJobsAre
<1>2. PICK inputs, c : inputs = job.inputs /\ c = Contents(job.inputs)
  OBVIOUS
<1>3. DOMAIN inputs = 1 .. Len(inputs) /\ \A i \in DOMAIN inputs : c[i] = disk[inputs[i]]
  BY <1>1, <1>2, ContentsAre, ListedIs
<1>4. \A i \in DOMAIN inputs : inputs[i] \in Sources => c[i] \in Texts
  <2>1. TAKE i \in DOMAIN inputs
  <2>2. inputs[i] \in PathsOf(given) /\ Exists(inputs[i])
    BY <1>2 DEF ToSet
  <2>3. inputs[i] \in Sources => disk[inputs[i]] \in Texts
    BY <2>2, Current DEF Bases
  <2> QED
    BY <1>3, <2>3
<1>5. LET hs == IncludedBy(inputs, c, {}) IN Listed(hs) /\ ToSet(hs) \subseteq Headers
  BY <1>1, <1>2, <1>4, HeadersListed
<1>6. DepFile(job) = IncludedBy(inputs, c, {}) /\ Read(job) = inputs \o IncludedBy(inputs, c, {})
  BY <1>2 DEF DepFile, Read, Traceable
<1> QED
  BY <1>1, <1>2, <1>5, <1>6

\* What a job reads now.
LEMMA NowReading ==
    ASSUME NEW given, Planned(given), Traceable(given), NEW was, NEW gone, History(given, was, gone),
           NEW job \in AllJobs(given), ToSet(job.inputs) \subseteq PathsOf(given), Readable(job)
    PROVE  LET F == Contents(Read(job))
           IN  /\ Reading(given, was, job, F) /\ ~Gone(gone, job, F)
               /\ ReadBy(job, F) = Read(job) /\ Heads(job, F) = DepFile(job)
               /\ \A i \in 1 .. Len(F) : F[i] = disk[ReadBy(job, F)[i]] /\ One(F[i])
<1>1. PICK hs : hs = IncludedBy(job.inputs, Contents(job.inputs), {})
  OBVIOUS
<1>2. /\ Listed(job.inputs) /\ Listed(hs) /\ ToSet(hs) \subseteq Headers
      /\ DepFile(job) = hs /\ Read(job) = job.inputs \o hs
  BY <1>1, HeadersNow DEF Readable
<1>3. /\ Listed(Read(job)) /\ Len(Read(job)) = Len(job.inputs) + Len(hs) /\ Len(job.inputs) \in Nat
      /\ Len(hs) \in Nat /\ DOMAIN Read(job) = 1 .. Len(Read(job)) /\ DOMAIN job.inputs = 1 .. Len(job.inputs)
      /\ \A i \in 1 .. Len(job.inputs) : Read(job)[i] = job.inputs[i]
      /\ ToSet(Read(job)) = ToSet(job.inputs) \cup ToSet(hs)
  BY <1>2, ConcatListed, ListedIs
<1>4. PICK F : F = Contents(Read(job))
  OBVIOUS
<1>5. /\ Listed(F) /\ Len(F) = Len(Read(job))
      /\ \A i \in 1 .. Len(F) : F[i] = disk[Read(job)[i]]
  BY <1>3, <1>4, ContentsAre
<1>6. \A i \in DOMAIN job.inputs : F[i] = Contents(job.inputs)[i]
  <2>1. TAKE i \in DOMAIN job.inputs
  <2>2. i \in 1 .. Len(job.inputs) /\ i \in 1 .. Len(F)
    BY <1>3, <1>5
  <2> QED
    BY <1>2, <1>3, <1>5, <2>2, ContentsAre
<1>7. Heads(job, F) = hs
  BY <1>1, <1>6, SameHeaders DEF Heads
<1>8. ReadBy(job, F) = Read(job)
  BY <1>2, <1>7 DEF ReadBy
<1>9. \A i \in 1 .. Len(F) : /\ Read(job)[i] \in PathsOf(given) /\ Exists(Read(job)[i])
  <2>1. TAKE i \in 1 .. Len(F)
  <2>2. i \in DOMAIN Read(job)
    BY <1>3, <1>5
  <2>3. Read(job)[i] \in ToSet(job.inputs) \cup ToSet(hs)
    BY <1>3, <2>2 DEF ToSet
  <2> QED
    BY <1>2, <2>2, <2>3 DEF Readable, PathsOf, Bases
<1>10. \A i \in 1 .. Len(F) : /\ F[i] \in was[ReadBy(job, F)[i]] \ gone[ReadBy(job, F)[i]] /\ One(F[i])
                              /\ F[i] = disk[ReadBy(job, F)[i]]
  BY <1>5, <1>8, <1>9, Current
<1>11. Reading(given, was, job, F)
  BY <1>2, <1>5, <1>7, <1>8, <1>10 DEF Reading
<1>12. ~Gone(gone, job, F)
  BY <1>10 DEF Gone
<1> QED
  BY <1>2, <1>4, <1>7, <1>8, <1>10, <1>11, <1>12

\* What it has read once, when it still has the inputs it had then.
LEMMA InputsRead ==
    ASSUME NEW given, Planned(given), Traceable(given), NEW was, NEW gone, History(given, was, gone),
           NEW job \in AllJobs(given), NEW F, Reading(given, was, job, F),
           \A i \in DOMAIN job.inputs : Exists(job.inputs[i])
    PROVE  /\ Len(job.inputs) \in Nat /\ Len(job.inputs) <= Len(F)
           /\ Len(F) = Len(job.inputs) + Len(Heads(job, F)) /\ Len(Heads(job, F)) \in Nat
           /\ \A i \in 1 .. Len(F) : One(F[i])
           /\ \A i \in 1 .. Len(job.inputs) : F[i] # disk[job.inputs[i]] => F[i] \in gone[job.inputs[i]]
           /\ (\A i \in 1 .. Len(job.inputs) : F[i] = disk[job.inputs[i]]) =>
                 Heads(job, F) = DepFile(job) /\ ReadBy(job, F) = Read(job)
<1>1. Listed(job.inputs)
  BY AllJobsAre
<1>2. /\ Listed(ReadBy(job, F)) /\ Len(job.inputs) \in Nat /\ Len(Heads(job, F)) \in Nat
      /\ Len(F) = Len(job.inputs) + Len(Heads(job, F))
      /\ \A i \in 1 .. Len(job.inputs) : ReadBy(job, F)[i] = job.inputs[i]
      /\ ToSet(ReadBy(job, F)) = ToSet(job.inputs) \cup ToSet(Heads(job, F))
      /\ DOMAIN job.inputs = 1 .. Len(job.inputs)
      /\ DOMAIN ReadBy(job, F) = 1 .. Len(F)
  BY <1>1, ReadByIs, ListedIs DEF Reading
<1>3. \A i \in 1 .. Len(F) : ReadBy(job, F)[i] \in PathsOf(given)
  <2>1. TAKE i \in 1 .. Len(F)
  <2>2. ReadBy(job, F)[i] \in ToSet(job.inputs) \cup ToSet(Heads(job, F))
    BY <1>2 DEF ToSet
  <2> QED
    BY <2>2 DEF Reading, PathsOf, Bases
<1>4. \A i \in 1 .. Len(F) : One(F[i])
  BY <1>3, Current DEF Reading
<1>5. Len(job.inputs) <= Len(F) /\ \A i \in 1 .. Len(job.inputs) : i \in 1 .. Len(F)
  BY <1>2
<1>6. ASSUME NEW i \in 1 .. Len(job.inputs), F[i] # disk[job.inputs[i]]
      PROVE  F[i] \in gone[job.inputs[i]]
  <2>1. /\ job.inputs[i] \in PathsOf(given) /\ F[i] \in was[job.inputs[i]] /\ Exists(job.inputs[i])
    BY <1>2, <1>3, <1>5 DEF Reading
  <2> QED
    BY <1>6, <2>1, Current
<1>7. ASSUME \A i \in 1 .. Len(job.inputs) : F[i] = disk[job.inputs[i]]
      PROVE  Heads(job, F) = DepFile(job) /\ ReadBy(job, F) = Read(job)
  <2>1. PICK hs : hs = IncludedBy(job.inputs, Contents(job.inputs), {})
    OBVIOUS
  <2>2. DepFile(job) = hs /\ Read(job) = job.inputs \o hs
    BY <2>1, HeadersNow DEF Reading
  <2>3. \A i \in DOMAIN job.inputs : F[i] = Contents(job.inputs)[i]
    BY <1>1, <1>2, <1>7, ContentsAre
  <2>4. Heads(job, F) = hs
    BY <2>1, <2>3, SameHeaders DEF Heads
  <2> QED
    BY <2>2, <2>4 DEF ReadBy
<1> QED
  BY <1>2, <1>4, <1>5, <1>6, <1>7

\* When nothing of it is gone, it is what the job would read now.
LEMMA StillReads ==
    ASSUME NEW given, Planned(given), Traceable(given), NEW was, NEW gone, History(given, was, gone),
           NEW job \in AllJobs(given), NEW F, Reading(given, was, job, F), Readable(job),
           F # Contents(Read(job))
    PROVE  Gone(gone, job, F)
<1>1. /\ Len(job.inputs) \in Nat /\ Len(job.inputs) <= Len(F) /\ Len(F) \in Nat
      /\ Len(F) = Len(job.inputs) + Len(Heads(job, F)) /\ Len(Heads(job, F)) \in Nat
      /\ \A i \in 1 .. Len(job.inputs) : F[i] # disk[job.inputs[i]] => F[i] \in gone[job.inputs[i]]
      /\ (\A i \in 1 .. Len(job.inputs) : F[i] = disk[job.inputs[i]]) => ReadBy(job, F) = Read(job)
  BY InputsRead DEF Readable
<1>2. \A i \in 1 .. Len(job.inputs) : i \in 1 .. Len(F) /\ ReadBy(job, F)[i] = job.inputs[i]
  BY <1>1, AllJobsAre, ReadByIs DEF Reading
<1>3. CASE \E i \in 1 .. Len(job.inputs) : F[i] # disk[job.inputs[i]]
  BY <1>1, <1>2, <1>3 DEF Gone
<1>4. CASE \A i \in 1 .. Len(job.inputs) : F[i] = disk[job.inputs[i]]
  <2>1. ReadBy(job, F) = Read(job) /\ Listed(Read(job)) /\ Len(F) = Len(Read(job)) /\ Listed(F)
    BY <1>1, <1>4, AllJobsAre, ReadByIs DEF Reading
  <2>2. PICK G : G = Contents(Read(job))
    OBVIOUS
  <2>3. Listed(G) /\ Len(G) = Len(F) /\ \A i \in 1 .. Len(F) : G[i] = disk[Read(job)[i]]
    BY <2>1, <2>2, ContentsAre
  <2>4. PICK i \in 1 .. Len(F) : F[i] # disk[Read(job)[i]]
    BY <2>1, <2>2, <2>3, SameList
  <2>5. F[i] \in was[Read(job)[i]] /\ i \in DOMAIN Read(job)
    BY <2>1, <2>4, ListedIs DEF Reading
  <2>6. Read(job)[i] \in PathsOf(given) /\ Exists(Read(job)[i])
    <3>1. ToSet(Read(job)) = ToSet(job.inputs) \cup ToSet(Heads(job, F))
      BY <2>1, AllJobsAre, ReadByIs DEF Reading
    <3>2. Read(job)[i] \in ToSet(job.inputs) \cup ToSet(Heads(job, F))
      BY <2>5, <3>1 DEF ToSet
    <3> QED
      BY <2>5, <3>2 DEF Reading, PathsOf, Bases, Readable
  <2>7. F[i] \in gone[Read(job)[i]]
    BY <2>4, <2>5, <2>6, Current
  <2> QED
    BY <2>1, <2>4, <2>7 DEF Gone
<1> QED
  BY <1>3, <1>4

-----------------------------------------------------------------------------
(* What fingerprints say *)

DepsOK == \A o \in DOMAIN deps : Listed(deps[o]) /\ ToSet(deps[o]) \subseteq Headers

LEMMA CacheDepsListed ==
    ASSUME DepsOK, NEW job
    PROVE  Listed(CacheDeps(job)) /\ ToSet(CacheDeps(job)) \subseteq Headers
<1>1. Listed(<<>>) /\ ToSet(<<>>) = {}
  BY EmptyListed DEF ToSet
<1> QED
  BY <1>1 DEF CacheDeps, DepsOK

LEMMA FingerprintIs ==
    ASSUME NEW given, Planned(given), Traceable(given), NEW was, NEW gone, History(given, was, gone),
           NEW job \in AllJobs(given), ToSet(job.inputs) \subseteq PathsOf(given), DepsOK,
           \A i \in DOMAIN job.inputs : Exists(job.inputs[i])
    PROVE  LET f == Fingerprint(job)
               n == Len(job.inputs)
               dep == CacheDeps(job)
           IN  /\ Len(f) \in Nat /\ n \in Nat /\ Len(dep) \in Nat /\ Len(f) <= n + Len(dep)
               /\ \A i \in 1 .. n : f[i] = disk[job.inputs[i]][1] /\ One(disk[job.inputs[i]])
               /\ Len(f) = n + Len(dep) =>
                     \A i \in 1 .. Len(dep) : Exists(dep[i]) /\ f[n + i] = disk[dep[i]][1]
               /\ (\A i \in 1 .. Len(dep) : Exists(dep[i])) => Len(f) = n + Len(dep)
<1>1. PICK n, dep, c : n = Len(job.inputs) /\ dep = CacheDeps(job) /\ c = Contents(job.inputs)
  OBVIOUS
<1>2. /\ Listed(job.inputs) /\ n \in Nat /\ DOMAIN job.inputs = 1 .. n
      /\ Listed(dep) /\ ToSet(dep) \subseteq Headers /\ Len(dep) \in Nat /\ DOMAIN dep = 1 .. Len(dep)
  BY <1>1, AllJobsAre, CacheDepsListed, ListedIs
<1>3. Listed(c) /\ Len(c) = n /\ DOMAIN c = 1 .. n /\ \A i \in 1 .. n : c[i] = disk[job.inputs[i]]
  BY <1>1, <1>2, ContentsAre, ListedIs
<1>4. \A i \in 1 .. n : One(c[i])
  <2>1. TAKE i \in 1 .. n
  <2>2. job.inputs[i] \in PathsOf(given) /\ Exists(job.inputs[i])
    BY <1>2 DEF ToSet
  <2> QED
    BY <1>3, <2>2, Current
<1>5. PICK w : w = FlattenSeq(c)
  OBVIOUS
<1>6. Listed(w) /\ Flat(w, n, c)
  BY <1>3, <1>4, <1>5, FlattenLists DEF One
<1>7. Len(w) = n /\ \A i \in 1 .. n : w[i] = c[i][1]
  <2>1. \A i \in 1 .. n : Len(c[i]) = 1
    BY <1>4 DEF One
  <2>2. \A i \in 1 .. n : Len(c[i]) <= 1
    <3>1. \A m \in Nat : m = 1 => m <= 1
      OBVIOUS
    <3>2. 1 \in Nat
      OBVIOUS
    <3> QED
      BY <2>1, <3>1, <3>2
  <2> QED
    BY <1>6, <2>1, <2>2 DEF Flat
<1>8. PICK e : e = [i \in DOMAIN dep |-> IF Exists(dep[i]) THEN disk[dep[i]] ELSE <<>>]
  OBVIOUS
<1>9. \A i \in 1 .. Len(dep) : /\ Exists(dep[i]) => One(disk[dep[i]])
                               /\ Listed(e[i]) /\ Len(e[i]) = IF Exists(dep[i]) THEN 1 ELSE 0
  <2>1. TAKE i \in 1 .. Len(dep)
  <2>2. dep[i] \in PathsOf(given)
    BY <1>2 DEF ToSet, PathsOf, Bases
  <2>3. Exists(dep[i]) => One(disk[dep[i]])
    BY <2>2, Current
  <2>4. CASE Exists(dep[i])
    BY <1>2, <1>8, <2>3, <2>4 DEF One
  <2>5. CASE ~Exists(dep[i])
    BY <1>2, <1>8, <2>5, EmptyListed
  <2> QED
    BY <2>3, <2>4, <2>5
<1>10. Listed(e) /\ Len(e) = Len(dep) /\ DOMAIN e = 1 .. Len(dep)
  <2>1. \A i \in DOMAIN e : e[i] \in ToSet(e)
    BY DEF ToSet
  <2>2. e \in [1 .. Len(dep) -> ToSet(e)]
    BY <1>2, <1>8, <2>1
  <2>3. e \in Seq(ToSet(e)) /\ Len(e) = Len(dep)
    BY <1>2, <2>2
  <2> QED
    BY <1>2, <1>8, <2>3 DEF Listed
<1>11. PICK x : x = FlattenSeq(e)
  OBVIOUS
<1>12. Listed(x) /\ Flat(x, Len(dep), e) /\ Len(x) \in Nat
  BY <1>9, <1>10, <1>11, FlattenLists, ListedIs
<1>13. /\ Len(x) <= Len(dep)
       /\ Len(x) = Len(dep) => \A i \in 1 .. Len(dep) : Len(e[i]) = 1 /\ x[i] = e[i][1]
       /\ (\A i \in 1 .. Len(dep) : Exists(dep[i])) => Len(x) = Len(dep)
  <2>1. \A i \in 1 .. Len(dep) : Len(e[i]) <= 1
    BY <1>9
  <2>2. (\A i \in 1 .. Len(dep) : Exists(dep[i])) => \A i \in 1 .. Len(dep) : Len(e[i]) = 1
    BY <1>9
  <2> QED
    BY <1>12, <2>1, <2>2 DEF Flat
<1>14. PICK f : f = Fingerprint(job)
  OBVIOUS
<1>15. f = w \o x
  BY <1>1, <1>5, <1>8, <1>11, <1>14 DEF Fingerprint, FingerprintWithoutDeps
<1>16. /\ Len(f) = n + Len(x)
       /\ \A i \in 1 .. n : f[i] = w[i]
       /\ \A i \in 1 .. Len(x) : f[n + i] = x[i]
  <2>1. PICK u : u = w \o x
    OBVIOUS
  <2>2. /\ Len(u) = Len(w) + Len(x)
        /\ \A i \in 1 .. Len(w) : u[i] = w[i]
        /\ \A i \in 1 .. Len(x) : u[Len(w) + i] = x[i]
    BY <1>6, <1>12, <2>1, ConcatListed
  <2> QED
    BY <1>7, <1>15, <2>1, <2>2
<1>17. Len(f) \in Nat /\ Len(f) <= n + Len(dep) /\ (Len(f) = n + Len(dep) <=> Len(x) = Len(dep))
  <2>1. \A a, b, d \in Nat : a <= b => d + a \in Nat /\ d + a <= d + b /\ (d + a = d + b <=> a = b)
    OBVIOUS
  <2> QED
    BY <1>2, <1>12, <1>13, <1>16, <2>1
<1>18. ASSUME Len(f) = n + Len(dep), NEW i \in 1 .. Len(dep)
       PROVE  Exists(dep[i]) /\ f[n + i] = disk[dep[i]][1]
  <2>1. Len(x) = Len(dep) /\ Len(e[i]) = 1 /\ x[i] = e[i][1]
    BY <1>13, <1>17, <1>18
  <2>2. Exists(dep[i])
    BY <1>9, <2>1
  <2> QED
    BY <1>2, <1>8, <1>16, <2>1, <2>2
<1>19. \A i \in 1 .. n : f[i] = disk[job.inputs[i]][1] /\ One(disk[job.inputs[i]])
  BY <1>3, <1>4, <1>7, <1>16
<1>20. (\A i \in 1 .. Len(dep) : Exists(dep[i])) => Len(f) = n + Len(dep)
  BY <1>13, <1>17
<1> QED
  BY <1>1, <1>2, <1>14, <1>17, <1>18, <1>19, <1>20

\* What holds of the fingerprint f of a job's output.
KnownOK(given, was, gone, job, f) ==
    \E F : /\ Reading(given, was, job, F)
           /\ Len(f) = Len(F) /\ \A i \in 1 .. Len(F) : f[i] = F[i][1]
           /\ HasDeps(job) /\ job.output \in DOMAIN deps /\ ~GoneInput(gone, job, F) =>
                 deps[job.output] = Heads(job, F)
           /\ Exists(job.output) /\ ~Gone(gone, job, F) => disk[job.output] = Made(job, F)

\* A job whose output is what its tool makes of what there is.
Settled(job) ==
    /\ Readable(job) /\ Exists(job.output) /\ disk[job.output] = Result(job)
    /\ CacheDeps(job) = DepFile(job)

\* A fingerprint that matches is of what the job would read now.
LEMMA MatchSettles ==
    ASSUME NEW given, Planned(given), Traceable(given), NEW was, NEW gone, History(given, was, gone),
           NEW job \in AllJobs(given), DepsOK,
           \A i \in DOMAIN job.inputs : Exists(job.inputs[i]), Exists(job.output),
           KnownOK(given, was, gone, job, Fingerprint(job))
    PROVE  Settled(job)
<1>1. PICK f, n, dep : f = Fingerprint(job) /\ n = Len(job.inputs) /\ dep = CacheDeps(job)
  OBVIOUS
<1>2. PICK F : /\ Reading(given, was, job, F)
               /\ Len(f) = Len(F) /\ \A i \in 1 .. Len(F) : f[i] = F[i][1]
               /\ HasDeps(job) /\ job.output \in DOMAIN deps /\ ~GoneInput(gone, job, F) =>
                     deps[job.output] = Heads(job, F)
               /\ Exists(job.output) /\ ~Gone(gone, job, F) => disk[job.output] = Made(job, F)
  BY <1>1 DEF KnownOK
<1>3. /\ n \in Nat /\ n <= Len(F) /\ Len(F) = n + Len(Heads(job, F)) /\ Len(Heads(job, F)) \in Nat
      /\ \A i \in 1 .. Len(F) : One(F[i])
      /\ (\A i \in 1 .. n : F[i] = disk[job.inputs[i]]) =>
            Heads(job, F) = DepFile(job) /\ ReadBy(job, F) = Read(job)
  BY <1>1, <1>2, InputsRead
<1>4. ToSet(job.inputs) \subseteq PathsOf(given) /\ Listed(job.inputs) /\ Listed(Heads(job, F))
      /\ ToSet(Heads(job, F)) \subseteq Headers /\ Listed(F)
  BY <1>2, AllJobsAre DEF Reading
<1>5. /\ Len(f) \in Nat /\ Len(dep) \in Nat /\ Len(f) <= n + Len(dep)
      /\ \A i \in 1 .. n : f[i] = disk[job.inputs[i]][1] /\ One(disk[job.inputs[i]])
      /\ Len(f) = n + Len(dep) =>
            \A i \in 1 .. Len(dep) : Exists(dep[i]) /\ f[n + i] = disk[dep[i]][1]
  BY <1>1, <1>4, FingerprintIs
<1>6. \A i \in 1 .. n : i \in 1 .. Len(F) /\ F[i] = disk[job.inputs[i]]
  <2>1. TAKE i \in 1 .. n
  <2>2. i \in 1 .. Len(F)
    BY <1>3
  <2>3. F[i][1] = disk[job.inputs[i]][1] /\ One(F[i]) /\ One(disk[job.inputs[i]])
    BY <1>2, <1>3, <1>5, <2>2
  <2> QED
    BY <2>2, <2>3, OneLetter
<1>7. PICK hs : hs = Heads(job, F)
  OBVIOUS
<1>8. /\ hs = DepFile(job) /\ ReadBy(job, F) = Read(job) /\ Listed(hs) /\ Len(hs) \in Nat
      /\ Len(F) = n + Len(hs) /\ DOMAIN hs = 1 .. Len(hs) /\ ToSet(hs) \subseteq Headers
  BY <1>3, <1>4, <1>6, <1>7, ListedIs
<1>9. \A i \in 1 .. n : job.inputs[i] \in PathsOf(given) /\ Exists(job.inputs[i])
  BY <1>1, <1>4, ListedIs DEF ToSet
<1>10. ~GoneInput(gone, job, F)
  <2>1. \A i \in 1 .. n : disk[job.inputs[i]] \notin gone[job.inputs[i]]
    BY <1>9, Current
  <2> QED
    BY <1>1, <1>6, <2>1 DEF GoneInput
<1>11. dep = hs
  <2>1. CASE HasDeps(job) /\ job.output \in DOMAIN deps
    BY <1>1, <1>2, <1>7, <1>10, <2>1 DEF CacheDeps
  <2>2. CASE ~(HasDeps(job) /\ job.output \in DOMAIN deps)
    <3>1. dep = <<>> /\ Len(dep) = 0
      BY <1>1, <2>2, EmptyListed DEF CacheDeps
    <3>2. Len(hs) = 0
      BY <1>2, <1>3, <1>5, <1>8, <3>1
    <3>3. hs = <<>>
      BY <1>8, <3>2, EmptyListed, SameList
    <3> QED
      BY <3>1, <3>3
  <2> QED
    BY <2>1, <2>2
<1>12. \A i \in 1 .. Len(hs) : Exists(hs[i]) /\ f[n + i] = disk[hs[i]][1]
  BY <1>2, <1>5, <1>8, <1>11
<1>13. /\ \A i \in 1 .. n : ReadBy(job, F)[i] = job.inputs[i]
       /\ \A i \in 1 .. Len(hs) : ReadBy(job, F)[n + i] = hs[i]
       /\ Listed(ReadBy(job, F)) /\ Len(ReadBy(job, F)) = Len(F)
       /\ DOMAIN ReadBy(job, F) = 1 .. Len(F)
  <2>1. /\ \A i \in 1 .. Len(job.inputs) : ReadBy(job, F)[i] = job.inputs[i]
        /\ \A i \in 1 .. Len(Heads(job, F)) : ReadBy(job, F)[Len(job.inputs) + i] = Heads(job, F)[i]
        /\ Listed(ReadBy(job, F)) /\ Len(ReadBy(job, F)) = Len(F)
    BY <1>2, <1>4, ReadByIs DEF Reading
  <2> QED
    BY <1>1, <1>7, <2>1, ListedIs
<1>14. /\ \A i \in 1 .. n : Read(job)[i] = job.inputs[i]
       /\ \A i \in 1 .. Len(hs) : Read(job)[n + i] = hs[i]
  BY <1>8, <1>13
<1>15. Listed(Read(job)) /\ Len(Read(job)) = Len(F) /\ DOMAIN Read(job) = 1 .. Len(F)
  BY <1>8, <1>13
<1>16. \A i \in 1 .. Len(F) : i \in 1 .. n \/ \E j \in 1 .. Len(hs) : i = n + j
  <2>1. TAKE i \in 1 .. Len(F)
  <2>2. i > n => i - n \in 1 .. Len(hs) /\ i = n + (i - n)
    BY <1>3, <1>8
  <2>3. i <= n => i \in 1 .. n
    BY <1>3
  <2>4. i <= n \/ i > n
    BY <1>3
  <2> QED
    BY <2>2, <2>3, <2>4
<1>17. \A i \in 1 .. Len(F) : Exists(Read(job)[i])
  BY <1>9, <1>12, <1>14, <1>16
<1>18. Readable(job)
  BY <1>1, <1>9, <1>4, <1>15, <1>17, ListedIs DEF Readable
<1>19. \A i \in 1 .. Len(F) : F[i] = disk[Read(job)[i]]
  <2>1. ASSUME NEW i \in 1 .. Len(hs)
        PROVE  F[n + i] = disk[hs[i]]
    <3>1. n + i \in 1 .. Len(F)
      BY <1>3, <1>8
    <3>2. F[n + i][1] = disk[hs[i]][1] /\ One(F[n + i])
      BY <1>2, <1>3, <1>12, <3>1
    <3>3. hs[i] \in PathsOf(given) /\ Exists(hs[i])
      BY <1>8, <1>12 DEF PathsOf, Bases, ToSet
    <3>4. One(disk[hs[i]])
      BY <3>3, Current
    <3> QED
      BY <3>2, <3>4, OneLetter
  <2> QED
    BY <1>6, <1>14, <1>16, <2>1
<1>20. F = Contents(Read(job))
  BY <1>4, <1>15, <1>19, ContentsAre, SameList
<1>21. ~Gone(gone, job, F)
  BY <1>4, <1>18, <1>20, NowReading
<1>22. disk[job.output] = Result(job)
  BY <1>2, <1>18, <1>20, <1>21, ResultIs
<1> QED
  BY <1>1, <1>8, <1>11, <1>18, <1>22 DEF Settled

\* The fingerprint recorded for an output that was just made.
LEMMA SettledIsKnown ==
    ASSUME NEW given, Planned(given), Traceable(given), NEW was, NEW gone, History(given, was, gone),
           NEW job \in AllJobs(given), DepsOK, ToSet(job.inputs) \subseteq PathsOf(given), Settled(job)
    PROVE  KnownOK(given, was, gone, job, Fingerprint(job))
<1>1. PICK f, n, hs, F : /\ f = Fingerprint(job) /\ n = Len(job.inputs) /\ hs = CacheDeps(job)
                         /\ F = Contents(Read(job))
  OBVIOUS
<1>2a. \A i \in DOMAIN job.inputs : Exists(job.inputs[i])
  BY DEF Settled, Readable
<1>2. Readable(job) /\ hs = DepFile(job) /\ Exists(job.output)
  BY <1>1 DEF Settled
<1>3. /\ Reading(given, was, job, F) /\ ReadBy(job, F) = Read(job) /\ Heads(job, F) = hs
      /\ \A i \in 1 .. Len(F) : F[i] = disk[ReadBy(job, F)[i]]
  BY <1>1, <1>2, NowReading
<1>4. /\ Len(f) \in Nat /\ n \in Nat /\ Len(hs) \in Nat
      /\ \A i \in 1 .. n : f[i] = disk[job.inputs[i]][1]
      /\ Len(f) = n + Len(hs) =>
            \A i \in 1 .. Len(hs) : Exists(hs[i]) /\ f[n + i] = disk[hs[i]][1]
      /\ (\A i \in 1 .. Len(hs) : Exists(hs[i])) => Len(f) = n + Len(hs)
  BY <1>1, <1>2a, FingerprintIs
<1>5. /\ Len(F) = n + Len(hs) /\ DOMAIN Read(job) = 1 .. Len(F)
      /\ \A i \in 1 .. n : Read(job)[i] = job.inputs[i]
      /\ \A i \in 1 .. Len(hs) : Read(job)[n + i] = hs[i]
  <2>1. /\ \A i \in 1 .. Len(job.inputs) : ReadBy(job, F)[i] = job.inputs[i]
        /\ \A i \in 1 .. Len(Heads(job, F)) : ReadBy(job, F)[Len(job.inputs) + i] = Heads(job, F)[i]
        /\ Listed(ReadBy(job, F)) /\ Len(ReadBy(job, F)) = Len(F)
        /\ Len(ReadBy(job, F)) = Len(job.inputs) + Len(Heads(job, F))
        /\ DOMAIN ReadBy(job, F) = 1 .. Len(F)
    BY <1>3, AllJobsAre, ReadByIs, ListedIs DEF Reading
  <2> QED
    BY <1>1, <1>3, <2>1
<1>6. \A i \in 1 .. Len(hs) : Exists(hs[i])
  <2>1. TAKE i \in 1 .. Len(hs)
  <2>2. n + i \in 1 .. Len(F)
    BY <1>4, <1>5
  <2> QED
    BY <1>2, <1>5, <2>2 DEF Readable
<1>7. Len(f) = Len(F) /\ \A i \in 1 .. Len(hs) : f[n + i] = disk[hs[i]][1]
  BY <1>4, <1>5, <1>6
<1>8. \A i \in 1 .. Len(F) : i \in 1 .. n \/ \E j \in 1 .. Len(hs) : i = n + j
  <2>1. TAKE i \in 1 .. Len(F)
  <2>2. i > n => i - n \in 1 .. Len(hs) /\ i = n + (i - n)
    BY <1>4, <1>5
  <2>3. i <= n => i \in 1 .. n
    BY <1>4
  <2>4. i <= n \/ i > n
    BY <1>4
  <2> QED
    BY <2>2, <2>3, <2>4
<1>9. \A i \in 1 .. Len(F) : f[i] = F[i][1]
  BY <1>3, <1>4, <1>5, <1>7, <1>8
<1>10. HasDeps(job) /\ job.output \in DOMAIN deps => deps[job.output] = Heads(job, F)
  BY <1>1, <1>3 DEF CacheDeps
<1>11. disk[job.output] = Made(job, F)
  BY <1>1, <1>2, ResultIs DEF Settled
<1> QED
  BY <1>1, <1>3, <1>7, <1>9, <1>10, <1>11 DEF KnownOK

-----------------------------------------------------------------------------
(* What a step adds to the history *)

Later(given, was, gone, was2, gone2) ==
    \A p \in PathsOf(given) : was[p] \subseteq was2[p] /\ gone[p] \subseteq gone2[p]

LEMMA ReadingLater ==
    ASSUME NEW given, NEW was, NEW gone, NEW was2, NEW gone2, Later(given, was, gone, was2, gone2),
           NEW job, Listed(job.inputs), NEW F, Reading(given, was, job, F)
    PROVE  /\ Reading(given, was2, job, F)
           /\ Gone(gone, job, F) => Gone(gone2, job, F)
           /\ GoneInput(gone, job, F) => GoneInput(gone2, job, F)
<1>1. /\ DOMAIN ReadBy(job, F) = 1 .. Len(F) /\ DOMAIN job.inputs = 1 .. Len(job.inputs)
      /\ ToSet(ReadBy(job, F)) = ToSet(job.inputs) \cup ToSet(Heads(job, F))
  BY ReadByIs, ListedIs DEF Reading
<1>2. \A i \in 1 .. Len(F) : ReadBy(job, F)[i] \in PathsOf(given)
  <2>1. TAKE i \in 1 .. Len(F)
  <2>2. ReadBy(job, F)[i] \in ToSet(job.inputs) \cup ToSet(Heads(job, F))
    BY <1>1 DEF ToSet
  <2> QED
    BY <2>2 DEF Reading, PathsOf, Bases
<1>3. \A i \in 1 .. Len(job.inputs) : job.inputs[i] \in PathsOf(given)
  BY <1>1 DEF Reading, ToSet
<1>4. \A i \in 1 .. Len(F) : F[i] \in was2[ReadBy(job, F)[i]]
  BY <1>2 DEF Reading, Later
<1>5. Reading(given, was2, job, F)
  BY <1>4 DEF Reading
<1>6. Gone(gone, job, F) => Gone(gone2, job, F)
  BY <1>2 DEF Gone, Later
<1>7. GoneInput(gone, job, F) => GoneInput(gone2, job, F)
  BY <1>3 DEF GoneInput, Later
<1> QED
  BY <1>5, <1>6, <1>7

\* The output of a job after the step is the one before it, or what the job
\* makes of whatever it has read, if nothing of that is gone.
OutputKept(given, was, gone, job) ==
    job.output \in DOMAIN disk' =>
        \/ job.output \in DOMAIN disk /\ disk'[job.output] = disk[job.output]
        \/ \A F : Reading(given, was, job, F) /\ ~Gone(gone, job, F) => disk'[job.output] = Made(job, F)
DepsKept(given, was, gone, job) ==
    HasDeps(job) /\ job.output \in DOMAIN deps' =>
        \/ job.output \in DOMAIN deps /\ deps'[job.output] = deps[job.output]
        \/ \A F : Reading(given, was, job, F) /\ ~GoneInput(gone, job, F) =>
                    deps'[job.output] = Heads(job, F)

LEMMA KnownLater ==
    ASSUME NEW given, NEW was, NEW gone, NEW was2, NEW gone2, Later(given, was, gone, was2, gone2),
           NEW job, Listed(job.inputs), NEW f, KnownOK(given, was, gone, job, f),
           OutputKept(given, was, gone, job), DepsKept(given, was, gone, job)
    PROVE  KnownOK(given, was2, gone2, job, f)'
<1>1. PICK F : /\ Reading(given, was, job, F)
               /\ Len(f) = Len(F) /\ \A i \in 1 .. Len(F) : f[i] = F[i][1]
               /\ HasDeps(job) /\ job.output \in DOMAIN deps /\ ~GoneInput(gone, job, F) =>
                     deps[job.output] = Heads(job, F)
               /\ Exists(job.output) /\ ~Gone(gone, job, F) => disk[job.output] = Made(job, F)
  BY DEF KnownOK
<1>2. /\ Reading(given, was2, job, F)
      /\ Gone(gone, job, F) => Gone(gone2, job, F)
      /\ GoneInput(gone, job, F) => GoneInput(gone2, job, F)
  BY <1>1, ReadingLater
<1>3. HasDeps(job) /\ job.output \in DOMAIN deps' /\ ~GoneInput(gone2, job, F) =>
         deps'[job.output] = Heads(job, F)
  BY <1>1, <1>2 DEF DepsKept
<1>4. job.output \in DOMAIN disk' /\ ~Gone(gone2, job, F) => disk'[job.output] = Made(job, F)
  BY <1>1, <1>2 DEF OutputKept, Exists
<1> QED
  BY <1>1, <1>2, <1>3, <1>4 DEF KnownOK, Exists

LEMMA OutputsApart ==
    ASSUME NEW given, Planned(given), NEW job \in AllJobs(given)
    PROVE  job.output \notin Bases /\ job.output \notin ToSet(job.inputs) /\ job.output \in PathsOf(given)
  BY DEF Planned, Bases, PathsOf

\* Steps of the user, and steps that only remove outputs.
LEMMA BasesMove ==
    ASSUME NEW given, Planned(given), Traceable(given), NEW was, NEW gone, History(given, was, gone),
           seen \subseteq seen', seen' \subseteq Texts,
           \A p \in Bases : p \in DOMAIN disk' =>
               /\ disk'[p] \in seen'
               /\ disk'[p] \in seen => p \in DOMAIN disk /\ disk[p] = disk'[p],
           \A job \in AllJobs(given) : job.output \in DOMAIN disk' =>
               job.output \in DOMAIN disk /\ disk'[job.output] = disk[job.output]
    PROVE  \E was2, gone2 : /\ History(given, was2, gone2)' /\ Later(given, was, gone, was2, gone2)
                            /\ \A job \in AllJobs(given) : OutputKept(given, was, gone, job)
<1>1. PICK was2 : was2 = [p \in PathsOf(given) |-> IF p \in Bases THEN seen' ELSE was[p]]
  OBVIOUS
<1>2. PICK gone2 : gone2 = [p \in PathsOf(given) |->
                              IF p \in Bases THEN {t \in seen' : ~(p \in DOMAIN disk' /\ disk'[p] = t)}
                              ELSE gone[p]]
  OBVIOUS
<1>3. Later(given, was, gone, was2, gone2)
  <2>1. SUFFICES ASSUME NEW p \in PathsOf(given)
                 PROVE  was[p] \subseteq was2[p] /\ gone[p] \subseteq gone2[p]
    BY DEF Later
  <2>2. CASE p \in Bases
    <3>1. was[p] = seen /\ gone[p] = {t \in seen : ~(Exists(p) /\ disk[p] = t)}
      BY <2>2 DEF History
    <3>2. was2[p] = seen' /\ gone2[p] = {t \in seen' : ~(p \in DOMAIN disk' /\ disk'[p] = t)}
      BY <1>1, <1>2, <2>2
    <3>3. ASSUME NEW t \in gone[p]
          PROVE  t \in gone2[p]
      <4>1. t \in seen /\ ~(p \in DOMAIN disk /\ disk[p] = t)
        BY <3>1, <3>3 DEF Exists
      <4>2. ~(p \in DOMAIN disk' /\ disk'[p] = t)
        BY <2>2, <4>1
      <4> QED
        BY <3>2, <4>1, <4>2
    <3> QED
      BY <3>1, <3>2, <3>3
  <2>3. CASE p \notin Bases
    BY <1>1, <1>2, <2>3
  <2> QED
    BY <2>2, <2>3
<1>4. \A job \in AllJobs(given) : OutputKept(given, was, gone, job)
  BY DEF OutputKept
<1>5. \A p \in Bases : /\ was2[p] = seen'
                       /\ gone2[p] = {t \in seen' : ~(p \in DOMAIN disk' /\ disk'[p] = t)}
  BY <1>1, <1>2 DEF PathsOf
<1>6. ASSUME NEW job \in AllJobs(given)
      PROVE  LET p == job.output
             IN  /\ p \in DOMAIN disk' => /\ disk'[p] \in was2[p] \ gone2[p]
                                          /\ \A v \in was2[p] : v # disk'[p] => v \in gone2[p]
                 /\ \A v \in was2[p] : \E F : Reading(given, was2, job, F) /\ v = Made(job, F)
                 /\ \A v \in gone2[p] : \E F : /\ Reading(given, was2, job, F) /\ v = Made(job, F)
                                               /\ Gone(gone2, job, F)
  <2>1. PICK p : p = job.output
    OBVIOUS
  <2>2. was2[p] = was[p] /\ gone2[p] = gone[p]
    BY <1>1, <1>2, <2>1, OutputsApart
  <2>3. /\ Exists(p) => /\ disk[p] \in was[p] \ gone[p]
                        /\ \A v \in was[p] : v # disk[p] => v \in gone[p]
        /\ \A v \in was[p] : \E F : Reading(given, was, job, F) /\ v = Made(job, F)
        /\ \A v \in gone[p] : \E F : /\ Reading(given, was, job, F) /\ v = Made(job, F)
                                     /\ Gone(gone, job, F)
    BY <2>1 DEF History
  <2>4. Listed(job.inputs)
    BY AllJobsAre
  <2>5. \A F : Reading(given, was, job, F) =>
            Reading(given, was2, job, F) /\ (Gone(gone, job, F) => Gone(gone2, job, F))
    BY <1>3, <2>4, ReadingLater
  <2>6. \A v \in was2[p] : \E F : Reading(given, was2, job, F) /\ v = Made(job, F)
    BY <2>2, <2>3, <2>5
  <2>7. \A v \in gone2[p] : \E F : /\ Reading(given, was2, job, F) /\ v = Made(job, F)
                                   /\ Gone(gone2, job, F)
    BY <2>2, <2>3, <2>5
  <2>8. p \in DOMAIN disk' => Exists(p) /\ disk'[p] = disk[p]
    BY <2>1 DEF Exists
  <2> QED
    BY <2>1, <2>2, <2>3, <2>6, <2>7, <2>8
<1>7. History(given, was2, gone2)'
  BY <1>5, <1>6 DEF History, Exists
<1> QED
  BY <1>3, <1>4, <1>7

\* The tool writes what it makes of what there is.
LEMMA OutputMoves ==
    ASSUME NEW given, Planned(given), Traceable(given), NEW was, NEW gone, History(given, was, gone),
           NEW job \in AllJobs(given), ToSet(job.inputs) \subseteq PathsOf(given), Readable(job),
           disk' = With(disk, job.output, Result(job)), seen' = seen
    PROVE  \E was2, gone2 : /\ History(given, was2, gone2)' /\ Later(given, was, gone, was2, gone2)
                            /\ \A k \in AllJobs(given) : OutputKept(given, was, gone, k)
<1>1. PICK o, F, c : o = job.output /\ F = Contents(Read(job)) /\ c = Result(job)
  OBVIOUS
<1>2. c = Made(job, F)
  BY <1>1, ResultIs
<1>3. Reading(given, was, job, F) /\ ~Gone(gone, job, F)
  BY <1>1, NowReading
<1>4. PICK was2 : was2 = [p \in PathsOf(given) |-> IF p = o THEN was[o] \cup {c} ELSE was[p]]
  OBVIOUS
<1>5. PICK gone2 : gone2 = [p \in PathsOf(given) |->
                              IF p = o THEN gone[o] \cup (was[o] \ {c}) ELSE gone[p]]
  OBVIOUS
<1>6. Later(given, was, gone, was2, gone2)
  BY <1>4, <1>5 DEF Later
<1>7. o \in PathsOf(given) /\ o \notin Bases
  BY <1>1, OutputsApart
<1>8. was2[o] = was[o] \cup {c} /\ gone2[o] = gone[o] \cup (was[o] \ {c})
  BY <1>4, <1>5, <1>7
<1>9. /\ \A v \in was[o] : \E G : Reading(given, was, job, G) /\ v = Made(job, G)
      /\ \A v \in gone[o] : \E G : /\ Reading(given, was, job, G) /\ v = Made(job, G)
                                   /\ Gone(gone, job, G)
  BY <1>1 DEF History
<1>10. c \notin gone[o]
  <2>1. SUFFICES ASSUME c \in gone[o] PROVE FALSE
    OBVIOUS
  <2>2. PICK G : c = Made(job, G) /\ Gone(gone, job, G)
    BY <1>9, <2>1
  <2>3. F = G
    BY <1>2, <2>2, MadeIsOne
  <2> QED
    BY <1>3, <2>2, <2>3
<1>11. \A k \in AllJobs(given) : k.output = o => k = job
  BY <1>1 DEF Traceable
<1>12. /\ o \in DOMAIN disk' /\ disk'[o] = c
       /\ \A p : p # o => (p \in DOMAIN disk' <=> p \in DOMAIN disk)
       /\ \A p \in DOMAIN disk : p # o => disk'[p] = disk[p]
  BY <1>1 DEF With
<1>13. \A G : Reading(given, was, job, G) /\ ~Gone(gone, job, G) => G = F
  BY <1>1, StillReads
<1>14. \A k \in AllJobs(given) : OutputKept(given, was, gone, k)
  <2>1. TAKE k \in AllJobs(given)
  <2>2. CASE k.output = o
    <3>1. k = job
      BY <1>11, <2>2
    <3>2. \A G : Reading(given, was, k, G) /\ ~Gone(gone, k, G) => disk'[k.output] = Made(k, G)
      BY <1>1, <1>2, <1>12, <1>13, <3>1
    <3> QED
      BY <3>2 DEF OutputKept
  <2>3. CASE k.output # o
    BY <1>12, <2>3 DEF OutputKept
  <2> QED
    BY <2>2, <2>3
<1>15. \A p \in Bases : was2[p] = was[p] /\ gone2[p] = gone[p] /\ p # o
  BY <1>4, <1>5, <1>7 DEF PathsOf
<1>16. ASSUME NEW k \in AllJobs(given)
       PROVE  LET p == k.output
              IN  /\ p \in DOMAIN disk' => /\ disk'[p] \in was2[p] \ gone2[p]
                                           /\ \A v \in was2[p] : v # disk'[p] => v \in gone2[p]
                  /\ \A v \in was2[p] : \E G : Reading(given, was2, k, G) /\ v = Made(k, G)
                  /\ \A v \in gone2[p] : \E G : /\ Reading(given, was2, k, G) /\ v = Made(k, G)
                                                /\ Gone(gone2, k, G)
  <2>1. PICK p : p = k.output
    OBVIOUS
  <2>2. /\ Exists(p) => /\ disk[p] \in was[p] \ gone[p]
                        /\ \A v \in was[p] : v # disk[p] => v \in gone[p]
        /\ \A v \in was[p] : \E G : Reading(given, was, k, G) /\ v = Made(k, G)
        /\ \A v \in gone[p] : \E G : /\ Reading(given, was, k, G) /\ v = Made(k, G)
                                     /\ Gone(gone, k, G)
    BY <2>1 DEF History
  <2>3. Listed(k.inputs) /\ p \in PathsOf(given)
    BY <2>1, AllJobsAre, OutputsApart
  <2>4. \A G : Reading(given, was, k, G) =>
            Reading(given, was2, k, G) /\ (Gone(gone, k, G) => Gone(gone2, k, G))
    BY <1>6, <2>3, ReadingLater
  <2>5. CASE p # o
    <3>1. was2[p] = was[p] /\ gone2[p] = gone[p]
      BY <1>4, <1>5, <2>3, <2>5
    <3>2. p \in DOMAIN disk' => Exists(p) /\ disk'[p] = disk[p]
      BY <1>12, <2>5 DEF Exists
    <3>3. \A v \in was2[p] : \E G : Reading(given, was2, k, G) /\ v = Made(k, G)
      BY <2>2, <2>4, <3>1
    <3>4. \A v \in gone2[p] : \E G : /\ Reading(given, was2, k, G) /\ v = Made(k, G)
                                     /\ Gone(gone2, k, G)
      BY <2>2, <2>4, <3>1
    <3> QED
      BY <2>1, <2>2, <3>1, <3>2, <3>3, <3>4
  <2>6. CASE p = o
    <3>1. k = job
      BY <1>11, <2>1, <2>6
    <3>2. disk'[o] \in was2[o] \ gone2[o] /\ \A v \in was2[o] : v # disk'[o] => v \in gone2[o]
      BY <1>8, <1>10, <1>12
    <3>3. \A v \in was2[o] : \E G : Reading(given, was2, job, G) /\ v = Made(job, G)
      <4>1. TAKE v \in was2[o]
      <4>2. CASE v = c
        BY <1>2, <1>3, <2>4, <3>1, <4>2
      <4>3. CASE v # c
        BY <1>8, <1>9, <2>4, <3>1, <4>3
      <4> QED
        BY <4>2, <4>3
    <3>4. \A v \in gone2[o] : \E G : /\ Reading(given, was2, job, G) /\ v = Made(job, G)
                                     /\ Gone(gone2, job, G)
      <4>1. TAKE v \in gone2[o]
      <4>2. CASE v \in gone[o]
        BY <1>9, <2>4, <3>1, <4>2
      <4>3. CASE v \in was[o] \ {c}
        <5>1. PICK G : Reading(given, was, job, G) /\ v = Made(job, G)
          BY <1>9, <4>3
        <5>2. G # F
          BY <1>2, <4>3, <5>1
        <5>3. Gone(gone, job, G)
          BY <1>13, <5>1, <5>2
        <5> QED
          BY <2>4, <3>1, <5>1, <5>3
      <4> QED
        BY <1>8, <4>2, <4>3
    <3> QED
      BY <2>1, <2>6, <3>1, <3>2, <3>3, <3>4
  <2> QED
    BY <2>5, <2>6
<1>17. \A p \in Bases : /\ was2[p] = seen' /\ gone2[p] = {t \in seen' : ~(p \in DOMAIN disk' /\ disk'[p] = t)}
                        /\ p \in DOMAIN disk' => disk'[p] \in seen'
  <2>1. TAKE p \in Bases
  <2>2. /\ was[p] = seen /\ gone[p] = {t \in seen : ~(p \in DOMAIN disk /\ disk[p] = t)}
        /\ p \in DOMAIN disk => disk[p] \in seen
    BY DEF History, Exists
  <2>3. (p \in DOMAIN disk' <=> p \in DOMAIN disk) /\ (p \in DOMAIN disk => disk'[p] = disk[p])
    BY <1>12, <1>15
  <2> QED
    BY <1>15, <2>2, <2>3
<1>18. History(given, was2, gone2)'
  BY <1>16, <1>17 DEF History, Exists
<1> QED
  BY <1>6, <1>14, <1>18

\* Whatever the targets that are done gave was made by a job.
LEMMA YieldedIs ==
    ASSUME NEW given, WalkOK(given), NEW p \in Yielded
    PROVE  \E job \in AllJobs(given) : job.output = p
<1>1. PICK t \in DOMAIN executed : p \in ToSet(executed[t])
  BY DEF Yielded
<1>2. t \in Here /\ executed[t] = OutputsMade(given, t)
  BY <1>1 DEF WalkOK
<1>3. PICK i \in DOMAIN OutputsMade(given, t) : p = OutputsMade(given, t)[i]
  BY <1>1, <1>2 DEF ToSet
<1>4. i \in DOMAIN JobsOf(given, t) /\ p = JobsOf(given, t)[i].output
  BY <1>3 DEF OutputsMade
<1>5. JobsOf(given, t)[i] \in AllJobs(given)
  BY <1>2, <1>4 DEF AllJobs, ToSet
<1> QED
  BY <1>4, <1>5

LEMMA JobReads ==
    ASSUME NEW given, Planned(given), WalkOK(given), HasJob
    PROVE  ToSet(Job.inputs) \subseteq PathsOf(given)
<1>1. ToSet(Job.inputs) \subseteq Sources \cup Yielded
  BY JobIs DEF WalkOK
<1>2. Yielded \subseteq PathsOf(given)
  BY YieldedIs DEF PathsOf
<1> QED
  BY <1>1, <1>2 DEF PathsOf, Bases

LEMMA HistoryMoves ==
    ASSUME NEW given, Planned(given), Traceable(given), WalkOK(given), BaseOK,
           NEW was, NEW gone, History(given, was, gone), [Next]_vars
    PROVE  \E was2, gone2 : /\ History(given, was2, gone2)' /\ Later(given, was, gone, was2, gone2)
                            /\ \A job \in AllJobs(given) : OutputKept(given, was, gone, job)
<1>1. DiskMove
  BY DiskMoves
<1>2. \A job \in AllJobs(given) : job.output \notin Bases
  BY OutputsApart
<1>3. seen \subseteq Texts /\ \A p \in Bases : p \in DOMAIN disk => disk[p] \in seen
  BY DEF History, Exists
<1>4. ~Reverts /\ ~PartialOutputs
  BY DEF Traceable
<1>5. ASSUME seen' = seen, \A p \in DOMAIN disk' : p \in DOMAIN disk /\ disk'[p] = disk[p]
      PROVE  \E was2, gone2 : /\ History(given, was2, gone2)' /\ Later(given, was, gone, was2, gone2)
                              /\ \A job \in AllJobs(given) : OutputKept(given, was, gone, job)
  BY <1>3, <1>5, BasesMove
<1>6. CASE seen' = seen /\ HasJob /\ Result(Job) # Absent /\ disk' = With(disk, Job.output, Result(Job))
  <2>1. Job \in AllJobs(given)
    BY <1>6, JobIs DEF WalkOK
  <2>2. ToSet(Job.inputs) \subseteq PathsOf(given)
    BY <1>6, JobReads
  <2> QED
    BY <1>6, <2>1, <2>2, ReadableIs, OutputMoves
<1>7. ASSUME NEW p \in Bases, NEW t \in Texts, t \notin seen, disk' = With(disk, p, t),
             seen' = seen \cup {t}
      PROVE  \E was2, gone2 : /\ History(given, was2, gone2)' /\ Later(given, was, gone, was2, gone2)
                              /\ \A job \in AllJobs(given) : OutputKept(given, was, gone, job)
  <2>1. /\ p \in DOMAIN disk' /\ disk'[p] = t
        /\ \A q : q # p => (q \in DOMAIN disk' <=> q \in DOMAIN disk)
        /\ \A q \in DOMAIN disk : q # p => disk'[q] = disk[q]
    BY <1>7 DEF With
  <2>2. \A q \in Bases : q \in DOMAIN disk' =>
               /\ disk'[q] \in seen'
               /\ disk'[q] \in seen => q \in DOMAIN disk /\ disk[q] = disk'[q]
    BY <1>3, <1>7, <2>1
  <2>3. \A job \in AllJobs(given) : job.output \in DOMAIN disk' =>
               job.output \in DOMAIN disk /\ disk'[job.output] = disk[job.output]
    BY <1>2, <2>1
  <2> QED
    BY <1>3, <1>7, <2>2, <2>3, BasesMove
<1>8. CASE seen' = seen /\ disk' = disk
  BY <1>5, <1>8
<1>9. CASE seen' = seen /\ \E S : disk' = Without(disk, S)
  BY <1>5, <1>9 DEF Without
<1> QED
  BY <1>1, <1>4, <1>6, <1>7, <1>8, <1>9 DEF DiskMove, Bases

-----------------------------------------------------------------------------
(* The dep files and the cache *)

LEMMA DepsMove ==
    ASSUME NEW given, Planned(given), Traceable(given), WalkOK(given), DepsOK,
           NEW was, NEW gone, History(given, was, gone), [Next]_vars
    PROVE  DepsOK' /\ \A job \in AllJobs(given) : DepsKept(given, was, gone, job)
<1>1. CASE deps' = deps
  BY <1>1 DEF DepsOK, DepsKept
<1>2. CASE deps' = None
  BY <1>2 DEF DepsOK, DepsKept, None
<1>3. CASE HasJob /\ Result(Job) # Absent /\ deps' = With(deps, Job.output, DepFile(Job))
  <2>1. PICK j : j = Job
    OBVIOUS
  <2>2. j \in AllJobs(given) /\ ToSet(j.inputs) \subseteq PathsOf(given) /\ Readable(j)
    BY <1>3, <2>1, JobIs, JobReads, ReadableIs DEF WalkOK
  <2>3. Listed(DepFile(j)) /\ ToSet(DepFile(j)) \subseteq Headers
    BY <2>2, HeadersNow DEF Readable
  <2>4. /\ DOMAIN deps' = DOMAIN deps \cup {j.output} /\ deps'[j.output] = DepFile(j)
        /\ \A o \in DOMAIN deps : o # j.output => deps'[o] = deps[o]
    BY <1>3, <2>1 DEF With
  <2>5. DepsOK'
    BY <2>3, <2>4 DEF DepsOK
  <2>6. ASSUME NEW k \in AllJobs(given)
        PROVE  DepsKept(given, was, gone, k)
    <3>1. CASE k.output = j.output
      <4>1. k = j
        BY <2>2, <3>1 DEF Traceable
      <4>2. ASSUME NEW F, Reading(given, was, j, F), ~GoneInput(gone, j, F)
            PROVE  Heads(j, F) = DepFile(j)
        <5>1. \A i \in 1 .. Len(j.inputs) : F[i] = disk[j.inputs[i]]
          BY <2>2, <4>2, InputsRead DEF GoneInput, Readable
        <5> QED
          BY <2>2, <4>2, <5>1, InputsRead DEF Readable
      <4> QED
        BY <2>4, <4>1, <4>2 DEF DepsKept
    <3>2. CASE k.output # j.output
      BY <2>4, <3>2 DEF DepsKept
    <3> QED
      BY <3>1, <3>2
  <2> QED
    BY <2>5, <2>6
<1>4. CASE pc = "tool" /\ Leftover
  BY <1>1, <1>3, <1>4 DEF Leftover, WalkOK
<1>5. CASE ToolRuns
  BY <1>1, <1>3, <1>5 DEF ToolRuns, WalkOK
<1>6. CASE Leave
  BY <1>1, <1>2, <1>6 DEF Leave
<1>7. CASE \E request \in Requests : Start(request)
  BY <1>1, <1>7 DEF Start
<1> QED
  BY <1>1, <1>4, <1>5, <1>6, <1>7
     DEF Next, Step, NextTarget, Before, Depends, Require, Files, Skip, NeedsTool, ToolFails, Record,
         RecordDies, EachDone, CommandFails, TargetsDone, OpenCacheFile, CloseCacheFile, WriteWild,
         WriteNothing, Ends, Kill, Edit, RemoveHeader, vars

\* What a job reads is as it was.
SameFor(job) ==
    \A p \in ToSet(job.inputs) \cup Headers :
        (p \in DOMAIN disk' <=> p \in DOMAIN disk) /\ (p \in DOMAIN disk => disk'[p] = disk[p])

LEMMA SameRead ==
    ASSUME NEW given, Planned(given), Traceable(given), NEW was, NEW gone, History(given, was, gone),
           NEW job \in AllJobs(given), ToSet(job.inputs) \subseteq PathsOf(given), Readable(job),
           SameFor(job)
    PROVE  /\ Readable(job)' /\ Result(job)' = Result(job) /\ DepFile(job)' = DepFile(job)
           /\ CacheDeps(job)' = CacheDeps(job) /\ ToSet(CacheDeps(job)) \subseteq Headers =>
                 Fingerprint(job)' = Fingerprint(job)
<1>1. PICK inputs, hs : inputs = job.inputs /\ hs = IncludedBy(job.inputs, Contents(job.inputs), {})
  OBVIOUS
<1>2. /\ Listed(inputs) /\ Listed(hs) /\ ToSet(hs) \subseteq Headers
      /\ DepFile(job) = hs /\ Read(job) = inputs \o hs
  BY <1>1, HeadersNow DEF Readable
<1>3. \A i \in DOMAIN inputs : inputs[i] \in DOMAIN disk' /\ disk'[inputs[i]] = disk[inputs[i]]
  BY <1>1 DEF Readable, SameFor, ToSet, Exists
<1>4. Contents(inputs)' = Contents(inputs)
  BY <1>3 DEF Contents
<1>5. DepFile(job)' = hs /\ Read(job)' = Read(job) /\ FingerprintWithoutDeps(job)' = FingerprintWithoutDeps(job)
  BY <1>1, <1>2, <1>4 DEF DepFile, Read, FingerprintWithoutDeps, Traceable
<1>6. \A i \in DOMAIN Read(job) : /\ Read(job)[i] \in DOMAIN disk'
                                  /\ disk'[Read(job)[i]] = disk[Read(job)[i]]
  <2>1. TAKE i \in DOMAIN Read(job)
  <2>2. ToSet(Read(job)) = ToSet(inputs) \cup ToSet(hs)
    BY <1>2, ConcatListed
  <2>3. Read(job)[i] \in ToSet(inputs) \cup ToSet(hs)
    BY <2>2 DEF ToSet
  <2>4. Read(job)[i] \in DOMAIN disk
    BY DEF Readable, Exists
  <2> QED
    BY <1>1, <1>2, <2>3, <2>4 DEF SameFor
<1>7. Readable(job)'
  BY <1>1, <1>3, <1>5, <1>6 DEF Readable, Exists
<1>8. Contents(Read(job))' = Contents(Read(job))
  BY <1>5, <1>6 DEF Contents
<1>9. Result(job) = Made(job, Contents(Read(job)))
  BY ResultIs
<1>10. Result(job)' = Made(job, Contents(Read(job))')
  BY <1>7 DEF Result, Readable, Made
<1>11. ASSUME CacheDeps(job)' = CacheDeps(job), ToSet(CacheDeps(job)) \subseteq Headers
       PROVE  Fingerprint(job)' = Fingerprint(job)
  <2>1. PICK dep : dep = CacheDeps(job)
    OBVIOUS
  <2>2. \A i \in DOMAIN dep : (IF dep[i] \in DOMAIN disk' THEN disk'[dep[i]] ELSE <<>>)
                              = (IF dep[i] \in DOMAIN disk THEN disk[dep[i]] ELSE <<>>)
    <3>1. TAKE i \in DOMAIN dep
    <3>2. dep[i] \in Headers
      BY <1>11, <2>1 DEF ToSet
    <3> QED
      BY <3>2 DEF SameFor
  <2>3. [i \in DOMAIN dep |-> IF dep[i] \in DOMAIN disk' THEN disk'[dep[i]] ELSE <<>>]
        = [i \in DOMAIN dep |-> IF dep[i] \in DOMAIN disk THEN disk[dep[i]] ELSE <<>>]
    BY <2>2
  <2> QED
    BY <1>5, <1>11, <2>1, <2>3 DEF Fingerprint, Exists
<1> QED
  BY <1>1, <1>2, <1>5, <1>7, <1>8, <1>9, <1>10, <1>11

\* The fingerprints in a cache are of what there was.
Known(given, was, gone, known) ==
    \A job \in AllJobs(given) : job.output \in DOMAIN known =>
        KnownOK(given, was, gone, job, known[job.output])

\* What the tool has just made is recorded before anything changes.
InHand(given) == pc = "record" => \A job \in AllJobs(given) : job = Job => Settled(job)

TraceOK(given) ==
    /\ DepsOK /\ InHand(given)
    /\ \E was, gone : /\ History(given, was, gone) /\ Known(given, was, gone, entries)
                      /\ cacheFile \notin {Absent, Torn} => Known(given, was, gone, cacheFile)

EntriesMove ==
    /\ \/ entries' = entries \/ entries' = None
       \/ entries' = cacheFile /\ cacheFile \notin {Absent, Torn}
       \/ pc = "record" /\ HasJob /\ entries' = Recorded
    /\ cacheFile' \in {cacheFile, Torn, entries}

LEMMA EntriesMoves ==
    ASSUME NEW given, WalkOK(given), [Next]_vars
    PROVE  EntriesMove
<1>1. CASE \E request \in Requests : Start(request)
  BY <1>1 DEF Start, ParseCacheFile, EntriesMove
<1>2. CASE UNCHANGED <<entries, cacheFile>>
  BY <1>2 DEF EntriesMove
<1>3. CASE Record
  BY <1>3 DEF Record, EntriesMove, WalkOK
<1>4. CASE RecordDies \/ Kill
  BY <1>4 DEF RecordDies, Kill, Dies, EntriesMove
<1>5. CASE OpenCacheFile
  BY <1>5 DEF OpenCacheFile, EntriesMove
<1>6. CASE CloseCacheFile \/ WriteWild \/ WriteNothing
  BY <1>6 DEF CloseCacheFile, WriteWild, WriteNothing, Ends, EntriesMove
<1> QED
  BY <1>1, <1>2, <1>3, <1>4, <1>5, <1>6
     DEF Next, Step, NextTarget, Before, Depends, Require, Files, Skip, NeedsTool, ToolRuns, ToolFails,
         EachDone, Leave, CommandFails, TargetsDone, Edit, RemoveHeader, vars, cache

LEMMA InHandStays ==
    ASSUME NEW given, Planned(given), Traceable(given), WalkOK(given), TraceOK(given), [Next]_vars
    PROVE  InHand(given)'
<1>0. PICK was, gone : History(given, was, gone)
  BY DEF TraceOK
<1>1. CASE pc' # "record"
  BY <1>1 DEF InHand
<1>2. CASE pc = "record" /\ UNCHANGED <<disk, deps, stack>>
  <2>1. ASSUME NEW job \in AllJobs(given)
        PROVE  Settled(job)' = Settled(job)
    BY <1>2 DEF Settled, Readable, Exists, Result, Read, Contents, CacheDeps, DepFile
  <2>2. Job' = Job
    BY <1>2 DEF Job, Top
  <2> QED
    BY <1>2, <2>1, <2>2 DEF InHand, TraceOK
<1>3. CASE ToolRuns
  <2>1. PICK j : j = Job
    OBVIOUS
  <2>2. /\ j \in AllJobs(given) /\ ToSet(j.inputs) \subseteq PathsOf(given) /\ Readable(j) /\ HasJob
        /\ Listed(j.inputs)
    BY <1>3, <2>1, JobIs, JobReads, ReadableIs, AllJobsAre DEF WalkOK, ToolRuns
  <2>3. /\ disk' = With(disk, j.output, Result(j)) /\ stack' = stack
        /\ deps' = IF HasDeps(j) THEN With(deps, j.output, DepFile(j)) ELSE deps
    BY <1>3, <2>1 DEF ToolRuns
  <2>4. j.output \notin Bases /\ j.output \notin ToSet(j.inputs)
    BY <2>2, OutputsApart
  <2>5. j.output \in DOMAIN disk' /\ disk'[j.output] = Result(j) /\ SameFor(j)
    BY <2>3, <2>4 DEF With, SameFor, Bases
  <2>6. Readable(j)' /\ Result(j)' = Result(j) /\ DepFile(j)' = DepFile(j)
    BY <1>0, <2>2, <2>5, SameRead
  <2>7. CacheDeps(j)' = DepFile(j)
    <3>1. CASE HasDeps(j)
      <4>1. j.output \in DOMAIN deps' /\ deps'[j.output] = DepFile(j)
        BY <2>3, <3>1 DEF With
      <4> QED
        BY <3>1, <4>1 DEF CacheDeps
    <3>2. CASE ~HasDeps(j)
      <4>1. ToSet(j.inputs) \cap Sources = {}
        BY <2>2, <3>2 DEF Traceable
      <4>2. DepFile(j) = <<>>
        BY <2>2, <4>1, NoHeaders DEF DepFile, Traceable
      <4> QED
        BY <3>2, <4>2 DEF CacheDeps
    <3> QED
      BY <3>1, <3>2
  <2>8. Settled(j)'
    BY <2>5, <2>6, <2>7 DEF Settled, Exists
  <2>9. Job' = j
    BY <2>1, <2>3 DEF Job, Top
  <2> QED
    BY <2>8, <2>9 DEF InHand
<1>4. pc' = "record" => ToolRuns \/ (pc = "record" /\ UNCHANGED <<disk, deps, stack>>)
  <2>1. CASE \/ \E request \in Requests : Start(request)
             \/ NextTarget \/ Files \/ Skip \/ NeedsTool \/ Record \/ EachDone \/ Leave
             \/ TargetsDone \/ OpenCacheFile
    BY <2>1 DEF Start, NextTarget, Files, Skip, NeedsTool, Record, EachDone, Leave, TargetsDone, OpenCacheFile
  <2>2. CASE Before \/ Depends
    <3>1. pc' = "walk"
      BY <2>2 DEF Before, Depends, Require
    <3> QED
      BY <3>1
  <2>3. CASE ToolFails \/ CommandFails \/ RecordDies \/ Kill
    BY <2>3 DEF ToolFails, CommandFails, RecordDies, Kill, Fails, Dies
  <2>4. CASE CloseCacheFile \/ WriteWild \/ WriteNothing
    BY <2>4 DEF CloseCacheFile, WriteWild, WriteNothing, Ends
  <2>5. CASE Edit \/ RemoveHeader
    <3>1. CanEdit /\ pc' = pc
      BY <2>5 DEF Edit, RemoveHeader, walk
    <3> QED
      BY <3>1 DEF CanEdit, Traceable
  <2>6. CASE UNCHANGED vars
    BY <2>6 DEF vars
  <2> QED
    BY <2>1, <2>2, <2>3, <2>4, <2>5, <2>6 DEF Next, Step
<1> QED
  BY <1>1, <1>2, <1>3, <1>4

LEMMA TraceStays ==
    ASSUME NEW given, Planned(given), Traceable(given), WalkOK(given), BaseOK, TraceOK(given), [Next]_vars
    PROVE  TraceOK(given)'
<1>1. PICK was, gone : /\ History(given, was, gone) /\ Known(given, was, gone, entries)
                       /\ cacheFile \notin {Absent, Torn} => Known(given, was, gone, cacheFile)
  BY DEF TraceOK
<1>2. PICK was2, gone2 : /\ History(given, was2, gone2)' /\ Later(given, was, gone, was2, gone2)
                         /\ \A job \in AllJobs(given) : OutputKept(given, was, gone, job)
  BY <1>1, HistoryMoves
<1>3. DepsOK' /\ \A job \in AllJobs(given) : DepsKept(given, was, gone, job)
  BY <1>1, DepsMove DEF TraceOK
<1>4. InHand(given)'
  BY InHandStays
<1>5. ASSUME NEW job \in AllJobs(given), NEW f, KnownOK(given, was, gone, job, f)
      PROVE  KnownOK(given, was2, gone2, job, f)'
  BY <1>2, <1>3, <1>5, AllJobsAre, KnownLater
<1>6. ASSUME NEW known, Known(given, was, gone, known)
      PROVE  \A job \in AllJobs(given) : job.output \in DOMAIN known =>
                KnownOK(given, was2, gone2, job, known[job.output])'
  <2>1. SUFFICES ASSUME NEW job \in AllJobs(given), job.output \in DOMAIN known
                 PROVE  KnownOK(given, was2, gone2, job, known[job.output])'
    OBVIOUS
  <2>2. PICK f : f = known[job.output]
    OBVIOUS
  <2>3. KnownOK(given, was2, gone2, job, f)'
    BY <1>5, <1>6, <2>1, <2>2 DEF Known
  <2> QED
    BY <2>2, <2>3
<1>7. PICK e, c : e = entries /\ c = cacheFile
  OBVIOUS
<1>8. EntriesMove
  BY EntriesMoves
<1>9. ASSUME NEW known, known = e \/ (known = c /\ c \notin {Absent, Torn})
      PROVE  \A job \in AllJobs(given) : job.output \in DOMAIN known =>
                KnownOK(given, was2, gone2, job, known[job.output])'
  <2>1. Known(given, was, gone, known)
    BY <1>1, <1>7, <1>9
  <2> QED
    BY <1>6, <2>1
<1>10. Known(given, was2, gone2, entries)'
  <2>1. CASE entries' = e
    BY <1>9, <2>1 DEF Known
  <2>2. CASE entries' = None
    BY <2>2 DEF Known, None
  <2>3. CASE entries' = c /\ c \notin {Absent, Torn}
    BY <1>9, <2>3 DEF Known
  <2>4. CASE pc = "record" /\ HasJob /\ entries' = Recorded
    <3>1. PICK j, f : j = Job /\ f = Fingerprint(Job)
      OBVIOUS
    <3>2. j \in AllJobs(given) /\ ToSet(j.inputs) \subseteq PathsOf(given)
      BY <2>4, <3>1, JobIs, JobReads DEF WalkOK
    <3>3. Settled(j)
      BY <2>4, <3>1, <3>2 DEF TraceOK, InHand
    <3>4. KnownOK(given, was, gone, j, f)
      BY <1>1, <3>1, <3>2, <3>3, SettledIsKnown DEF TraceOK
    <3>5. KnownOK(given, was2, gone2, j, f)'
      BY <1>5, <3>2, <3>4
    <3>6. entries' = With(e, j.output, f)
      BY <1>7, <2>4, <3>1 DEF Recorded
    <3>7. ASSUME NEW k \in AllJobs(given), k.output \in DOMAIN entries'
          PROVE  KnownOK(given, was2, gone2, k, entries[k.output])'
      <4>1. CASE k.output = j.output
        <5>1. k = j
          BY <3>2, <4>1 DEF Traceable
        <5>2. entries'[k.output] = f
          BY <3>6, <4>1 DEF With
        <5> QED
          BY <3>5, <5>1, <5>2
      <4>2. CASE k.output # j.output
        <5>1. k.output \in DOMAIN e /\ entries'[k.output] = e[k.output]
          BY <3>6, <3>7, <4>2 DEF With
        <5>2. KnownOK(given, was2, gone2, k, e[k.output])'
          BY <1>9, <5>1
        <5> QED
          BY <5>1, <5>2
      <4> QED
        BY <4>1, <4>2
    <3> QED
      BY <3>7 DEF Known
  <2> QED
    BY <1>7, <1>8, <2>1, <2>2, <2>3, <2>4 DEF EntriesMove
<1>11. cacheFile' \notin {Absent, Torn} => Known(given, was2, gone2, cacheFile)'
  <2>1. SUFFICES ASSUME cacheFile' \notin {Absent, Torn}
                 PROVE  Known(given, was2, gone2, cacheFile)'
    OBVIOUS
  <2>2. cacheFile' = e \/ (cacheFile' = c /\ c \notin {Absent, Torn})
    BY <1>7, <1>8, <2>1 DEF EntriesMove
  <2>3. CASE cacheFile' = e
    BY <1>9, <2>3 DEF Known
  <2>4. CASE cacheFile' = c /\ c \notin {Absent, Torn}
    BY <1>9, <2>4 DEF Known
  <2> QED
    BY <2>2, <2>3, <2>4
<1> QED
  BY <1>2, <1>3, <1>4, <1>10, <1>11 DEF TraceOK

LEMMA TraceBegins ==
    ASSUME NEW given, Planned(given), Init
    PROVE  TraceOK(given)
<1>1. PICK was, gone : /\ was = [p \in PathsOf(given) |-> IF p \in Bases THEN seen ELSE {}]
                       /\ gone = [p \in PathsOf(given) |->
                              IF p \in Bases THEN {t \in seen : ~(Exists(p) /\ disk[p] = t)} ELSE {}]
  OBVIOUS
<1>2. DOMAIN entries = {} /\ cacheFile = Absent /\ DOMAIN deps = {} /\ pc = "idle"
  BY DEF Init, None
<1>3. /\ seen \subseteq Texts
      /\ \A p \in Bases : Exists(p) => disk[p] \in seen
  BY BuildAssumption DEF Init, Bases, Exists
<1>4. \A p \in Bases : was[p] = seen /\ gone[p] = {t \in seen : ~(Exists(p) /\ disk[p] = t)}
  BY <1>1 DEF PathsOf
<1>5. \A job \in AllJobs(given) : was[job.output] = {} /\ gone[job.output] = {} /\ ~Exists(job.output)
  <2>1. TAKE job \in AllJobs(given)
  <2>2. job.output \notin Bases /\ job.output \in PathsOf(given)
    BY OutputsApart
  <2>3. DOMAIN disk = Bases
    BY BuildAssumption DEF Init, Bases
  <2> QED
    BY <1>1, <2>2, <2>3 DEF Exists
<1>6. History(given, was, gone)
  BY <1>3, <1>4, <1>5 DEF History
<1>7. Known(given, was, gone, entries)
  BY <1>2 DEF Known
<1> QED
  BY <1>2, <1>6, <1>7 DEF TraceOK, DepsOK, InHand

-----------------------------------------------------------------------------
(* The outputs of a run *)

\* What the calls on a stack have given.
GivenBy(s) == UNION {ToSet(s[i].outputs) : i \in 1 .. Len(s)}
Done == Yielded \cup GivenBy(stack)

LEMMA TopGives ==
    ASSUME NEW s, Listed(s), s # <<>>, NEW f
    PROVE  GivenBy(ReplaceAt(s, Len(s), f)) \cup ToSet(s[Len(s)].outputs)
              = GivenBy(s) \cup ToSet(f.outputs)
<1>1. PICK t : t = ReplaceAt(s, Len(s), f)
  OBVIOUS
<1>2. /\ Listed(t) /\ Len(t) = Len(s) /\ t[Len(s)] = f /\ Len(s) \in Nat
      /\ \A i \in 1 .. Len(s) - 1 : t[i] = s[i]
  BY <1>1, TopReplaced, ListedIs
<1>3. Len(s) \in 1 .. Len(s) /\ \A i \in 1 .. Len(s) : i = Len(s) \/ i \in 1 .. Len(s) - 1
  BY <1>2, TopReplaced DEF Listed
<1>4. \A i \in 1 .. Len(s) - 1 : i \in 1 .. Len(s)
  BY <1>2
<1>5. GivenBy(t) \subseteq GivenBy(s) \cup ToSet(f.outputs)
  <2>1. SUFFICES ASSUME NEW i \in 1 .. Len(t) PROVE ToSet(t[i].outputs) \subseteq GivenBy(s) \cup ToSet(f.outputs)
    BY DEF GivenBy
  <2> QED
    BY <1>2, <1>3, <1>4 DEF GivenBy
<1>6. ToSet(f.outputs) \subseteq GivenBy(t)
  BY <1>2, <1>3 DEF GivenBy
<1>7. ToSet(s[Len(s)].outputs) \subseteq GivenBy(s)
  BY <1>3 DEF GivenBy
<1>8. GivenBy(s) \subseteq GivenBy(t) \cup ToSet(s[Len(s)].outputs)
  <2>1. SUFFICES ASSUME NEW i \in 1 .. Len(s)
                 PROVE  ToSet(s[i].outputs) \subseteq GivenBy(t) \cup ToSet(s[Len(s)].outputs)
    BY DEF GivenBy
  <2>2. CASE i = Len(s)
    BY <2>2
  <2>3. CASE i \in 1 .. Len(s) - 1
    BY <1>2, <1>4, <2>3 DEF GivenBy
  <2> QED
    BY <1>3, <2>2, <2>3
<1> QED
  BY <1>1, <1>5, <1>6, <1>7, <1>8

LEMMA TopKeepsGiven ==
    ASSUME NEW s, Listed(s), s # <<>>, NEW f, f.outputs = s[Len(s)].outputs
    PROVE  GivenBy(ReplaceAt(s, Len(s), f)) = GivenBy(s)
<1>1. GivenBy(ReplaceAt(s, Len(s), f)) \cup ToSet(f.outputs) = GivenBy(s) \cup ToSet(f.outputs)
  BY TopGives
<1>2. ToSet(f.outputs) \subseteq GivenBy(s)
  <2>1. Len(s) \in 1 .. Len(s)
    BY TopReplaced DEF Listed
  <2> QED
    BY <2>1 DEF GivenBy
<1>3. ToSet(f.outputs) \subseteq GivenBy(ReplaceAt(s, Len(s), f))
  <2>1. PICK t : t = ReplaceAt(s, Len(s), f)
    OBVIOUS
  <2>2. Len(t) = Len(s) /\ t[Len(s)] = f /\ Len(s) \in 1 .. Len(s)
    BY <2>1, TopReplaced DEF Listed
  <2> QED
    BY <2>1, <2>2 DEF GivenBy
<1> QED
  BY <1>1, <1>2, <1>3

LEMMA CalledGives ==
    ASSUME NEW s, Listed(s), NEW f, f.outputs = <<>>
    PROVE  GivenBy(Append(s, f)) = GivenBy(s)
<1>1. PICK t : t = Append(s, f)
  OBVIOUS
<1>2. /\ Len(t) = Len(s) + 1 /\ t[Len(s) + 1] = f /\ \A i \in 1 .. Len(s) : t[i] = s[i]
      /\ Len(s) \in Nat
  BY <1>1, AppendListed, ListedIs
<1>3. ToSet(<<>>) = {}
  BY EmptyListed DEF ToSet
<1>4. \A i \in 1 .. Len(s) : i \in 1 .. Len(s) + 1
  BY <1>2
<1>5. \A i \in 1 .. Len(s) + 1 : i = Len(s) + 1 \/ i \in 1 .. Len(s)
  BY <1>2
<1> QED
  BY <1>1, <1>2, <1>3, <1>4, <1>5 DEF GivenBy

LEMMA FrontGives ==
    ASSUME NEW s, Listed(s), s # <<>>
    PROVE  GivenBy(s) = GivenBy(Front(s)) \cup ToSet(s[Len(s)].outputs)
<1>1. PICK t : t = Front(s)
  OBVIOUS
<1>2. Len(t) = Len(s) - 1 /\ Len(s) \in Nat \ {0} /\ \A i \in 1 .. Len(s) - 1 : t[i] = s[i]
  BY <1>1, FrontListed
<1>3. \A i \in 1 .. Len(s) : i = Len(s) \/ i \in 1 .. Len(s) - 1
  BY <1>2
<1>4. Len(s) \in 1 .. Len(s) /\ \A i \in 1 .. Len(s) - 1 : i \in 1 .. Len(s)
  BY <1>2
<1> QED
  BY <1>1, <1>2, <1>3, <1>4 DEF GivenBy

LEMMA LeaveGives ==
    ASSUME NEW given, Planned(given), WalkOK(given), Leave
    PROVE  Done' = Done
<1>1. /\ stack # <<>> /\ executed' = With(executed, Top.target, Top.outputs)
      /\ stack' = Return(Top.outputs) /\ Top.phase = "run" /\ Listed(stack)
  BY DEF Leave, Memo, WalkOK, Stacked
<1>2. Top.outputs = OutputsMade(given, Top.target)
  BY <1>1, TopIs DEF WalkOK, Call
<1>3. Yielded' = Yielded \cup ToSet(Top.outputs)
  <2>1. /\ DOMAIN executed' = DOMAIN executed \cup {Top.target} /\ executed'[Top.target] = Top.outputs
        /\ \A t \in DOMAIN executed : executed'[t] = executed[t]
    BY <1>1, <1>2 DEF WalkOK, With
  <2> QED
    BY <2>1 DEF Yielded
<1>4. GivenBy(stack) = GivenBy(Front(stack)) \cup ToSet(Top.outputs)
  BY <1>1, FrontGives DEF Top
<1>5. GivenBy(stack') = GivenBy(Front(stack))
  <2>1. PICK below : below = Front(stack)
    OBVIOUS
  <2>2. CASE below = <<>> \/ below[Len(below)].phase # "depends"
    BY <1>1, <2>1, <2>2 DEF Return
  <2>3. CASE below # <<>> /\ below[Len(below)].phase = "depends"
    <3>1. PICK caller : caller = below[Len(below)]
      OBVIOUS
    <3>2. PICK f : f = [caller EXCEPT !.inputs = @ \o Top.outputs]
      OBVIOUS
    <3>3. stack' = ReplaceAt(below, Len(below), f)
      BY <1>1, <2>1, <2>3, <3>1, <3>2 DEF Return
    <3>4. /\ Listed(below) /\ Len(below) = Len(stack) - 1 /\ Len(stack) \in Nat \ {0}
          /\ \A i \in 1 .. Len(stack) - 1 : below[i] = stack[i]
      BY <1>1, <2>1, FrontListed
    <3>5. Len(below) \in 1 .. Len(stack) /\ Len(below) \in 1 .. Len(stack) - 1
      BY <2>3, <3>4, TopReplaced DEF Listed
    <3>6. Call(given, Yielded, caller)
      BY <3>1, <3>4, <3>5 DEF WalkOK, Stacked
    <3>7. f.outputs = caller.outputs
      BY <3>2, <3>6 DEF Call
    <3> QED
      BY <2>1, <2>3, <3>1, <3>3, <3>4, <3>7, TopKeepsGiven
  <2> QED
    BY <2>2, <2>3
<1> QED
  BY <1>3, <1>4, <1>5 DEF Done

LEMMA RequireGives ==
    ASSUME NEW given, Planned(given), WalkOK(given), stack # <<>>,
           NEW phase, NEW list, NEW after, Require(phase, list, after), Listed(list)
    PROVE  Done' = Done
<1>1. /\ Listed(stack) /\ Call(given, Yielded, Top) /\ executed' = executed
  BY TopIs DEF WalkOK, Require, Stacked
<1>2. Top.next \in Nat \ {0} /\ Len(list) \in Nat
  BY <1>1, ListedIs DEF Call
<1>3. Yielded' = Yielded
  BY <1>1 DEF Yielded
<1>4. CASE Top.next > Len(list)
  <2>1. PICK f : f = [Top EXCEPT !.phase = after, !.next = 1]
    OBVIOUS
  <2>2. f.outputs = Top.outputs
    BY <1>1, <2>1 DEF Call
  <2>3. stack' = ReplaceAt(stack, Len(stack), f)
    BY <1>4, <2>1 DEF Require, SetTop
  <2> QED
    BY <1>1, <1>3, <2>2, <2>3, TopKeepsGiven DEF Done, Top
<1>5. CASE Top.next <= Len(list)
  <2>1. PICK d : d = list[Top.next]
    OBVIOUS
  <2>2. PICK gift : gift = IF phase = "depends" /\ IsDone(d) THEN OutputsOf(d) ELSE <<>>
    OBVIOUS
  <2>3. PICK f : f = [Top EXCEPT !.next = @ + 1, !.inputs = @ \o gift]
    OBVIOUS
  <2>4. f.outputs = Top.outputs
    BY <1>1, <2>3 DEF Call
  <2>5. PICK t : t = ReplaceAt(stack, Len(stack), f)
    OBVIOUS
  <2>6. stack' = IF IsDone(d) THEN t ELSE Append(t, NewFrame(d))
    <3>1. ~(Top.next > Len(list))
      BY <1>2, <1>5
    <3> QED
      BY <2>1, <2>2, <2>3, <2>5, <3>1 DEF Require, SetTop
  <2>7. GivenBy(t) = GivenBy(stack) /\ Listed(t)
    BY <1>1, <2>4, <2>5, TopKeepsGiven, TopReplaced DEF Top
  <2>8. NewFrame(d).outputs = <<>>
    BY DEF NewFrame
  <2>9. GivenBy(stack') = GivenBy(stack)
    BY <2>6, <2>7, <2>8, CalledGives
  <2> QED
    BY <1>3, <2>9 DEF Done
<1> QED
  BY <1>2, <1>4, <1>5

Running == {"walk", "tool", "record"}

\* Each call gives outputs of jobs.
LEMMA DoneIs ==
    ASSUME NEW given, Planned(given), WalkOK(given), NEW p \in Done
    PROVE  \E job \in AllJobs(given) : job.output = p
<1>1. CASE p \in Yielded
  BY <1>1, YieldedIs
<1>2. CASE p \in GivenBy(stack)
  <2>1. PICK i \in 1 .. Len(stack) : p \in ToSet(stack[i].outputs)
    BY <1>2 DEF GivenBy
  <2>2. PICK f : f = stack[i]
    OBVIOUS
  <2>3. Call(given, Yielded, f) /\ p \in ToSet(f.outputs)
    BY <2>1, <2>2 DEF WalkOK, Stacked
  <2>4. f.outputs # <<>> /\ f.target \in Here /\ Listed(f.outputs)
    BY <2>3, EmptyListed DEF Call, ToSet
  <2>5. PICK k \in DOMAIN f.outputs : p = f.outputs[k]
    BY <2>3 DEF ToSet
  <2>6. k \in DOMAIN OutputsMade(given, f.target) /\ p = OutputsMade(given, f.target)[k]
    <3>1. CASE f.phase = "each"
      <4>1. /\ Len(f.outputs) = f.next - 1 /\ f.next <= Len(JobsOf(given, f.target)) + 1
            /\ \A j \in 1 .. f.next - 1 : f.outputs[j] = OutputsMade(given, f.target)[j]
            /\ f.next \in Nat
        BY <2>3, <3>1 DEF Call
      <4>2. k \in 1 .. f.next - 1 /\ Len(JobsOf(given, f.target)) \in Nat
            /\ DOMAIN JobsOf(given, f.target) = 1 .. Len(JobsOf(given, f.target))
        BY <2>4, <2>5, <4>1, ListedIs, GivenListed
      <4>3. k \in 1 .. Len(JobsOf(given, f.target))
        BY <4>1, <4>2
      <4> QED
        BY <2>5, <4>1, <4>2, <4>3 DEF OutputsMade
    <3>2. CASE f.phase # "each"
      BY <2>3, <2>4, <2>5, <3>2 DEF Call
    <3> QED
      BY <3>1, <3>2
  <2>7. k \in DOMAIN JobsOf(given, f.target) /\ p = JobsOf(given, f.target)[k].output
    BY <2>6 DEF OutputsMade
  <2>8. JobsOf(given, f.target)[k] \in AllJobs(given)
    BY <2>4, <2>7 DEF AllJobs, ToSet
  <2> QED
    BY <2>7, <2>8
<1> QED
  BY <1>1, <1>2 DEF Done

LEMMA JobGives ==
    ASSUME NEW given, Planned(given), WalkOK(given), HasJob, stack' = JobDone, executed' = executed
    PROVE  Done' = Done \cup {Job.output}
<1>0. Stacked(given, Yielded, stack) /\ stack # <<>>
  BY DEF WalkOK, HasJob
<1>1. /\ Listed(stack) /\ stack # <<>> /\ Call(given, Yielded, Top) /\ Listed(Top.outputs)
  <2>1. Call(given, Yielded, Top)
    BY <1>0, TopIs
  <2> QED
    BY <1>0, <2>1 DEF Stacked, Call
<1>2. PICK o : o = Append(Top.outputs, Job.output)
  OBVIOUS
<1>3. PICK f : f = [Top EXCEPT !.next = @ + 1, !.outputs = Append(@, Job.output)]
  OBVIOUS
<1>4. f.outputs = o
  BY <1>1, <1>2, <1>3 DEF Call
<1>5. stack' = ReplaceAt(stack, Len(stack), f)
  BY <1>3 DEF JobDone, SetTop
<1>6. ToSet(o) = ToSet(Top.outputs) \cup {Job.output}
  <2>1. PICK w, e, n : w = Top.outputs /\ e = Job.output /\ n = Len(w)
    OBVIOUS
  <2>2. /\ DOMAIN o = 1 .. n + 1 /\ o[n + 1] = e /\ \A k \in 1 .. n : o[k] = w[k]
        /\ DOMAIN w = 1 .. n /\ n \in Nat
    BY <1>1, <1>2, <2>1, AppendListed, ListedIs
  <2>3. 1 .. n + 1 = (1 .. n) \cup {n + 1}
    BY <2>2
  <2>4. ToSet(o) = ToSet(w) \cup {e}
    BY <2>2, <2>3 DEF ToSet
  <2> QED
    BY <2>1, <2>4
<1>7. GivenBy(stack') \cup ToSet(Top.outputs) = GivenBy(stack) \cup ToSet(o)
  BY <1>1, <1>4, <1>5, TopGives DEF Top
<1>8. ToSet(Top.outputs) \subseteq GivenBy(stack)
  BY <1>1, TopIs DEF GivenBy, Top, WalkOK
<1>9. ToSet(o) \subseteq GivenBy(stack')
  <2>1. /\ Len(stack') = Len(stack) /\ stack'[Len(stack)] = f /\ Len(stack) \in 1 .. Len(stack)
    BY <1>1, <1>5, TopReplaced DEF Listed
  <2> QED
    BY <1>4, <2>1 DEF GivenBy
<1>10. Yielded' = Yielded
  BY DEF Yielded
<1> QED
  BY <1>6, <1>7, <1>8, <1>9, <1>10 DEF Done

\* How a step of a run adds to its outputs.
DoneMove ==
    \/ pc' \notin Running
    \/ pc = "idle" /\ pc' = "walk" /\ Done' = {}
    \/ (Skip \/ Record) /\ pc' = "walk" /\ Done' = Done \cup {Job.output}
    \/ /\ pc \in Running /\ Done' = Done
       /\ (pc # "record" /\ pc' # "record") \/ ToolRuns \/ UNCHANGED vars

LEMMA DoneMoves ==
    ASSUME NEW given, Planned(given), Traceable(given), WalkOK(given), [Next]_vars
    PROVE  DoneMove
<1>0. /\ Listed(stack)
      /\ pc \in {"tool", "record"} => HasJob
      /\ stack # <<>> => Call(given, Yielded, Top) /\ Top.target \in Targets
  BY TopIs DEF WalkOK, Stacked
<1>1. CASE \E request \in Requests : Start(request)
  <2>1. pc = "idle" /\ pc' = "walk" /\ executed' = None /\ stack' = <<>>
    BY <1>1 DEF Start, WalkOK
  <2>2. Done' = {}
    <3>1. Yielded' = {}
      BY <2>1 DEF Yielded, None
    <3>2. GivenBy(stack') = {}
      BY <2>1, EmptyListed DEF GivenBy
    <3> QED
      BY <3>1, <3>2 DEF Done
  <2> QED
    BY <2>1, <2>2 DEF DoneMove
<1>2. CASE NextTarget
  <2>1. /\ executed' = executed /\ stack = <<>> /\ pc = "walk" /\ pc' = "walk"
        /\ stack' = IF IsDone(Head(queue)) THEN <<>> ELSE <<NewFrame(Head(queue))>>
    BY <1>2 DEF NextTarget
  <2>2. PICK f : f = NewFrame(Head(queue))
    OBVIOUS
  <2>3. f.outputs = <<>> /\ <<f>> = Append(<<>>, f)
    BY <2>2 DEF NewFrame
  <2>4. GivenBy(stack') = GivenBy(stack)
    BY <2>1, <2>2, <2>3, CalledGives, EmptyListed
  <2> QED
    BY <2>1, <2>4 DEF DoneMove, Running, Done, Yielded
<1>3. CASE Before
  <2>1. pc = "walk" /\ pc' = "walk" /\ stack # <<>>
    BY <1>3 DEF Before, Require
  <2>2. Listed(Config[Top.target].before)
    BY <1>0, <2>1, BuildAssumption
  <2>3. Done' = Done
    BY <1>3, <2>1, <2>2, RequireGives DEF Before
  <2> QED
    BY <2>1, <2>3 DEF DoneMove, Running
<1>4. CASE Depends
  <2>1. pc = "walk" /\ pc' = "walk" /\ stack # <<>>
    BY <1>4 DEF Depends, Require
  <2>2. Listed(Config[Top.target].depends)
    BY <1>0, <2>1, BuildAssumption
  <2>3. Done' = Done
    BY <1>4, <2>1, <2>2, RequireGives DEF Depends
  <2> QED
    BY <2>1, <2>3 DEF DoneMove, Running
<1>5. CASE Files \/ EachDone
  <2>1. pc = "walk" /\ pc' = "walk" /\ stack # <<>> /\ executed' = executed
    BY <1>5 DEF Files, EachDone
  <2>2. PICK f : f.outputs = Top.outputs /\ stack' = ReplaceAt(stack, Len(stack), f)
    <3>1. CASE Files
      <4>1. PICK g : g = [Top EXCEPT !.phase = "each", !.inputs = @ \o Config[Top.target].files]
        OBVIOUS
      <4>2. g.outputs = Top.outputs
        BY <1>0, <2>1, <4>1 DEF Call
      <4> QED
        BY <3>1, <4>1, <4>2 DEF Files, SetTop
    <3>2. CASE EachDone
      <4>1. PICK g : g = [Top EXCEPT !.phase = "run"]
        OBVIOUS
      <4>2. g.outputs = Top.outputs
        BY <1>0, <2>1, <4>1 DEF Call
      <4> QED
        BY <3>2, <4>1, <4>2 DEF EachDone, SetTop
    <3> QED
      BY <1>5, <3>1, <3>2
  <2>3. GivenBy(stack') = GivenBy(stack)
    BY <1>0, <2>1, <2>2, TopKeepsGiven DEF Top
  <2> QED
    BY <2>1, <2>3 DEF DoneMove, Running, Done, Yielded
<1>6. CASE Skip \/ Record
  <2>1. HasJob /\ stack' = JobDone /\ executed' = executed /\ pc' = "walk"
    BY <1>0, <1>6 DEF Skip, Record
  <2> QED
    BY <1>6, <2>1, JobGives DEF DoneMove
<1>7. CASE Leave
  <2>1. pc = "walk" /\ pc' = "walk"
    BY <1>7 DEF Leave
  <2> QED
    BY <1>7, <2>1, LeaveGives DEF DoneMove, Running
<1>8. ASSUME UNCHANGED <<stack, executed>>
      PROVE  Done' = Done
  BY <1>8 DEF Done, Yielded
<1>9. CASE NeedsTool \/ ToolRuns
  BY <1>8, <1>9 DEF NeedsTool, ToolRuns, DoneMove, Running
<1>10. CASE ToolFails \/ CommandFails \/ RecordDies \/ Kill \/ TargetsDone \/ OpenCacheFile
            \/ CloseCacheFile \/ WriteWild \/ WriteNothing
  <2>1. pc' \notin Running
    BY <1>10 DEF ToolFails, CommandFails, RecordDies, Kill, TargetsDone, OpenCacheFile, CloseCacheFile,
         WriteWild, WriteNothing, Fails, Dies, Ends, Running
  <2> QED
    BY <2>1 DEF DoneMove
<1>11. CASE Edit \/ RemoveHeader
  <2>1. CanEdit /\ UNCHANGED <<pc, stack, executed>>
    BY <1>11 DEF Edit, RemoveHeader, walk
  <2>2. pc # "record" /\ Done' = Done
    BY <1>8, <2>1 DEF CanEdit, Traceable
  <2> QED
    BY <2>1, <2>2 DEF DoneMove, Running
<1>12. CASE UNCHANGED vars
  BY <1>8, <1>12 DEF DoneMove, vars
<1> QED
  BY <1>1, <1>2, <1>3, <1>4, <1>5, <1>6, <1>7, <1>9, <1>10, <1>11, <1>12 DEF Next, Step

\* The outputs of a run exist, or it has deleted everything, and then no others
\* do; and what the outputs that exist are made from exists.
OnDisk ==
    \/ Done \subseteq DOMAIN disk
    \/ DOMAIN disk \subseteq Bases \cup Done \cup (IF pc = "record" THEN {Job.output} ELSE {})
DoneOK(given) ==
    pc \in Running =>
        /\ OnDisk
        /\ \A job \in AllJobs(given) : job.output \in Done \cap DOMAIN disk =>
              ToSet(job.inputs) \subseteq DOMAIN disk \ Headers

\* The inputs of an output that is found exist.
LEMMA SkipReads ==
    ASSUME NEW given, Planned(given), Traceable(given), WalkOK(given), BaseOK, DoneOK(given),
           pc = "walk", HasJob, Exists(Job.output)
    PROVE  ToSet(Job.inputs) \subseteq DOMAIN disk \ Headers
<1>1. PICK j : j = Job
  OBVIOUS
<1>2. j \in AllJobs(given) /\ ToSet(j.inputs) \subseteq Sources \cup Yielded
  BY <1>1, JobIs DEF WalkOK
<1>3. Yielded \cap Headers = {} /\ j.output \notin Bases
  <2>1. \A p \in Yielded : \E job \in AllJobs(given) : job.output = p
    BY YieldedIs
  <2> QED
    BY <1>2, <2>1, OutputsApart DEF Bases
<1>4. ToSet(j.inputs) \cap Headers = {} /\ Sources \subseteq DOMAIN disk
  BY <1>2, <1>3, BuildAssumption DEF BaseOK, Exists
<1>5. OnDisk /\ (j.output \in Done \cap DOMAIN disk => ToSet(j.inputs) \subseteq DOMAIN disk \ Headers)
  BY <1>2 DEF DoneOK, Running
<1>6. CASE Done \subseteq DOMAIN disk
  BY <1>1, <1>2, <1>4, <1>6 DEF Done
<1>7. CASE DOMAIN disk \subseteq Bases \cup Done
  BY <1>1, <1>3, <1>5, <1>7 DEF Exists
<1> QED
  BY <1>5, <1>6, <1>7 DEF OnDisk

\* A job that is done adds its output.
LEMMA JobAdds ==
    ASSUME NEW given, Planned(given), Traceable(given), DoneOK(given), pc \in Running, pc' = "walk",
           NEW j \in AllJobs(given), j.output \in DOMAIN disk, ToSet(j.inputs) \subseteq DOMAIN disk \ Headers,
           pc = "record" => j = Job, disk' = disk, Done' = Done \cup {j.output}
    PROVE  DoneOK(given)'
<1>1. OnDisk'
  BY DEF DoneOK, OnDisk
<1>2. ASSUME NEW job \in AllJobs(given), job.output \in Done' \cap DOMAIN disk'
      PROVE  ToSet(job.inputs) \subseteq DOMAIN disk' \ Headers
  <2>1. CASE job.output = j.output
    BY <2>1 DEF Traceable
  <2>2. CASE job.output # j.output
    BY <1>2, <2>2 DEF DoneOK
  <2> QED
    BY <2>1, <2>2
<1> QED
  BY <1>1, <1>2 DEF DoneOK

LEMMA DoneStays ==
    ASSUME NEW given, Planned(given), Traceable(given), WalkOK(given), BaseOK, InHand(given),
           DoneOK(given), [Next]_vars
    PROVE  DoneOK(given)'
<1>1. DoneMove
  BY DoneMoves
<1>2. CASE pc' \notin Running
  BY <1>2 DEF DoneOK
<1>3. CASE pc = "idle" /\ pc' = "walk" /\ Done' = {}
  BY <1>3 DEF DoneOK, OnDisk
<1>4. CASE (Skip \/ Record) /\ pc' = "walk" /\ Done' = Done \cup {Job.output}
  <2>1. PICK j : j = Job
    OBVIOUS
  <2>2. HasJob /\ disk' = disk /\ pc \in Running /\ (pc = "record" <=> Record)
        /\ (Skip => Exists(Job.output) /\ pc = "walk")
    BY <1>4 DEF Skip, Record, Running, WalkOK
  <2>3. j \in AllJobs(given) /\ ToSet(j.inputs) \subseteq Sources \cup Yielded
    BY <2>1, <2>2, JobIs DEF WalkOK
  <2>4. j.output \in DOMAIN disk /\ ToSet(j.inputs) \subseteq DOMAIN disk \ Headers
    <3>1. CASE Skip
      BY <2>1, <2>2, <3>1, SkipReads DEF Exists
    <3>2. CASE Record
      <4>1. Settled(j)
        BY <2>1, <2>2, <2>3, <3>2 DEF InHand
      <4>2. j.output \in DOMAIN disk /\ ToSet(j.inputs) \subseteq DOMAIN disk
        BY <4>1 DEF Settled, Readable, Exists, ToSet
      <4>3. Yielded \cap Headers = {}
        <5>1. \A p \in Yielded : \E job \in AllJobs(given) : job.output = p
          BY YieldedIs
        <5> QED
          BY <5>1, OutputsApart DEF Bases
      <4> QED
        BY <2>3, <4>2, <4>3, BuildAssumption
    <3> QED
      BY <1>4, <3>1, <3>2
  <2>5. Done' = Done \cup {j.output}
    BY <1>4, <2>1
  <2> QED
    BY <1>4, <2>1, <2>2, <2>3, <2>4, <2>5, JobAdds
<1>5. CASE pc \in Running /\ Done' = Done /\ ToolRuns
  <2>1. PICK j : j = Job
    OBVIOUS
  <2>2. /\ pc = "tool" /\ pc' = "record" /\ HasJob /\ disk' = With(disk, j.output, Result(j)) /\ stack' = stack
        /\ Readable(j)
    BY <1>5, <2>1, ReadableIs DEF ToolRuns, WalkOK
  <2>3. Job' = j
    BY <2>1, <2>2 DEF Job, Top
  <2>4. j \in AllJobs(given) /\ ToSet(j.inputs) \subseteq Sources \cup Yielded
    BY <2>1, <2>2, JobIs DEF WalkOK
  <2>5. DOMAIN disk' = DOMAIN disk \cup {j.output}
    BY <2>2 DEF With
  <2>6. OnDisk'
    BY <1>5, <2>2, <2>3, <2>5 DEF DoneOK, OnDisk
  <2>7. ToSet(j.inputs) \subseteq DOMAIN disk \ Headers
    <3>1. ToSet(j.inputs) \subseteq DOMAIN disk
      BY <2>2 DEF Readable, Exists, ToSet
    <3>2. Yielded \cap Headers = {}
      <4>1. \A p \in Yielded : \E job \in AllJobs(given) : job.output = p
        BY YieldedIs
      <4> QED
        BY <4>1, OutputsApart DEF Bases
    <3> QED
      BY <2>4, <3>1, <3>2, BuildAssumption
  <2>8. ASSUME NEW job \in AllJobs(given), job.output \in Done' \cap DOMAIN disk'
        PROVE  ToSet(job.inputs) \subseteq DOMAIN disk' \ Headers
    <3>1. CASE job.output = j.output
      BY <2>4, <2>5, <2>7, <3>1 DEF Traceable
    <3>2. CASE job.output # j.output
      BY <1>5, <2>5, <2>8, <3>2 DEF DoneOK
    <3> QED
      BY <3>1, <3>2
  <2> QED
    BY <2>6, <2>8 DEF DoneOK
<1>6. CASE UNCHANGED vars /\ Done' = Done
  <2>1. UNCHANGED <<pc, disk, stack>>
    BY <1>6 DEF vars
  <2>2. Job' = Job
    BY <2>1 DEF Job, Top
  <2> QED
    BY <1>6, <2>1, <2>2 DEF DoneOK, OnDisk
<1>7. CASE pc \in Running /\ Done' = Done /\ pc # "record" /\ pc' # "record" /\ pc' \in Running
  <2>1. \A p \in Done : p \notin Bases
    BY DoneIs, OutputsApart
  <2>2. \/ \A p \in DOMAIN disk \ Headers : p \in DOMAIN disk'
        \/ DOMAIN disk' \subseteq Bases
    <3>1. CASE pc = "tool" /\ HasJob
      <4>1. pc' # "record" /\ pc' \in {"walk", "tool"}
        BY <1>7 DEF Running
      <4>2. disk' = disk \/ Edit \/ RemoveHeader
        BY <3>1, <4>1 DEF Next, Step, Start, NextTarget, Before, Depends, Require, Files, Skip, NeedsTool,
             ToolRuns, ToolFails, Fails, Record, RecordDies, EachDone, Leave, CommandFails, TargetsDone,
             OpenCacheFile, CloseCacheFile, WriteWild, WriteNothing, Kill, Dies, vars
      <4> QED
        BY <4>2 DEF Edit, RemoveHeader, With, Without
    <3>2. CASE pc # "tool"
      <4>1. DiskMove
        BY DiskMoves
      <4> QED
        BY <3>2, <4>1 DEF DiskMove, With, Without, Bases
    <3> QED
      BY <3>1, <3>2 DEF WalkOK
  <2>3. DOMAIN disk' \subseteq DOMAIN disk \cup Bases
    <3>1. DiskMove
      BY DiskMoves
    <3>2. pc = "tool" => disk' = disk \/ Edit \/ RemoveHeader
      BY <1>7 DEF Running, Next, Step, Start, NextTarget, Before, Depends, Require, Files, Skip, NeedsTool,
             ToolRuns, ToolFails, Fails, Record, RecordDies, EachDone, Leave, CommandFails, TargetsDone,
             OpenCacheFile, CloseCacheFile, WriteWild, WriteNothing, Kill, Dies, vars
    <3>3. CASE pc = "tool"
      BY <3>2, <3>3 DEF Edit, RemoveHeader, With, Without, Bases
    <3>4. CASE pc # "tool"
      BY <3>1, <3>4 DEF DiskMove, With, Without, Bases
    <3> QED
      BY <3>3, <3>4
  <2>4. OnDisk'
    BY <1>7, <2>1, <2>2, <2>3 DEF DoneOK, OnDisk, Bases
  <2>5. ASSUME NEW job \in AllJobs(given), job.output \in Done' \cap DOMAIN disk'
        PROVE  ToSet(job.inputs) \subseteq DOMAIN disk' \ Headers
    <3>1. job.output \notin Bases /\ job.output \in DOMAIN disk
      BY <1>7, <2>1, <2>3, <2>5
    <3>2. ToSet(job.inputs) \subseteq DOMAIN disk \ Headers
      BY <1>7, <2>5, <3>1 DEF DoneOK
    <3> QED
      BY <2>2, <2>5, <3>1, <3>2
  <2> QED
    BY <2>4, <2>5 DEF DoneOK
<1> QED
  BY <1>1, <1>2, <1>3, <1>4, <1>5, <1>6, <1>7 DEF DoneMove

\* What holds in a run.
RunOK(given) == WalkOK(given) /\ BaseOK /\ TraceOK(given) /\ DoneOK(given)

LEMMA RunBegins ==
    ASSUME NEW given, Planned(given), Init
    PROVE  RunOK(given)
<1>1. WalkOK(given) /\ TraceOK(given)
  BY WalkStarts, TraceBegins
<1>2. BaseOK /\ DoneOK(given)
  BY BuildAssumption DEF Init, BaseOK, Exists, DoneOK, Running
<1> QED
  BY <1>1, <1>2 DEF RunOK

LEMMA RunStays ==
    ASSUME NEW given, Planned(given), Traceable(given), RunOK(given), [Next]_vars
    PROVE  RunOK(given)'
  BY WalkSteps, BaseStays, TraceStays, DoneStays DEF RunOK, TraceOK

\* What is found built is settled.
LEMMA SkipSettles ==
    ASSUME NEW given, Planned(given), Traceable(given), RunOK(given), Skip
    PROVE  \A job \in AllJobs(given) : job = Job => Settled(job)
<1>1. SUFFICES ASSUME NEW j \in AllJobs(given), j = Job
               PROVE  Settled(j)
  OBVIOUS
<1>2. HasJob /\ pc = "walk" /\ Exists(j.output) /\ j.output \in DOMAIN entries /\ entries[j.output] = Fingerprint(j)
  BY <1>1 DEF Skip, CheckBuilt
<1>3. PICK was, gone : History(given, was, gone) /\ Known(given, was, gone, entries) /\ DepsOK
  BY DEF RunOK, TraceOK
<1>4. KnownOK(given, was, gone, j, Fingerprint(j))
  BY <1>2, <1>3 DEF Known
<1>5. ToSet(j.inputs) \subseteq DOMAIN disk
  BY <1>1, <1>2, SkipReads DEF RunOK
<1>6. \A i \in DOMAIN j.inputs : Exists(j.inputs[i])
  BY <1>5 DEF Exists, ToSet
<1> QED
  BY <1>2, <1>3, <1>4, <1>6, MatchSettles

\* execute.rs 228-230, 291-365: in every project whose fingerprints say which
\* contents they were made from, an output that is found built holds what its
\* tool would make now.
THEOREM SkipsAreFresh ==
    ASSUME NEW given, Planned(given), Traceable(given)
    PROVE  Spec => SkippedIsFresh
<1>1. Init => RunOK(given)
  BY RunBegins
<1>2. RunOK(given) /\ [Next]_vars => RunOK(given)'
  BY RunStays
<1>3. RunOK(given) => [Skip => Fresh(Job)]_vars
  <2>1. SUFFICES ASSUME RunOK(given), Skip
                 PROVE  Fresh(Job)
    OBVIOUS
  <2>2. PICK j : j = Job
    OBVIOUS
  <2>3. j \in AllJobs(given)
    BY <2>1, <2>2, JobIs DEF RunOK, WalkOK, Skip
  <2>4. Settled(j)
    BY <2>1, <2>2, <2>3, SkipSettles
  <2> QED
    BY <2>2, <2>4 DEF Settled, Fresh
<1> QED
  BY <1>1, <1>2, <1>3, PTL DEF Spec, SkippedIsFresh

-----------------------------------------------------------------------------
(* A run that nothing disturbs *)

\* What it found or made built is settled, with all it was made from.
JobsOK(given) ==
    \A job \in jobs : /\ job \in AllJobs(given) /\ Settled(job)
                      /\ \A p \in ToSet(job.inputs) \ Sources : \E k \in jobs : k.output = p

\* Its outputs, as far as they were not deleted, are those of such jobs.
Covered ==
    pc \in Running =>
        \A p \in Done \cap DOMAIN disk : (\E k \in jobs : k.output = p) \/ (pc = "record" /\ p = Job.output)

\* Their fingerprints are in the cache, and then in its file.
Cached ==
    \A job \in jobs :
        /\ header = "valid" /\ pc # "idle" => CheckBuilt(entries, job)
        /\ pc = "idle" /\ cacheFile \notin {Absent, Torn} => CheckBuilt(cacheFile, job)

QuietOK(given) == quiet /\ ~failed => JobsOK(given) /\ Covered /\ Cached

\* The tool leaves what the settled jobs read and made as it is.
LEMMA ToolSpares ==
    ASSUME NEW given, Planned(given), Traceable(given), RunOK(given), JobsOK(given), ToolRuns,
           NEW job \in jobs
    PROVE  Settled(job)' /\ Fingerprint(job)' = Fingerprint(job)
<1>1. PICK j : j = Job
  OBVIOUS
<1>2. /\ HasJob /\ disk' = With(disk, j.output, Result(j))
      /\ deps' = IF HasDeps(j) THEN With(deps, j.output, DepFile(j)) ELSE deps
  BY <1>1 DEF ToolRuns, RunOK, WalkOK
<1>3. j \in AllJobs(given)
  BY <1>1, <1>2, JobIs DEF RunOK, WalkOK
<1>4. /\ job \in AllJobs(given) /\ Settled(job)
      /\ \A p \in ToSet(job.inputs) \ Sources : \E k \in jobs : k.output = p
  BY DEF JobsOK
<1>5. j.output \notin Bases
  BY <1>3, OutputsApart
<1>6. ASSUME NEW k \in jobs, k.output = j.output
      PROVE  j \in jobs /\ j.output \in DOMAIN disk /\ disk[j.output] = Result(j) /\ CacheDeps(j) = DepFile(j)
  <2>1. k \in AllJobs(given) /\ Settled(k)
    BY DEF JobsOK
  <2>2. k = j
    BY <1>3, <1>6, <2>1 DEF Traceable
  <2> QED
    BY <2>1, <2>2 DEF Settled, Exists
<1>7. \A p : (\E k \in jobs : k.output = p) \/ p # j.output =>
         (p \in DOMAIN disk' <=> p \in DOMAIN disk) /\ (p \in DOMAIN disk => disk'[p] = disk[p])
  BY <1>2, <1>6 DEF With
<1>8. SameFor(job)
  <2>1. \A p \in ToSet(job.inputs) \cup Headers : (\E k \in jobs : k.output = p) \/ p # j.output
    BY <1>4, <1>5 DEF Bases
  <2> QED
    BY <1>7, <2>1 DEF SameFor
<1>9. ToSet(job.inputs) \subseteq PathsOf(given)
  <2>1. \A p \in ToSet(job.inputs) \ Sources : p \in PathsOf(given)
    BY <1>4 DEF JobsOK, PathsOf
  <2> QED
    BY <2>1 DEF PathsOf, Bases
<1>10. PICK was, gone : History(given, was, gone)
  BY DEF RunOK, TraceOK
<1>11. Readable(job)' /\ Result(job)' = Result(job) /\ DepFile(job)' = DepFile(job)
       /\ (CacheDeps(job)' = CacheDeps(job) /\ ToSet(CacheDeps(job)) \subseteq Headers =>
              Fingerprint(job)' = Fingerprint(job))
  BY <1>4, <1>8, <1>9, <1>10, SameRead DEF Settled
<1>12. job.output \in DOMAIN disk' /\ disk'[job.output] = disk[job.output]
  BY <1>4, <1>7 DEF Settled, Exists
<1>13. CacheDeps(job)' = CacheDeps(job)
  <2>1. CASE job.output = j.output
    <3>1. job = j /\ CacheDeps(j) = DepFile(j)
      BY <1>3, <1>4, <1>6, <2>1 DEF Traceable
    <3>2. CASE HasDeps(j)
      <4>1. j.output \in DOMAIN deps' /\ deps'[j.output] = DepFile(j)
        BY <1>2, <3>2 DEF With
      <4>2. CacheDeps(j)' = DepFile(j)
        BY <3>2, <4>1 DEF CacheDeps
      <4> QED
        BY <3>1, <4>2
    <3>3. CASE ~HasDeps(j)
      BY <3>1, <3>3 DEF CacheDeps
    <3> QED
      BY <3>2, <3>3
  <2>2. CASE job.output # j.output
    <3>1. (job.output \in DOMAIN deps' <=> job.output \in DOMAIN deps)
          /\ (job.output \in DOMAIN deps => deps'[job.output] = deps[job.output])
      BY <1>2, <2>2 DEF With
    <3> QED
      BY <3>1 DEF CacheDeps
  <2> QED
    BY <2>1, <2>2
<1>14. ToSet(CacheDeps(job)) \subseteq Headers
  BY CacheDepsListed DEF RunOK, TraceOK
<1>15. Settled(job)'
  BY <1>4, <1>11, <1>12, <1>13 DEF Settled, Exists
<1> QED
  BY <1>11, <1>13, <1>14, <1>15

LEMMA Unaltered ==
    ASSUME UNCHANGED <<disk, deps>>, NEW job
    PROVE  Settled(job)' = Settled(job) /\ Fingerprint(job)' = Fingerprint(job)
  BY DEF Settled, Readable, Exists, Result, Read, Contents, CacheDeps, DepFile, Fingerprint,
         FingerprintWithoutDeps

\* The step of a run that does not disturb it.
Empties == jobs' = {} /\ pc' = "walk" /\ (Done' = {} \/ (Done' = Done /\ DOMAIN disk' \subseteq Bases))
Onward ==
    /\ UNCHANGED <<disk, deps, jobs, quiet, failed>>
    /\ \/ UNCHANGED <<pc, stack, executed, cacheFile, header, entries>>
       \/ pc # "idle" /\ pc' \notin Running \cup {"idle"} /\ UNCHANGED <<header, entries>>
       \/ pc' = "idle" /\ (cacheFile' = Torn \/ (pc # "idle" /\ header = "valid" /\ cacheFile' = entries))
       \/ pc \in Running \ {"record"} /\ pc' \in Running /\ Done' = Done /\ UNCHANGED <<header, entries>>
QuietMove == Empties \/ Skip \/ Record \/ ToolRuns \/ Onward

LEMMA QuietMoves ==
    ASSUME NEW given, Planned(given), Traceable(given), RunOK(given), Plain, [Next]_vars, quiet', ~failed'
    PROVE  QuietMove
<1>0. WalkOK(given) /\ DoneMove
  BY DoneMoves DEF RunOK
<1>1. CASE \E request \in Requests : Start(request)
  BY <1>0, <1>1 DEF Start, DoneMove, Running, Skip, Record, ToolRuns, QuietMove, Empties, vars
<1>2. CASE Skip \/ Record \/ ToolRuns
  BY <1>2 DEF QuietMove
<1>3. CASE NextTarget \/ Files \/ EachDone \/ NeedsTool
  <2>1. /\ UNCHANGED <<disk, deps, jobs, quiet, failed, header, entries>>
        /\ pc = "walk" /\ pc' \in Running \ {"record"} /\ UNCHANGED jobs
    BY <1>3 DEF NextTarget, Files, EachDone, NeedsTool, past, cache, Running
  <2>2. Done' = Done
    BY <1>0, <1>3, <2>1 DEF DoneMove, Running, NextTarget, Files, EachDone, NeedsTool, Skip, Record, HasJob
  <2> QED
    BY <2>1, <2>2 DEF QuietMove, Onward, Running
<1>4. CASE Before \/ Depends
  <2>1. /\ UNCHANGED <<disk, deps, jobs, quiet, failed, header, entries>>
        /\ pc = "walk" /\ pc' = "walk" /\ stack # <<>>
    BY <1>4 DEF Before, Depends, Require, past, cache
  <2>2. Top.target \in Targets
    BY <1>0, <2>1, TopIs DEF WalkOK
  <2>3. Listed(Config[Top.target].before) /\ Listed(Config[Top.target].depends)
    BY <2>2, BuildAssumption
  <2>4. Done' = Done
    BY <1>0, <1>4, <2>1, <2>3, RequireGives DEF Before, Depends
  <2> QED
    BY <2>1, <2>4 DEF QuietMove, Onward, Running
<1>5. CASE Leave
  <2>1. /\ pc = "walk" /\ pc' = "walk" /\ UNCHANGED <<quiet, failed, header, entries>>
        /\ Done' = Done
    BY <1>0, <1>5, LeaveGives DEF Leave, cache
  <2>2. CASE Config[Top.target].run = "delete"
    <3>1. disk' = Without(disk, DOMAIN disk \ (Sources \cup Headers)) /\ jobs' = {}
      BY <1>5, <2>2 DEF Leave
    <3> QED
      BY <2>1, <3>1 DEF Without, Bases, QuietMove, Empties
  <2>3. CASE Config[Top.target].run # "delete"
    <3>1. UNCHANGED <<disk, deps, jobs>>
      BY <1>5, <2>3 DEF Leave
    <3> QED
      BY <2>1, <3>1 DEF QuietMove, Onward, Running
  <2> QED
    BY <2>2, <2>3
<1>6. CASE TargetsDone \/ OpenCacheFile
  BY <1>6 DEF TargetsDone, OpenCacheFile, past, cache, QuietMove, Onward, Running
<1>7. CASE CloseCacheFile \/ WriteWild \/ WriteNothing
  BY <1>7 DEF CloseCacheFile, WriteWild, WriteNothing, Ends, past, Plain, QuietMove, Onward
<1>8. CASE ToolFails \/ CommandFails \/ RecordDies \/ Kill \/ Edit \/ RemoveHeader
  <2>1. failed' = TRUE \/ quiet' = FALSE
    BY <1>8 DEF ToolFails, CommandFails, RecordDies, Kill, Fails, Dies, Edit, RemoveHeader
  <2> QED
    BY <2>1
<1>9. CASE UNCHANGED vars
  BY <1>9 DEF vars, QuietMove, Onward
<1> QED
  BY <1>1, <1>2, <1>3, <1>4, <1>5, <1>6, <1>7, <1>8, <1>9 DEF Next, Step

LEMMA QuietStays ==
    ASSUME NEW given, Planned(given), Traceable(given), RunOK(given), Plain, QuietOK(given), [Next]_vars
    PROVE  QuietOK(given)'
<1> SUFFICES ASSUME quiet', ~failed'
             PROVE  JobsOK(given)' /\ Covered' /\ Cached'
  BY DEF QuietOK
<1>0. QuietMove
  BY QuietMoves
<1>1. CASE Empties
  <2>1. Done \cap Bases = {}
    BY DoneIs, OutputsApart DEF RunOK
  <2> QED
    BY <1>1, <2>1 DEF Empties, JobsOK, Covered, Cached
<1>2. CASE Skip \/ Record
  <2>1. PICK j, js : j = Job /\ js = jobs
    OBVIOUS
  <2>2. /\ HasJob /\ UNCHANGED <<disk, deps, quiet, failed, header>> /\ jobs' = js \cup {j}
        /\ pc \in Running /\ pc' = "walk" /\ stack' = JobDone /\ executed' = executed
    BY <1>2, <2>1 DEF Skip, Record, cache, Running, RunOK, WalkOK
  <2>3. /\ j \in AllJobs(given) /\ ToSet(j.inputs) \subseteq Sources \cup Yielded
    BY <2>1, <2>2, JobIs DEF RunOK, WalkOK
  <2>4. Settled(j)
    <3>1. CASE Skip
      BY <2>1, <2>3, <3>1, SkipSettles
    <3>2. CASE Record
      BY <2>1, <2>3, <3>2 DEF Record, RunOK, TraceOK, InHand
    <3> QED
      BY <1>2, <3>1, <3>2
  <2>5. JobsOK(given) /\ Covered /\ Cached
    BY <2>2 DEF QuietOK
  <2>6. ASSUME NEW p \in Done \cap DOMAIN disk
        PROVE  \E k \in js \cup {j} : k.output = p
    BY <2>1, <2>2, <2>5, <2>6 DEF Covered
  <2>7. ASSUME NEW p \in ToSet(j.inputs) \ Sources
        PROVE  \E k \in js \cup {j} : k.output = p
    <3>1. p \in DOMAIN disk
      BY <2>4 DEF Settled, Readable, Exists, ToSet
    <3> QED
      BY <2>3, <2>6, <3>1 DEF Done
  <2>8. JobsOK(given)'
    <3>1. ASSUME NEW job \in js \cup {j}
          PROVE  job \in AllJobs(given) /\ Settled(job)'
      <4>1. job \in AllJobs(given) /\ Settled(job)
        BY <2>1, <2>3, <2>4, <2>5 DEF JobsOK
      <4> QED
        BY <2>2, <4>1, Unaltered
    <3>2. ASSUME NEW job \in js \cup {j}, NEW p \in ToSet(job.inputs) \ Sources
          PROVE  \E k \in js \cup {j} : k.output = p
      BY <2>1, <2>5, <2>7, <3>2 DEF JobsOK
    <3> QED
      BY <2>2, <3>1, <3>2 DEF JobsOK
  <2>9. Covered'
    <3>1. Done' = Done \cup {j.output}
      BY <2>1, <2>2, JobGives DEF RunOK
    <3> QED
      BY <2>2, <2>6, <3>1 DEF Covered
  <2>10. Cached'
    <3>1. SUFFICES ASSUME NEW job \in js \cup {j}, header = "valid"
                   PROVE  job.output \in DOMAIN entries' /\ entries'[job.output] = Fingerprint(job)
      <4>1. ASSUME NEW job \in js \cup {j}
            PROVE  Fingerprint(job)' = Fingerprint(job)
        BY <2>2, Unaltered
      <4> QED
        BY <2>2, <3>1, <4>1 DEF Cached, CheckBuilt
    <3>2. job = j \/ (job # j /\ job.output # j.output /\ job.output \in DOMAIN entries
                      /\ entries[job.output] = Fingerprint(job))
      BY <2>1, <2>2, <2>3, <2>5, <3>1 DEF Cached, CheckBuilt, JobsOK, Traceable, Running
    <3>3. CASE Skip
      <4>1. entries' = entries /\ j.output \in DOMAIN entries /\ entries[j.output] = Fingerprint(j)
        BY <2>1, <3>3 DEF Skip, CheckBuilt, cache
      <4> QED
        BY <3>2, <4>1
    <3>4. CASE Record
      <4>1. entries' = With(entries, j.output, Fingerprint(j))
        BY <2>1, <3>1, <3>4 DEF Record, Recorded
      <4> QED
        BY <3>2, <4>1 DEF With
    <3> QED
      BY <1>2, <3>3, <3>4
  <2> QED
    BY <2>8, <2>9, <2>10
<1>3. CASE ToolRuns
  <2>1. /\ UNCHANGED <<header, entries, stack, executed, failed, jobs, quiet>>
        /\ pc = "tool" /\ pc' = "record" /\ disk' = With(disk, Job.output, Result(Job))
    BY <1>3 DEF ToolRuns, cache
  <2>2. JobsOK(given) /\ Covered /\ Cached
    BY <2>1 DEF QuietOK
  <2>3. \A job \in jobs : Settled(job)' /\ Fingerprint(job)' = Fingerprint(job)
    BY <1>3, <2>2, ToolSpares
  <2>4. JobsOK(given)'
    BY <2>1, <2>2, <2>3 DEF JobsOK
  <2>5. Covered'
    <3>1. PICK j : j = Job
      OBVIOUS
    <3>2. Job' = j /\ Done' = Done /\ DOMAIN disk' = DOMAIN disk \cup {j.output}
      BY <2>1, <3>1 DEF Job, Top, Done, Yielded, With
    <3> QED
      BY <2>1, <2>2, <3>2 DEF Covered, Running
  <2>6. Cached'
    BY <2>1, <2>2, <2>3 DEF Cached, CheckBuilt
  <2> QED
    BY <2>4, <2>5, <2>6
<1>4. CASE Onward
  <2>0. UNCHANGED <<disk, deps, jobs, quiet, failed>>
    BY <1>4 DEF Onward
  <2>1. JobsOK(given) /\ Covered /\ Cached
    BY <2>0 DEF QuietOK
  <2>2. ASSUME NEW job PROVE Settled(job)' = Settled(job) /\ Fingerprint(job)' = Fingerprint(job)
    BY <2>0, Unaltered
  <2>3. JobsOK(given)'
    BY <2>0, <2>1, <2>2 DEF JobsOK
  <2>4. CASE UNCHANGED <<pc, stack, executed, cacheFile, header, entries>>
    <3>1. Job' = Job /\ Done' = Done
      BY <2>4 DEF Job, Top, Done, Yielded
    <3>2. Covered'
      BY <2>0, <2>1, <2>4, <3>1 DEF Covered
    <3>3. Cached'
      BY <2>0, <2>1, <2>2, <2>4 DEF Cached, CheckBuilt
    <3> QED
      BY <2>3, <3>2, <3>3
  <2>5. CASE pc # "idle" /\ pc' \notin Running \cup {"idle"} /\ UNCHANGED <<header, entries>>
    BY <2>0, <2>1, <2>2, <2>3, <2>5 DEF Covered, Cached, CheckBuilt
  <2>6. CASE pc' = "idle" /\ (cacheFile' = Torn \/ (pc # "idle" /\ header = "valid" /\ cacheFile' = entries))
    BY <2>0, <2>1, <2>2, <2>3, <2>6 DEF Covered, Cached, CheckBuilt, Running
  <2>7. CASE pc \in Running \ {"record"} /\ pc' \in Running /\ Done' = Done /\ UNCHANGED <<header, entries>>
    BY <2>0, <2>1, <2>2, <2>3, <2>7 DEF Covered, Cached, CheckBuilt, Running
  <2> QED
    BY <1>4, <2>4, <2>5, <2>6, <2>7 DEF Onward
<1> QED
  BY <1>0, <1>1, <1>2, <1>3, <1>4 DEF QuietMove

LEMMA QuietBegins ==
    ASSUME NEW given, Init
    PROVE  Plain /\ QuietOK(given)
<1>1. 0 \in 0 .. MaxKills /\ 0 \in 0 .. MaxFailures
  BY BuildAssumption
<1> QED
  BY <1>1 DEF Init, Plain, QuietOK

\* target.rs 145-201: in every project whose fingerprints say which contents
\* they were made from, after a run without an error, during which nothing was
\* edited, every output is what its tool makes of its inputs.
THEOREM RunsBuild ==
    ASSUME NEW given, Planned(given), Traceable(given)
    PROVE  Spec => []BuiltIsFresh
<1> DEFINE Inv == RunOK(given) /\ Plain /\ QuietOK(given)
<1>1. Init => Inv
  BY RunBegins, QuietBegins
<1>2. Inv /\ [Next]_vars => Inv'
  BY RunStays, PlainStays, QuietStays
<1>3. Inv => BuiltIsFresh
  BY DEF BuiltIsFresh, Succeeded, QuietOK, JobsOK, Settled, Fresh
<1> QED
  BY <1>1, <1>2, <1>3, PTL DEF Spec

-----------------------------------------------------------------------------
(* No work twice *)

\* A job at hand has not given its output before.
LEMMA JobIsNew ==
    ASSUME NEW given, Planned(given), OneWriter(given), NEW rank, NoCircle(rank),
           WalkOK(given), Walking(rank), HasJob
    PROVE  Job.output \notin Done
<1>1. PICK t, n, o : t = Top.target /\ n = Top.next /\ o = Job.output
  OBVIOUS
<1>2. /\ t \in Here /\ n \in DOMAIN JobsOf(given, t) /\ o = OutputsMade(given, t)[n]
      /\ n \in DOMAIN OutputsMade(given, t)
  BY <1>1, JobIs, TopIs DEF WalkOK, HasJob, OutputsMade
<1>3. /\ Listed(stack) /\ stack # <<>> /\ Len(stack) \in 1 .. Len(stack) /\ Len(stack) \in Nat
      /\ Top.phase = "each" /\ Call(given, Yielded, Top)
  BY TopIs DEF WalkOK, HasJob, Stacked
<1>4. t \notin DOMAIN executed
  BY <1>1, <1>3 DEF Walking, Top
<1>5. ASSUME NEW u \in Here, NEW i \in DOMAIN OutputsMade(given, u), OutputsMade(given, u)[i] = o
      PROVE  u = t /\ i = n
  BY <1>2, <1>5 DEF OneWriter
<1>6. o \notin Yielded
  <2>1. SUFFICES ASSUME NEW u \in DOMAIN executed, o \in ToSet(executed[u])
                 PROVE  FALSE
    BY DEF Yielded
  <2>2. u \in Here /\ executed[u] = OutputsMade(given, u)
    BY DEF WalkOK
  <2>3. PICK i \in DOMAIN OutputsMade(given, u) : o = OutputsMade(given, u)[i]
    BY <2>1, <2>2 DEF ToSet
  <2> QED
    BY <1>4, <1>5, <2>1, <2>2, <2>3
<1>7. o \notin GivenBy(stack)
  <2>1. SUFFICES ASSUME NEW k \in 1 .. Len(stack), o \in ToSet(stack[k].outputs)
                 PROVE  FALSE
    BY DEF GivenBy
  <2>2. PICK f : f = stack[k]
    OBVIOUS
  <2>3. Call(given, Yielded, f) /\ o \in ToSet(f.outputs)
    BY <2>1, <2>2 DEF WalkOK, Stacked
  <2>4. f.outputs # <<>> /\ f.target \in Here /\ Listed(f.outputs)
    BY <2>3, EmptyListed DEF Call, ToSet
  <2>5. PICK i \in DOMAIN f.outputs : o = f.outputs[i]
    BY <2>3 DEF ToSet
  <2>6. CASE f.phase = "each"
    <3>1. /\ Len(f.outputs) = f.next - 1 /\ f.next <= Len(JobsOf(given, f.target)) + 1
          /\ \A j \in 1 .. f.next - 1 : f.outputs[j] = OutputsMade(given, f.target)[j]
          /\ f.next \in Nat
      BY <2>3, <2>6 DEF Call
    <3>2. i \in 1 .. f.next - 1 /\ Len(JobsOf(given, f.target)) \in Nat
          /\ DOMAIN JobsOf(given, f.target) = 1 .. Len(JobsOf(given, f.target))
      BY <2>4, <2>5, <3>1, ListedIs, GivenListed
    <3>3. i \in 1 .. Len(JobsOf(given, f.target)) /\ i < f.next
      BY <3>1, <3>2
    <3>4. i \in DOMAIN OutputsMade(given, f.target) /\ OutputsMade(given, f.target)[i] = o
      BY <2>5, <3>1, <3>2, <3>3 DEF OutputsMade
    <3>5. f.target = t /\ i = n
      BY <1>5, <2>4, <3>4
    <3>6. k = Len(stack)
      <4>1. \A x \in Nat : ~(x < x)
        OBVIOUS
      <4>2. rank[t] \in Nat
        BY <1>2 DEF NoCircle, Here
      <4>3. ~(k < Len(stack))
        BY <1>1, <1>3, <2>2, <3>5, <4>1, <4>2 DEF Walking, Falling, Top
      <4> QED
        BY <1>3, <4>3
    <3> QED
      BY <1>1, <2>2, <3>1, <3>3, <3>5, <3>6 DEF Top
  <2>7. CASE f.phase = "run"
    <3>1. i \in DOMAIN OutputsMade(given, f.target) /\ OutputsMade(given, f.target)[i] = o
      BY <2>3, <2>5, <2>7 DEF Call
    <3>2. f.target = t
      BY <1>5, <2>4, <3>1
    <3>3. k = Len(stack)
      <4>1. \A x \in Nat : ~(x < x)
        OBVIOUS
      <4>2. rank[t] \in Nat
        BY <1>2 DEF NoCircle, Here
      <4>3. ~(k < Len(stack))
        BY <1>1, <1>3, <2>2, <3>2, <4>1, <4>2 DEF Walking, Falling, Top
      <4> QED
        BY <1>3, <4>3
    <3> QED
      BY <1>3, <2>2, <2>7, <3>3 DEF Top
  <2> QED
    BY <2>3, <2>4, <2>6, <2>7 DEF Call
<1> QED
  BY <1>1, <1>6, <1>7 DEF Done

\* The tools called in a run made what it has given, and each was called once.
OnceOK ==
    /\ BuiltOnce
    /\ pc \in Running => DOMAIN built \subseteq Done \cup (IF pc = "record" THEN {Job.output} ELSE {})

LEMMA OnceStays ==
    ASSUME NEW given, Planned(given), Traceable(given), OneWriter(given), NEW rank, NoCircle(rank),
           WalkOK(given), Walking(rank), OnceOK, [Next]_vars
    PROVE  OnceOK'
<1>0. DoneMove
  BY DoneMoves
<1>1. CASE ToolRuns
  <2>1. PICK o : o = Job.output
    OBVIOUS
  <2>2. /\ HasJob /\ pc = "tool" /\ pc' = "record" /\ stack' = stack /\ executed' = executed
        /\ built' = With(built, o, 1 + (IF o \in DOMAIN built THEN built[o] ELSE 0))
    BY <1>1, <2>1 DEF ToolRuns, WalkOK
  <2>3. o \notin DOMAIN built
    BY <2>1, <2>2, JobIsNew DEF OnceOK, Running
  <2>4. Job' = Job /\ Done' = Done
    BY <2>2 DEF Job, Top, Done, Yielded
  <2>5. DOMAIN built' = DOMAIN built \cup {o} /\ \A p \in DOMAIN built' : built'[p] = 1
    BY <2>2, <2>3 DEF With, OnceOK, BuiltOnce
  <2> QED
    BY <2>1, <2>2, <2>4, <2>5 DEF OnceOK, BuiltOnce, Running
<1>2. CASE \E request \in Requests : Start(request)
  BY <1>2 DEF Start, None, OnceOK, BuiltOnce
<1>3. CASE built' = built /\ ~\E request \in Requests : Start(request)
  <2>1. pc = "idle" => pc' = "idle"
    BY <1>3 DEF Next, Step, NextTarget, Before, Depends, Require, Files, Skip, NeedsTool,
         ToolRuns, ToolFails, Record, RecordDies, EachDone, Leave, CommandFails, TargetsDone,
         OpenCacheFile, CloseCacheFile, WriteWild, WriteNothing, Kill, Edit, RemoveHeader, walk, vars
  <2>2. CASE UNCHANGED vars
    <3>1. Job' = Job /\ Done' = Done
      BY <2>2 DEF vars, Job, Top, Done, Yielded
    <3> QED
      BY <1>3, <2>2, <3>1 DEF OnceOK, BuiltOnce, vars
  <2>3. Skip \/ Record => pc \in Running
    BY DEF Skip, Record, Running
  <2> QED
    BY <1>0, <1>1, <1>3, <2>1, <2>2, <2>3 DEF DoneMove, OnceOK, BuiltOnce, Running
<1>4. built' = built \/ ToolRuns \/ \E request \in Requests : Start(request)
  BY DEF Next, Step, NextTarget, Before, Depends, Require, Files, Skip, NeedsTool,
         ToolFails, Record, RecordDies, EachDone, Leave, CommandFails, TargetsDone,
         OpenCacheFile, CloseCacheFile, WriteWild, WriteNothing, Ends, Kill, Edit, RemoveHeader, past, vars
<1> QED
  BY <1>1, <1>2, <1>3, <1>4

\* execute.rs 154-230 against 291-365, and target.rs 69-71: a run after a run
\* without an error finds everything built, and no run calls a tool twice for
\* an output, when no two targets give the same one.
THEOREM RunsDoNothingTwice ==
    ASSUME NEW given, Planned(given), Traceable(given), OneWriter(given), NEW rank, NoCircle(rank)
    PROVE  Spec => []NoNeedlessWork
<1> DEFINE Inv == RunOK(given) /\ Plain /\ QuietOK(given) /\ Walking(rank) /\ OnceOK
<1>1. Init => Inv
  <2>1. Init => OnceOK
    <3>1. Init => pc = "idle" /\ DOMAIN built = {}
      BY DEF Init, None
    <3> QED
      BY <3>1 DEF OnceOK, BuiltOnce, Running
  <2> QED
    BY <2>1, RunBegins, QuietBegins, TypesBegin
<1>2. Inv /\ [Next]_vars => Inv'
  BY RunStays, PlainStays, QuietStays, CallsFall, OnceStays DEF RunOK
<1>3. Inv => NoNeedlessWork
  BY DEF NoNeedlessWork, NothingLeftToDo, Succeeded, QuietOK, Cached, OnceOK
<1> QED
  BY <1>1, <1>2, <1>3, PTL DEF Spec
=============================================================================

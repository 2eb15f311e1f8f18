------------------------- MODULE CRFinalizersProofs -------------------------
(***************************************************************************)
(* The types of CRFinalizers, and that no derived object is ever left       *)
(* without a CR that the operator's finalizer holds.                        *)
(*                                                                          *)
(* What RemoveFinalizer and the cycle's loop over the finalizers compute is *)
(* proved for lists of every length, by induction.                          *)
(***************************************************************************)
EXTENDS CRFinalizers, FiniteSetTheorems, WellFoundedInduction, TLAPS

-----------------------------------------------------------------------------
(* Induction                                                                *)

\* The intervals 0..n are ordered as the numbers n are, and the order of finite sets is well
\* founded: a set of numbers has a least one.
LEMMA Least ==
    ASSUME NEW S \in SUBSET Nat, S # {}
    PROVE  \E n \in S : \A m \in S : n <= m
<1>. DEFINE Interval(n) == 0..n
            T == {Interval(n) : n \in S}
<1>1. T \subseteq FiniteSubsetsOf(Nat)
  <2>1. \A n \in S : IsFiniteSet(0..n) /\ 0..n \subseteq Nat
    BY FS_Interval
  <2>. QED
    BY <2>1 DEF FiniteSubsetsOf
<1>2. IsWellFoundedOn(StrictSubsetOrdering(Nat), FiniteSubsetsOf(Nat))
  BY FS_StrictSubsetOrderingWellFounded
<1>3. PICK n \in S : \A m \in S : <<Interval(m), Interval(n)>> \notin StrictSubsetOrdering(Nat)
  <2>1. T # {}
    OBVIOUS
  <2>2. PICK x \in T : \A y \in T : ~(<<y, x>> \in StrictSubsetOrdering(Nat))
    <3>. HIDE DEF T
    <3>. QED
      BY <1>1, <1>2, <2>1, WFMin
  <2>. QED
    BY <2>2
<1>4. ASSUME NEW m \in S, m < n PROVE FALSE
  <2>1. Interval(m) \subseteq Interval(n) /\ Interval(m) # Interval(n)
    BY <1>4
  <2>2. Interval(m) \subseteq Nat /\ Interval(n) \subseteq Nat
    OBVIOUS
  <2>. HIDE DEF Interval
  <2>. QED
    BY <1>3, <2>1, <2>2 DEF StrictSubsetOrdering
<1>. QED
  BY <1>4

\* Induction, over a set of numbers in the place of a predicate.
LEMMA SetInduction ==
    ASSUME NEW S, 0 \in S, \A n \in Nat : n \in S => n + 1 \in S
    PROVE  \A n \in Nat : n \in S
<1>. SUFFICES ASSUME Nat \ S # {} PROVE FALSE
  OBVIOUS
<1>1. PICK n \in Nat \ S : \A m \in Nat \ S : n <= m
  BY Least
<1>2. n # 0 /\ n - 1 \in Nat /\ n - 1 \notin Nat \ S
  BY <1>1
<1>. QED
  BY <1>1, <1>2

-----------------------------------------------------------------------------
(* What RemoveFinalizer keeps                                               *)

\* What the recursive function of Without is, for the first n finalizers of a list.
IsKept(kept, s, f, n) ==
    kept = [i \in 0..n |->
        IF i = 0 THEN <<>>
        ELSE IF s[i] = f THEN kept[i - 1]
        ELSE Append(kept[i - 1], s[i])]

Kept(s, f) == CHOOSE kept : IsKept(kept, s, f, Len(s))

LEMMA KeptExists ==
    ASSUME NEW s, NEW f
    PROVE  \A n \in Nat : \E kept : IsKept(kept, s, f, n)
<1>. DEFINE S == {m \in Nat : \E kept : IsKept(kept, s, f, m)}
<1>1. 0 \in S
  <2>1. IsKept([i \in 0..0 |-> <<>>], s, f, 0)
    BY DEF IsKept
  <2>. QED
    BY <2>1
<1>2. ASSUME NEW m \in Nat, m \in S PROVE m + 1 \in S
  <2>1. PICK g : IsKept(g, s, f, m)
    BY <1>2
  <2>. DEFINE last == IF s[m + 1] = f THEN g[m] ELSE Append(g[m], s[m + 1])
              h == [i \in 0..(m + 1) |-> IF i = m + 1 THEN last ELSE g[i]]
  <2>2. ASSUME NEW i \in 0..(m + 1)
        PROVE  h[i] = IF i = 0 THEN <<>>
                      ELSE IF s[i] = f THEN h[i - 1]
                      ELSE Append(h[i - 1], s[i])
    <3>1. CASE i = 0
      BY <2>1, <3>1 DEF IsKept
    <3>2. CASE i = m + 1
      BY <3>2
    <3>3. CASE i \in 1..m
      <4>1. h[i] = g[i] /\ h[i - 1] = g[i - 1] /\ i # 0 /\ i \in 0..m
        BY <3>3
      <4>. HIDE DEF h
      <4>. QED
        BY <2>1, <4>1 DEF IsKept
    <3>. QED
      BY <3>1, <3>2, <3>3
  <2>3. IsKept(h, s, f, m + 1)
    BY <2>2 DEF IsKept
  <2>. HIDE DEF h
  <2>. QED
    BY <2>3
<1>. HIDE DEF S
<1>3. \A m \in Nat : m \in S
  BY <1>1, <1>2, SetInduction
<1>. QED
  BY <1>3 DEF S

LEMMA KeptSteps ==
    ASSUME NEW s, Len(s) \in Nat, NEW f
    PROVE  /\ Without(s, f) = Kept(s, f)[Len(s)]
           /\ Kept(s, f)[0] = <<>>
           /\ \A i \in 1..Len(s) : Kept(s, f)[i] = IF s[i] = f THEN Kept(s, f)[i - 1]
                                                 ELSE Append(Kept(s, f)[i - 1], s[i])
<1>1. Without(s, f) = Kept(s, f)[Len(s)]
  BY DEF Without, Kept, IsKept
<1>. DEFINE k == Kept(s, f)
<1>2. IsKept(k, s, f, Len(s))
  BY KeptExists DEF Kept
<1>. HIDE DEF k
<1>3. ASSUME NEW i \in 1..Len(s)
      PROVE  k[i] = IF s[i] = f THEN k[i - 1] ELSE Append(k[i - 1], s[i])
  <2>1. i \in 0..Len(s) /\ i # 0
    OBVIOUS
  <2>. QED
    BY <1>2, <2>1 DEF IsKept
<1>4. k[0] = <<>>
  BY <1>2 DEF IsKept
<1>. QED
  BY <1>1, <1>3, <1>4 DEF k

\* r is what is kept of the first n elements of s.
Keeps(r, T, s, f, n) ==
    /\ r \in Seq(T)
    /\ Len(r) <= n
    /\ \A j \in 1..n : s[j] # f => \E q \in 1..Len(r) : r[q] = s[j]
    /\ \A q \in 1..Len(r) : \E j \in 1..n : s[j] # f /\ r[q] = s[j]
    /\ IsInjective(s) => IsInjective(r)

LEMMA InjectiveSeq ==
    ASSUME NEW T, NEW s \in Seq(T)
    PROVE  IsInjective(s) <=> \A i, j \in 1..Len(s) : s[i] = s[j] => i = j
BY DEF IsInjective

LEMMA AppendTo ==
    ASSUME NEW T, NEW s \in Seq(T), NEW e \in T
    PROVE  /\ Append(s, e) \in Seq(T)
           /\ Len(Append(s, e)) = Len(s) + 1
           /\ \A i \in 1..Len(s) : Append(s, e)[i] = s[i]
           /\ Append(s, e)[Len(s) + 1] = e
OBVIOUS

LEMMA KeepsStep ==
    ASSUME NEW T, NEW s \in Seq(T), NEW f, NEW n \in Nat, n < Len(s), NEW r,
           Keeps(r, T, s, f, n)
    PROVE  Keeps(IF s[n + 1] = f THEN r ELSE Append(r, s[n + 1]), T, s, f, n + 1)
<1>. DEFINE e == s[n + 1]
<1>1. e \in T /\ n + 1 \in 1..Len(s) /\ 1..n \subseteq 1..Len(s)
  OBVIOUS
<1>2. \A j \in 1..(n + 1) : j \in 1..n \/ s[j] = e
  OBVIOUS
<1>3. \A j \in 1..n : j \in 1..(n + 1) /\ j # n + 1
  OBVIOUS
<1>4. n + 1 \in 1..(n + 1)
  OBVIOUS
<1>5. CASE e = f
  <2>. HIDE DEF e
  <2>1. Len(r) <= n + 1
    BY DEF Keeps
  <2>. QED
    BY <1>1, <1>2, <1>3, <1>5, <2>1 DEF Keeps, e
<1>6. CASE e # f
  <2>. DEFINE a == Append(r, e)
  <2>1. /\ a \in Seq(T)
        /\ Len(a) = Len(r) + 1
        /\ \A q \in 1..Len(r) : a[q] = r[q]
        /\ a[Len(r) + 1] = e
    BY <1>1, AppendTo DEF Keeps
  <2>. HIDE DEF a
  <2>2. Len(r) \in Nat /\ Len(r) <= n
    BY DEF Keeps
  <2>3. \A q \in 1..Len(a) : q \in 1..Len(r) \/ q = Len(r) + 1
    BY <2>1, <2>2
  <2>4. 1..Len(r) \subseteq 1..Len(a) /\ Len(r) + 1 \in 1..Len(a)
    BY <2>1, <2>2
  <2>5. \A j \in 1..(n + 1) : s[j] # f => \E q \in 1..Len(a) : a[q] = s[j]
    <3>. HIDE DEF e
    <3>. QED
      BY <1>2, <2>1, <2>4 DEF Keeps
  <2>6. \A q \in 1..Len(a) : \E j \in 1..(n + 1) : s[j] # f /\ a[q] = s[j]
    <3>. SUFFICES ASSUME NEW q \in 1..Len(a)
                  PROVE  \E j \in 1..(n + 1) : s[j] # f /\ a[q] = s[j]
      OBVIOUS
    <3>1. CASE q \in 1..Len(r)
      <4>1. PICK j \in 1..n : s[j] # f /\ r[q] = s[j]
        BY <3>1 DEF Keeps
      <4>. QED
        BY <1>3, <2>1, <3>1, <4>1
    <3>2. CASE q = Len(r) + 1
      BY <1>4, <1>6, <2>1, <3>2
    <3>. QED
      BY <2>3, <3>1, <3>2
  <2>7. ASSUME IsInjective(s), NEW p \in 1..Len(a), NEW q \in 1..Len(a), a[p] = a[q]
        PROVE  p = q
    <3>1. \A m \in 1..Len(r) : r[m] # e
      BY <1>1, <1>3, <2>7, InjectiveSeq DEF Keeps
    <3>2. \A m, o \in 1..Len(r) : r[m] = r[o] => m = o
      BY <2>7, InjectiveSeq DEF Keeps
    <3>. HIDE DEF e
    <3>. QED
      BY <2>1, <2>3, <2>7, <3>1, <3>2
  <2>8. IsInjective(s) => IsInjective(a)
    BY <2>1, <2>7, InjectiveSeq
  <2>9. Len(a) <= n + 1
    BY <2>1, <2>2
  <2>. QED
    BY <1>6, <2>1, <2>5, <2>6, <2>8, <2>9 DEF Keeps, a
<1>. QED
  BY <1>5, <1>6

\* RemoveFinalizer removes the finalizer it is given and nothing else.
LEMMA WithoutKeeps ==
    ASSUME NEW T, NEW s \in Seq(T), NEW f
    PROVE  Keeps(Without(s, f), T, s, f, Len(s))
<1>. DEFINE k == Kept(s, f)
            S == {n \in Nat : n <= Len(s) => Keeps(k[n], T, s, f, n)}
<1>1. /\ Without(s, f) = k[Len(s)]
      /\ k[0] = <<>>
      /\ \A i \in 1..Len(s) : k[i] = IF s[i] = f THEN k[i - 1] ELSE Append(k[i - 1], s[i])
  BY KeptSteps
<1>. HIDE DEF k
<1>2. 0 \in S
  <2>. DEFINE r == k[0]
  <2>1. r \in Seq(T) /\ Len(r) = 0
    BY <1>1
  <2>. HIDE DEF r
  <2>2. IsInjective(r)
    <3>1. \A i, j \in 1..Len(r) : i = j
      BY <2>1
    <3>. QED
      BY <2>1, <3>1, InjectiveSeq
  <2>3. Keeps(r, T, s, f, 0)
    BY <2>1, <2>2 DEF Keeps
  <2>. QED
    BY <2>3 DEF r
<1>3. ASSUME NEW n \in Nat, n \in S PROVE n + 1 \in S
  <2>. SUFFICES ASSUME n + 1 <= Len(s) PROVE Keeps(k[n + 1], T, s, f, n + 1)
    OBVIOUS
  <2>1. Keeps(k[n], T, s, f, n) /\ n < Len(s)
    BY <1>3
  <2>2. k[n + 1] = IF s[n + 1] = f THEN k[n] ELSE Append(k[n], s[n + 1])
    BY <1>1, <2>1
  <2>. QED
    BY <2>1, <2>2, KeepsStep
<1>4. Len(s) \in S
  <2>. HIDE DEF S
  <2>. QED
    BY <1>2, <1>3, SetInduction
<1>. QED
  BY <1>1, <1>4

LEMMA WithoutList ==
    ASSUME NEW s \in FinalizerList, NEW f
    PROVE  /\ Without(s, f) \in FinalizerList
           /\ Len(Without(s, f)) <= Len(s)
           /\ \A g : g # f /\ Contains(s, g) => Contains(Without(s, f), g)
<1>1. Keeps(Without(s, f), Finalizer, s, f, Len(s))
  BY WithoutKeeps DEF FinalizerList
<1>2. IsInjective(s)
  BY DEF FinalizerList
<1>. QED
  BY <1>1, <1>2 DEF Keeps, FinalizerList, Contains

-----------------------------------------------------------------------------
(* The loop over the finalizers                                             *)

\* The slice of a list of n finalizers, of which some may have been removed.
SliceOf(n) ==
    {l \in Slice : /\ Len(l.array) = n
                   /\ l.length <= n
                   /\ SubSeq(l.array, 1, l.length) \in FinalizerList}

LEMMA InSliceOf ==
    ASSUME NEW n \in Nat, NEW array \in Seq(Finalizer), Len(array) = n,
           NEW length \in 0..n, SubSeq(array, 1, length) \in FinalizerList
    PROVE  [array |-> array, length |-> length] \in SliceOf(n)
<1>. DEFINE l == [array |-> array, length |-> length]
<1>1. l \in Slice /\ l.array = array /\ l.length = length
  BY DEF Slice
<1>. HIDE DEF l
<1>2. l \in SliceOf(n)
  BY <1>1 DEF SliceOf
<1>. QED
  BY <1>2 DEF l

LEMMA CompactedSlice ==
    ASSUME NEW n \in Nat, NEW l \in SliceOf(n), NEW f
    PROVE  Compacted(l, f) \in SliceOf(n)
<1>. DEFINE prefix == SubSeq(l.array, 1, l.length)
            kept == Without(prefix, f)
            tail == SubSeq(l.array, Len(kept) + 1, Len(l.array))
            array == kept \o tail
<1>1. /\ l.array \in Seq(Finalizer)
      /\ Len(l.array) = n
      /\ l.length \in Nat
      /\ l.length <= n
      /\ prefix \in FinalizerList
  BY DEF SliceOf, Slice
<1>2. Len(prefix) = l.length
  BY <1>1
<1>3. kept \in FinalizerList /\ Len(kept) <= l.length
  BY <1>1, <1>2, WithoutList
<1>4. Compacted(l, f) = [array |-> array, length |-> Len(kept)]
  BY DEF Compacted
<1>. HIDE DEF kept, prefix
<1>5. kept \in Seq(Finalizer) /\ Len(kept) \in Nat /\ Len(kept) <= n
  BY <1>1, <1>3 DEF FinalizerList
<1>6. tail \in Seq(Finalizer) /\ Len(tail) = n - Len(kept)
  BY <1>1, <1>5
<1>. HIDE DEF tail
<1>7. /\ array \in Seq(Finalizer)
      /\ Len(array) = n
      /\ \A i \in 1..Len(kept) : array[i] = kept[i]
  BY <1>5, <1>6
<1>. HIDE DEF array
<1>8. SubSeq(array, 1, Len(kept)) = kept
  BY <1>5, <1>7
<1>. QED
  <2>1. Len(kept) \in 0..n
    BY <1>5
  <2>. QED
    BY <1>3, <1>4, <1>7, <1>8, <2>1, InSliceOf

\* The slice before and after every round of the loop: round[i] is the i-th round.
IsStruck(after, round, start, n) ==
    after = [i \in 0..n |-> IF i = 0 THEN start ELSE round[i][after[i - 1]]]

LEMMA StruckExists ==
    ASSUME NEW round, NEW start
    PROVE  \A n \in Nat : \E after : IsStruck(after, round, start, n)
<1>. DEFINE S == {m \in Nat : \E after : IsStruck(after, round, start, m)}
<1>1. 0 \in S
  <2>1. IsStruck([i \in 0..0 |-> start], round, start, 0)
    BY DEF IsStruck
  <2>. QED
    BY <2>1
<1>2. ASSUME NEW m \in Nat, m \in S PROVE m + 1 \in S
  <2>1. PICK g : IsStruck(g, round, start, m)
    BY <1>2
  <2>. DEFINE last == round[m + 1][g[m]]
              h == [i \in 0..(m + 1) |-> IF i = m + 1 THEN last ELSE g[i]]
  <2>2. ASSUME NEW i \in 0..(m + 1)
        PROVE  h[i] = IF i = 0 THEN start ELSE round[i][h[i - 1]]
    <3>1. CASE i = 0
      BY <2>1, <3>1 DEF IsStruck
    <3>2. CASE i = m + 1
      BY <3>2
    <3>3. CASE i \in 1..m
      <4>1. h[i] = g[i] /\ h[i - 1] = g[i - 1] /\ i # 0 /\ i \in 0..m
        BY <3>3
      <4>. HIDE DEF h
      <4>. QED
        BY <2>1, <4>1 DEF IsStruck
    <3>. QED
      BY <3>1, <3>2, <3>3
  <2>3. IsStruck(h, round, start, m + 1)
    BY <2>2 DEF IsStruck
  <2>. HIDE DEF h
  <2>. QED
    BY <2>3
<1>. HIDE DEF S
<1>3. \A m \in Nat : m \in S
  BY <1>1, <1>2, SetInduction
<1>. QED
  BY <1>3 DEF S

\* Whatever the rounds step over, they leave a list of finalizers with none in it twice.
LEMMA StrickenList ==
    ASSUME NEW s \in FinalizerList
    PROVE  Stricken(s) \in FinalizerList
<1>. DEFINE n == Len(s)
            start == [array |-> s, length |-> Len(s)]
            round == [i \in 1..Len(s) |-> [list \in Slice |->
                IF list.array[i] = Own THEN list ELSE Compacted(list, list.array[i])]]
            after == CHOOSE g : IsStruck(g, round, start, n)
            S == {m \in Nat : m <= n => after[m] \in SliceOf(n)}
<1>1. Stricken(s) = SubSeq(after[n].array, 1, after[n].length)
  BY DEF Stricken, IsStruck
<1>2. n \in Nat /\ s \in Seq(Finalizer)
  BY DEF FinalizerList
<1>3. start \in SliceOf(n)
  <2>1. SubSeq(s, 1, n) = s
    BY <1>2
  <2>. QED
    <3>1. n \in 0..n /\ Len(s) = n
      BY <1>2
    <3>. HIDE DEF n
    <3>. QED
      BY <1>2, <2>1, <3>1, InSliceOf
<1>4. \A i \in 1..n, l \in SliceOf(n) : round[i][l] \in SliceOf(n)
  BY <1>2, CompactedSlice DEF SliceOf
<1>. HIDE DEF round, start
<1>5. IsStruck(after, round, start, n)
  BY <1>2, StruckExists
<1>. HIDE DEF after, n
<1>6. 0 \in S
  BY <1>2, <1>3, <1>5 DEF IsStruck
<1>7. ASSUME NEW m \in Nat, m \in S PROVE m + 1 \in S
  <2>. SUFFICES ASSUME m + 1 <= n PROVE after[m + 1] \in SliceOf(n)
    OBVIOUS
  <2>1. after[m] \in SliceOf(n)
    BY <1>2, <1>7
  <2>2. after[m + 1] = round[m + 1][after[m]]
    BY <1>2, <1>5 DEF IsStruck
  <2>3. m + 1 \in 1..n
    BY <1>2
  <2>. QED
    BY <1>4, <2>1, <2>2, <2>3
<1>8. n \in S
  <2>. HIDE DEF S
  <2>. QED
    BY <1>2, <1>6, <1>7, SetInduction
<1>. QED
  BY <1>1, <1>2, <1>8 DEF SliceOf

\* The cycle's copy always has the operator's finalizer.
LEMMA AppendNew ==
    ASSUME NEW s \in FinalizerList, NEW f \in Finalizer, ~Contains(s, f)
    PROVE  /\ Append(s, f) \in FinalizerList
           /\ Contains(Append(s, f), f)
           /\ \A g : Contains(s, g) => Contains(Append(s, f), g)
<1>. DEFINE a == Append(s, f)
<1>1. s \in Seq(Finalizer) /\ IsInjective(s)
  BY DEF FinalizerList
<1>2. /\ a \in Seq(Finalizer)
      /\ Len(a) = Len(s) + 1
      /\ \A i \in 1..Len(s) : a[i] = s[i]
      /\ a[Len(s) + 1] = f
  BY <1>1, AppendTo
<1>3. Len(s) \in Nat
  BY <1>1
<1>. HIDE DEF a
<1>4. \A i \in 1..Len(a) : i \in 1..Len(s) \/ i = Len(s) + 1
  BY <1>2, <1>3
<1>5. 1..Len(s) \subseteq 1..Len(a) /\ Len(s) + 1 \in 1..Len(a)
  BY <1>2, <1>3
<1>6. \A i, j \in 1..Len(a) : a[i] = a[j] => i = j
  BY <1>1, <1>2, <1>4, InjectiveSeq DEF Contains
<1>7. a \in FinalizerList
  BY <1>2, <1>6, InjectiveSeq DEF FinalizerList
<1>. QED
  BY <1>2, <1>5, <1>7 DEF Contains, a

\* The cycle's copy always has the operator's finalizer.
LEMMA CleanedList ==
    ASSUME NEW s \in FinalizerList
    PROVE  Cleaned(s) \in FinalizerList /\ Contains(Cleaned(s), Own)
<1>1. Own \in Finalizer
  BY DEF Finalizer
<1>. QED
  BY <1>1, StrickenList, AppendNew DEF Cleaned

-----------------------------------------------------------------------------
(* The invariant                                                            *)

HasOwn(o) == o # None /\ Contains(o.finalizers, Own)

\* The worker's copy has the operator's finalizer from the beginning.
CopyInv ==
    /\ pc # "idle" => kt # None
    /\ kt # None => Contains(kt.finalizers, Own)
    /\ pc = "updateCR" => kt.deleting

\* The copy is no newer than the cache, and the cache no newer than the CR; what has the same
\* version is the same.
VersionInv ==
    /\ \A o \in {cr, seen, kt} : o # None => o.rv <= revision
    /\ seen # None /\ cr # None => seen.rv <= cr.rv /\ (seen.rv = cr.rv => seen = cr)
    /\ kt # None /\ seen # None => kt.rv <= seen.rv
    /\ kt # None /\ cr # None => kt.rv <= cr.rv /\ (kt.rv = cr.rv => kt.deleting = cr.deleting)

\* Only the teardown takes the operator's finalizer off: a CR that the cache shows in use and
\* held is there and held, and so is the one that the worker is about to make objects for.
HeldInv ==
    /\ HasOwn(seen) /\ ~seen.deleting => HasOwn(cr)
    /\ pc = "reconcile" => HasOwn(cr)
    /\ ObjectsAreHeld

Inv == TypeOK /\ CopyInv /\ VersionInv /\ HeldInv

LEMMA InitInv == Init => Inv
<1>. SUFFICES ASSUME Init PROVE Inv
  OBVIOUS
<1>1. TypeOK
  <2>1. used \in [creates: 0..MaxCreates, foreign: 0..MaxForeign]
    BY ConstantsAssumption DEF Init
  <2>. QED
    BY <2>1 DEF Init, TypeOK
<1>2. CopyInv /\ VersionInv
  BY DEF Init, CopyInv, VersionInv
<1>3. HeldInv
  BY DEF Init, HeldInv, HasOwn, ObjectsAreHeld
<1>. QED
  BY <1>1, <1>2, <1>3 DEF Inv

-----------------------------------------------------------------------------
(* Writes                                                                   *)

LEMMA WriteType ==
    ASSUME TypeOK, NEW finalizers \in FinalizerList, NEW deleting \in BOOLEAN,
           Write(finalizers, deleting)
    PROVE  cr' \in CR \cup {None} /\ revision' \in Nat
BY DEF Write, TypeOK, CR

\* A write leaves the CR as it is, removes it or makes a new version of it.
LEMMA WriteResult ==
    ASSUME TypeOK, NEW finalizers \in FinalizerList, NEW deleting \in BOOLEAN,
           Write(finalizers, deleting)
    PROVE  /\ revision <= revision'
           /\ \/ cr' = None
              \/ cr' = cr
              \/ /\ cr' = [finalizers |-> finalizers, deleting |-> deleting, rv |-> revision']
                 /\ revision' = revision + 1
BY DEF Write, TypeOK

\* What is written with the operator's finalizer stays, and has it.
LEMMA WriteHolds ==
    ASSUME TypeOK, NEW finalizers \in FinalizerList, NEW deleting \in BOOLEAN,
           Write(finalizers, deleting), Contains(finalizers, Own)
    PROVE  HasOwn(cr')
<1>1. finalizers # <<>>
  BY DEF Contains
<1>2. CASE cr' = cr /\ cr # None /\ cr.finalizers = finalizers
  BY <1>2 DEF HasOwn
<1>3. CASE cr' = [finalizers |-> finalizers, deleting |-> deleting, rv |-> revision + 1]
  <2>1. cr' \in CR
    BY <1>3 DEF CR, TypeOK
  <2>. QED
    BY <1>3, <2>1, ConstantsAssumption DEF HasOwn
<1>. QED
  BY <1>1, <1>2, <1>3 DEF Write

LEMMA WriteVersion ==
    ASSUME TypeOK, VersionInv, NEW finalizers \in FinalizerList, NEW deleting \in BOOLEAN,
           Write(finalizers, deleting), UNCHANGED seen, kt' = kt \/ kt' = None
    PROVE  VersionInv'
<1>1. revision \in Nat /\ {cr, seen, kt} \subseteq CR \cup {None}
  BY DEF TypeOK
<1>2. \A o \in CR : o.rv \in Nat
  BY DEF CR
<1>3. revision <= revision' /\ revision' \in Nat
  BY WriteResult, WriteType
<1>4. CASE cr' = None
  BY <1>1, <1>2, <1>3, <1>4 DEF VersionInv
<1>5. CASE cr' = cr
  BY <1>1, <1>2, <1>3, <1>5 DEF VersionInv
<1>6. CASE cr'.rv = revision' /\ revision' = revision + 1
  BY <1>1, <1>2, <1>3, <1>6 DEF VersionInv
<1>. QED
  BY <1>4, <1>5, <1>6, WriteResult

-----------------------------------------------------------------------------
(* Steps                                                                    *)

LEMMA NextType == Inv /\ [Next]_vars => TypeOK'
<1>. SUFFICES ASSUME Inv, [Next]_vars PROVE TypeOK'
  OBVIOUS
<1>. USE DEF Inv
<1>1. ASSUME NEW finalizers \in CreatedWith, CreateCR(finalizers) PROVE TypeOK'
  <2>1. finalizers \in FinalizerList
    BY ConstantsAssumption
  <2>2. cr' \in CR \cup {None} /\ revision' \in Nat
    BY <1>1, <2>1, WriteType DEF CreateCR
  <2>3. used' \in [creates: 0..MaxCreates, foreign: 0..MaxForeign]
    BY <1>1, ConstantsAssumption DEF CreateCR, TypeOK
  <2>. QED
    BY <1>1, <2>2, <2>3 DEF CreateCR, worker, TypeOK
<1>2. CASE DeleteCR
  <2>1. cr.finalizers \in FinalizerList
    BY <1>2 DEF DeleteCR, TypeOK, CR
  <2>2. cr' \in CR \cup {None} /\ revision' \in Nat
    BY <1>2, <2>1, WriteType DEF DeleteCR
  <2>. QED
    BY <1>2, <2>2 DEF DeleteCR, worker, TypeOK
<1>3. CASE OtherController
  <2>1. PICK f \in Foreign : AddForeign(f) \/ RemoveForeign(f)
    BY <1>3 DEF OtherController
  <2>2. cr # None /\ cr.finalizers \in FinalizerList /\ cr.deleting \in BOOLEAN
    BY <2>1 DEF AddForeign, RemoveForeign, TypeOK, CR
  <2>3. f \in Finalizer
    BY DEF Finalizer
  <2>4. cr' \in CR \cup {None} /\ revision' \in Nat
    <3>1. CASE AddForeign(f)
      BY <2>2, <2>3, <3>1, AppendNew, WriteType DEF AddForeign
    <3>2. CASE RemoveForeign(f)
      BY <2>2, <3>2, WithoutList, WriteType DEF RemoveForeign
    <3>. QED
      BY <2>1, <3>1, <3>2
  <2>5. used' \in [creates: 0..MaxCreates, foreign: 0..MaxForeign]
    BY <1>3, ConstantsAssumption DEF OtherController, TypeOK
  <2>. QED
    BY <1>3, <2>4, <2>5 DEF OtherController, worker, TypeOK
<1>4. CASE Sync
  BY <1>4 DEF Sync, TypeOK
<1>5. CASE Get
  <2>1. seen # None => [seen EXCEPT !.finalizers = Cleaned(seen.finalizers)] \in CR
    BY CleanedList DEF TypeOK, CR
  <2>. QED
    BY <1>5, <2>1 DEF Get, TypeOK
<1>6. CASE UpdateCR
  <2>1. kt.finalizers \in FinalizerList
    BY <1>6 DEF UpdateCR, CopyInv, TypeOK, CR
  <2>2. Without(kt.finalizers, Own) \in FinalizerList
    BY <2>1, WithoutList
  <2>3. cr' \in CR \cup {None} /\ revision' \in Nat
    BY <1>6, <2>2, WriteType DEF UpdateCR, TypeOK
  <2>. QED
    BY <1>6, <2>3 DEF UpdateCR, Return, TypeOK
<1>7. CASE Teardown
  BY <1>7 DEF Teardown, Return, TypeOK
<1>8. CASE PatchCR
  <2>1. kt.finalizers \in FinalizerList
    BY <1>8 DEF PatchCR, CopyInv, TypeOK, CR
  <2>2. cr' \in CR \cup {None} /\ revision' \in Nat
    <3>1. CASE UNCHANGED <<cr, revision>>
      BY <3>1 DEF TypeOK
    <3>2. CASE cr # None /\ Write(kt.finalizers, cr.deleting)
      <4>1. cr.deleting \in BOOLEAN
        BY <3>2 DEF TypeOK, CR
      <4>. QED
        BY <2>1, <3>2, <4>1, WriteType
    <3>. QED
      BY <1>8, <3>1, <3>2 DEF PatchCR
  <2>. QED
    BY <1>8, <2>2 DEF PatchCR, Return, TypeOK
<1>9. CASE Reconcile
  BY <1>9 DEF Reconcile, Return, TypeOK
<1>10. CASE UNCHANGED vars
  BY <1>10 DEF vars, TypeOK
<1>. QED
  BY <1>1, <1>2, <1>3, <1>4, <1>5, <1>6, <1>7, <1>8, <1>9, <1>10 DEF Next, Worker

LEMMA NextCopy == Inv /\ [Next]_vars => CopyInv'
<1>. SUFFICES ASSUME Inv, [Next]_vars PROVE CopyInv'
  OBVIOUS
<1>1. CASE UNCHANGED <<pc, kt>>
  BY <1>1 DEF Inv, CopyInv
<1>2. CASE Return(TRUE) \/ Return(FALSE)
  BY <1>2 DEF Return, CopyInv
<1>3. CASE Get /\ seen # None
  <2>1. seen.finalizers \in FinalizerList /\ seen \in CR
    BY <1>3 DEF Inv, TypeOK, CR
  <2>2. /\ kt' = [seen EXCEPT !.finalizers = Cleaned(seen.finalizers)]
        /\ pc' = "updateCR" => seen.deleting
    BY <1>3 DEF Get
  <2>3. kt' \in CR /\ kt'.finalizers = Cleaned(seen.finalizers) /\ kt'.deleting = seen.deleting
    BY <2>1, <2>2, CleanedList DEF CR
  <2>. QED
    BY <2>1, <2>2, <2>3, CleanedList, ConstantsAssumption DEF CopyInv
<1>4. CASE UpdateCR /\ pc' = "teardown" /\ UNCHANGED kt
  BY <1>4 DEF UpdateCR, Inv, CopyInv
<1>5. ASSUME NEW finalizers, CreateCR(finalizers) PROVE CopyInv'
  BY <1>1, <1>5 DEF CreateCR, worker
<1>. QED
  BY <1>1, <1>2, <1>3, <1>4, <1>5
     DEF Next, Worker, vars, worker, DeleteCR, OtherController, Sync, Get, UpdateCR, Teardown,
         PatchCR, Reconcile

LEMMA NextVersion == Inv /\ [Next]_vars => VersionInv'
<1>. SUFFICES ASSUME Inv, [Next]_vars PROVE VersionInv'
  OBVIOUS
<1>. USE DEF Inv
<1>0. /\ {cr, seen, kt} \subseteq CR \cup {None}
      /\ \A o \in CR : o.rv \in Nat /\ o.finalizers \in FinalizerList /\ o.deleting \in BOOLEAN
  BY DEF TypeOK, CR
<1>1. ASSUME NEW finalizers \in CreatedWith, CreateCR(finalizers) PROVE VersionInv'
  BY <1>1, WriteVersion, ConstantsAssumption DEF CreateCR, worker
<1>2. CASE DeleteCR
  BY <1>0, <1>2, WriteVersion DEF DeleteCR, worker
<1>3. CASE OtherController
  <2>1. PICK f \in Foreign : AddForeign(f) \/ RemoveForeign(f)
    BY <1>3 DEF OtherController
  <2>2. UNCHANGED <<seen, kt>>
    BY <1>3 DEF OtherController, worker
  <2>3. CASE AddForeign(f)
    BY <1>0, <2>2, <2>3, AppendNew, WriteVersion DEF AddForeign, Finalizer
  <2>4. CASE RemoveForeign(f)
    BY <1>0, <2>2, <2>4, WithoutList, WriteVersion DEF RemoveForeign
  <2>. QED
    BY <2>1, <2>3, <2>4
<1>4. CASE Sync
  BY <1>0, <1>4 DEF Sync, VersionInv
<1>5. CASE Get
  <2>1. CASE seen = None
    BY <1>5, <2>1 DEF Get, VersionInv
  <2>2. CASE seen # None
    <3>1. kt'.rv = seen.rv /\ kt'.deleting = seen.deleting
      BY <1>0, <1>5, <2>2 DEF Get, CR
    <3>. QED
      BY <1>0, <1>5, <2>2, <3>1 DEF Get, VersionInv
  <2>. QED
    BY <2>1, <2>2
<1>6. CASE UpdateCR
  <2>1. CASE UNCHANGED <<cr, revision>> /\ kt' = None
    BY <1>6, <2>1 DEF UpdateCR, VersionInv
  <2>2. CASE Write(Without(kt.finalizers, Own), TRUE) /\ kt' = kt
    BY <1>0, <1>6, <2>2, WithoutList, WriteVersion DEF UpdateCR, CopyInv
  <2>. QED
    BY <1>6, <2>1, <2>2 DEF UpdateCR, Return
<1>7. CASE Teardown
  BY <1>7 DEF Teardown, Return, VersionInv
<1>8. CASE PatchCR
  <2>1. CASE UNCHANGED <<cr, revision>> /\ kt' = None
    BY <1>8, <2>1 DEF PatchCR, VersionInv
  <2>2. CASE cr # None /\ Write(kt.finalizers, cr.deleting) /\ kt' = None
    BY <1>0, <1>8, <2>2, WriteVersion DEF PatchCR, CopyInv
  <2>. QED
    BY <1>8, <2>1, <2>2 DEF PatchCR, Return
<1>9. CASE Reconcile
  BY <1>9 DEF Reconcile, Return, VersionInv
<1>10. CASE UNCHANGED vars
  BY <1>10 DEF vars, VersionInv
<1>. QED
  BY <1>1, <1>2, <1>3, <1>4, <1>5, <1>6, <1>7, <1>8, <1>9, <1>10 DEF Next, Worker

LEMMA NextHeld == Inv /\ [Next]_vars => HeldInv'
<1>. SUFFICES ASSUME Inv, [Next]_vars PROVE HeldInv'
  OBVIOUS
<1>. USE DEF Inv
<1>0. /\ {cr, seen, kt} \subseteq CR \cup {None}
      /\ \A o \in CR : o.rv \in Nat /\ o.finalizers \in FinalizerList /\ o.deleting \in BOOLEAN
  BY DEF TypeOK, CR
<1>1. ASSUME NEW finalizers \in CreatedWith, CreateCR(finalizers) PROVE HeldInv'
  <2>1. ~HasOwn(cr)
    BY <1>1 DEF CreateCR, HasOwn
  <2>. QED
    BY <1>1, <2>1 DEF CreateCR, worker, HeldInv, HasOwn, ObjectsAreHeld
<1>2. CASE DeleteCR
  <2>1. HasOwn(cr) => HasOwn(cr')
    BY <1>0, <1>2, WriteHolds DEF DeleteCR, HasOwn
  <2>. QED
    BY <1>2, <2>1 DEF DeleteCR, worker, HeldInv, HasOwn, ObjectsAreHeld
<1>3. CASE OtherController
  <2>1. PICK f \in Foreign : AddForeign(f) \/ RemoveForeign(f)
    BY <1>3 DEF OtherController
  <2>2. f \in Finalizer /\ f # Own
    BY ConstantsAssumption DEF Finalizer
  <2>3. CASE AddForeign(f)
    <3>1. HasOwn(cr) => HasOwn(cr')
      BY <1>0, <2>2, <2>3, AppendNew, WriteHolds DEF AddForeign, HasOwn
    <3>. QED
      BY <1>3, <3>1 DEF OtherController, worker, HeldInv, HasOwn, ObjectsAreHeld
  <2>4. CASE RemoveForeign(f)
    <3>1. HasOwn(cr) => HasOwn(cr')
      BY <1>0, <2>2, <2>4, WithoutList, WriteHolds DEF RemoveForeign, HasOwn
    <3>. QED
      BY <1>3, <3>1 DEF OtherController, worker, HeldInv, HasOwn, ObjectsAreHeld
  <2>. QED
    BY <2>1, <2>3, <2>4
<1>4. CASE Sync
  BY <1>4 DEF Sync, HeldInv, HasOwn, ObjectsAreHeld
<1>5. CASE Get
  <2>1. pc' = "reconcile" => HasOwn(seen) /\ ~seen.deleting
    <3>. SUFFICES ASSUME pc' = "reconcile" PROVE HasOwn(seen) /\ ~seen.deleting
      OBVIOUS
    <3>1. seen # None /\ ~seen.deleting /\ ToSet(seen.finalizers) = {Own}
      BY <1>5 DEF Get, NeedToUpdateCR
    <3>2. seen.finalizers \in Seq(Finalizer)
      BY <1>0, <3>1 DEF FinalizerList
    <3>. QED
      BY <3>1, <3>2 DEF HasOwn, Contains, ToSet
  <2>2. UNCHANGED <<cr, seen, objects>> /\ pc = "idle"
    BY <1>5 DEF Get
  <2>. QED
    BY <2>1, <2>2 DEF HeldInv, HasOwn, ObjectsAreHeld
<1>6. CASE UpdateCR
  <2>1. CASE UNCHANGED cr /\ pc' = "idle"
    BY <1>6, <2>1 DEF UpdateCR, HeldInv, HasOwn, ObjectsAreHeld
  <2>2. CASE cr # None /\ cr.rv = kt.rv /\ pc' = "teardown"
    <3>1. kt # None /\ kt.deleting
      BY <1>6 DEF UpdateCR, CopyInv
    <3>2. cr.deleting
      BY <2>2, <3>1 DEF VersionInv
    <3>3. seen # None => seen.rv <= cr.rv /\ cr.rv <= seen.rv /\ seen.rv \in Nat /\ cr.rv \in Nat
      BY <1>0, <2>2, <3>1 DEF VersionInv
    <3>4. seen # None => seen.rv = cr.rv
      BY <3>3
    <3>5. seen # None => seen.deleting
      BY <2>2, <3>2, <3>4 DEF VersionInv
    <3>. QED
      BY <1>6, <2>2, <3>5 DEF UpdateCR, HeldInv, HasOwn, ObjectsAreHeld
  <2>. QED
    BY <1>6, <2>1, <2>2 DEF UpdateCR, Return
<1>7. CASE Teardown
  BY <1>7 DEF Teardown, Return, HeldInv, HasOwn, ObjectsAreHeld
<1>8. CASE PatchCR
  <2>1. CASE UNCHANGED cr
    BY <1>8, <2>1 DEF PatchCR, Return, HeldInv, HasOwn, ObjectsAreHeld
  <2>2. CASE cr # None /\ Write(kt.finalizers, cr.deleting)
    <3>1. HasOwn(cr')
      BY <1>0, <1>8, <2>2, WriteHolds DEF PatchCR, CopyInv
    <3>. QED
      BY <1>8, <3>1 DEF PatchCR, Return, HeldInv, HasOwn, ObjectsAreHeld
  <2>. QED
    BY <1>8, <2>1, <2>2 DEF PatchCR
<1>9. CASE Reconcile
  BY <1>9 DEF Reconcile, Return, HeldInv, HasOwn, ObjectsAreHeld
<1>10. CASE UNCHANGED vars
  BY <1>10 DEF vars, HeldInv, HasOwn, ObjectsAreHeld
<1>. QED
  BY <1>1, <1>2, <1>3, <1>4, <1>5, <1>6, <1>7, <1>8, <1>9, <1>10 DEF Next, Worker

-----------------------------------------------------------------------------
(* Theorems                                                                 *)

LEMMA InvIsInvariant == Spec => []Inv
<1>1. Inv /\ [Next]_vars => Inv'
  BY NextType, NextCopy, NextVersion, NextHeld DEF Inv
<1>. QED
  BY <1>1, InitInv, PTL DEF Spec

\* Every variable keeps its type; above all, neither the loop that steps over finalizers, nor
\* the operator's patches and updates, nor other controllers ever put a finalizer into the
\* list twice (kubeturbo_controller.go, 93-106).
THEOREM TypeCorrect == Spec => []TypeOK
<1>1. Inv => TypeOK
  BY DEF Inv
<1>. QED
  BY <1>1, InvIsInvariant, PTL

\* Derived objects always have a CR that the operator's finalizer holds, unless their teardown
\* is the next call (kubeturbo_controller.go, 93-131), for any finalizers of others, any
\* lists to begin with and any number of CRs and changes.
THEOREM DerivedObjectsAreHeld == Spec => []ObjectsAreHeld
<1>1. Inv => ObjectsAreHeld
  BY DEF Inv, HeldInv
<1>. QED
  BY <1>1, InvIsInvariant, PTL
=============================================================================

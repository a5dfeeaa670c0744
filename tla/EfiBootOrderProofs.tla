------------------------- MODULE EfiBootOrderProofs -------------------------
(***************************************************************************)
(* The EFI boot controller, proved for any number of partitions and of     *)
(* boot entries there are at first: what New() makes of BootOrder, however *)
(* it is interrupted, and that it implements the boot control.             *)
(***************************************************************************)
EXTENDS EfiBootOrder, FiniteSetTheorems, WellFoundedInduction, TLAPS

-----------------------------------------------------------------------------
\* A set of numbers has a lowest one.
LEMMA LowestNat ==
    ASSUME NEW S \in SUBSET Nat, S # {}
    PROVE  \E m \in S : \A n \in S : m <= n
<1>1. \E x \in S : \A y \in S : ~ (<<y, x>> \in OpToRel(<, Nat))
    BY WFMin, NatLessThanWellFounded, Zenon
<1>2. \E x \in S : \A y \in S : ~ (y < x)
    BY <1>1, Zenon DEF OpToRel
<1> QED
    BY <1>2

\* Induction for a set: the library's has an operator where this has a set.
LEMMA SetInduction ==
    ASSUME NEW T, 0 \in T, \A n \in Nat : n \in T => n + 1 \in T
    PROVE  Nat \subseteq T
<1> SUFFICES ASSUME NEW k \in Nat \ T PROVE FALSE
    OBVIOUS
<1>1. PICK m \in Nat \ T : \A n \in Nat \ T : m <= n
    BY LowestNat
<1>2. m # 0 /\ m - 1 \in Nat /\ m - 1 \notin Nat \ T
    BY <1>1
<1> QED
    BY <1>2

\* Min of the community modules is the lowest number of a set.
LEMMA MinOfNat ==
    ASSUME NEW S \in SUBSET Nat, S # {}
    PROVE  Min(S) \in S /\ \A n \in S : Min(S) <= n
BY LowestNat DEF Min

\* Max is the highest one of a set that has a bound.
LEMMA MaxOfNat ==
    ASSUME NEW S \in SUBSET Nat, S # {}, NEW b \in Nat, \A n \in S : n <= b
    PROVE  Max(S) \in S /\ \A n \in S : n <= Max(S)
<1> DEFINE T == {b - n : n \in S}
<1>1. PICK m \in T : \A n \in T : m <= n
    <2>1. \A n \in S : b - n \in Nat
        OBVIOUS
    <2>2. T \in SUBSET Nat /\ T # {}
        BY <2>1
    <2> QED
        BY <2>2, LowestNat
<1>2. PICK x \in S : m = b - x
    BY <1>1
<1>3. \A y \in S : x >= y
    BY <1>1, <1>2
<1> QED
    BY <1>3 DEF Max

-----------------------------------------------------------------------------
\* What appendItems() does with one item.
Add(S, slice, id) == IF id \in S THEN appendIfNotExist(slice, id) ELSE slice

\* The equation of the fold, over the subsets of the first n indexes.
IsFold(g, slice, seq, S, n) ==
    g = [s \in SUBSET (1 .. n) |->
            IF s = {} THEN slice ELSE Add(S, g[s \ {Max(s)}], seq[Max(s)])]

\* The equation of the fold has a solution: one more index is folded last.
LEMMA FoldExists ==
    ASSUME NEW slice, NEW seq, NEW S, NEW k \in Nat
    PROVE  \E g : IsFold(g, slice, seq, S, k)
<1> DEFINE T == {n \in Nat : \E g : IsFold(g, slice, seq, S, n)}
<1>1. 0 \in T
    <2> DEFINE g == [s \in SUBSET (1 .. 0) |-> slice]
    <2>1. \A s \in SUBSET (1 .. 0) : s = {}
        OBVIOUS
    <2>2. IsFold(g, slice, seq, S, 0)
        BY <2>1 DEF IsFold
    <2> QED
        BY <2>2
<1>2. ASSUME NEW n \in Nat, n \in T PROVE n + 1 \in T
    <2>1. PICK g : IsFold(g, slice, seq, S, n)
        BY <1>2
    <2> DEFINE h == [s \in SUBSET (1 .. n + 1) |->
                        IF n + 1 \in s THEN Add(S, g[s \ {n + 1}], seq[n + 1]) ELSE g[s]]
    <2>2. ASSUME NEW s \in SUBSET (1 .. n + 1)
          PROVE  h[s] = IF s = {} THEN slice ELSE Add(S, h[s \ {Max(s)}], seq[Max(s)])
        <3>1. CASE s = {}
            <4>1. g[{}] = slice
                BY <2>1 DEF IsFold
            <4> QED
                BY <3>1, <4>1
        <3>2. CASE s # {}
            <4>1. Max(s) \in s /\ \A i \in s : i <= Max(s)
                BY <3>2, MaxOfNat
            <4>2. s \ {Max(s)} \in SUBSET (1 .. n + 1)
                OBVIOUS
            <4>3. CASE n + 1 \in s
                <5>1. Max(s) = n + 1
                    <6>1. Max(s) \in 1 .. n + 1 /\ n + 1 <= Max(s)
                        BY <4>1, <4>3
                    <6> QED
                        BY <6>1
                <5>2. h[s \ {n + 1}] = g[s \ {n + 1}]
                    OBVIOUS
                <5> QED
                    BY <3>2, <4>3, <5>1, <5>2
            <4>4. CASE n + 1 \notin s
                <5>1. s \in SUBSET (1 .. n)
                    BY <4>4
                <5>2. h[s] = g[s] /\ h[s \ {Max(s)}] = g[s \ {Max(s)}]
                    BY <4>2, <4>4
                <5>3. g[s] = Add(S, g[s \ {Max(s)}], seq[Max(s)])
                    BY <2>1, <3>2, <5>1 DEF IsFold
                <5> QED
                    BY <3>2, <5>2, <5>3
            <4> QED
                BY <4>3, <4>4
        <3> QED
            BY <3>1, <3>2
    <2>3. h = [s \in SUBSET (1 .. n + 1) |->
                IF s = {} THEN slice ELSE Add(S, h[s \ {Max(s)}], seq[Max(s)])]
        <3>1. h = [s \in SUBSET (1 .. n + 1) |-> h[s]]
            OBVIOUS
        <3> HIDE DEF h
        <3> QED
            BY <2>2, <3>1
    <2>4. IsFold(h, slice, seq, S, n + 1)
        <3> HIDE DEF h
        <3> QED
            BY <2>3 DEF IsFold
    <2> QED
        BY <2>4
<1>3. Nat \subseteq T
    <2> HIDE DEF T
    <2> QED
        BY <1>1, <1>2, SetInduction
<1> QED
    BY <1>3

\* What the slice is after each of the items.
Steps(r, slice, seq, S) ==
    /\ r[0] = slice
    /\ \A i \in 1 .. Len(seq) : r[i] = Add(S, r[i - 1], seq[i])

\* appendItems() goes through the items one by one.
LEMMA AppendSteps ==
    ASSUME NEW slice, NEW X, NEW seq \in Seq(X), NEW S
    PROVE  \E r : Steps(r, slice, seq, S) /\ appendItems(slice, seq, S) = r[Len(seq)]
<1> DEFINE g == CHOOSE g : IsFold(g, slice, seq, S, Len(seq))
           r == [i \in 0 .. Len(seq) |-> g[1 .. i]]
<1>1. IsFold(g, slice, seq, S, Len(seq))
    BY FoldExists
<1>2. appendItems(slice, seq, S) = g[DOMAIN seq]
    <2>1. DOMAIN seq = 1 .. Len(seq)
        OBVIOUS
    <2> QED
        BY <2>1 DEF appendItems, FoldLeft, MapThenFoldSet, IsFold, Add
<1> HIDE DEF g
<1>3. r[0] = slice
    <2>1. 1 .. 0 = {}
        OBVIOUS
    <2> QED
        BY <1>1, <2>1 DEF IsFold
<1>4. ASSUME NEW i \in 1 .. Len(seq) PROVE r[i] = Add(S, r[i - 1], seq[i])
    <2>0. i \in Nat \ {0}
        OBVIOUS
    <2>1. Max(1 .. i) = i
        <3> DEFINE s == 1 .. i
        <3>1. s \in SUBSET Nat /\ i \in s /\ \A n \in s : n <= i
            BY <2>0
        <3> HIDE DEF s
        <3>2. Max(s) \in s /\ i <= Max(s) /\ Max(s) <= i /\ Max(s) \in Nat
            BY <2>0, <3>1, MaxOfNat
        <3>3. Max(s) = i
            BY <2>0, <3>2
        <3> QED
            BY <3>3 DEF s
    <2>2. (1 .. i) \ {i} = 1 .. (i - 1) /\ 1 .. i # {}
        <3>1. \A x : x \in (1 .. i) \ {i} <=> x \in 1 .. (i - 1)
            BY <2>0
        <3>2. 1 \in 1 .. i
            BY <2>0
        <3> QED
            BY <3>1, <3>2, Zenon
    <2>3. 1 .. i \in SUBSET (1 .. Len(seq))
        OBVIOUS
    <2>4. g[1 .. i] = Add(S, g[1 .. (i - 1)], seq[i])
        BY <1>1, <2>1, <2>2, <2>3 DEF IsFold
    <2> QED
        BY <2>4
<1>5. appendItems(slice, seq, S) = r[Len(seq)]
    BY <1>2
<1> HIDE DEF r
<1> QED
    BY <1>3, <1>4, <1>5 DEF Steps

\* The result R when the first n items of seq have been gone through.
Appended(R, X, slice, seq, S, n) ==
    /\ R \in Seq(X)
    /\ IsInjective(R)
    /\ Len(slice) <= Len(R) /\ \A i \in 1 .. Len(slice) : R[i] = slice[i]
    /\ \A x : Contains(R, x) <=> Contains(slice, x) \/ (x \in S /\ \E i \in 1 .. n : seq[i] = x)
    /\ \A i, j \in 1 .. Len(R) : Len(slice) < i /\ i < j =>
            \E p \in 1 .. n : seq[p] = R[i] /\ \A q \in 1 .. p : seq[q] # R[j]

\* One more item keeps Appended.
LEMMA AppendedStep ==
    ASSUME NEW X, NEW slice \in Seq(X), NEW seq \in Seq(X), NEW S,
           NEW n \in 0 .. Len(seq) - 1, NEW R, Appended(R, X, slice, seq, S, n)
    PROVE  Appended(Add(S, R, seq[n + 1]), X, slice, seq, S, n + 1)
<1> DEFINE x == seq[n + 1]
<1>0. n \in Nat /\ n + 1 \in 1 .. Len(seq) /\ x \in X /\ Len(slice) \in Nat
    OBVIOUS
<1>1. /\ R \in Seq(X)
      /\ IsInjective(R)
      /\ Len(slice) <= Len(R) /\ \A i \in 1 .. Len(slice) : R[i] = slice[i]
      /\ \A y : Contains(R, y) <=> Contains(slice, y) \/ (y \in S /\ \E i \in 1 .. n : seq[i] = y)
      /\ \A i, j \in 1 .. Len(R) : Len(slice) < i /\ i < j =>
            \E p \in 1 .. n : seq[p] = R[i] /\ \A q \in 1 .. p : seq[q] # R[j]
    BY DEF Appended
<1>2. \A i : i \in 1 .. n + 1 <=> i \in 1 .. n \/ i = n + 1
    BY <1>0
<1> HIDE DEF x
<1>3. CASE x \notin S \/ Contains(R, x)
    <2>1. Add(S, R, x) = R
        BY <1>3 DEF Add, appendIfNotExist
    <2>2. \A y : Contains(R, y) <=>
            Contains(slice, y) \/ (y \in S /\ \E i \in 1 .. n + 1 : seq[i] = y)
        BY <1>1, <1>2, <1>3 DEF x
    <2>3. \A i, j \in 1 .. Len(R) : Len(slice) < i /\ i < j =>
            \E p \in 1 .. n + 1 : seq[p] = R[i] /\ \A q \in 1 .. p : seq[q] # R[j]
        BY <1>1, <1>2
    <2> QED
        BY <1>1, <2>1, <2>2, <2>3 DEF Appended, x
<1>4. CASE x \in S /\ ~Contains(R, x)
    <2> DEFINE A == Append(R, x)
    <2>1. Add(S, R, x) = A
        BY <1>4 DEF Add, appendIfNotExist
    <2>2. /\ A \in Seq(X) /\ Len(A) = Len(R) + 1 /\ Len(R) \in Nat
          /\ \A i \in 1 .. Len(R) : A[i] = R[i]
          /\ A[Len(R) + 1] = x
        BY <1>0, <1>1
    <2>3. \A i : i \in 1 .. Len(A) <=> i \in 1 .. Len(R) \/ i = Len(R) + 1
        BY <2>2
    <2> HIDE DEF A
    <2>4. \A y : Contains(A, y) <=> Contains(R, y) \/ y = x
        BY <2>2, <2>3 DEF Contains
    <2>5. IsInjective(A)
        <3>1. DOMAIN A = 1 .. Len(A) /\ DOMAIN R = 1 .. Len(R)
            BY <1>1, <2>2
        <3>2. \A i \in 1 .. Len(R) : R[i] # x
            BY <1>4 DEF Contains
        <3> QED
            BY <1>1, <2>2, <2>3, <3>1, <3>2 DEF IsInjective
    <2>6. \A y : Contains(A, y) <=>
            Contains(slice, y) \/ (y \in S /\ \E i \in 1 .. n + 1 : seq[i] = y)
        BY <1>1, <1>2, <1>4, <2>4 DEF x
    <2>7. Len(slice) <= Len(A) /\ \A i \in 1 .. Len(slice) : A[i] = slice[i]
        BY <1>0, <1>1, <2>2
    <2>8. ASSUME NEW i \in 1 .. Len(A), NEW j \in 1 .. Len(A), Len(slice) < i, i < j
          PROVE  \E p \in 1 .. n + 1 : seq[p] = A[i] /\ \A q \in 1 .. p : seq[q] # A[j]
        <3>1. i \in 1 .. Len(R) /\ A[i] = R[i]
            BY <2>2, <2>8
        <3>2. CASE j \in 1 .. Len(R)
            <4>1. A[j] = R[j]
                BY <2>2, <3>2
            <4>2. PICK p \in 1 .. n : seq[p] = R[i] /\ \A q \in 1 .. p : seq[q] # R[j]
                BY <1>1, <2>8, <3>1, <3>2
            <4>3. p \in 1 .. n + 1
                BY <1>2
            <4> QED
                BY <3>1, <4>1, <4>2, <4>3
        <3>3. CASE j = Len(R) + 1
            <4>1. A[j] = x
                BY <2>2, <3>3
            <4>2. ~Contains(slice, R[i])
                <5>1. \A k \in 1 .. Len(slice) : k \in 1 .. Len(R) /\ k # i /\ R[k] = slice[k]
                    BY <1>0, <1>1, <2>2, <2>8
                <5>2. DOMAIN R = 1 .. Len(R)
                    BY <1>1
                <5> QED
                    BY <1>1, <3>1, <5>1, <5>2 DEF Contains, IsInjective
            <4>3. Contains(R, R[i])
                BY <3>1 DEF Contains
            <4>4. PICK p \in 1 .. n : seq[p] = R[i]
                BY <1>1, <4>2, <4>3
            <4>5. \A q \in 1 .. p : q \in 1 .. n
                BY <1>0
            <4>6. \A q \in 1 .. p : seq[q] # x
                BY <1>1, <1>4, <4>5
            <4> QED
                BY <1>2, <3>1, <4>1, <4>4, <4>6
        <3> QED
            BY <2>3, <3>2, <3>3
    <2> QED
        BY <2>1, <2>2, <2>5, <2>6, <2>7, <2>8 DEF Appended, x
<1> QED
    BY <1>3, <1>4

\* What appendItems() returns: slice and, behind it, the new items of S as they first come.
LEMMA AppendItems ==
    ASSUME NEW X, NEW slice \in Seq(X), IsInjective(slice), NEW seq \in Seq(X), NEW S
    PROVE  Appended(appendItems(slice, seq, S), X, slice, seq, S, Len(seq))
<1>1. PICK r : Steps(r, slice, seq, S) /\ appendItems(slice, seq, S) = r[Len(seq)]
    BY AppendSteps
<1> DEFINE T == {n \in Nat : n <= Len(seq) => Appended(r[n], X, slice, seq, S, n)}
<1>2. 0 \in T
    <2>1. \A i, j \in 1 .. Len(slice) : ~(Len(slice) < i)
        OBVIOUS
    <2>2. Appended(slice, X, slice, seq, S, 0)
        BY <2>1 DEF Appended
    <2> QED
        BY <1>1, <2>2 DEF Steps
<1>3. ASSUME NEW n \in Nat, n \in T PROVE n + 1 \in T
    <2> SUFFICES ASSUME n + 1 <= Len(seq) PROVE Appended(r[n + 1], X, slice, seq, S, n + 1)
        OBVIOUS
    <2>1. Len(seq) \in Nat
        OBVIOUS
    <2>2. n \in 0 .. Len(seq) - 1 /\ n + 1 \in 1 .. Len(seq) /\ n <= Len(seq) /\ (n + 1) - 1 = n
        BY <2>1
    <2>3. Appended(r[n], X, slice, seq, S, n)
        BY <1>3, <2>2
    <2>4. r[n + 1] = Add(S, r[n], seq[n + 1])
        BY <1>1, <2>2 DEF Steps
    <2> QED
        BY <2>2, <2>3, <2>4, AppendedStep
<1>4. Nat \subseteq T
    <2> HIDE DEF T
    <2> QED
        BY <1>2, <1>3, SetInduction
<1>5. Len(seq) \in Nat
    OBVIOUS
<1> QED
    BY <1>1, <1>4, <1>5

\* A sequence without repetition is as long as it has items.
LEMMA InjectiveCount ==
    ASSUME NEW X, NEW s \in Seq(X), IsInjective(s)
    PROVE  Cardinality(ToSet(s)) = Len(s)
<1>1. s \in Bijection(1 .. Len(s), ToSet(s))
    BY DEF Bijection, Injection, Surjection, ToSet, IsInjective
<1> QED
    BY <1>1, FS_CountingElements DEF ExistsBijection

-----------------------------------------------------------------------------
\* The partitions there is an entry for.
Served == {p \in Partitions : Matching(p, Existing) # {}}

(***************************************************************************)
(* What New() knows at each of its steps: the entries, but for the one it  *)
(* has written last, and the lowest entry of each partition it has been    *)
(* through.  New numbers are no more than partitions that had no entry.    *)
(***************************************************************************)
EntryInv ==
    /\ \A id \in Existing : id < OldIds + Cardinality(Served)
    /\ pc \in {"down", "panicked"} => items = <<>>
    /\ pc # "append" => created = NoId
    /\ pc \in {"find", "check", "ready"} => known = Existing
    /\ pc = "append" =>
        /\ created \in Existing
        /\ known = Existing \ {created}
        /\ Matching(Len(items), Existing) = {created}
    /\ pc \in {"find", "append"} => Len(items) < PartCount
    /\ pc \in {"check", "ready"} => Len(items) = PartCount
    /\ \A i \in 1 .. Len(items) :
        Matching(i - 1, Existing) # {} /\ items[i] = Min(Matching(i - 1, Existing))

\* The entries in front of BootOrder, once New() has returned, are those of the partitions.
FrontInv ==
    pc = "ready" =>
        /\ Len(bootOrder) >= PartCount
        /\ \A i \in 1 .. PartCount : Contains(items, bootOrder[i])
        /\ \A i \in 1 .. PartCount : \E j \in 1 .. PartCount : bootOrder[j] = items[i]

IInv == TypeOK /\ EntryInv /\ FrontInv /\ PanicsWithoutOthers

USE DEF Partitions, Ids, NoId, NoPart, Foreign, NoEntry

\* Entries have numbers, and there are finitely many of them.
LEMMA Numbers ==
    ASSUME PartCount \in Nat \ {0}, OldIds \in Nat, TypeOK
    PROVE  /\ Existing \in SUBSET Nat
           /\ \A id \in Existing : id \in Ids /\ entry[id] \in Partitions \cup {Foreign}
           /\ \A p : Matching(p, Existing) \in SUBSET Nat
           /\ IsFiniteSet(Served) /\ Cardinality(Served) \in Nat
<1>1. Existing \in SUBSET Nat /\ \A id \in Existing : id \in Ids
    BY DEF Existing
<1>2. \A id \in Existing : entry[id] \in Partitions \cup {Foreign}
    BY DEF Existing, TypeOK
<1>3. \A p : Matching(p, Existing) \in SUBSET Nat
    BY <1>1 DEF Matching
<1>4. IsFiniteSet(Partitions)
    BY FS_Interval
<1>5. Served \in SUBSET Partitions
    BY DEF Served
<1> QED
    BY <1>1, <1>2, <1>3, <1>4, <1>5, FS_Subset, FS_CardinalityType

\* The items are the lowest entries of their partitions, each of its own.
LEMMA ItemFacts ==
    ASSUME PartCount \in Nat \ {0}, OldIds \in Nat, TypeOK, EntryInv
    PROVE  /\ items \in Seq(Existing) /\ Len(items) \in 0 .. PartCount
           /\ \A i \in 1 .. Len(items) :
                /\ items[i] \in Existing
                /\ entry[items[i]] = i - 1
                /\ PartOf(items[i]) = i - 1
           /\ IsInjective(items)
<1>1. items \in Seq(Existing) /\ Len(items) \in 0 .. PartCount
    BY DEF TypeOK, EntryInv
<1>2. ASSUME NEW i \in 1 .. Len(items)
      PROVE  items[i] \in Existing /\ entry[items[i]] = i - 1 /\ PartOf(items[i]) = i - 1
    <2>1. Matching(i - 1, Existing) # {} /\ items[i] = Min(Matching(i - 1, Existing))
        BY DEF EntryInv
    <2>2. items[i] \in Matching(i - 1, Existing)
        BY <2>1, Numbers, MinOfNat
    <2>3. items[i] \in Existing /\ entry[items[i]] = i - 1
        BY <2>2 DEF Matching
    <2>4. i - 1 \in Partitions
        BY <1>1
    <2> QED
        BY <2>1, <2>3, <2>4 DEF PartOf
<1>3. IsInjective(items)
    <2>1. DOMAIN items = 1 .. Len(items)
        BY <1>1
    <2>2. \A i, j \in 1 .. Len(items) : items[i] = items[j] => i - 1 = j - 1
        BY <1>2
    <2>3. \A i, j \in 1 .. Len(items) : i - 1 = j - 1 => i = j
        BY <1>1
    <2> QED
        BY <2>1, <2>2, <2>3 DEF IsInjective
<1> QED
    BY <1>1, <1>2, <1>3

\* When all items are there, they are exactly the entries that stand for a partition.
LEMMA AllItems ==
    ASSUME PartCount \in Nat \ {0}, OldIds \in Nat, TypeOK, EntryInv, Len(items) = PartCount,
           NEW id
    PROVE  /\ PartOf(id) # NoPart <=> Contains(items, id)
           /\ PartOf(id) # NoPart => PartOf(id) \in Partitions /\ id = items[PartOf(id) + 1]
           /\ PartOf(id) \in Partitions \cup {NoPart}
<1>1. Contains(items, id) => PartOf(id) # NoPart
    BY ItemFacts DEF Contains
<1>2. ASSUME PartOf(id) # NoPart
      PROVE  PartOf(id) \in Partitions /\ id = items[PartOf(id) + 1] /\ Contains(items, id)
    <2>1. /\ entry[id] \in Partitions /\ PartOf(id) = entry[id]
          /\ id = Min(Matching(entry[id], Existing))
        BY <1>2 DEF PartOf
    <2>2. entry[id] + 1 \in 1 .. Len(items) /\ (entry[id] + 1) - 1 = entry[id]
        BY <2>1
    <2>3. items[entry[id] + 1] = id
        BY <2>1, <2>2 DEF EntryInv
    <2> QED
        BY <2>1, <2>2, <2>3 DEF Contains
<1> QED
    BY <1>1, <1>2

-----------------------------------------------------------------------------
\* The first a in seq comes before any b.
Earlier(seq, a, b) == \E p \in 1 .. Len(seq) : seq[p] = a /\ \A q \in 1 .. p : seq[q] # b

\* The items P and the other entries O, each in the order they are in, P first.
Divided(P, O) ==
    /\ P \in Seq(Existing) /\ IsInjective(P) /\ Len(P) = PartCount
    /\ O \in Seq(Existing) /\ IsInjective(O)
    /\ \A x : Contains(P, x) <=> Contains(items, x)
    /\ \A x : Contains(O, x) <=> Contains(bootOrder, x) /\ ~Contains(items, x)
    /\ \A i, j \in 1 .. Len(P) : i < j /\ Contains(bootOrder, P[j]) => Earlier(bootOrder, P[i], P[j])
    /\ \A i, j \in 1 .. Len(O) : i < j => Earlier(bootOrder, O[i], O[j])

\* The order New() computes is divided.
LEMMA NewOrder ==
    ASSUME PartCount \in Nat \ {0}, OldIds \in Nat, TypeOK, EntryInv, Len(items) = PartCount
    PROVE  \E P, O : Divided(P, O) /\ NewBootOrder(bootOrder, items) = P \o O
<1> DEFINE kept == appendItems(<<>>, bootOrder, ToSet(items))
           P == appendItems(kept, items, ToSet(items))
           O == appendItems(<<>>, bootOrder, ToSet(bootOrder) \ ToSet(items))
<1>1. bootOrder \in Seq(Existing) /\ items \in Seq(Existing) /\ <<>> \in Seq(Existing)
    BY DEF TypeOK
<1>2. \A x : ~Contains(<<>>, x)
    BY DEF Contains
<1>3. IsInjective(<<>>)
    BY DEF IsInjective
<1>4. /\ \A x : x \in ToSet(items) <=> Contains(items, x)
      /\ \A x : x \in ToSet(bootOrder) <=> Contains(bootOrder, x)
    BY <1>1 DEF ToSet, Contains
<1>5. Appended(kept, Existing, <<>>, bootOrder, ToSet(items), Len(bootOrder))
    BY <1>1, <1>3, AppendItems
<1>6. Appended(O, Existing, <<>>, bootOrder, ToSet(bootOrder) \ ToSet(items), Len(bootOrder))
    BY <1>1, <1>3, AppendItems
<1> HIDE DEF kept, O
<1>7. kept \in Seq(Existing) /\ IsInjective(kept)
    BY <1>5 DEF Appended
<1>8. Appended(P, Existing, kept, items, ToSet(items), Len(items))
    BY <1>1, <1>7, AppendItems
<1> HIDE DEF P
<1>9. /\ P \in Seq(Existing) /\ IsInjective(P)
      /\ O \in Seq(Existing) /\ IsInjective(O)
    BY <1>6, <1>8 DEF Appended
<1>10. \A x : Contains(kept, x) <=> Contains(bootOrder, x) /\ Contains(items, x)
    BY <1>2, <1>4, <1>5 DEF Appended, Contains
<1>11. \A x : Contains(P, x) <=> Contains(items, x)
    BY <1>4, <1>8, <1>10 DEF Appended, Contains
<1>12. \A x : Contains(O, x) <=> Contains(bootOrder, x) /\ ~Contains(items, x)
    BY <1>2, <1>4, <1>6 DEF Appended, Contains
<1>13. Len(P) = PartCount
    <2>1. ToSet(P) = ToSet(items)
        <3>1. \A x : x \in ToSet(P) <=> Contains(P, x)
            BY <1>9 DEF ToSet, Contains
        <3> QED
            BY <1>4, <1>11, <3>1
    <2> QED
        BY <1>1, <1>9, <2>1, ItemFacts, InjectiveCount
<1>14. Len(<<>>) = 0
    OBVIOUS
<1>15. ASSUME NEW i \in 1 .. Len(O), NEW j \in 1 .. Len(O), i < j
       PROVE  Earlier(bootOrder, O[i], O[j])
    BY <1>6, <1>14, <1>15 DEF Appended, Earlier
<1>16. ASSUME NEW i \in 1 .. Len(P), NEW j \in 1 .. Len(P), i < j, Contains(bootOrder, P[j])
       PROVE  Earlier(bootOrder, P[i], P[j])
    <2>1. Len(kept) \in Nat /\ Len(P) \in Nat /\ Len(kept) <= Len(P)
        BY <1>7, <1>8, <1>9 DEF Appended
    <2>2. Contains(items, P[j])
        BY <1>11 DEF Contains
    <2>3. PICK k \in 1 .. Len(kept) : kept[k] = P[j]
        BY <1>10, <1>16, <2>2 DEF Contains
    <2>4. k \in 1 .. Len(P) /\ P[k] = P[j]
        BY <1>8, <2>1, <2>3 DEF Appended
    <2>5. k = j
        <3>1. DOMAIN P = 1 .. Len(P)
            BY <1>9
        <3> QED
            BY <1>9, <2>4, <3>1 DEF IsInjective
    <2>6. i \in 1 .. Len(kept) /\ j \in 1 .. Len(kept) /\ kept[i] = P[i] /\ kept[j] = P[j]
        BY <1>8, <1>16, <2>1, <2>3, <2>5 DEF Appended
    <2>7. \A a, b \in 1 .. Len(kept) : 0 < a /\ a < b => Earlier(bootOrder, kept[a], kept[b])
        BY <1>5, <1>14 DEF Appended, Earlier
    <2>8. 0 < i
        OBVIOUS
    <2> QED
        BY <1>16, <2>6, <2>7, <2>8
<1>17. Divided(P, O)
    BY <1>9, <1>11, <1>12, <1>13, <1>15, <1>16 DEF Divided
<1>18. NewBootOrder(bootOrder, items) = P \o O
    BY DEF NewBootOrder, P, O, kept
<1> QED
    BY <1>17, <1>18

(***************************************************************************)
(* The order New() computes loses and repeats no entry, has the partitions *)
(* first, and keeps the order within each kind.                            *)
(***************************************************************************)
LEMMA OrderIsRight ==
    ASSUME PartCount \in Nat \ {0}, OldIds \in Nat, IInv
    PROVE  NewOrderIsRight
<1> SUFFICES ASSUME pc = "check"
             PROVE  LET new == NewBootOrder(bootOrder, items)
                    IN  /\ IsInjective(new)
                        /\ ToSet(new) = ToSet(bootOrder) \cup ToSet(items)
                        /\ \A i, j \in DOMAIN new : i < j =>
                            /\ Contains(items, new[j]) => Contains(items, new[i])
                            /\ (Contains(items, new[i]) <=> Contains(items, new[j]))
                               /\ Contains(bootOrder, new[j])
                               => Position(bootOrder, new[i]) \in 1 .. Position(bootOrder, new[j])
    BY DEF NewOrderIsRight
<1>1. TypeOK /\ EntryInv /\ Len(items) = PartCount
    BY DEF IInv, EntryInv
<1>2. PICK P, O : Divided(P, O) /\ NewBootOrder(bootOrder, items) = P \o O
    BY <1>1, NewOrder
<1> DEFINE new == P \o O
<1>3. /\ P \in Seq(Existing) /\ IsInjective(P)
      /\ O \in Seq(Existing) /\ IsInjective(O)
      /\ \A x : Contains(P, x) <=> Contains(items, x)
      /\ \A x : Contains(O, x) <=> Contains(bootOrder, x) /\ ~Contains(items, x)
    BY <1>2 DEF Divided
<1>4. /\ new \in Seq(Existing) /\ Len(new) = Len(P) + Len(O)
      /\ Len(P) \in Nat /\ Len(O) \in Nat
      /\ DOMAIN new = 1 .. Len(new) /\ DOMAIN P = 1 .. Len(P) /\ DOMAIN O = 1 .. Len(O)
      /\ \A i \in 1 .. Len(P) : new[i] = P[i]
      /\ \A i \in 1 .. Len(O) : new[Len(P) + i] = O[i]
    BY <1>3
<1> HIDE DEF new
<1>5. \A i \in 1 .. Len(new) :
        \/ i \in 1 .. Len(P) /\ new[i] = P[i] /\ Contains(items, new[i])
        \/ /\ i > Len(P) /\ i - Len(P) \in 1 .. Len(O) /\ new[i] = O[i - Len(P)]
           /\ ~Contains(items, new[i]) /\ Contains(bootOrder, new[i])
    <2> SUFFICES ASSUME NEW i \in 1 .. Len(new)
                 PROVE  \/ i \in 1 .. Len(P) /\ new[i] = P[i] /\ Contains(items, new[i])
                        \/ /\ i > Len(P) /\ i - Len(P) \in 1 .. Len(O) /\ new[i] = O[i - Len(P)]
                           /\ ~Contains(items, new[i]) /\ Contains(bootOrder, new[i])
        OBVIOUS
    <2>1. CASE i \in 1 .. Len(P)
        <3>1. new[i] = P[i] /\ Contains(P, P[i])
            BY <1>4, <2>1 DEF Contains
        <3> QED
            BY <1>3, <2>1, <3>1
    <2>2. CASE i \notin 1 .. Len(P)
        <3>1. i > Len(P) /\ i - Len(P) \in 1 .. Len(O) /\ Len(P) + (i - Len(P)) = i
            BY <1>4, <2>2
        <3>2. new[i] = O[i - Len(P)]
            BY <1>4, <3>1
        <3>3. Contains(O, O[i - Len(P)])
            BY <3>1 DEF Contains
        <3> QED
            BY <1>3, <3>1, <3>2, <3>3
    <2> QED
        BY <2>1, <2>2
<1>6. IsInjective(new)
    <2> SUFFICES ASSUME NEW i \in 1 .. Len(new), NEW j \in 1 .. Len(new), new[i] = new[j]
                 PROVE  i = j
        BY <1>4 DEF IsInjective
    <2>1. CASE Contains(items, new[i])
        <3>1. i \in 1 .. Len(P) /\ j \in 1 .. Len(P) /\ P[i] = P[j]
            BY <1>5, <2>1
        <3> QED
            BY <1>3, <1>4, <3>1 DEF IsInjective
    <2>2. CASE ~Contains(items, new[i])
        <3>1. i - Len(P) \in 1 .. Len(O) /\ j - Len(P) \in 1 .. Len(O) /\ O[i - Len(P)] = O[j - Len(P)]
            BY <1>5, <2>2
        <3>2. i - Len(P) = j - Len(P)
            BY <1>3, <1>4, <3>1 DEF IsInjective
        <3> QED
            BY <1>4, <3>2
    <2> QED
        BY <2>1, <2>2
<1>7. ToSet(new) = ToSet(bootOrder) \cup ToSet(items)
    <2>1. \A x : x \in ToSet(new) <=> Contains(P, x) \/ Contains(O, x)
        <3>1. ASSUME NEW x, Contains(P, x) PROVE x \in ToSet(new)
            <4>1. PICK i \in 1 .. Len(P) : P[i] = x
                BY <3>1 DEF Contains
            <4>2. i \in 1 .. Len(new) /\ new[i] = x
                BY <1>4, <4>1
            <4> QED
                BY <1>4, <4>2 DEF ToSet
        <3>2. ASSUME NEW x, Contains(O, x) PROVE x \in ToSet(new)
            <4>1. PICK i \in 1 .. Len(O) : O[i] = x
                BY <3>2 DEF Contains
            <4>2. Len(P) + i \in 1 .. Len(new) /\ new[Len(P) + i] = x
                BY <1>4, <4>1
            <4> QED
                BY <1>4, <4>2 DEF ToSet
        <3>3. ASSUME NEW x \in ToSet(new) PROVE Contains(P, x) \/ Contains(O, x)
            BY <1>3, <1>4, <1>5 DEF ToSet
        <3> QED
            BY <3>1, <3>2, <3>3
    <2>2. /\ \A x : x \in ToSet(items) <=> Contains(items, x)
          /\ \A x : x \in ToSet(bootOrder) <=> Contains(bootOrder, x)
        BY <1>1 DEF ToSet, Contains, TypeOK
    <2> QED
        BY <1>3, <2>1, <2>2
<1>8. ASSUME NEW a, NEW b, Earlier(bootOrder, a, b), Contains(bootOrder, b)
      PROVE  Position(bootOrder, a) \in 1 .. Position(bootOrder, b)
    <2> DEFINE A == {i \in 1 .. Len(bootOrder) : bootOrder[i] = a}
               B == {i \in 1 .. Len(bootOrder) : bootOrder[i] = b}
    <2>1. A \in SUBSET Nat /\ B \in SUBSET Nat /\ A # {} /\ B # {}
        BY <1>8 DEF Earlier, Contains
    <2>2. Position(bootOrder, a) = Min(A) /\ Position(bootOrder, b) = Min(B)
        BY <2>1 DEF Position, SelectInSeq
    <2>3. PICK p \in A : \A q \in 1 .. p : bootOrder[q] # b
        BY <1>8 DEF Earlier
    <2>4. Min(A) \in A /\ Min(A) <= p /\ Min(B) \in B
        BY <2>1, MinOfNat
    <2>5. Min(B) \in Nat /\ Min(B) >= 1 /\ ~(Min(B) \in 1 .. p)
        BY <2>3, <2>4
    <2>6. Min(A) \in Nat /\ Min(A) >= 1 /\ p \in Nat
        BY <2>4
    <2> HIDE DEF A, B
    <2>7. Min(A) \in 1 .. Min(B)
        BY <2>4, <2>5, <2>6
    <2> QED
        BY <2>2, <2>7
<1>9. ASSUME NEW i \in 1 .. Len(new), NEW j \in 1 .. Len(new), i < j
      PROVE  /\ Contains(items, new[j]) => Contains(items, new[i])
             /\ (Contains(items, new[i]) <=> Contains(items, new[j]))
                /\ Contains(bootOrder, new[j]) => Earlier(bootOrder, new[i], new[j])
    <2>1. Contains(items, new[j]) => i \in 1 .. Len(P)
        BY <1>4, <1>5, <1>9
    <2>2. CASE i \in 1 .. Len(P) /\ j \in 1 .. Len(P)
        BY <1>2, <1>4, <1>5, <1>9, <2>1, <2>2 DEF Divided
    <2>3. CASE i > Len(P) /\ j > Len(P)
        <3>1. i - Len(P) < j - Len(P)
            BY <1>4, <1>9
        <3>2. /\ i - Len(P) \in 1 .. Len(O) /\ new[i] = O[i - Len(P)]
              /\ j - Len(P) \in 1 .. Len(O) /\ new[j] = O[j - Len(P)]
            BY <1>4, <1>5, <2>3
        <3>3. Earlier(bootOrder, O[i - Len(P)], O[j - Len(P)])
            BY <1>2, <3>1, <3>2 DEF Divided
        <3> QED
            BY <1>4, <1>5, <2>1, <2>3, <3>2, <3>3
    <2>4. CASE i \in 1 .. Len(P) /\ j > Len(P)
        BY <1>4, <1>5, <2>4
    <2> QED
        BY <1>4, <1>9, <2>2, <2>3, <2>4
<1> QED
    BY <1>2, <1>4, <1>6, <1>7, <1>8, <1>9 DEF new

-----------------------------------------------------------------------------
\* IInv holds at first.
LEMMA InitIInv ==
    ASSUME PartCount \in Nat \ {0}, OldIds \in Nat, Init
    PROVE  IInv
<1>1. bootOrder \in Seq(Existing)
    BY DEF Init, BoundedSeq, SeqOf
<1>2. TypeOK
    BY <1>1 DEF Init, TypeOK
<1>3. \A id \in Existing : id < OldIds + Cardinality(Served)
    <2>1. \A id \in Existing : id \in 0 .. OldIds - 1
        BY DEF Init
    <2> QED
        BY <1>2, <2>1, Numbers
<1>4. EntryInv
    BY <1>3 DEF Init, EntryInv
<1> QED
    BY <1>2, <1>4 DEF Init, IInv, FrontInv, PanicsWithoutOthers

\* What is said of the entries alone does not change with the other variables.
LEMMA SameEntries ==
    ASSUME entry' = entry
    PROVE  /\ Existing' = Existing
           /\ Served' = Served
           /\ \A p, S : Matching(p, S)' = Matching(p, S)
           /\ \A id : PartOf(id)' = PartOf(id)
<1>1. Existing' = Existing
    BY DEF Existing
<1>2. \A p, S : Matching(p, S)' = Matching(p, S)
    BY DEF Matching
<1>3. Served' = Served
    BY <1>1 DEF Served, Matching
<1>4. \A id : PartOf(id)' = PartOf(id)
    BY <1>1 DEF PartOf, Matching
<1> QED
    BY <1>1, <1>2, <1>3, <1>4

\* The end of the process, and a boot.
LEMMA DieIInv ==
    ASSUME PartCount \in Nat \ {0}, OldIds \in Nat, IInv, Die("down"),
           UNCHANGED <<entry, bootOrder>>, bootNext' \in {bootNext, NoId}, bootCurrent' \in Existing
    PROVE  IInv'
<1>1. TypeOK /\ EntryInv
    BY DEF IInv
<1>2. Existing' = Existing /\ Served' = Served
    BY SameEntries
<1>3. pc' = "down" /\ items' = <<>> /\ known' = {} /\ created' = NoId
    BY DEF Die
<1>4. TypeOK'
    BY <1>1, <1>2, <1>3 DEF TypeOK
<1>5. EntryInv'
    BY <1>1, <1>2, <1>3 DEF EntryInv
<1> QED
    BY <1>3, <1>4, <1>5 DEF IInv, FrontInv, PanicsWithoutOthers

\* New() begins with no items and with all entries.
LEMMA NewIInv ==
    ASSUME PartCount \in Nat \ {0}, OldIds \in Nat, IInv, New
    PROVE  IInv'
<1>1. TypeOK /\ EntryInv
    BY DEF IInv
<1>2. Existing' = Existing /\ Served' = Served /\ \A p, S : Matching(p, S)' = Matching(p, S)
    BY SameEntries DEF New, firmware
<1>3. /\ pc' = "find" /\ known' = Existing /\ items = <<>> /\ items' = <<>>
      /\ created = NoId /\ created' = NoId
    BY <1>1 DEF New, EntryInv
<1>4. TypeOK'
    BY <1>1, <1>2, <1>3 DEF TypeOK, New, firmware
<1>5. EntryInv'
    BY <1>1, <1>2, <1>3 DEF EntryInv
<1> QED
    BY <1>3, <1>4, <1>5 DEF IInv, FrontInv, PanicsWithoutOthers

\* One more item: the lowest entry of the next partition.
LEMMA ItemAdded ==
    ASSUME PartCount \in Nat \ {0}, OldIds \in Nat, TypeOK, EntryInv, Len(items) < PartCount,
           entry' = entry, known' = Existing, created' = NoId,
           NEW id \in Existing, AddItem(id),
           Matching(Len(items), Existing) # {}, id = Min(Matching(Len(items), Existing))
    PROVE  EntryInv' /\ items' \in Seq(Existing) /\ pc' \in {"find", "check"}
<1>1. /\ Existing' = Existing /\ Served' = Served
      /\ \A p : Matching(p, Existing)' = Matching(p, Existing)
    BY SameEntries DEF Matching
<1>2. /\ items' \in Seq(Existing) /\ Len(items') = Len(items) + 1 /\ Len(items) \in Nat
      /\ \A i \in 1 .. Len(items) : items'[i] = items[i]
      /\ items'[Len(items) + 1] = id
    BY DEF TypeOK, AddItem
<1>3. pc' = IF Len(items') = PartCount THEN "check" ELSE "find"
    BY DEF AddItem
<1>4. Len(items') <= PartCount
    BY <1>2
<1>5. ASSUME NEW i \in 1 .. Len(items')
      PROVE  Matching(i - 1, Existing) # {} /\ items'[i] = Min(Matching(i - 1, Existing))
    <2>1. CASE i \in 1 .. Len(items)
        BY <1>2, <2>1 DEF EntryInv
    <2>2. CASE i = Len(items) + 1
        <3>1. i - 1 = Len(items)
            BY <1>2, <2>2
        <3> QED
            BY <1>2, <2>2, <3>1
    <2> QED
        BY <1>2, <2>1, <2>2
<1>6. \A i \in 1 .. Len(items') :
        Matching(i - 1, Existing)' # {} /\ items'[i] = Min(Matching(i - 1, Existing)')
    BY <1>1, <1>5
<1> QED
    BY <1>1, <1>2, <1>3, <1>4, <1>6 DEF EntryInv

\* A partition that has an entry.
LEMMA FindIInv ==
    ASSUME PartCount \in Nat \ {0}, OldIds \in Nat, IInv, FindEntry
    PROVE  IInv'
<1>1. TypeOK /\ EntryInv
    BY DEF IInv
<1>2. pc = "find" /\ known = Existing /\ created = NoId /\ Len(items) < PartCount
    BY <1>1 DEF FindEntry, EntryInv
<1>3. Existing' = Existing
    BY SameEntries DEF FindEntry, firmware
<1> DEFINE id == Min(Matching(Len(items), Existing))
<1>4. Matching(Len(items), Existing) # {} /\ AddItem(id)
    BY <1>2 DEF FindEntry
<1>5. id \in Existing
    <2>1. id \in Matching(Len(items), Existing)
        BY <1>1, <1>4, Numbers, MinOfNat
    <2> QED
        BY <2>1 DEF Matching
<1>6. UNCHANGED <<entry, bootOrder, bootNext, bootCurrent, known, created>>
    BY DEF FindEntry, firmware
<1> HIDE DEF id
<1>7. EntryInv' /\ items' \in Seq(Existing) /\ pc' \in {"find", "check"}
    BY <1>1, <1>2, <1>4, <1>5, <1>6, ItemAdded DEF id
<1>8. TypeOK'
    BY <1>1, <1>3, <1>6, <1>7 DEF TypeOK
<1> QED
    BY <1>7, <1>8 DEF IInv, FrontInv, PanicsWithoutOthers

\* The number of a new entry is free, and within the bound.
LEMMA FreeNumber ==
    ASSUME PartCount \in Nat \ {0}, OldIds \in Nat, TypeOK, EntryInv, pc = "find",
           Matching(Len(items), known) = {}
    PROVE  /\ findFreeNum \in Ids \ Existing
           /\ findFreeNum < OldIds + Cardinality(Served) + 1
           /\ Len(items) \in Partitions \ Served
<1>1. known = Existing /\ Len(items) \in Partitions
    BY DEF EntryInv, TypeOK
<1>2. Existing \in SUBSET Nat /\ Existing # {} /\ Cardinality(Served) \in Nat
    BY Numbers DEF TypeOK
<1>3. Len(items) \notin Served
    BY <1>1 DEF Served
<1>4. Cardinality(Served) <= PartCount - 1
    <2> DEFINE others == Partitions \ {Len(items)}
    <2>1. IsFiniteSet(Partitions) /\ Cardinality(Partitions) = PartCount
        BY FS_Interval
    <2>2. IsFiniteSet(others) /\ Cardinality(others) = PartCount - 1
        <3> HIDE DEF Partitions
        <3> QED
            BY <1>1, <2>1, FS_RemoveElement
    <2>3. Served \in SUBSET others
        BY <1>3 DEF Served
    <2> HIDE DEF others
    <2> QED
        BY <2>2, <2>3, FS_Subset
<1>5. \A id \in Existing : id < OldIds + Cardinality(Served)
    BY DEF EntryInv
<1> DEFINE low == Min(Existing)  high == Max(Existing)
           free == {n \in low .. high + 1 : n \notin Existing}
<1>6. /\ low \in Nat /\ \A n \in Existing : low <= n
      /\ high \in Existing /\ \A n \in Existing : n <= high
    <2> DEFINE bound == OldIds + Cardinality(Served)
    <2>1. bound \in Nat /\ \A n \in Existing : n <= bound
        BY <1>2, <1>5
    <2> HIDE DEF bound
    <2> QED
        BY <1>2, <2>1, MinOfNat, MaxOfNat
<1> HIDE DEF low, high
<1>7. high + 1 \in free
    BY <1>2, <1>6
<1>8. free \in SUBSET Nat
    BY <1>2, <1>6
<1>9. Min(free) \in free /\ Min(free) <= high + 1
    BY <1>7, <1>8, MinOfNat
<1>10. findFreeNum = Min(free)
    BY <1>1, <1>2 DEF findFreeNum, low, high
<1>11. high < OldIds + Cardinality(Served)
    BY <1>5, <1>6
<1>12. findFreeNum \in Nat /\ findFreeNum \notin Existing /\ findFreeNum <= high + 1
    BY <1>8, <1>9, <1>10
<1>13. high \in Nat
    BY <1>2, <1>6
<1>14. findFreeNum <= OldIds + PartCount - 1 /\ findFreeNum < OldIds + Cardinality(Served) + 1
    BY <1>2, <1>4, <1>11, <1>12, <1>13
<1> QED
    BY <1>1, <1>3, <1>12, <1>14

\* A new entry is the only one of its partition; those of the others stay.
LEMMA EntryWritten ==
    ASSUME PartCount \in Nat \ {0}, OldIds \in Nat, TypeOK, EntryInv, CreateEntry
    PROVE  /\ findFreeNum \in Ids \ Existing
           /\ Existing' = Existing \cup {findFreeNum}
           /\ Matching(Len(items), Existing)' = {findFreeNum}
           /\ \A p \in Partitions : p # Len(items) => Matching(p, Existing)' = Matching(p, Existing)
           /\ Served' = Served \cup {Len(items)} /\ Len(items) \in Partitions \ Served
           /\ \A id \in Existing' : id < OldIds + Cardinality(Served) + 1
<1> DEFINE num == findFreeNum
<1>1. /\ num \in Ids \ Existing /\ num < OldIds + Cardinality(Served) + 1
      /\ Len(items) \in Partitions \ Served
    BY FreeNumber DEF CreateEntry
<1>2. /\ entry' = [entry EXCEPT ![num] = Len(items)]
      /\ UNCHANGED <<items, known>>
    BY DEF CreateEntry
<1> HIDE DEF num
<1>3. \A id \in Ids : entry'[id] = IF id = num THEN Len(items) ELSE entry[id]
    BY <1>1, <1>2 DEF TypeOK
<1>4. Len(items) # NoEntry
    BY <1>1
<1>5. Existing' = Existing \cup {num}
    BY <1>1, <1>3, <1>4 DEF Existing
<1>6. \A p : Matching(p, Existing)' = {id \in Existing' : entry'[id] = p}
    BY DEF Matching
<1>7. \A id \in Existing : id \in Ids
    BY DEF Existing
<1>8. Matching(Len(items), Existing) = {}
    BY <1>1 DEF Served
<1>9. Matching(Len(items), Existing)' = {num}
    <2>1. \A id \in Existing : entry[id] # Len(items)
        BY <1>8 DEF Matching
    <2>2. \A id \in Existing' : entry'[id] = Len(items) <=> id = num
        BY <1>1, <1>3, <1>5, <1>7, <2>1
    <2>3. num \in Existing'
        BY <1>5
    <2>4. Matching(Len(items), Existing)' = {id \in Existing' : entry'[id] = Len(items)}
        BY <1>2 DEF Matching
    <2> QED
        BY <2>2, <2>3, <2>4
<1>10. ASSUME NEW p \in Partitions, p # Len(items)
       PROVE  Matching(p, Existing)' = Matching(p, Existing)
    <2>1. \A id : id \in Existing' /\ entry'[id] = p <=> id \in Existing /\ entry[id] = p
        BY <1>1, <1>3, <1>5, <1>7, <1>10
    <2> QED
        BY <1>6, <2>1 DEF Matching
<1>11. Served' = {p \in Partitions : Matching(p, Existing)' # {}}
    BY DEF Served
<1>12. Served' = Served \cup {Len(items)}
    <2>1. \A p \in Partitions : Matching(p, Existing)' # {}
                                    <=> Matching(p, Existing) # {} \/ p = Len(items)
        <3>1. ASSUME NEW p \in Partitions, p = Len(items) PROVE Matching(p, Existing)' # {}
            BY <1>2, <1>9, <3>1 DEF Matching
        <3> QED
            BY <1>10, <3>1
    <2> QED
        BY <1>1, <1>11, <2>1 DEF Served
<1>13. \A id \in Existing' : id < OldIds + Cardinality(Served) + 1
    <2>1. Cardinality(Served) \in Nat
        BY Numbers
    <2>2. \A id \in Existing : id \in Nat /\ id < OldIds + Cardinality(Served)
        BY Numbers DEF EntryInv
    <2>3. \A id \in Existing : id < OldIds + Cardinality(Served) + 1
        BY <2>1, <2>2
    <2> QED
        BY <1>1, <1>5, <2>3
<1> QED
    BY <1>1, <1>5, <1>9, <1>10, <1>12, <1>13 DEF num

\* A new entry.
LEMMA CreateIInv ==
    ASSUME PartCount \in Nat \ {0}, OldIds \in Nat, IInv, CreateEntry
    PROVE  IInv'
<1>1. TypeOK /\ EntryInv
    BY DEF IInv
<1> DEFINE num == findFreeNum
<1>2. /\ num \in Ids \ Existing
      /\ Existing' = Existing \cup {num}
      /\ Matching(Len(items), Existing)' = {num}
      /\ \A p \in Partitions : p # Len(items) => Matching(p, Existing)' = Matching(p, Existing)
      /\ Served' = Served \cup {Len(items)} /\ Len(items) \in Partitions \ Served
      /\ \A id \in Existing' : id < OldIds + Cardinality(Served) + 1
    BY <1>1, EntryWritten
<1>3. /\ entry' = [entry EXCEPT ![num] = Len(items)]
      /\ created' = num /\ pc' = "append"
      /\ UNCHANGED <<bootOrder, bootNext, bootCurrent, items, known>>
    BY DEF CreateEntry
<1> HIDE DEF num
<1>4. known = Existing /\ Len(items) < PartCount /\ Len(items) \in Nat
    BY <1>1 DEF CreateEntry, EntryInv, TypeOK
<1>5. TypeOK'
    <2>1. entry' \in [Ids -> Partitions \cup {Foreign, NoEntry}]
        BY <1>1, <1>2, <1>3 DEF TypeOK
    <2>2. \A s \in Seq(Existing) : s \in Seq(Existing')
        BY <1>2
    <2> QED
        BY <1>1, <1>2, <1>3, <2>1, <2>2 DEF TypeOK
<1>6. Cardinality(Served)' = Cardinality(Served) + 1
    <2>1. IsFiniteSet(Served)
        BY <1>1, Numbers
    <2> QED
        BY <1>2, <2>1, FS_AddElement
<1>7. ASSUME NEW i \in 1 .. Len(items)
      PROVE  Matching(i - 1, Existing)' # {} /\ items[i] = Min(Matching(i - 1, Existing)')
    <2>1. i - 1 \in Partitions /\ i - 1 # Len(items)
        BY <1>4
    <2> QED
        BY <1>1, <1>2, <2>1 DEF EntryInv
<1>8. EntryInv'
    <2>1. created' \in Existing' /\ known' = Existing' \ {created'}
        BY <1>2, <1>3, <1>4
    <2>2. \A id \in Existing' : id < OldIds + Cardinality(Served)'
        <3>1. Cardinality(Served) \in Nat
            BY <1>1, Numbers
        <3>2. OldIds + Cardinality(Served)' = OldIds + Cardinality(Served) + 1
            BY <1>6, <3>1
        <3> QED
            BY <1>2, <3>2
    <2>3. \A i \in 1 .. Len(items') :
            Matching(i - 1, Existing)' # {} /\ items'[i] = Min(Matching(i - 1, Existing)')
        BY <1>3, <1>7
    <2>4. Matching(Len(items), Existing)' = {created'}
        BY <1>2, <1>3
    <2> QED
        BY <1>3, <1>4, <2>1, <2>2, <2>3, <2>4 DEF EntryInv
<1> QED
    BY <1>3, <1>5, <1>8 DEF IInv, FrontInv, PanicsWithoutOthers

\* A new entry gets into BootOrder, and is the item of its partition.
LEMMA AppendIInv ==
    ASSUME PartCount \in Nat \ {0}, OldIds \in Nat, IInv, AppendToOrder
    PROVE  IInv'
<1>1. TypeOK /\ EntryInv
    BY DEF IInv
<1>2. /\ UNCHANGED <<entry, bootNext, bootCurrent>>
      /\ bootOrder' = Append(bootOrder, created) /\ created' = NoId
      /\ known' = known \cup {created} /\ AddItem(created)
    BY DEF AppendToOrder
<1>3. /\ created \in Existing /\ known = Existing \ {created}
      /\ Matching(Len(items), Existing) = {created} /\ Len(items) < PartCount
    BY <1>1 DEF AppendToOrder, EntryInv
<1>4. known' = Existing
    BY <1>2, <1>3
<1>5. Matching(Len(items), Existing) # {} /\ created = Min(Matching(Len(items), Existing))
    <2>1. Min({created}) \in {created}
        BY <1>1, <1>3, Numbers, MinOfNat
    <2> QED
        BY <1>3, <2>1
<1>6. EntryInv' /\ items' \in Seq(Existing) /\ pc' \in {"find", "check"}
    BY <1>1, <1>2, <1>3, <1>4, <1>5, ItemAdded
<1>7. Existing' = Existing
    BY <1>2, SameEntries
<1>8. bootOrder' \in Seq(Existing)
    BY <1>1, <1>2, <1>3 DEF TypeOK
<1>9. TypeOK'
    BY <1>1, <1>2, <1>4, <1>6, <1>7, <1>8 DEF TypeOK
<1> QED
    BY <1>6, <1>9 DEF IInv, FrontInv, PanicsWithoutOthers

-----------------------------------------------------------------------------
\* The two parts of the new order, by index.
LEMMA NewParts ==
    ASSUME PartCount \in Nat \ {0}, TypeOK, NEW P, NEW O, Divided(P, O)
    PROVE  /\ P \o O \in Seq(Existing)
           /\ Len(O) \in Nat /\ Len(P \o O) = PartCount + Len(O)
           /\ \A i \in 1 .. PartCount : (P \o O)[i] = P[i] /\ Contains(items, P[i])
           /\ \A i \in 1 .. Len(O) :
                /\ (P \o O)[PartCount + i] = O[i]
                /\ Contains(bootOrder, O[i]) /\ ~Contains(items, O[i])
           /\ \A i, j \in 1 .. PartCount : P[i] = P[j] => i = j
           /\ \A i, j \in 1 .. Len(O) : O[i] = O[j] => i = j
<1>1. /\ P \in Seq(Existing) /\ IsInjective(P) /\ Len(P) = PartCount
      /\ O \in Seq(Existing) /\ IsInjective(O)
    BY DEF Divided
<1>2. \A i \in 1 .. PartCount : Contains(P, P[i])
    BY <1>1 DEF Contains
<1>3. \A i \in 1 .. Len(O) : Contains(O, O[i])
    BY DEF Contains
<1>4. /\ \A i \in 1 .. PartCount : Contains(items, P[i])
      /\ \A i \in 1 .. Len(O) : Contains(bootOrder, O[i]) /\ ~Contains(items, O[i])
    BY <1>2, <1>3 DEF Divided
<1>5. DOMAIN P = 1 .. PartCount /\ DOMAIN O = 1 .. Len(O)
    BY <1>1
<1>6. /\ \A i, j \in 1 .. PartCount : P[i] = P[j] => i = j
      /\ \A i, j \in 1 .. Len(O) : O[i] = O[j] => i = j
    BY <1>1, <1>5 DEF IsInjective
<1>7. /\ P \o O \in Seq(Existing)
      /\ Len(O) \in Nat /\ Len(P \o O) = PartCount + Len(O)
      /\ \A i \in 1 .. PartCount : (P \o O)[i] = P[i]
      /\ \A i \in 1 .. Len(O) : (P \o O)[PartCount + i] = O[i]
    BY <1>1
<1> QED
    BY <1>4, <1>6, <1>7

\* Where the comparison of two orders finds no difference, they agree.
LEMMA Agree ==
    ASSUME NEW X, NEW new \in Seq(X), NEW old \in Seq(X), ~Differs(new, old)
    PROVE  /\ Len(new) <= Len(old) => \A i \in 1 .. Len(new) : new[i] = old[i]
           /\ Len(new) > Len(old) => \A i \in 1 .. Len(old) : new[i] = old[i]
<1> DEFINE lengths == {Len(new), Len(old)}
<1>1. Len(new) \in Nat /\ Len(old) \in Nat
    OBVIOUS
<1>2. lengths \in SUBSET Nat /\ lengths # {}
    BY <1>1
<1>3. Min(lengths) \in lengths /\ \A n \in lengths : Min(lengths) <= n
    <2> HIDE DEF lengths
    <2> QED
        BY <1>2, MinOfNat
<1>4. \A i \in 1 .. Min(lengths) : new[i] = old[i]
    BY DEF Differs
<1>5. /\ Min(lengths) \in {Len(new), Len(old)}
      /\ Min(lengths) <= Len(new) /\ Min(lengths) <= Len(old)
    BY <1>3
<1> HIDE DEF lengths
<1>6. /\ Len(new) <= Len(old) => Min(lengths) = Len(new)
      /\ Len(new) > Len(old) => Min(lengths) = Len(old)
    BY <1>1, <1>5
<1> QED
    BY <1>4, <1>6

\* The controller panics only when BootOrder has no other entries, and lacks a partition.
LEMMA OnlyPartitions ==
    ASSUME PartCount \in Nat \ {0}, OldIds \in Nat, TypeOK, EntryInv, Len(items) = PartCount,
           Panics(NewBootOrder(bootOrder, items), bootOrder)
    PROVE  /\ \A i \in DOMAIN bootOrder : PartOf(bootOrder[i]) # NoPart
           /\ {PartOf(bootOrder[i]) : i \in DOMAIN bootOrder} # Partitions
<1>1. PICK P, O : Divided(P, O) /\ NewBootOrder(bootOrder, items) = P \o O
    BY NewOrder
<1> DEFINE new == P \o O
<1>2. /\ new \in Seq(Existing)
      /\ Len(O) \in Nat /\ Len(new) = PartCount + Len(O)
      /\ \A i \in 1 .. PartCount : new[i] = P[i] /\ Contains(items, P[i])
      /\ \A i \in 1 .. Len(O) :
            new[PartCount + i] = O[i] /\ Contains(bootOrder, O[i]) /\ ~Contains(items, O[i])
      /\ \A i, j \in 1 .. PartCount : P[i] = P[j] => i = j
      /\ \A i, j \in 1 .. Len(O) : O[i] = O[j] => i = j
    BY <1>1, NewParts
<1>3. bootOrder \in Seq(Existing) /\ Len(bootOrder) \in Nat /\ DOMAIN bootOrder = 1 .. Len(bootOrder)
    BY DEF TypeOK
<1>4. Len(new) > Len(bootOrder) /\ ~Differs(new, bootOrder)
    BY <1>1 DEF Panics
<1> HIDE DEF new
<1>5. \A i \in 1 .. Len(bootOrder) : new[i] = bootOrder[i]
    BY <1>2, <1>3, <1>4, Agree
<1>6. Len(O) = 0
    <2> SUFFICES ASSUME Len(O) # 0 PROVE FALSE
        OBVIOUS
    <2>1. Len(O) \in 1 .. Len(O)
        BY <1>2
    <2>2. PICK k \in 1 .. Len(bootOrder) : bootOrder[k] = O[Len(O)]
        BY <1>2, <2>1 DEF Contains
    <2>3. new[k] = O[Len(O)] /\ ~Contains(items, new[k])
        BY <1>2, <1>5, <2>1, <2>2
    <2>4. k \in Nat /\ k > PartCount /\ k < PartCount + Len(O)
        BY <1>2, <1>3, <1>4, <2>3
    <2>5. k - PartCount \in 1 .. Len(O) /\ PartCount + (k - PartCount) = k /\ k - PartCount # Len(O)
        BY <1>2, <2>4
    <2>6. new[k] = O[k - PartCount]
        BY <1>2, <2>5
    <2> QED
        BY <1>2, <2>1, <2>3, <2>5, <2>6
<1>7. ASSUME NEW i \in 1 .. Len(bootOrder)
      PROVE  i \in 1 .. PartCount - 1 /\ bootOrder[i] = P[i] /\ PartOf(bootOrder[i]) # NoPart
    <2>1. i \in 1 .. PartCount - 1 /\ i \in 1 .. PartCount
        BY <1>2, <1>3, <1>4, <1>6
    <2>2. bootOrder[i] = P[i] /\ Contains(items, bootOrder[i])
        BY <1>2, <1>5, <2>1
    <2> QED
        BY <2>1, <2>2, AllItems
<1>8. {PartOf(bootOrder[i]) : i \in DOMAIN bootOrder} # Partitions
    <2>1. PartCount \in 1 .. PartCount
        OBVIOUS
    <2>2. Contains(items, P[PartCount])
        BY <1>2, <2>1
    <2>3. PartOf(P[PartCount]) \in Partitions /\ P[PartCount] = items[PartOf(P[PartCount]) + 1]
        BY <2>2, AllItems
    <2>4. ASSUME NEW i \in DOMAIN bootOrder PROVE PartOf(bootOrder[i]) # PartOf(P[PartCount])
        <3>1. /\ i \in 1 .. PartCount - 1 /\ bootOrder[i] = P[i]
              /\ PartOf(bootOrder[i]) # NoPart
            BY <1>3, <1>7
        <3>2. bootOrder[i] = items[PartOf(bootOrder[i]) + 1]
            BY <3>1, AllItems
        <3>3. i \in 1 .. PartCount /\ i # PartCount
            BY <3>1
        <3>4. bootOrder[i] # P[PartCount]
            BY <1>2, <2>1, <3>1, <3>3
        <3> QED
            BY <2>3, <3>2, <3>4
    <2> QED
        BY <2>3, <2>4
<1> QED
    BY <1>3, <1>7, <1>8

\* Otherwise BootOrder begins with the new order of the partitions.
LEMMA PartitionsInFront ==
    ASSUME PartCount \in Nat \ {0}, OldIds \in Nat, TypeOK, EntryInv, Len(items) = PartCount,
           NEW P, NEW O, Divided(P, O), NewBootOrder(bootOrder, items) = P \o O,
           ~Panics(P \o O, bootOrder),
           bootOrder' = IF Differs(P \o O, bootOrder) THEN P \o O ELSE bootOrder
    PROVE  /\ bootOrder' \in Seq(Existing) /\ Len(bootOrder') >= PartCount
           /\ \A i \in 1 .. PartCount : bootOrder'[i] = P[i]
<1>1. /\ P \o O \in Seq(Existing)
      /\ Len(O) \in Nat /\ Len(P \o O) = PartCount + Len(O)
      /\ \A i \in 1 .. PartCount : (P \o O)[i] = P[i]
    BY NewParts
<1>2. bootOrder \in Seq(Existing) /\ Len(bootOrder) \in Nat
    BY DEF TypeOK
<1>3. CASE Differs(P \o O, bootOrder)
    BY <1>1, <1>3
<1>4. CASE ~Differs(P \o O, bootOrder)
    <2>1. Len(P \o O) <= Len(bootOrder)
        BY <1>1, <1>2, <1>4 DEF Panics
    <2>2. \A i \in 1 .. Len(P \o O) : (P \o O)[i] = bootOrder[i]
        BY <1>1, <1>2, <1>4, <2>1, Agree
    <2>3. \A i \in 1 .. PartCount : i \in 1 .. Len(P \o O)
        BY <1>1
    <2>4. \A i \in 1 .. PartCount : bootOrder[i] = P[i]
        BY <1>1, <2>2, <2>3
    <2> QED
        BY <1>1, <1>2, <1>4, <2>1, <2>4
<1> QED
    BY <1>3, <1>4

\* The comparison of the orders, and the new one.
LEMMA CheckIInv ==
    ASSUME PartCount \in Nat \ {0}, OldIds \in Nat, IInv, checkBootOrder
    PROVE  IInv'
<1>1. TypeOK /\ EntryInv
    BY DEF IInv
<1>2. Len(items) = PartCount /\ known = Existing /\ created = NoId
    BY <1>1 DEF checkBootOrder, EntryInv
<1>3. PICK P, O : Divided(P, O) /\ NewBootOrder(bootOrder, items) = P \o O
    BY <1>1, <1>2, NewOrder
<1>4. entry' = entry /\ UNCHANGED <<bootNext, bootCurrent>>
    BY DEF checkBootOrder, firmware
<1>5. /\ Existing' = Existing /\ Served' = Served
      /\ \A p, S : Matching(p, S)' = Matching(p, S)
      /\ \A id : PartOf(id)' = PartOf(id)
    BY <1>4, SameEntries
<1>6. CASE Panics(P \o O, bootOrder)
    <2>1. Die("panicked") /\ bootOrder' = bootOrder
        BY <1>3, <1>6 DEF checkBootOrder, firmware
    <2>2. pc' = "panicked" /\ items' = <<>> /\ known' = {} /\ created' = NoId
        BY <2>1 DEF Die
    <2>3. TypeOK'
        BY <1>1, <1>4, <1>5, <2>1, <2>2 DEF TypeOK
    <2>4. EntryInv'
        BY <1>1, <1>5, <2>2 DEF EntryInv
    <2>5. /\ \A i \in DOMAIN bootOrder : PartOf(bootOrder[i]) # NoPart
          /\ {PartOf(bootOrder[i]) : i \in DOMAIN bootOrder} # Partitions
        BY <1>1, <1>2, <1>3, <1>6, OnlyPartitions
    <2>6. \A i \in DOMAIN bootOrder : PartOf(bootOrder[i])' = PartOf(bootOrder[i])
        BY <1>4, <2>1 DEF PartOf, Matching, Existing
    <2>7. /\ \A i \in DOMAIN bootOrder' : PartOf(bootOrder[i])' # NoPart
          /\ {PartOf(bootOrder[i])' : i \in DOMAIN bootOrder'} # Partitions
        BY <2>1, <2>5, <2>6
    <2> QED
        BY <2>2, <2>3, <2>4, <2>7 DEF IInv, FrontInv, PanicsWithoutOthers
<1>7. CASE ~Panics(P \o O, bootOrder)
    <2>1. /\ bootOrder' = IF Differs(P \o O, bootOrder) THEN P \o O ELSE bootOrder
          /\ pc' = "ready" /\ UNCHANGED <<items, known, created>>
        BY <1>3, <1>7 DEF checkBootOrder
    <2>2. /\ bootOrder' \in Seq(Existing) /\ Len(bootOrder') >= PartCount
          /\ \A i \in 1 .. PartCount : bootOrder'[i] = P[i]
        BY <1>1, <1>2, <1>3, <1>7, <2>1, PartitionsInFront
    <2>3. TypeOK'
        BY <1>1, <1>4, <1>5, <2>1, <2>2 DEF TypeOK
    <2>4. EntryInv'
        BY <1>1, <1>2, <1>5, <2>1 DEF EntryInv
    <2>5. FrontInv'
        <3>1. \A i \in 1 .. PartCount : Contains(items, P[i])
            BY <1>1, <1>3, NewParts
        <3>2. \A i \in 1 .. PartCount : Contains(P, items[i])
            BY <1>2, <1>3 DEF Divided, Contains
        <3>3. Len(P) = PartCount
            BY <1>3 DEF Divided
        <3>4. \A i \in 1 .. PartCount : \E j \in 1 .. PartCount : P[j] = items[i]
            BY <3>2, <3>3 DEF Contains
        <3>5. /\ \A i \in 1 .. PartCount : Contains(items, bootOrder'[i])
              /\ \A i \in 1 .. PartCount : \E j \in 1 .. PartCount : bootOrder'[j] = items[i]
            BY <2>2, <3>1, <3>4
        <3> QED
            BY <2>1, <2>2, <3>5 DEF FrontInv, Contains
    <2> QED
        BY <2>1, <2>3, <2>4, <2>5 DEF IInv, PanicsWithoutOthers
<1> QED
    BY <1>6, <1>7

-----------------------------------------------------------------------------
\* What SelectInSeq finds: the lowest index there is, or 0.
LEMMA FirstIndex ==
    ASSUME NEW n \in Nat, NEW A \in SUBSET (1 .. n),
           NEW k, k = IF A # {} THEN Min(A) ELSE 0
    PROVE  /\ k = 0 <=> A = {}
           /\ k # 0 => k \in A /\ \A i \in A : k <= i
<1>1. A # {} => Min(A) \in A /\ \A i \in A : Min(A) <= i
    <2>1. A \in SUBSET Nat
        OBVIOUS
    <2> QED
        BY <2>1, MinOfNat
<1>2. 0 \notin A
    OBVIOUS
<1> QED
    BY <1>1, <1>2

\* The index of an item.
LEMMA IndexOf ==
    ASSUME NEW X, NEW seq \in Seq(X), NEW id, Contains(seq, id),
           NEW k, k = SelectInSeq(seq, LAMBDA x : x = id)
    PROVE  k \in 1 .. Len(seq) /\ seq[k] = id /\ \A i \in 1 .. Len(seq) : seq[i] = id => k <= i
<1> DEFINE A == {i \in 1 .. Len(seq) : seq[i] = id}
<1>1. A \in SUBSET (1 .. Len(seq)) /\ A # {} /\ Len(seq) \in Nat
    BY DEF Contains
<1>2. k = IF A # {} THEN Min(A) ELSE 0
    BY DEF SelectInSeq
<1>3. k \in A /\ \A i \in A : k <= i
    <2> HIDE DEF A
    <2> QED
        BY <1>1, <1>2, FirstIndex
<1> QED
    BY <1>3

\* BootNext names the entry of a partition.
LEMMA SetMainBootIInv ==
    ASSUME PartCount \in Nat \ {0}, OldIds \in Nat, IInv, NEW p \in Partitions, SetMainBoot(p)
    PROVE  IInv' /\ bootNext' = items[p + 1] /\ PartOf(items[p + 1]) = p
<1>1. TypeOK /\ EntryInv /\ FrontInv /\ Len(items) = PartCount
    BY DEF IInv, SetMainBoot, EntryInv
<1>2. /\ pc = "ready" /\ bootNext' = items[p + 1]
      /\ UNCHANGED <<entry, bootOrder, bootCurrent, pc, items, known, created>>
    BY DEF SetMainBoot
<1>3. /\ Existing' = Existing /\ Served' = Served
      /\ \A q, S : Matching(q, S)' = Matching(q, S)
    BY <1>2, SameEntries
<1>4. p + 1 \in 1 .. Len(items) /\ (p + 1) - 1 = p
    BY <1>1
<1>5. items[p + 1] \in Existing /\ PartOf(items[p + 1]) = p
    BY <1>1, <1>4, ItemFacts
<1>6. TypeOK'
    BY <1>1, <1>2, <1>3, <1>5 DEF TypeOK
<1>7. EntryInv'
    BY <1>1, <1>2, <1>3 DEF EntryInv
<1>8. FrontInv'
    BY <1>1, <1>2 DEF FrontInv
<1> QED
    BY <1>2, <1>5, <1>6, <1>7, <1>8 DEF IInv, PanicsWithoutOthers

\* The current entry changes places with the first: both are among the partitions in front.
LEMMA SetBootOKIInv ==
    ASSUME PartCount \in Nat \ {0}, OldIds \in Nat, IInv, SetBootOK
    PROVE  IInv' /\ Len(bootOrder') >= PartCount /\ bootOrder'[1] = bootCurrent
<1>1. TypeOK /\ EntryInv /\ FrontInv /\ Len(items) = PartCount
    BY DEF IInv, SetBootOK, EntryInv
<1> DEFINE k == SelectInSeq(bootOrder, LAMBDA id : id = bootCurrent)
<1>2. /\ pc = "ready" /\ bootOrder' = Swapped(k)
      /\ Contains(items, bootCurrent) /\ Contains(bootOrder, bootCurrent)
      /\ UNCHANGED <<entry, bootNext, bootCurrent, pc, items, known, created>>
    BY DEF SetBootOK
<1>3. /\ Existing' = Existing /\ Served' = Served
      /\ \A q, S : Matching(q, S)' = Matching(q, S)
    BY <1>2, SameEntries
<1>4. /\ bootOrder \in Seq(Existing) /\ Len(bootOrder) \in Nat /\ Len(bootOrder) >= PartCount
      /\ \A i \in 1 .. PartCount : Contains(items, bootOrder[i])
      /\ \A i \in 1 .. PartCount : \E j \in 1 .. PartCount : bootOrder[j] = items[i]
    BY <1>1, <1>2 DEF TypeOK, FrontInv
<1>5. /\ k \in 1 .. Len(bootOrder) /\ bootOrder[k] = bootCurrent
      /\ \A i \in 1 .. Len(bootOrder) : bootOrder[i] = bootCurrent => k <= i
    BY <1>2, <1>4, IndexOf
<1> HIDE DEF k
<1>6. k \in 1 .. PartCount
    <2>1. PICK m \in 1 .. PartCount : items[m] = bootCurrent
        BY <1>1, <1>2 DEF Contains
    <2>2. PICK j \in 1 .. PartCount : bootOrder[j] = bootCurrent
        BY <1>4, <2>1
    <2>3. j \in 1 .. Len(bootOrder)
        BY <1>4
    <2> QED
        BY <1>5, <2>2, <2>3
<1>7. /\ bootOrder' \in Seq(Existing) /\ Len(bootOrder') = Len(bootOrder)
      /\ \A i \in 1 .. Len(bootOrder) :
            bootOrder'[i] = IF i = k THEN bootOrder[1] ELSE IF i = 1 THEN bootCurrent ELSE bootOrder[i]
    BY <1>2, <1>4, <1>5 DEF Swapped
<1>8. 1 \in 1 .. PartCount /\ \A i \in 1 .. PartCount : i \in 1 .. Len(bootOrder)
    BY <1>4
<1>9. \A i \in 1 .. PartCount : Contains(items, bootOrder'[i])
    BY <1>2, <1>4, <1>7, <1>8
<1>10. ASSUME NEW i \in 1 .. PartCount
       PROVE  \E j \in 1 .. PartCount : bootOrder'[j] = items[i]
    <2>1. PICK j \in 1 .. PartCount : bootOrder[j] = items[i]
        BY <1>4
    <2>2. CASE j = 1
        BY <1>6, <1>7, <1>8, <2>1, <2>2
    <2>3. CASE j = k /\ j # 1
        BY <1>5, <1>7, <1>8, <2>1, <2>3
    <2>4. CASE j # k /\ j # 1
        BY <1>7, <1>8, <2>1, <2>4
    <2> QED
        BY <2>2, <2>3, <2>4
<1>11. FrontInv'
    BY <1>2, <1>4, <1>7, <1>9, <1>10 DEF FrontInv, Contains
<1>12. TypeOK'
    BY <1>1, <1>2, <1>3, <1>7 DEF TypeOK
<1>13. EntryInv'
    BY <1>1, <1>2, <1>3 DEF EntryInv
<1>14. bootOrder'[1] = bootCurrent
    BY <1>5, <1>7, <1>8
<1> QED
    BY <1>2, <1>4, <1>7, <1>11, <1>12, <1>13, <1>14 DEF IInv, PanicsWithoutOthers

\* What the firmware boots is an entry there is.
LEMMA BootIInv ==
    ASSUME PartCount \in Nat \ {0}, OldIds \in Nat, IInv, NEW broken, Boot(broken)
    PROVE  IInv'
<1> DEFINE order == <<bootNext>> \o bootOrder
           tried == SelectInSeq(order, LAMBDA id : id \in Existing \ broken)
           A == {i \in 1 .. Len(order) : order[i] \in Existing \ broken}
<1>1. TypeOK
    BY DEF IInv
<1>2. /\ tried # 0 /\ bootCurrent' = order[tried] /\ bootNext' = NoId /\ Die("down")
      /\ UNCHANGED <<entry, bootOrder>>
    BY DEF Boot
<1>3. tried = IF A # {} THEN Min(A) ELSE 0
    BY DEF SelectInSeq
<1>4. Len(order) \in Nat
    BY <1>1 DEF TypeOK
<1>5. tried \in A
    <2> HIDE DEF tried, order
    <2>1. A \in SUBSET (1 .. Len(order))
        OBVIOUS
    <2> HIDE DEF A
    <2> QED
        BY <1>2, <1>3, <1>4, <2>1, FirstIndex
<1> QED
    BY <1>2, <1>5, DieIInv

-----------------------------------------------------------------------------
\* Every step keeps IInv.
LEMMA NextIInv ==
    ASSUME PartCount \in Nat \ {0}, OldIds \in Nat
    PROVE  IInv /\ [Next]_vars => IInv'
<1> SUFFICES ASSUME IInv, [Next]_vars PROVE IInv'
    OBVIOUS
<1>1. CASE UNCHANGED vars
    <2>1. UNCHANGED <<entry, bootOrder, bootNext, bootCurrent, pc, items, known, created>>
        BY <1>1 DEF vars, firmware
    <2>2. /\ Existing' = Existing /\ Served' = Served
          /\ \A q, S : Matching(q, S)' = Matching(q, S)
        BY <2>1, SameEntries
    <2>3. TypeOK'
        BY <2>1, <2>2 DEF IInv, TypeOK
    <2>4. EntryInv'
        BY <2>1, <2>2 DEF IInv, EntryInv
    <2>5. FrontInv'
        BY <2>1 DEF IInv, FrontInv
    <2>6. \A i \in DOMAIN bootOrder : PartOf(bootOrder[i])' = PartOf(bootOrder[i])
        BY <2>1 DEF PartOf, Matching, Existing
    <2>7. PanicsWithoutOthers'
        BY <2>1, <2>6 DEF IInv, PanicsWithoutOthers
    <2> QED
        BY <2>3, <2>4, <2>5, <2>7 DEF IInv
<1>2. CASE Exit
    BY <1>2, DieIInv DEF Exit, firmware, IInv, TypeOK
<1>3. ASSUME NEW broken \in SUBSET Existing, Boot(broken) PROVE IInv'
    BY <1>3, BootIInv
<1>4. ASSUME NEW p \in Partitions, SetMainBoot(p) PROVE IInv'
    BY <1>4, SetMainBootIInv
<1> QED
    BY <1>1, <1>2, <1>3, <1>4, NewIInv, FindIInv, CreateIInv, AppendIInv, CheckIInv,
        SetBootOKIInv DEF Next

\* IInv is an invariant.
LEMMA IInvAlways ==
    ASSUME PartCount \in Nat \ {0}, OldIds \in Nat PROVE Spec => []IInv
<1>1. Init => IInv
    BY InitIInv
<1>2. IInv /\ [Next]_vars => IInv'
    BY NextIInv
<1> QED
    BY <1>1, <1>2, PTL DEF Spec

\* BootOrder begins with the partitions, by what is known of the items.
LEMMA FrontIsPartitions ==
    ASSUME PartCount \in Nat \ {0}, OldIds \in Nat, IInv
    PROVE  PartitionsFirst
<1> SUFFICES ASSUME pc = "ready"
             PROVE  /\ Len(bootOrder) >= PartCount
                    /\ {PartOf(bootOrder[i]) : i \in 1 .. PartCount} = Partitions
    BY DEF PartitionsFirst
<1>1. TypeOK /\ EntryInv /\ FrontInv /\ Len(items) = PartCount
    BY DEF IInv, EntryInv
<1>2. Len(bootOrder) >= PartCount
    BY <1>1 DEF FrontInv
<1>3. \A i \in 1 .. PartCount : PartOf(bootOrder[i]) \in Partitions
    BY <1>1, AllItems DEF FrontInv
<1>4. ASSUME NEW p \in Partitions
      PROVE  \E i \in 1 .. PartCount : PartOf(bootOrder[i]) = p
    <2>1. p + 1 \in 1 .. PartCount /\ (p + 1) - 1 = p
        OBVIOUS
    <2>2. PartOf(items[p + 1]) = p
        BY <1>1, <2>1, ItemFacts
    <2> QED
        BY <1>1, <2>1, <2>2 DEF FrontInv
<1> QED
    BY <1>2, <1>3, <1>4

\* The reported partition is the one that was booted, by what is known of the items.
LEMMA CurrentByItems ==
    ASSUME PartCount \in Nat \ {0}, OldIds \in Nat, IInv
    PROVE  CurrentIsBooted
<1> SUFFICES ASSUME pc = "ready", PartOf(bootCurrent) # NoPart
             PROVE  GetCurrentBoot = entry[bootCurrent]
    BY DEF CurrentIsBooted
<1>1. TypeOK /\ EntryInv /\ Len(items) = PartCount
    BY DEF IInv, EntryInv
<1>2. Contains(items, bootCurrent) /\ items \in Seq(Existing)
    BY <1>1, AllItems DEF TypeOK
<1> DEFINE k == SelectInSeq(items, LAMBDA id : id = bootCurrent)
<1>3. /\ k \in 1 .. Len(items) /\ items[k] = bootCurrent
      /\ \A i \in 1 .. Len(items) : items[i] = bootCurrent => k <= i
    BY <1>2, IndexOf
<1>4. GetCurrentBoot = k - 1
    BY <1>2 DEF GetCurrentBoot
<1> HIDE DEF k
<1> QED
    BY <1>1, <1>3, <1>4, ItemFacts

-----------------------------------------------------------------------------
USE DEF Control!NoPart

\* The first entry of BootOrder that stands for a partition is the k-th.
Leads(k) ==
    /\ k \in 1 .. Len(bootOrder) /\ PartOf(bootOrder[k]) # NoPart
    /\ \A q \in 1 .. Len(bootOrder) : q < k => PartOf(bootOrder[q]) = NoPart

\* The main partition is that of the entry that leads, and none if none does.
MainIsFirst ==
    /\ MainPart \in Partitions \cup {NoPart}
    /\ \A k : Leads(k) => MainPart = PartOf(bootOrder[k])
    /\ MainPart = NoPart \/ \E k : Leads(k)
    /\ MainPart = NoPart <=> \A k \in 1 .. Len(bootOrder) : PartOf(bootOrder[k]) = NoPart

\* SelectInSeq finds the entry that leads.
LEMMA MainLeads == TypeOK => MainIsFirst
<1> SUFFICES ASSUME TypeOK PROVE MainIsFirst
    OBVIOUS
<1> DEFINE A == {i \in 1 .. Len(bootOrder) : PartOf(bootOrder[i]) # NoPart}
           first == SelectInSeq(bootOrder, LAMBDA id : PartOf(id) # NoPart)
<1>1. first = IF A # {} THEN Min(A) ELSE 0
    BY DEF SelectInSeq
<1>2. Len(bootOrder) \in Nat
    BY DEF TypeOK
<1>3. /\ first = 0 <=> A = {}
      /\ first # 0 => first \in A /\ \A i \in A : first <= i
    <2> HIDE DEF first
    <2>1. A \in SUBSET (1 .. Len(bootOrder))
        OBVIOUS
    <2> HIDE DEF A
    <2> QED
        BY <1>1, <1>2, <2>1, FirstIndex
<1>4. MainPart = IF first = 0 THEN NoPart ELSE PartOf(bootOrder[first])
    BY DEF MainPart
<1> HIDE DEF first
<1>5. first # 0 => Leads(first)
    BY <1>2, <1>3 DEF Leads
<1>6. ASSUME NEW k, Leads(k) PROVE first = k
    BY <1>2, <1>3, <1>6 DEF Leads
<1>7. \A id : PartOf(id) \in Partitions \cup {NoPart}
    BY DEF PartOf
<1> QED
    BY <1>2, <1>3, <1>4, <1>5, <1>6, <1>7 DEF Leads, MainIsFirst

\* The same of the next state.
LEMMA MainLeadsNext == TypeOK' => MainIsFirst'
BY MainLeads, PTL

\* Init maps to an initial state of the boot control.
LEMMA InitControl ==
    ASSUME PartCount \in Nat \ {0}, OldIds \in Nat, Init
    PROVE  Control!Init
<1>1. TypeOK
    BY InitIInv DEF IInv
<1>2. NoId \notin Existing
    BY <1>1, Numbers
<1>3. PartOf(bootNext) = NoPart
    BY <1>2 DEF Init, PartOf
<1>4. PartOf(bootCurrent) \in Partitions \cup {NoPart}
    BY DEF PartOf
<1> QED
    BY <1>1, <1>3, <1>4, MainLeads DEF MainIsFirst, Control!Init, Control!TypeOK

\* The main partition does not change with what is not in BootOrder.
LEMMA SameMain ==
    ASSUME TypeOK, TypeOK', bootOrder' = bootOrder,
           \A k \in 1 .. Len(bootOrder) : PartOf(bootOrder[k])' = PartOf(bootOrder[k])
    PROVE  MainPart' = MainPart
<1>1. \A k : Leads(k)' <=> Leads(k)
    BY DEF Leads
<1>2. CASE MainPart = NoPart
    BY <1>2, MainLeads, MainLeadsNext DEF MainIsFirst
<1>3. CASE MainPart # NoPart
    <2>1. PICK k : Leads(k)
        BY <1>3, MainLeads DEF MainIsFirst
    <2>2. k \in 1 .. Len(bootOrder) /\ Leads(k)'
        BY <1>1, <2>1 DEF Leads
    <2> QED
        BY <2>1, <2>2, MainLeads, MainLeadsNext DEF MainIsFirst
<1> QED
    BY <1>2, <1>3

\* Steps that write neither an entry nor BootOrder, BootNext and BootCurrent.
LEMMA SameFirmware ==
    ASSUME TypeOK, TypeOK', UNCHANGED firmware
    PROVE  UNCHANGED <<MainPart, PartOf(bootNext), PartOf(bootCurrent)>>
<1>1. UNCHANGED <<entry, bootOrder, bootNext, bootCurrent>>
    BY DEF firmware
<1>2. \A k \in 1 .. Len(bootOrder) : PartOf(bootOrder[k])' = PartOf(bootOrder[k])
    BY <1>1 DEF PartOf, Matching, Existing
<1>3. UNCHANGED <<PartOf(bootNext), PartOf(bootCurrent)>>
    BY <1>1 DEF PartOf, Matching, Existing
<1> QED
    BY <1>1, <1>2, <1>3, SameMain

\* A new entry is not in BootOrder yet, and no other one changes.
LEMMA CreateControl ==
    ASSUME PartCount \in Nat \ {0}, OldIds \in Nat, IInv, TypeOK', CreateEntry
    PROVE  UNCHANGED <<MainPart, PartOf(bootNext), PartOf(bootCurrent)>>
<1>1. TypeOK /\ EntryInv
    BY DEF IInv
<1> DEFINE num == findFreeNum
<1>2. /\ num \in Ids \ Existing /\ Existing' = Existing \cup {num}
      /\ \A p \in Partitions : p # Len(items) => Matching(p, Existing)' = Matching(p, Existing)
      /\ Len(items) \in Partitions \ Served
    BY <1>1, EntryWritten
<1>3. /\ entry' = [entry EXCEPT ![num] = Len(items)]
      /\ UNCHANGED <<bootOrder, bootNext, bootCurrent, items>>
    BY DEF CreateEntry
<1> HIDE DEF num
<1>4. ASSUME NEW id \in Existing PROVE PartOf(id)' = PartOf(id)
    <2>1. id \in Ids /\ id # num /\ id \in Existing'
        BY <1>2 DEF Existing
    <2>2. entry'[id] = entry[id]
        BY <1>1, <1>3, <2>1 DEF TypeOK
    <2>3. entry[id] # Len(items)
        BY <1>2 DEF Served, Matching
    <2>4. entry[id] \in Partitions => Matching(entry[id], Existing)' = Matching(entry[id], Existing)
        <3> SUFFICES ASSUME entry[id] \in Partitions
                     PROVE  Matching(entry[id], Existing)' = Matching(entry[id], Existing)
            OBVIOUS
        <3>1. ASSUME NEW p \in Partitions, p = entry[id]
              PROVE  Matching(entry[id], Existing)' = Matching(entry[id], Existing)
            <4>1. Matching(p, Existing)' = Matching(p, Existing)
                BY <1>2, <2>3, <3>1
            <4> QED
                BY <2>2, <3>1, <4>1 DEF Matching
        <3> QED
            BY <3>1
    <2> QED
        BY <2>1, <2>2, <2>4 DEF PartOf
<1>5. \A k \in 1 .. Len(bootOrder) : bootOrder[k] \in Existing
    BY <1>1 DEF TypeOK
<1>6. \A k \in 1 .. Len(bootOrder) : PartOf(bootOrder[k])' = PartOf(bootOrder[k])
    <2> SUFFICES ASSUME NEW k \in 1 .. Len(bootOrder)
                 PROVE  PartOf(bootOrder[k])' = PartOf(bootOrder[k])
        OBVIOUS
    <2>1. ASSUME NEW id \in Existing, id = bootOrder[k] PROVE PartOf(bootOrder[k])' = PartOf(bootOrder[k])
        <3>1. PartOf(id)' = PartOf(id)
            BY <1>4
        <3> QED
            BY <1>3, <2>1, <3>1 DEF PartOf
    <2> QED
        BY <1>5, <2>1
<1>7. MainPart' = MainPart
    BY <1>1, <1>3, <1>6, SameMain
<1>8. PartOf(bootCurrent)' = PartOf(bootCurrent)
    <2>1. ASSUME NEW id \in Existing, id = bootCurrent PROVE PartOf(bootCurrent)' = PartOf(bootCurrent)
        <3>1. PartOf(id)' = PartOf(id)
            BY <1>4
        <3> QED
            BY <1>3, <2>1, <3>1 DEF PartOf
    <2> QED
        BY <1>1, <2>1 DEF TypeOK
<1>9. PartOf(bootNext)' = PartOf(bootNext)
    <2>1. ASSUME NEW id \in Existing, id = bootNext PROVE PartOf(bootNext)' = PartOf(bootNext)
        <3>1. PartOf(id)' = PartOf(id)
            BY <1>4
        <3> QED
            BY <1>3, <2>1, <3>1 DEF PartOf
    <2>2. ASSUME bootNext = NoId PROVE PartOf(bootNext)' = PartOf(bootNext)
        <3>1. NoId \notin Existing /\ NoId \notin Existing'
            BY <1>1, <1>2, Numbers
        <3> QED
            BY <1>3, <2>2, <3>1 DEF PartOf
    <2> QED
        BY <1>1, <2>1, <2>2 DEF TypeOK
<1> QED
    BY <1>7, <1>8, <1>9

\* A new entry in BootOrder is last: it only becomes the main one when there is none.
LEMMA AppendControl ==
    ASSUME PartCount \in Nat \ {0}, OldIds \in Nat, IInv, TypeOK', AppendToOrder
    PROVE  \/ \E p \in Partitions : Control!Adopt(p)
           \/ UNCHANGED <<MainPart, PartOf(bootNext), PartOf(bootCurrent)>>
<1>1. TypeOK /\ EntryInv
    BY DEF IInv
<1>2. /\ UNCHANGED <<entry, bootNext, bootCurrent>>
      /\ bootOrder' = Append(bootOrder, created)
    BY DEF AppendToOrder
<1>3. bootOrder \in Seq(Existing) /\ created \in Existing /\ Len(items) \in Partitions
    BY <1>1 DEF AppendToOrder, EntryInv, TypeOK
<1>4. /\ Len(bootOrder') = Len(bootOrder) + 1 /\ Len(bootOrder) \in Nat
      /\ \A k \in 1 .. Len(bootOrder) : bootOrder'[k] = bootOrder[k]
    BY <1>2, <1>3
<1>5. \A k \in 1 .. Len(bootOrder) : PartOf(bootOrder[k])' = PartOf(bootOrder[k])
    BY <1>2, <1>4 DEF PartOf, Matching, Existing
<1>6. UNCHANGED <<PartOf(bootNext), PartOf(bootCurrent)>>
    BY <1>2 DEF PartOf, Matching, Existing
<1>7. CASE MainPart # NoPart
    <2>1. PICK k : Leads(k)
        BY <1>1, <1>7, MainLeads DEF MainIsFirst
    <2>2. k \in 1 .. Len(bootOrder) /\ Leads(k)'
        BY <1>4, <1>5, <2>1 DEF Leads
    <2>3. MainPart' = MainPart
        BY <1>1, <1>5, <2>1, <2>2, MainLeads, MainLeadsNext DEF MainIsFirst
    <2> QED
        BY <1>6, <2>3
<1>8. CASE MainPart = NoPart
    <2>1. CASE MainPart' = NoPart
        BY <1>6, <1>8, <2>1
    <2>2. CASE MainPart' # NoPart
        <3>1. MainPart' \in Partitions
            BY <2>2, MainLeadsNext DEF MainIsFirst
        <3> QED
            BY <1>6, <1>8, <3>1 DEF Control!Adopt
    <2> QED
        BY <2>1, <2>2
<1> QED
    BY <1>7, <1>8

\* The new order has the entry first that led the old one.
LEMMA CheckControl ==
    ASSUME PartCount \in Nat \ {0}, OldIds \in Nat, IInv, TypeOK', checkBootOrder
    PROVE  \/ \E p \in Partitions : Control!Adopt(p)
           \/ UNCHANGED <<MainPart, PartOf(bootNext), PartOf(bootCurrent)>>
<1>1. TypeOK /\ EntryInv
    BY DEF IInv
<1>2. Len(items) = PartCount
    BY <1>1 DEF checkBootOrder, EntryInv
<1>3. PICK P, O : Divided(P, O) /\ NewBootOrder(bootOrder, items) = P \o O
    BY <1>1, <1>2, NewOrder
<1>4. UNCHANGED <<entry, bootNext, bootCurrent>>
    BY DEF checkBootOrder, firmware
<1>5. UNCHANGED <<PartOf(bootNext), PartOf(bootCurrent)>>
    BY <1>4 DEF PartOf, Matching, Existing
<1>6. CASE Panics(P \o O, bootOrder)
    <2>1. UNCHANGED firmware
        BY <1>3, <1>6 DEF checkBootOrder
    <2> QED
        BY <1>1, <2>1, SameFirmware
<1>7. CASE ~Panics(P \o O, bootOrder)
    <2>1. bootOrder' = IF Differs(P \o O, bootOrder) THEN P \o O ELSE bootOrder
        BY <1>3, <1>7 DEF checkBootOrder
    <2>2. /\ bootOrder' \in Seq(Existing) /\ Len(bootOrder') >= PartCount
          /\ \A i \in 1 .. PartCount : bootOrder'[i] = P[i]
        BY <1>1, <1>2, <1>3, <1>7, <2>1, PartitionsInFront
    <2>3. Contains(items, P[1]) /\ 1 \in 1 .. PartCount
        BY <1>1, <1>3, NewParts
    <2>4. PartOf(P[1]) # NoPart
        BY <1>1, <1>2, <2>3, AllItems
    <2>5. PartOf(bootOrder[1])' = PartOf(P[1])
        BY <1>4, <2>2, <2>3 DEF PartOf, Matching, Existing
    <2>6. Leads(1)'
        <3>1. 1 \in 1 .. Len(bootOrder') /\ \A q \in 1 .. Len(bootOrder') : ~(q < 1)
            BY <2>2
        <3> QED
            BY <2>4, <2>5, <3>1 DEF Leads
    <2>7. MainPart' = PartOf(P[1])
        BY <2>5, <2>6, MainLeadsNext DEF MainIsFirst
    <2>8. CASE MainPart = NoPart
        <3>1. MainPart' \in Partitions
            BY <2>4, <2>7, MainLeadsNext DEF MainIsFirst
        <3> QED
            BY <1>5, <2>8, <3>1 DEF Control!Adopt
    <2>9. CASE MainPart # NoPart
        <3>1. PICK k : Leads(k)
            BY <1>1, <2>9, MainLeads DEF MainIsFirst
        <3>2. /\ k \in 1 .. Len(bootOrder) /\ PartOf(bootOrder[k]) # NoPart
              /\ \A q \in 1 .. Len(bootOrder) : q < k => PartOf(bootOrder[q]) = NoPart
            BY <3>1 DEF Leads
        <3>3. Contains(items, bootOrder[k]) /\ Contains(bootOrder, bootOrder[k])
            BY <1>1, <1>2, <3>2, AllItems DEF Contains
        <3>4. PICK m \in 1 .. PartCount : P[m] = bootOrder[k]
            BY <1>3, <3>3 DEF Divided, Contains
        <3>5. m = 1
            <4> SUFFICES ASSUME m # 1 PROVE FALSE
                OBVIOUS
            <4>1. 1 < m
                OBVIOUS
            <4>2. Earlier(bootOrder, P[1], P[m])
                BY <1>3, <2>3, <3>3, <3>4, <4>1 DEF Divided
            <4>3. PICK p \in 1 .. Len(bootOrder) :
                    bootOrder[p] = P[1] /\ \A q \in 1 .. p : bootOrder[q] # bootOrder[k]
                BY <3>4, <4>2 DEF Earlier
            <4>4. p < k
                BY <3>2, <4>3
            <4> QED
                BY <2>4, <3>2, <4>3, <4>4
        <3>6. MainPart = PartOf(P[1])
            BY <1>1, <3>1, <3>4, <3>5, MainLeads DEF MainIsFirst
        <3> QED
            BY <1>5, <2>7, <3>6
    <2> QED
        BY <2>8, <2>9
<1> QED
    BY <1>6, <1>7

\* SetMainBoot() asks for a single boot.
LEMMA SetMainBootControl ==
    ASSUME PartCount \in Nat \ {0}, OldIds \in Nat, IInv, TypeOK', NEW p \in Partitions,
           SetMainBoot(p)
    PROVE  Control!Once(p)
<1>1. bootNext' = items[p + 1] /\ PartOf(items[p + 1]) = p /\ TypeOK
    BY SetMainBootIInv DEF IInv
<1>2. UNCHANGED <<entry, bootOrder, bootCurrent>>
    BY DEF SetMainBoot
<1>3. PartOf(bootNext)' = p
    BY <1>1, <1>2 DEF PartOf, Matching, Existing
<1>4. \A k \in 1 .. Len(bootOrder) : PartOf(bootOrder[k])' = PartOf(bootOrder[k])
    BY <1>2 DEF PartOf, Matching, Existing
<1>5. MainPart' = MainPart
    BY <1>1, <1>2, <1>4, SameMain
<1>6. PartOf(bootCurrent)' = PartOf(bootCurrent)
    BY <1>2 DEF PartOf, Matching, Existing
<1> QED
    BY <1>3, <1>5, <1>6 DEF Control!Once

\* SetBootOK() makes the running partition the main one.
LEMMA SetBootOKControl ==
    ASSUME PartCount \in Nat \ {0}, OldIds \in Nat, IInv, TypeOK', SetBootOK
    PROVE  Control!Confirm
<1>1. Len(bootOrder') >= PartCount /\ bootOrder'[1] = bootCurrent
    BY SetBootOKIInv
<1>2. UNCHANGED <<entry, bootNext, bootCurrent>> /\ Contains(items, bootCurrent)
    BY DEF SetBootOK
<1>3. PartOf(bootCurrent) # NoPart
    <2>1. TypeOK /\ EntryInv /\ Len(items) = PartCount
        BY DEF IInv, SetBootOK, EntryInv
    <2> QED
        BY <1>2, <2>1, AllItems
<1>4. PartOf(bootOrder[1])' = PartOf(bootCurrent)
    BY <1>1, <1>2 DEF PartOf, Matching, Existing
<1>5. Leads(1)'
    <2>1. 1 \in 1 .. Len(bootOrder') /\ \A q \in 1 .. Len(bootOrder') : ~(q < 1)
        BY <1>1 DEF TypeOK
    <2> QED
        BY <1>3, <1>4, <2>1 DEF Leads
<1>6. MainPart' = PartOf(bootCurrent)
    BY <1>4, <1>5, MainLeadsNext DEF MainIsFirst
<1>7. UNCHANGED <<PartOf(bootNext), PartOf(bootCurrent)>>
    BY <1>2 DEF PartOf, Matching, Existing
<1> QED
    BY <1>3, <1>6, <1>7 DEF Control!Confirm, Control!Forget

\* A boot leaves BootOrder alone and clears BootNext.
LEMMA RebootControl ==
    ASSUME PartCount \in Nat \ {0}, OldIds \in Nat, IInv, TypeOK', NEW broken, Boot(broken)
    PROVE  Control!Boot
<1>1. UNCHANGED <<entry, bootOrder>> /\ bootNext' = NoId
    BY DEF Boot
<1>2. \A k \in 1 .. Len(bootOrder) : PartOf(bootOrder[k])' = PartOf(bootOrder[k])
    BY <1>1 DEF PartOf, Matching, Existing
<1>3. MainPart' = MainPart
    BY <1>1, <1>2, SameMain DEF IInv
<1>4. PartOf(bootNext)' = NoPart
    <2>1. NoId \notin Existing'
        BY <1>1, Numbers DEF IInv, Existing
    <2> QED
        BY <1>1, <2>1 DEF PartOf
<1>5. PartOf(bootCurrent)' \in Partitions \cup {NoPart}
    BY DEF PartOf
<1> QED
    BY <1>3, <1>4, <1>5 DEF Control!Boot

\* Every step is one of the boot control, or none.
LEMMA NextControl ==
    ASSUME PartCount \in Nat \ {0}, OldIds \in Nat, IInv, IInv', [Next]_vars
    PROVE  [Control!Next]_<<MainPart, PartOf(bootNext), PartOf(bootCurrent), {}>>
<1> SUFFICES Control!Next \/ UNCHANGED <<MainPart, PartOf(bootNext), PartOf(bootCurrent)>>
    OBVIOUS
<1>1. TypeOK /\ TypeOK'
    BY DEF IInv
<1>2. CASE New \/ FindEntry \/ Exit \/ UNCHANGED vars
    <2>1. UNCHANGED firmware
        BY <1>2 DEF New, FindEntry, Exit, vars
    <2> QED
        BY <1>1, <2>1, SameFirmware
<1>3. CASE CreateEntry
    BY <1>1, <1>3, CreateControl
<1>4. CASE AppendToOrder \/ checkBootOrder
    <2>1. \/ \E p \in Partitions : Control!Adopt(p)
          \/ UNCHANGED <<MainPart, PartOf(bootNext), PartOf(bootCurrent)>>
        BY <1>1, <1>4, AppendControl, CheckControl
    <2> QED
        BY <2>1 DEF Control!Next
<1>5. CASE SetBootOK
    BY <1>1, <1>5, SetBootOKControl DEF Control!Next
<1>6. ASSUME NEW p \in Partitions, SetMainBoot(p) PROVE Control!Next
    BY <1>1, <1>6, SetMainBootControl DEF Control!Next
<1>7. ASSUME NEW broken \in SUBSET Existing, Boot(broken) PROVE Control!Next
    BY <1>1, <1>7, RebootControl DEF Control!Next
<1> QED
    BY <1>2, <1>3, <1>4, <1>5, <1>6, <1>7 DEF Next

(***************************************************************************)
(* The EFI boot controller implements the boot control, for any number of  *)
(* partitions and of boot entries: what New() creates and orders changes   *)
(* no main partition, wherever it is cut off (eficontroller.go).           *)
(***************************************************************************)
THEOREM EfiImplementsControl ==
    ASSUME PartCount \in Nat \ {0}, OldIds \in Nat PROVE Spec => ImplementsControl
<1>1. Init => Control!Init
    BY InitControl
<1>2. IInv /\ IInv' /\ [Next]_vars
        => [Control!Next]_<<MainPart, PartOf(bootNext), PartOf(bootCurrent), {}>>
    BY NextControl
<1>3. Spec => []IInv
    BY IInvAlways
<1> QED
    BY <1>1, <1>2, <1>3, PTL DEF Spec, ImplementsControl, Control!Spec
=============================================================================

-------------------------- MODULE NamePagingProofs --------------------------
(***************************************************************************)
(* Proofs about paging, for all names, limits and interleavings of bids    *)
(* with pages: a client that goes on after the last name of a page is      *)
(* given every name that was there all the time, in order and once.        *)
(***************************************************************************)
EXTENDS NamePaging, FiniteSetTheorems, SequenceTheorems, TLAPS

Bytes == 0 .. 255

----------------------------------------------------------------------------
(* The order of the storage is a strict total order.                       *)

\* The name padded without end: 0 after its last byte, and its bytes moved up
\* by one.  A name precedes another where they differ first and it is smaller.
At(name, i) == IF i <= Len(name) THEN name[i] + 1 ELSE 0

DifferFirst(a, b, i) ==
    /\ \A j \in 1 .. i - 1 : At(a, j) = At(b, j)
    /\ At(a, i) < At(b, i)

LEMMA BytesInNat ==
    ASSUME NEW name \in Seq(Bytes)
    PROVE  /\ Len(name) \in Nat
           /\ \A i \in 1 .. Len(name) : name[i] \in Nat
<1>1. \A i \in 1 .. Len(name) : name[i] \in Bytes
    OBVIOUS
<1>2. \A byte \in Bytes : byte \in Nat
    BY DEF Bytes
<1>3. Len(name) \in Nat
    OBVIOUS
<1> QED BY <1>1, <1>2, <1>3

LEMMA Padded ==
    ASSUME NEW name \in Seq(Bytes), NEW i \in Nat \ {0}
    PROVE  /\ At(name, i) \in Nat
           /\ At(name, i) = 0 <=> i > Len(name)
<1>1. Len(name) \in Nat
    BY BytesInNat
<1>2. i <= Len(name) => name[i] \in Nat
    BY <1>1, BytesInNat
<1> QED BY <1>1, <1>2 DEF At

LEMMA PrecedesPadded ==
    ASSUME NEW a \in Seq(Bytes), NEW b \in Seq(Bytes)
    PROVE  Precedes(a, b) <=> \E i \in Nat \ {0} : DifferFirst(a, b, i)
<1>1. /\ Len(a) \in Nat /\ Len(b) \in Nat
      /\ \A i \in 1 .. Len(a) : a[i] \in Nat
      /\ \A i \in 1 .. Len(b) : b[i] \in Nat
    BY BytesInNat
<1>2. ASSUME Precedes(a, b) PROVE \E i \in Nat \ {0} : DifferFirst(a, b, i)
    <2>1. PICK i \in 1 .. Len(b) :
            /\ \A j \in 1 .. i - 1 : j <= Len(a) /\ a[j] = b[j]
            /\ i <= Len(a) => a[i] < b[i]
        BY <1>2 DEF Precedes
    <2>2. i \in Nat \ {0} /\ i <= Len(b)
        BY <1>1, <2>1
    <2>3. ASSUME NEW j \in 1 .. i - 1 PROVE At(a, j) = At(b, j)
        BY <1>1, <2>1, <2>2 DEF At
    <2>4. At(a, i) < At(b, i)
        BY <1>1, <2>1, <2>2 DEF At
    <2> QED BY <2>2, <2>3, <2>4 DEF DifferFirst
<1>3. ASSUME NEW i \in Nat \ {0}, DifferFirst(a, b, i) PROVE Precedes(a, b)
    <2>1. At(a, i) \in Nat /\ At(b, i) \in Nat /\ At(a, i) < At(b, i)
        BY <1>3, Padded DEF DifferFirst
    <2>2. i \in 1 .. Len(b)
        BY <1>1, <2>1, Padded
    <2>3. i <= Len(a) => a[i] < b[i]
        BY <1>1, <2>1, <2>2 DEF At
    <2>4. ASSUME NEW j \in 1 .. i - 1 PROVE j <= Len(a) /\ a[j] = b[j]
        <3>1. At(a, j) = At(b, j) /\ j <= Len(b) /\ j \in Nat \ {0} /\ j \in 1 .. Len(b)
            BY <1>1, <1>3, <2>2 DEF DifferFirst
        <3>2. At(b, j) = b[j] + 1 /\ b[j] \in Nat
            BY <1>1, <3>1 DEF At
        <3>3. j <= Len(a)
            BY <1>1, <3>1, <3>2, Padded
        <3>4. At(a, j) = a[j] + 1 /\ a[j] \in Nat
            BY <1>1, <3>1, <3>3 DEF At
        <3> QED BY <3>1, <3>2, <3>3, <3>4
    <2> QED BY <2>2, <2>3, <2>4 DEF Precedes
<1> QED BY <1>2, <1>3

\* A set of natural numbers that is not empty has a least one.
LEMMA LeastOf ==
    ASSUME NEW T \in SUBSET Nat, T # {}
    PROVE  \E least \in T : \A n \in T : least <= n
<1> DEFINE R == OpToRel(<, Nat)
<1>1. IsWellFoundedOn(R, Nat)
    BY NatLessThanWellFounded
<1>2. \A m, n \in Nat : m < n => <<m, n>> \in R
    BY DEF OpToRel
<1> HIDE DEF R
<1>3. PICK least \in T : \A n \in T : <<n, least>> \notin R
    BY <1>1, WFMin
<1>4. \A n \in T : n \in Nat
    OBVIOUS
<1>5. ASSUME NEW n \in T PROVE least <= n
    <2>1. n \in Nat /\ least \in Nat /\ ~(n < least)
        BY <1>2, <1>3, <1>4
    <2> QED BY <2>1
<1> QED BY <1>5

LEMMA PrecedesTotal ==
    ASSUME NEW a \in Seq(Bytes), NEW b \in Seq(Bytes), a # b
    PROVE  Precedes(a, b) \/ Precedes(b, a)
<1> DEFINE T == {i \in Nat \ {0} : At(a, i) # At(b, i)}
<1>1. T # {}
    <2> SUFFICES ASSUME \A i \in Nat \ {0} : At(a, i) = At(b, i) PROVE FALSE
        OBVIOUS
    <2>1. Len(a) \in Nat /\ Len(b) \in Nat
        OBVIOUS
    <2>2. Len(a) = Len(b)
        <3>1. ~(Len(a) < Len(b))
            <4> SUFFICES ASSUME Len(a) < Len(b) PROVE FALSE
                OBVIOUS
            <4>1. Len(b) \in Nat \ {0}
                BY <2>1
            <4> QED BY <2>1, <4>1, Padded
        <3>2. ~(Len(b) < Len(a))
            <4> SUFFICES ASSUME Len(b) < Len(a) PROVE FALSE
                OBVIOUS
            <4>1. Len(a) \in Nat \ {0}
                BY <2>1
            <4> QED BY <2>1, <4>1, Padded
        <3> QED BY <2>1, <3>1, <3>2
    <2>3. ASSUME NEW i \in 1 .. Len(a) PROVE a[i] = b[i]
        <3>1. i \in Nat \ {0} /\ a[i] \in Nat /\ b[i] \in Nat
            <4>1. i \in 1 .. Len(b)
                BY <2>2
            <4> QED BY <2>1, <4>1, BytesInNat
        <3>2. At(a, i) = At(b, i)
            BY <3>1
        <3> QED BY <2>1, <2>2, <3>1, <3>2 DEF At
    <2> QED BY <2>2, <2>3, SeqEqual
<1>2. T \in SUBSET Nat
    OBVIOUS
<1>3. PICK i \in T : \A n \in T : i <= n
    BY <1>1, <1>2, LeastOf
<1>4. /\ i \in Nat \ {0} /\ At(a, i) # At(b, i)
      /\ \A j \in 1 .. i - 1 : At(a, j) = At(b, j)
    BY <1>3
<1>5. At(a, i) \in Nat /\ At(b, i) \in Nat
    BY <1>4, Padded
<1>6. DifferFirst(a, b, i) \/ DifferFirst(b, a, i)
    BY <1>4, <1>5 DEF DifferFirst
<1> QED BY <1>4, <1>6, PrecedesPadded

LEMMA PrecedesTransitive ==
    ASSUME NEW a \in Seq(Bytes), NEW b \in Seq(Bytes), NEW c \in Seq(Bytes),
           Precedes(a, b), Precedes(b, c)
    PROVE  Precedes(a, c)
<1>1. PICK i \in Nat \ {0} : DifferFirst(a, b, i)
    BY PrecedesPadded
<1>2. PICK k \in Nat \ {0} : DifferFirst(b, c, k)
    BY PrecedesPadded
<1> DEFINE m == IF i <= k THEN i ELSE k
<1>3. m \in Nat \ {0} /\ m <= i /\ m <= k /\ (m = i \/ m = k)
    OBVIOUS
<1>4. \A j \in Nat \ {0} : At(a, j) \in Nat /\ At(b, j) \in Nat /\ At(c, j) \in Nat
    BY Padded
<1> HIDE DEF m
<1>5. \A j \in 1 .. m - 1 : At(a, j) = At(c, j)
    BY <1>1, <1>2, <1>3 DEF DifferFirst
<1>6. /\ m < i => At(a, m) = At(b, m)
      /\ m < k => At(b, m) = At(c, m)
      /\ m = i => At(a, m) < At(b, m)
      /\ m = k => At(b, m) < At(c, m)
    BY <1>1, <1>2, <1>3 DEF DifferFirst
<1>7. At(a, m) < At(c, m)
    BY <1>3, <1>4, <1>6
<1> QED BY <1>3, <1>5, <1>7, PrecedesPadded DEF DifferFirst

LEMMA PrecedesIrreflexive ==
    ASSUME NEW a \in Seq(Bytes)
    PROVE  ~Precedes(a, a)
<1>1. \A i \in Nat \ {0} : At(a, i) \in Nat
    BY Padded
<1> QED BY <1>1, PrecedesPadded DEF DifferFirst

----------------------------------------------------------------------------
(* The range of a page.                                                    *)

\* The zero byte makes the first key that a name and all names before it do
\* not reach: exactly the names after start_after are in the range.
LEMMA RangeStartsAfter ==
    ASSUME NEW name \in Seq(Bytes), NEW start \in Seq(Bytes)
    PROVE  ~Precedes(name, calc_range_start_str(start)) <=> Precedes(start, name)
<1> DEFINE key == calc_range_start_str(start)
           end == Len(start) + 1
<1>1. key \in Seq(Bytes) /\ Len(start) \in Nat /\ Len(key) = end /\ key[end] = 0
      /\ \A i \in 1 .. Len(start) : key[i] = start[i]
    <2>1. 0 \in Bytes
        BY DEF Bytes
    <2> QED BY <2>1, AppendProperties DEF calc_range_start_str
<1>2. end \in Nat \ {0} /\ \A i \in Nat \ {0} : i < end <=> i <= Len(start)
    BY <1>1
<1>3. /\ \A i \in Nat \ {0} : i # end => At(key, i) = At(start, i)
      /\ At(key, end) = 1 /\ At(start, end) = 0
    BY <1>1, <1>2 DEF At
<1>4. \A i \in Nat \ {0} :
        At(key, i) \in Nat /\ At(start, i) \in Nat /\ At(name, i) \in Nat
    BY <1>1, Padded
<1> HIDE DEF key, end
<1>5. ASSUME Precedes(start, name), Precedes(name, key) PROVE FALSE
    <2>1. PICK i \in Nat \ {0} : DifferFirst(start, name, i)
        BY <1>5, PrecedesPadded
    <2>2. PICK k \in Nat \ {0} : DifferFirst(name, key, k)
        BY <1>1, <1>5, PrecedesPadded
    <2>3. i <= end
        <3> SUFFICES ASSUME end < i PROVE FALSE
            BY <1>2, <2>1
        <3>1. At(name, end) = 0 /\ At(start, end) = 0
            BY <1>2, <1>3, <2>1 DEF DifferFirst
        <3>2. At(name, i) = 0
            BY <1>2, <3>1, Padded, BytesInNat
        <3> QED BY <1>4, <2>1, <3>2 DEF DifferFirst
    <2>4. ASSUME k < i PROVE FALSE
        <3>1. At(start, k) = At(name, k) /\ At(key, k) = At(start, k)
            BY <1>2, <1>3, <2>1, <2>2, <2>3, <2>4 DEF DifferFirst
        <3> QED BY <1>4, <2>2, <3>1 DEF DifferFirst
    <2>5. ASSUME k = i PROVE FALSE
        <3>1. At(start, i) < At(name, i) /\ At(name, i) < At(key, i)
            BY <2>1, <2>2, <2>5 DEF DifferFirst
        <3>2. At(start, i) \in Nat /\ At(name, i) \in Nat /\ At(key, i) \in Nat
            BY <1>4, <2>1
        <3>3. At(key, i) = At(start, i) \/ (At(key, i) = 1 /\ At(start, i) = 0)
            BY <1>3, <2>1
        <3> QED BY <3>1, <3>2, <3>3
    <2>6. ASSUME i < k PROVE FALSE
        <3>1. At(start, i) < At(name, i) /\ At(name, i) = At(key, i)
            BY <2>1, <2>2, <2>6 DEF DifferFirst
        <3>2. i = end
            BY <1>3, <1>4, <3>1
        <3>3. At(key, k) = At(start, k) /\ At(start, k) = 0
            BY <1>1, <1>2, <1>3, <2>6, <3>2, Padded
        <3> QED BY <1>4, <2>2, <3>3 DEF DifferFirst
    <2> QED BY <2>1, <2>2, <2>4, <2>5, <2>6
<1>6. ASSUME ~Precedes(start, name) PROVE Precedes(name, key)
    <2>1. CASE name = start
        <3>1. DifferFirst(name, key, end)
            BY <1>2, <1>3, <2>1 DEF DifferFirst
        <3> QED BY <1>1, <1>2, <3>1, PrecedesPadded
    <2>2. CASE name # start
        <3>1. PICK k \in Nat \ {0} : DifferFirst(name, start, k)
            BY <1>6, <2>2, PrecedesTotal, PrecedesPadded
        <3>2. k < end
            <4>1. At(start, k) # 0
                BY <1>4, <3>1 DEF DifferFirst
            <4> QED BY <1>1, <1>2, <3>1, <4>1, Padded
        <3>3. DifferFirst(name, key, k)
            BY <1>2, <1>3, <3>1, <3>2 DEF DifferFirst
        <3> QED BY <1>1, <3>3, PrecedesPadded
    <2> QED BY <2>1, <2>2
<1> QED BY <1>5, <1>6 DEF key

----------------------------------------------------------------------------
(* The names of a page.                                                    *)

\* The ranks of some names are the numbers from zero to their number less one,
\* in the order of the names.
LEMMA RankOrders ==
    ASSUME NEW found, found \subseteq Seq(Bytes), IsFiniteSet(found),
           NEW a \in found, NEW b \in found
    PROVE  /\ rank(a, found) \in 0 .. Cardinality(found) - 1
           /\ Precedes(a, b) <=> rank(a, found) < rank(b, found)
           /\ a # b => rank(a, found) # rank(b, found)
<1> DEFINE before(name) == {other \in found : Precedes(other, name)}
<1>1. ASSUME NEW name \in found
      PROVE  /\ IsFiniteSet(before(name))
             /\ rank(name, found) = Cardinality(before(name))
             /\ rank(name, found) \in 0 .. Cardinality(found) - 1
             /\ rank(name, found) \in Nat
    <2>1. name \notin before(name)
        BY PrecedesIrreflexive
    <2>2. IsFiniteSet(before(name)) /\ IsFiniteSet(found \ {name})
          /\ before(name) \in SUBSET (found \ {name})
        BY <2>1, FS_Subset
    <2>3. /\ Cardinality(before(name)) <= Cardinality(found \ {name})
          /\ Cardinality(found \ {name}) = Cardinality(found) - 1
        BY <2>2, FS_Subset, FS_RemoveElement
    <2>4. /\ Cardinality(before(name)) \in Nat
          /\ Cardinality(found) \in Nat
        BY <2>2, FS_CardinalityType
    <2> QED BY <2>2, <2>3, <2>4 DEF rank
<1>2. ASSUME NEW x \in found, NEW y \in found, Precedes(x, y)
      PROVE  rank(x, found) < rank(y, found)
    <2>1. before(x) \subseteq before(y)
        BY <1>2, PrecedesTransitive
    <2>2. x \in before(y) /\ x \notin before(x)
        BY <1>2, PrecedesIrreflexive
    <2>3. /\ Cardinality(before(x)) <= Cardinality(before(y))
          /\ Cardinality(before(x)) # Cardinality(before(y))
        <3> HIDE DEF before
        <3> QED BY <1>1, <2>1, <2>2, FS_Subset
    <2>4. Cardinality(before(x)) \in Nat /\ Cardinality(before(y)) \in Nat
        BY <1>1, FS_CardinalityType
    <2> HIDE DEF before
    <2> QED BY <1>1, <2>3, <2>4
<1>3. /\ rank(a, found) \in 0 .. Cardinality(found) - 1
      /\ rank(a, found) \in Nat /\ rank(b, found) \in Nat
    BY <1>1
<1>4. a # b => Precedes(a, b) \/ Precedes(b, a)
    BY PrecedesTotal
<1>5. /\ Precedes(a, b) => rank(a, found) < rank(b, found)
      /\ Precedes(b, a) => rank(b, found) < rank(a, found)
    BY <1>2
<1>6. a = b => ~Precedes(a, b)
    BY PrecedesIrreflexive
<1> HIDE DEF before
<1> QED BY <1>3, <1>4, <1>5, <1>6

LEMMA RankReaches ==
    ASSUME NEW found, found \subseteq Seq(Bytes), IsFiniteSet(found),
           NEW k \in 0 .. Cardinality(found) - 1
    PROVE  \E name \in found : rank(name, found) = k
<1> DEFINE n == Cardinality(found)
           T == 0 .. n - 1
           f == [name \in found |-> rank(name, found)]
<1>1. n \in Nat
    BY FS_CardinalityType
<1>2. f \in Injection(found, T)
    <2>1. f \in [found -> T]
        BY RankOrders
    <2>2. DOMAIN f = found /\ \A a, b \in found : f[a] = f[b] => a = b
        BY RankOrders
    <2> HIDE DEF f, T
    <2> QED BY <2>1, <2>2 DEF Injection, IsInjective
<1>3. IsFiniteSet(T) /\ Cardinality(T) = n
    BY <1>1, FS_Interval
<1> HIDE DEF f, T, n
<1>4. f \in Surjection(found, T)
    BY <1>2, <1>3, FS_Injection DEF n
<1>5. \E name \in found : f[name] = k
    BY <1>4 DEF Surjection, T, n
<1> QED BY <1>5 DEF f

\* What a page is: the names of the range that come first, in order, and all of
\* them when it is shorter than asked for.  In particular it is empty only when
\* the range is.
LEMMA PageOf ==
    ASSUME stored \subseteq Names, IsFiniteSet(stored), NEW start \in Names \union {NoName},
           NEW limit \in Limits
    PROVE  LET names == collect_name_states(start, limit)
               found == {name \in stored : InRange(name, start)}
           IN  /\ names \in Seq(found)
               /\ \A j \in 1 .. Len(names) : \A i \in 1 .. j - 1 : Precedes(names[i], names[j])
               /\ \A name \in found \ NamesOf(names) :
                    \A i \in 1 .. Len(names) : Precedes(names[i], name)
               /\ names = <<>> => found = {}
<1> DEFINE found == {name \in stored : InRange(name, start)}
           n == Cardinality(found)
           size == page_size(limit)
           taken == IF n <= size THEN n ELSE size
           names == collect_name_states(start, limit)
<1>1. found \subseteq Seq(Bytes) /\ IsFiniteSet(found)
    <2>1. found \in SUBSET stored
        OBVIOUS
    <2> QED BY <2>1, FS_Subset, PagingAssumption DEF Bytes
<1>2. n \in Nat /\ (n = 0 <=> found = {})
    BY <1>1, FS_CardinalityType, FS_EmptySet
<1>3. size \in Nat \ {0}
    BY PagingAssumption DEF page_size
<1> HIDE DEF n, size
<1>4. taken \in Nat /\ taken <= n /\ (taken = 0 => n = 0)
    BY <1>2, <1>3
<1>5. names = [i \in 1 .. taken |-> CHOOSE name \in found : rank(name, found) = i - 1]
    BY DEF collect_name_states, n, size
<1> HIDE DEF taken, names, found
<1>6. ASSUME NEW i \in 1 .. taken
      PROVE  names[i] \in found /\ rank(names[i], found) = i - 1
    <2>1. i - 1 \in 0 .. Cardinality(found) - 1
        BY <1>2, <1>4 DEF n
    <2>2. \E name \in found : rank(name, found) = i - 1
        BY <1>1, <2>1, RankReaches
    <2> QED BY <1>5, <2>2
<1>7. names \in Seq(found) /\ Len(names) = taken
    <2>1. names \in [1 .. taken -> found]
        BY <1>5, <1>6
    <2> QED BY <1>4, <2>1, IsASeq
<1>8. ASSUME NEW j \in 1 .. taken, NEW i \in 1 .. j - 1
      PROVE  Precedes(names[i], names[j])
    <2>1. i \in 1 .. taken /\ i - 1 < j - 1
        BY <1>4
    <2> QED BY <1>1, <1>6, <2>1, RankOrders
<1>9. ASSUME NEW name \in found \ NamesOf(names), NEW i \in 1 .. taken
      PROVE  Precedes(names[i], name)
    <2> DEFINE k == rank(name, found)
    <2>1. k \in Nat /\ k <= n - 1
        BY <1>1, <1>2, RankOrders DEF n
    <2>2. ~(k + 1 <= taken)
        <3> SUFFICES ASSUME k + 1 <= taken PROVE FALSE
            OBVIOUS
        <3>1. k + 1 \in 1 .. taken
            BY <1>4, <2>1
        <3>2. names[k + 1] \in found /\ rank(names[k + 1], found) = k
            <4>1. (k + 1) - 1 = k
                BY <2>1
            <4> QED BY <1>6, <3>1, <4>1
        <3>3. names[k + 1] = name
            BY <1>1, <3>2, RankOrders
        <3> QED BY <1>7, <3>1, <3>3 DEF NamesOf
    <2> HIDE DEF k
    <2>3. i - 1 < k
        BY <1>4, <2>1, <2>2
    <2> QED BY <1>1, <1>6, <2>3, RankOrders DEF k
<1>10. names = <<>> => found = {}
    BY <1>2, <1>4, <1>7
<1> QED BY <1>7, <1>8, <1>9, <1>10 DEF names, found

----------------------------------------------------------------------------
(* The inductive invariant: the client has seen nothing that comes after   *)
(* the name it goes on from, and everything that was there all the time    *)
(* and does not.                                                           *)

Given == seen \union NamesOf(page)

PagingType ==
    /\ stored \subseteq Names
    /\ IsFiniteSet(stored)
    /\ at_start \subseteq stored
    /\ page \in Seq(Names)
    /\ seen \subseteq Names
    /\ cursor \in Names \union {NoName}

CursorIsLast ==
    /\ cursor = NoName => Given = {}
    /\ cursor # NoName =>
         \A name \in Given : name = cursor \/ Precedes(name, cursor)

PagingInv ==
    /\ PagingType
    /\ CursorIsLast
    /\ EachNameOnce
    /\ NothingSkipped

LEMMA NamesAreSequences ==
    Names \subseteq Seq(Bytes)
    BY PagingAssumption DEF Bytes

LEMMA NamesOfPage ==
    ASSUME NEW S, NEW names \in Seq(S)
    PROVE  /\ Len(names) \in Nat
           /\ NamesOf(names) = {names[i] : i \in 1 .. Len(names)}
           /\ NamesOf(names) \subseteq S
           /\ names # <<>> => Len(names) \in 1 .. Len(names)
           /\ NamesOf(<<>>) = {}
<1>1. Len(names) \in Nat /\ \A i \in 1 .. Len(names) : names[i] \in S
    OBVIOUS
<1>2. names # <<>> => Len(names) # 0
    BY EmptySeq
<1>3. NamesOf(<<>>) = {}
    BY DEF NamesOf
<1> QED BY <1>1, <1>2, <1>3 DEF NamesOf

LEMMA ReadPageKeepsInv ==
    ASSUME PagingInv, ReadPage
    PROVE  /\ PagingInv'
           /\ page' # <<>> => \A name \in Given : Precedes(name, cursor')
<1>1. PICK limit \in Limits : page' = collect_name_states(cursor, limit)
    BY DEF ReadPage
<1> DEFINE found == {name \in stored : InRange(name, cursor)}
           last == page'[Len(page')]
<1>2. /\ ~done /\ seen' = Given /\ done' = (page' = <<>>)
      /\ cursor' = (IF page' = <<>> THEN cursor ELSE last)
      /\ UNCHANGED <<stored, at_start>>
    BY DEF ReadPage, Given
<1>3. PagingType /\ CursorIsLast /\ EachNameOnce /\ NothingSkipped
    BY DEF PagingInv
<1>4. /\ page' \in Seq(found)
      /\ \A j \in 1 .. Len(page') : \A i \in 1 .. j - 1 : Precedes(page'[i], page'[j])
      /\ \A name \in found \ NamesOf(page') :
           \A i \in 1 .. Len(page') : Precedes(page'[i], name)
      /\ page' = <<>> => found = {}
    BY <1>1, <1>3, PageOf DEF PagingType
<1>5. /\ found \subseteq Names
      /\ \A name \in found : cursor # NoName => Precedes(cursor, name)
      /\ \A name \in stored \ found : cursor # NoName /\ ~Precedes(cursor, name)
    BY <1>3, NamesAreSequences, RangeStartsAfter DEF PagingType, InRange
<1> HIDE DEF found
<1>6. /\ Len(page') \in Nat /\ NamesOf(page') \subseteq found
      /\ page' # <<>> => Len(page') \in 1 .. Len(page')
      /\ page' = <<>> => NamesOf(page') = {}
      /\ \A i \in 1 .. Len(page') : page'[i] \in NamesOf(page')
      /\ \A name \in NamesOf(page') : \E i \in 1 .. Len(page') : name = page'[i]
    BY <1>4, NamesOfPage
<1>7. Given \subseteq Names
    BY <1>3, NamesOfPage DEF PagingType, Given
<1>8. PagingType'
    <2>1. page' \in Seq(Names)
        BY <1>4, <1>5, SeqMonotonic
    <2>2. page' # <<>> => last \in Names
        BY <1>5, <1>6
    <2> QED BY <1>2, <1>3, <1>7, <2>1, <2>2 DEF PagingType
<1>9. ASSUME NEW old \in Given, NEW name \in found
      PROVE  Precedes(old, name)
    <2>1. cursor # NoName /\ (old = cursor \/ Precedes(old, cursor))
        BY <1>3, <1>9 DEF CursorIsLast
    <2>2. Precedes(cursor, name) /\ cursor \in Names
        BY <1>3, <1>5, <2>1 DEF PagingType
    <2> QED BY <1>5, <1>7, <2>1, <2>2, NamesAreSequences, PrecedesTransitive
<1>10. ASSUME page' # <<>>, NEW name \in NamesOf(page')
       PROVE  name = last \/ Precedes(name, last)
    <2>1. PICK i \in 1 .. Len(page') : name = page'[i]
        BY <1>6, <1>10
    <2>2. i = Len(page') \/ i \in 1 .. Len(page') - 1
        BY <1>6
    <2> QED BY <1>4, <1>6, <1>10, <2>1, <2>2
<1>11. page' # <<>> => last \in found /\ cursor' = last
    BY <1>2, <1>6
<1>12. page' # <<>> => \A name \in Given : Precedes(name, cursor')
    BY <1>9, <1>11
<1> HIDE DEF last
<1>13. CursorIsLast'
    <2>1. CASE page' = <<>>
        <3>1. Given' = Given /\ cursor' = cursor
            BY <1>2, <1>6, <2>1 DEF Given
        <3> QED BY <1>3, <3>1 DEF CursorIsLast
    <2>2. CASE page' # <<>>
        <3>1. Given' = Given \union NamesOf(page')
            BY <1>2 DEF Given
        <3>2. cursor' # NoName
            BY <1>5, <1>11, <2>2, PagingAssumption
        <3> QED BY <1>10, <1>11, <1>12, <2>2, <3>1, <3>2 DEF CursorIsLast
    <2> QED BY <2>1, <2>2
<1>14. EachNameOnce'
    <2>1. ASSUME NEW j \in 1 .. Len(page')
          PROVE  /\ \A i \in 1 .. j - 1 : Precedes(page'[i], page'[j])
                 /\ \A name \in seen' : Precedes(name, page'[j])
        BY <1>2, <1>4, <1>6, <1>9
    <2>2. (\A j \in 1 .. Len(page) :
             /\ \A i \in 1 .. j - 1 : Precedes(page[i], page[j])
             /\ \A name \in seen : Precedes(name, page[j]))'
        BY <2>1 DEF Precedes
    <2> QED BY <2>2 DEF EachNameOnce
<1>15. NothingSkipped'
    <2>1. ASSUME NEW name \in at_start, name \notin seen', name \notin NamesOf(page')
          PROVE  ~done' /\ (cursor' # NoName => Precedes(cursor', name))
        <3>1. name \in stored /\ (cursor # NoName => Precedes(cursor, name))
            BY <1>2, <1>3, <2>1 DEF PagingType, NothingSkipped, Given
        <3>2. name \in found
            BY <1>5, <3>1
        <3>3. page' # <<>>
            BY <1>4, <3>2
        <3>4. Precedes(cursor', name)
            BY <1>4, <1>6, <1>11, <2>1, <3>2, <3>3 DEF last
        <3> QED BY <1>2, <3>3, <3>4
    <2>2. (\A name \in at_start :
             \/ name \in seen \union NamesOf(page)
             \/ ~done /\ (cursor # NoName => Precedes(cursor, name)))'
        BY <1>2, <2>1 DEF NamesOf, Precedes
    <2> QED BY <2>2 DEF NothingSkipped
<1> QED BY <1>8, <1>12, <1>13, <1>14, <1>15 DEF PagingInv

\* A client that begins has been given nothing and has everything before it.
LEMMA StartListingKeepsInv ==
    ASSUME PagingInv, StartListing
    PROVE  PagingInv'
<1>1. /\ cursor' = NoName /\ page' = <<>> /\ seen' = {} /\ done' = FALSE
      /\ at_start' = stored /\ stored' = stored
      /\ PagingType
    BY DEF StartListing, PagingInv
<1>2. page' \in Seq(Names) /\ Len(page') = 0 /\ NamesOf(page') = {}
    <2>1. <<>> \in Seq(Names) /\ Len(<<>>) = 0
        OBVIOUS
    <2>2. NamesOf(<<>>) = {}
        BY DEF NamesOf
    <2> QED BY <1>1, <2>1, <2>2
<1>3. PagingType'
    BY <1>1, <1>2 DEF PagingType
<1>4. Given' = {}
    BY <1>1, <1>2 DEF Given
<1>5. CursorIsLast'
    BY <1>1, <1>4 DEF CursorIsLast
<1>6. EachNameOnce'
    BY <1>2 DEF EachNameOnce
<1>7. NothingSkipped'
    BY <1>1 DEF NothingSkipped
<1> QED BY <1>3, <1>5, <1>6, <1>7 DEF PagingInv

\* The auction only adds records.
LEMMA AuctionKeepsPaging ==
    ASSUME PagingInv, UNCHANGED <<cursor, page, seen, done, at_start>>,
           NEW name \in Names, stored' = stored \/ stored' = stored \union {name}
    PROVE  PagingInv'
<1>1. stored' \subseteq Names /\ IsFiniteSet(stored') /\ at_start' \subseteq stored'
    BY FS_AddElement DEF PagingInv, PagingType
<1>2. PagingType'
    BY <1>1 DEF PagingInv, PagingType
<1>3. Given' = Given
    BY DEF Given, NamesOf
<1>4. CursorIsLast'
    BY <1>3 DEF PagingInv, CursorIsLast, Precedes
<1>5. EachNameOnce'
    <2>1. page' = page /\ seen' = seen /\ EachNameOnce
        BY DEF PagingInv
    <2> QED BY <2>1 DEF EachNameOnce
<1>6. NothingSkipped'
    BY DEF PagingInv, NothingSkipped, NamesOf, Precedes
<1> QED BY <1>2, <1>4, <1>5, <1>6 DEF PagingInv

LEMMA InitPagingInv == Init => PagingInv
<1> SUFFICES ASSUME Init PROVE PagingInv
    OBVIOUS
<1>1. NamesOf(page) = {} /\ Len(page) = 0 /\ page \in Seq(Names) /\ IsFiniteSet(stored)
    BY FS_EmptySet DEF Init, NamesOf
<1> QED BY <1>1
        DEF Init, PagingInv, PagingType, CursorIsLast, Given, EachNameOnce, NothingSkipped

LEMMA PagingStep == PagingInv /\ [Next]_vars => PagingInv'
<1> SUFFICES ASSUME PagingInv, [Next]_vars PROVE PagingInv'
    OBVIOUS
<1>1. CASE UNCHANGED vars
    BY <1>1 DEF vars, PagingInv, PagingType, CursorIsLast, Given, EachNameOnce,
                NothingSkipped, NamesOf, Precedes
<1>2. CASE StartListing
    BY <1>2, StartListingKeepsInv
<1>3. CASE ReadPage
    BY <1>3, ReadPageKeepsInv
<1>4. ASSUME NEW name \in Names, Bid(name) PROVE PagingInv'
    BY <1>4, AuctionKeepsPaging DEF Bid
<1>5. ASSUME NEW names \in SUBSET (stored \ owing), FallBehind(names) PROVE PagingInv'
    <2>1. PICK name : name \in names
        BY <1>5 DEF FallBehind
    <2>2. name \in Names
        BY <2>1 DEF PagingInv, PagingType
    <2> QED BY <1>5, <2>2, AuctionKeepsPaging DEF FallBehind
<1> QED BY <1>1, <1>2, <1>3, <1>4, <1>5 DEF Next

LEMMA PagingInvariance == SafeSpec => []PagingInv
    BY InitPagingInv, PagingStep, PTL DEF SafeSpec

\* The client is given the names in ascending order over all pages, so none
\* twice, whatever limits it mixes and whatever is bid on between two pages.
THEOREM NamesGivenOnce == SafeSpec => []EachNameOnce
    BY PagingInvariance, PTL DEF PagingInv

\* The pages leave no gap: at the end of the listing the client has been given
\* every name that was there when it began.
THEOREM NamesNotSkipped == SafeSpec => []NothingSkipped
    BY PagingInvariance, PTL DEF PagingInv

\* No page is given again and again: each is the end, or goes past every name
\* given before it.  (That the client comes to the end rests on this.)
THEOREM PagesGoOn ==
    SafeSpec => [][ReadPage => done' \/ \A name \in Given : Precedes(name, cursor')]_vars
<1>1. PagingInv /\ [Next]_vars =>
        [ReadPage => done' \/ \A name \in Given : Precedes(name, cursor')]_vars
    BY ReadPageKeepsInv DEF ReadPage
<1> QED BY <1>1, PagingInvariance, PTL DEF SafeSpec

=============================================================================

--------------------------- MODULE PRServerProofs ---------------------------
(***************************************************************************)
(* What TLAPS proves of the PR server: the answers of the queries of its   *)
(* table; that what a client was told is in the table from then on,        *)
(* whatever breaks or crashes, and is told again to requests with history; *)
(* and that values do not go down without upstream and below ten.          *)
(***************************************************************************)
EXTENDS PRServer, WellFoundedInduction, FiniteSetTheorems, SequenceTheorems, TLAPS

(***************************************************************************)
(* Revisions and the order of their texts.                                 *)
(***************************************************************************)

\* A set of numbers has a least one.
LEMMA LeastExists ==
    ASSUME NEW T, T \subseteq Nat, T # {}
    PROVE  /\ Min(T) \in T
           /\ \A n \in T : Min(T) <= n
<1>1. PICK m \in T : \A n \in T : ~(<<n, m>> \in OpToRel(<, Nat))
  BY NatLessThanWellFounded, WFMin
<1>2. \A n \in T : ~(n < m)
  BY <1>1 DEF OpToRel
<1>3. \A n \in T : m <= n
  BY <1>2
<1> QED
  BY <1>3 DEF Min

\* The order of numbers as text tells any two of them apart.
LEMMA KeyOrders ==
    ASSUME NEW m \in Nat, NEW n \in Nat
    PROVE  /\ Key(m) \in Nat
           /\ Key(m) = Key(n) => m = n
  BY Z3 DEF Key

\* Below ten, the order of texts is that of numbers.
LEMMA KeySmall ==
    ASSUME NEW m \in Nat, NEW n \in Nat, m < 10, n < 10
    PROVE  Key(m) < Key(n) <=> m < n
  BY DEF Key

\* The order of texts, at the first place where two revisions part.
Parts(a, b, i) ==
    /\ 1 <= i /\ i <= Len(b) /\ i <= Len(a) + 1
    /\ \A j \in Nat : 1 <= j /\ j < i => a[j] = b[j]
    /\ i <= Len(a) => Key(a[i]) < Key(b[i])

LEMMA RevisionFacts ==
    ASSUME NEW a \in Seq(Nat)
    PROVE  /\ Len(a) \in Nat
           /\ \A i \in Nat : 1 <= i /\ i <= Len(a) => a[i] \in Nat /\ Key(a[i]) \in Nat
<1>1. Len(a) \in Nat /\ \A i \in Nat : 1 <= i /\ i <= Len(a) => a[i] \in Nat
  OBVIOUS
<1> QED
  BY <1>1, KeyOrders

LEMMA DifferIs ==
    ASSUME NEW a \in Seq(Nat), NEW b \in Seq(Nat)
    PROVE  /\ \A i : i \in Differ(a, b) <=>
                  i \in Nat /\ 1 <= i /\ i <= Len(a) /\ i <= Len(b) /\ a[i] # b[i]
           /\ Differ(a, b) = {} <=> \A i \in Nat :
                  1 <= i /\ i <= Len(a) /\ i <= Len(b) => a[i] = b[i]
           /\ Differ(a, b) # {} =>
                  /\ Min(Differ(a, b)) \in Differ(a, b)
                  /\ \A i \in Differ(a, b) : Min(Differ(a, b)) <= i
<1>1. Len(a) \in Nat /\ Len(b) \in Nat
  OBVIOUS
<1>2. {Len(a), Len(b)} \subseteq Nat /\ {Len(a), Len(b)} # {}
  BY <1>1
<1>3. /\ Min({Len(a), Len(b)}) \in {Len(a), Len(b)}
      /\ Min({Len(a), Len(b)}) <= Len(a) /\ Min({Len(a), Len(b)}) <= Len(b)
  BY <1>2, LeastExists
<1>4. \A i : i \in Differ(a, b) <=>
          i \in Nat /\ 1 <= i /\ i <= Len(a) /\ i <= Len(b) /\ a[i] # b[i]
  BY <1>1, <1>3 DEF Differ
<1>5. Differ(a, b) \subseteq Nat
  BY <1>4
<1>6. Differ(a, b) = {} <=> \A i \in Nat :
          1 <= i /\ i <= Len(a) /\ i <= Len(b) => a[i] = b[i]
  <2>1. Differ(a, b) = {} <=> \A i : i \notin Differ(a, b)
    OBVIOUS
  <2> QED
    BY <1>4, <2>1
<1> QED
  BY <1>4, <1>5, <1>6, LeastExists

LEMMA PrefixIs ==
    ASSUME NEW a \in Seq(Nat), NEW b \in Seq(Nat)
    PROVE  IsPrefix(a, b) <=> Len(a) <= Len(b) /\ Differ(a, b) = {}
<1>1. Len(a) \in Nat /\ Len(b) \in Nat
  OBVIOUS
<1>2. SubSeq(a, 1, Len(a)) = a
  BY SubSeqFull
<1>3. ASSUME Len(a) <= Len(b)
      PROVE  SubSeq(b, 1, Len(a)) = a <=> \A i \in 1 .. Len(a) : a[i] = b[i]
  <2> DEFINE p == SubSeq(b, 1, Len(a))
  <2>1. \A i \in 1 .. Len(a) : b[i] \in Nat
    BY <1>1, <1>3
  <2>2. p \in Seq(Nat) /\ Len(p) = Len(a) /\ \A i \in 1 .. Len(a) : p[i] = b[i]
    BY <1>1, <2>1, SubSeqProperties
  <2> HIDE DEF p
  <2>3. ASSUME \A i \in 1 .. Len(a) : a[i] = b[i] PROVE p = a
    <3>1. \A i \in 1 .. Len(p) : p[i] = a[i]
      BY <2>2, <2>3
    <3> QED
      BY <2>2, <3>1, SeqEqual
  <2>4. p = a => \A i \in 1 .. Len(a) : a[i] = b[i]
    BY <2>2
  <2>5. p = a <=> \A i \in 1 .. Len(a) : a[i] = b[i]
    BY <2>3, <2>4
  <2> QED
    BY <2>5 DEF p
<1>4. ASSUME Len(a) <= Len(b)
      PROVE  Differ(a, b) = {} <=> \A i \in 1 .. Len(a) : a[i] = b[i]
  <2>1. Differ(a, b) = {} <=> \A i \in Nat :
            1 <= i /\ i <= Len(a) /\ i <= Len(b) => a[i] = b[i]
    BY DifferIs
  <2>2. \A i : i \in 1 .. Len(a) <=> i \in Nat /\ 1 <= i /\ i <= Len(a) /\ i <= Len(b)
    BY <1>1, <1>4
  <2> QED
    BY <2>1, <2>2
<1> QED
  BY <1>2, <1>3, <1>4 DEF IsPrefix

LEMMA TextLessParts ==
    ASSUME NEW a \in Seq(Nat), NEW b \in Seq(Nat)
    PROVE  TextLess(a, b) <=> \E i \in Nat : Parts(a, b, i)
<1> DEFINE m == Min(Differ(a, b))
<1>1. Len(a) \in Nat /\ Len(b) \in Nat
  OBVIOUS
<1>2. \A i : i \in Differ(a, b) <=>
          i \in Nat /\ 1 <= i /\ i <= Len(a) /\ i <= Len(b) /\ a[i] # b[i]
  BY DifferIs
<1>3. Differ(a, b) # {} => m \in Differ(a, b) /\ \A i \in Differ(a, b) : m <= i
  BY DifferIs
<1>8. Differ(a, b) = {} <=> \A i \in Nat :
          1 <= i /\ i <= Len(a) /\ i <= Len(b) => a[i] = b[i]
  BY DifferIs
<1>4. TextLess(a, b) <=> \/ a # b /\ Len(a) <= Len(b) /\ Differ(a, b) = {}
                         \/ Differ(a, b) # {} /\ Key(a[m]) < Key(b[m])
  BY PrefixIs DEF TextLess
<1> HIDE DEF m
<1>5. ASSUME a # b, Len(a) <= Len(b), Differ(a, b) = {} PROVE Parts(a, b, Len(a) + 1)
  <2>1. \A j \in Nat : 1 <= j /\ j <= Len(a) => a[j] = b[j]
    BY <1>1, <1>5, <1>8
  <2>2. ASSUME Len(a) = Len(b) PROVE FALSE
    <3>1. \A j \in 1 .. Len(a) : a[j] = b[j]
      BY <1>1, <2>1
    <3> QED
      BY <1>5, <2>2, <3>1, SeqEqual
  <2> QED
    BY <1>1, <1>5, <2>1, <2>2 DEF Parts
<1>6. ASSUME Differ(a, b) # {}, Key(a[m]) < Key(b[m]) PROVE Parts(a, b, m)
  <2>1. m \in Nat /\ 1 <= m /\ m <= Len(a) /\ m <= Len(b)
    BY <1>2, <1>3, <1>6
  <2>2. \A j \in Nat : 1 <= j /\ j < m => a[j] = b[j]
    <3> SUFFICES ASSUME NEW j \in Nat, 1 <= j, j < m, a[j] # b[j] PROVE FALSE
      OBVIOUS
    <3>1. j <= Len(a) /\ j <= Len(b)
      BY <1>1, <2>1
    <3>2. j \in Differ(a, b)
      BY <1>2, <3>1
    <3> QED
      BY <1>3, <2>1, <3>2
  <2> QED
    BY <1>1, <1>6, <2>1, <2>2 DEF Parts
<1>7. ASSUME NEW i \in Nat, Parts(a, b, i) PROVE TextLess(a, b)
  <2>1. /\ 1 <= i /\ i <= Len(b) /\ i <= Len(a) + 1
        /\ \A j \in Nat : 1 <= j /\ j < i => a[j] = b[j]
        /\ i <= Len(a) => Key(a[i]) < Key(b[i])
    BY <1>1, <1>7 DEF Parts
  <2>2. CASE i = Len(a) + 1
    BY <1>1, <1>3, <1>2, <1>4, <1>8, <2>1, <2>2
  <2>3. CASE i <= Len(a)
    <3>1. a[i] # b[i]
      BY <1>1, <2>1, <2>3, RevisionFacts
    <3>2. i \in Differ(a, b)
      BY <1>2, <2>1, <2>3, <3>1
    <3>3. m \in Nat /\ 1 <= m /\ m <= i /\ a[m] # b[m]
      BY <1>2, <1>3, <3>2
    <3>4. m = i
      BY <2>1, <3>3
    <3> QED
      BY <1>4, <2>1, <2>3, <3>2, <3>4
  <2> QED
    BY <1>1, <2>1, <2>2, <2>3
<1> QED
  BY <1>1, <1>3, <1>2, <1>4, <1>5, <1>6, <1>7

LEMMA TextLessTransitive ==
    ASSUME NEW a \in Seq(Nat), NEW b \in Seq(Nat), NEW c \in Seq(Nat),
           TextLess(a, b), TextLess(b, c)
    PROVE  TextLess(a, c)
<1>0. Len(a) \in Nat /\ Len(b) \in Nat /\ Len(c) \in Nat
  OBVIOUS
<1>1. PICK i \in Nat : Parts(a, b, i)
  BY TextLessParts
<1>2. PICK j \in Nat : Parts(b, c, j)
  BY TextLessParts
<1>3. /\ 1 <= i /\ i <= Len(b) /\ i <= Len(a) + 1
      /\ i <= Len(a) => Key(a[i]) < Key(b[i])
  BY <1>1 DEF Parts
<1>4. /\ 1 <= j /\ j <= Len(c) /\ j <= Len(b) + 1
      /\ j <= Len(b) => Key(b[j]) < Key(c[j])
  BY <1>2 DEF Parts
<1>5. /\ \A k \in Nat : 1 <= k /\ k < i => a[k] = b[k]
      /\ \A k \in Nat : 1 <= k /\ k < j => b[k] = c[k]
  BY <1>1, <1>2 DEF Parts
<1>6. CASE i <= j
  <2>1. ASSUME i <= Len(a) PROVE Key(a[i]) < Key(c[i])
    <3>1. i <= Len(c) /\ Key(a[i]) < Key(b[i])
      BY <1>0, <1>3, <1>4, <1>6, <2>1
    <3>2. Key(a[i]) \in Nat /\ Key(b[i]) \in Nat /\ Key(c[i]) \in Nat
      BY <1>3, <2>1, <3>1, RevisionFacts
    <3>3. b[i] = c[i] \/ Key(b[i]) < Key(c[i])
      BY <1>0, <1>3, <1>4, <1>5, <1>6
    <3> QED
      BY <3>1, <3>2, <3>3
  <2>2. i <= Len(c)
    BY <1>0, <1>3, <1>4, <1>6
  <2>3. \A k \in Nat : 1 <= k /\ k < i => a[k] = c[k]
    BY <1>5, <1>6
  <2>4. Parts(a, c, i)
    BY <1>3, <2>1, <2>2, <2>3 DEF Parts
  <2> QED
    BY <2>4, TextLessParts
<1>7. CASE j < i
  <2>1. j <= Len(a) /\ j <= Len(b) /\ j <= Len(a) + 1
    <3>1. i <= Len(b) /\ i <= Len(a) + 1
      BY <1>3
    <3> QED
      BY <1>0, <1>7, <3>1
  <2>2. a[j] = b[j] /\ Key(b[j]) < Key(c[j])
    BY <1>4, <1>5, <1>7, <2>1
  <2>3. \A k \in Nat : 1 <= k /\ k < j => a[k] = c[k]
    BY <1>5, <1>7
  <2>4. Parts(a, c, j)
    BY <1>4, <2>1, <2>2, <2>3 DEF Parts
  <2> QED
    BY <2>4, TextLessParts
<1> QED
  BY <1>6, <1>7

LEMMA TextLessIrreflexive ==
    ASSUME NEW a \in Seq(Nat)
    PROVE  ~TextLess(a, a)
<1>1. ASSUME NEW i \in Nat, Parts(a, a, i) PROVE FALSE
  BY <1>1, RevisionFacts DEF Parts
<1> QED
  BY <1>1, TextLessParts

LEMMA TextLessTotal ==
    ASSUME NEW a \in Seq(Nat), NEW b \in Seq(Nat), a # b
    PROVE  TextLess(a, b) \/ TextLess(b, a)
<1>0. Len(a) \in Nat /\ Len(b) \in Nat
  OBVIOUS
<1>1. CASE Differ(a, b) = {}
  <2>1. \A j \in Nat : 1 <= j /\ j <= Len(a) /\ j <= Len(b) => a[j] = b[j]
    BY <1>1, DifferIs
  <2>2. ASSUME Len(a) = Len(b) PROVE FALSE
    <3>1. \A j \in 1 .. Len(a) : a[j] = b[j]
      BY <1>0, <2>1, <2>2
    <3> QED
      BY <2>2, <3>1, SeqEqual
  <2>3. CASE Len(a) < Len(b)
    <3>1. \A j \in Nat : 1 <= j /\ j < Len(a) + 1 => a[j] = b[j]
      <4>1. \A j \in Nat : j < Len(a) + 1 => j <= Len(a) /\ j <= Len(b)
        BY <1>0, <2>3
      <4> QED
        BY <2>1, <4>1
    <3>2. Parts(a, b, Len(a) + 1)
      BY <1>0, <2>3, <3>1 DEF Parts
    <3> QED
      BY <1>0, <3>2, TextLessParts
  <2>4. CASE Len(b) < Len(a)
    <3>1. \A j \in Nat : 1 <= j /\ j < Len(b) + 1 => b[j] = a[j]
      <4>1. \A j \in Nat : j < Len(b) + 1 => j <= Len(a) /\ j <= Len(b)
        BY <1>0, <2>4
      <4> QED
        BY <2>1, <4>1
    <3>2. Parts(b, a, Len(b) + 1)
      BY <1>0, <2>4, <3>1 DEF Parts
    <3> QED
      BY <1>0, <3>2, TextLessParts
  <2> QED
    BY <1>0, <2>2, <2>3, <2>4
<1>2. CASE Differ(a, b) # {}
  <2>1. PICK i \in Differ(a, b) : \A j \in Differ(a, b) : i <= j
    BY <1>2, DifferIs
  <2>2. i \in Nat /\ 1 <= i /\ i <= Len(a) /\ i <= Len(b) /\ a[i] # b[i]
    BY DifferIs
  <2>3. \A j \in Nat : 1 <= j /\ j < i => j <= Len(a) /\ j <= Len(b) /\ a[j] = b[j]
    <3> SUFFICES ASSUME NEW j \in Nat, 1 <= j, j < i
                 PROVE  j <= Len(a) /\ j <= Len(b) /\ a[j] = b[j]
      OBVIOUS
    <3>1. j <= Len(a) /\ j <= Len(b) /\ j \notin Differ(a, b)
      BY <1>0, <2>1, <2>2
    <3> QED
      BY <3>1, DifferIs
  <2>4. a[i] \in Nat /\ b[i] \in Nat
    BY <2>2
  <2>5. Key(a[i]) < Key(b[i]) \/ Key(b[i]) < Key(a[i])
    <3>1. Key(a[i]) \in Nat /\ Key(b[i]) \in Nat /\ Key(a[i]) # Key(b[i])
      BY <2>2, <2>4, KeyOrders
    <3> QED
      BY <3>1
  <2>6. Parts(a, b, i) \/ Parts(b, a, i)
    BY <1>0, <2>2, <2>3, <2>5 DEF Parts
  <2> QED
    BY <2>2, <2>6, TextLessParts
<1> QED
  BY <1>1, <1>2

(***************************************************************************)
(* Queries of the table, in the order of its index.                        *)
(***************************************************************************)

Rows == [checksum : Nat, value : Revision]

\* The index orders the rows.
LEMMA FollowsOrders ==
    ASSUME NEW r \in Rows, NEW s \in Rows, NEW t \in Rows
    PROVE  /\ ~Follows(r, r)
           /\ Follows(r, s) /\ Follows(s, t) => Follows(r, t)
           /\ Follows(r, s) => ~Follows(s, r)
           /\ r # s => Follows(r, s) \/ Follows(s, r)
<1>1. /\ {r.value, s.value, t.value} \subseteq Seq(Nat)
      /\ {r.checksum, s.checksum, t.checksum} \subseteq Nat
  BY DEF Rows, Revision
<1>2. ~Follows(r, r) /\ ~Follows(s, s)
  BY <1>1, TextLessIrreflexive DEF Follows
<1>3. ASSUME NEW u \in Rows, NEW v \in Rows, NEW w \in Rows, Follows(u, v), Follows(v, w)
      PROVE  Follows(u, w)
  <2>1. /\ {u.value, v.value, w.value} \subseteq Seq(Nat)
        /\ {u.checksum, v.checksum, w.checksum} \subseteq Nat
    BY DEF Rows, Revision
  <2>2. TextLess(w.value, v.value) /\ TextLess(v.value, u.value)
            => TextLess(w.value, u.value)
    BY <2>1, TextLessTransitive
  <2> QED
    BY <1>3, <2>1, <2>2 DEF Follows
<1>4. r # s => r.checksum # s.checksum \/ r.value # s.value
  BY DEF Rows
<1>5. r.value # s.value => TextLess(r.value, s.value) \/ TextLess(s.value, r.value)
  BY <1>1, TextLessTotal
<1>6. r # s => Follows(r, s) \/ Follows(s, r)
  BY <1>1, <1>4, <1>5 DEF Follows
<1> QED
  BY <1>2, <1>3, <1>6

\* Of finitely many, one is above which there is none.
LEMMA TopExists ==
    ASSUME NEW S, IsFiniteSet(S), S # {}, NEW R,
           \A x \in S : <<x, x>> \notin R,
           \A x, y, z \in S : <<x, y>> \in R /\ <<y, z>> \in R => <<x, z>> \in R
    PROVE  \E x \in S : \A y \in S : <<y, x>> \notin R
<1> DEFINE Above(x) == {y \in S : <<y, x>> \in R}
           size == [x \in S |-> Cardinality(Above(x))]
           T == {size[x] : x \in S}
<1>1. \A x \in S : IsFiniteSet(Above(x)) /\ Cardinality(Above(x)) \in Nat
  BY FS_Subset, FS_CardinalityType
<1>0. \A x \in S : size[x] = Cardinality(Above(x)) /\ size[x] \in Nat
  BY <1>1
<1> HIDE DEF size
<1>2. T \subseteq Nat /\ T # {}
  <2>1. PICK x : x \in S
    OBVIOUS
  <2>2. size[x] \in T
    BY <2>1
  <2>3. \A n \in T : n \in Nat
    BY <1>0
  <2> QED
    BY <2>2, <2>3
<1>3. PICK x \in S : \A y \in S : size[x] <= size[y]
  <2>1. PICK m \in T : \A n \in T : m <= n
    BY <1>2, LeastExists
  <2>2. PICK x \in S : m = size[x]
    BY <2>1
  <2>3. \A y \in S : size[y] \in T
    OBVIOUS
  <2> QED
    BY <2>1, <2>2, <2>3
<1>4. ASSUME NEW y \in S, <<y, x>> \in R PROVE FALSE
  <2>1. Above(y) \subseteq Above(x) /\ y \notin Above(y) /\ y \in Above(x)
    BY <1>4
  <2>2. Cardinality(Above(y)) <= Cardinality(Above(x)) /\ Above(y) # Above(x)
    BY <1>1, <2>1, FS_Subset
  <2>3. Cardinality(Above(y)) # Cardinality(Above(x))
    BY <1>1, <2>1, <2>2, FS_Subset
  <2>4. size[x] <= size[y] /\ size[x] \in Nat /\ size[y] \in Nat
    BY <1>0, <1>3, <1>4
  <2> QED
    BY <1>0, <1>4, <2>2, <2>3, <2>4
<1> QED
  BY <1>4

\* Of some rows, one is the last.
LEMMA LastExists ==
    ASSUME NEW some, some \subseteq Rows, IsFiniteSet(some), some # {}
    PROVE  \E r \in some : LastOf(some) = {r} /\ \A s \in some \ {r} : Follows(r, s)
<1> DEFINE R == {p \in some \X some : Follows(p[1], p[2])}
<1>1. \A r, s : <<r, s>> \in R <=> r \in some /\ s \in some /\ Follows(r, s)
  OBVIOUS
<1>2. /\ \A x \in some : <<x, x>> \notin R
      /\ \A x, y, z \in some : <<x, y>> \in R /\ <<y, z>> \in R => <<x, z>> \in R
  BY <1>1, FollowsOrders
<1> HIDE DEF R
<1>3. PICK r \in some : \A s \in some : <<s, r>> \notin R
  BY <1>2, TopExists
<1>4. \A s \in some \ {r} : Follows(r, s)
  BY <1>1, <1>3, FollowsOrders
<1>5. LastOf(some) = {r}
  BY <1>4, FollowsOrders DEF LastOf
<1> QED
  BY <1>4, <1>5

LEMMA LastOfNone == LastOf({}) = {}
  BY DEF LastOf

\* The rows taken, of those read.
Better(v, w, largest) ==
    IF largest THEN revision_greater(v, w) ELSE revision_smaller(v, w)
Before(sel, r) == {s \in sel : Follows(r, s)}
Taken(some, sel, largest) ==
    /\ some \in SUBSET sel
    /\ \A r \in sel : r \in some <=>
          \A s \in LastOf(some \cap Before(sel, r)) : Better(r.value, s.value, largest)

LEMMA TakenExists ==
    ASSUME NEW sel, sel \subseteq Rows, IsFiniteSet(sel), NEW largest
    PROVE  \E some : Taken(some, sel, largest)
<1> DEFINE Fails(part) == part \in SUBSET sel /\ ~\E some : Taken(some, part, largest)
           T == {n \in Nat : \E part \in SUBSET sel : Fails(part) /\ Cardinality(part) = n}
<1>1. \A part \in SUBSET sel : IsFiniteSet(part) /\ Cardinality(part) \in Nat
  BY FS_Subset, FS_CardinalityType
<1>2. ASSUME Fails(sel) PROVE FALSE
  <2>1. T # {} /\ T \subseteq Nat
    BY <1>1, <1>2
  <2>2. Min(T) \in T /\ \A n \in T : Min(T) <= n
    BY <2>1, LeastExists
  <2>3. PICK part \in SUBSET sel : /\ Fails(part)
                                   /\ \A p \in SUBSET sel : Fails(p) =>
                                          Cardinality(part) <= Cardinality(p)
    BY <1>1, <2>2
  <2>4. part # {}
    <3>1. Taken({}, {}, largest)
      BY DEF Taken
    <3> QED
      BY <2>3, <3>1
  <2>5. PICK r \in part : \A s \in part \ {r} : Follows(r, s)
    BY <1>1, <2>4, LastExists
  <2> DEFINE rest == part \ {r}
  <2>6. rest \in SUBSET sel /\ Cardinality(rest) < Cardinality(part)
    BY <1>1, FS_RemoveElement
  <2>7. PICK some : Taken(some, rest, largest)
    BY <1>1, <2>3, <2>6
  <2>8. \A s \in rest : Before(part, s) = Before(rest, s)
    BY <2>5, FollowsOrders DEF Before
  <2>9. Before(part, r) = rest
    BY <2>5, FollowsOrders DEF Before
  <2> DEFINE whole == IF \A s \in LastOf(some) : Better(r.value, s.value, largest)
                      THEN some \cup {r} ELSE some
  <2>10. some \subseteq rest /\ r \notin some
    BY <2>7 DEF Taken
  <2>11. whole \cap Before(part, r) = some
    BY <2>9, <2>10
  <2>12. \A s \in rest : whole \cap Before(part, s) = some \cap Before(rest, s)
    BY <2>8, <2>10 DEF Before
  <2>13. \A s \in rest : s \in whole <=> s \in some
    OBVIOUS
  <2>14. r \in whole <=> \A s \in LastOf(some) : Better(r.value, s.value, largest)
    BY <2>10
  <2>15. whole \in SUBSET part
    BY <2>10
  <2> HIDE DEF whole, rest
  <2>16. \A t \in part : t = r \/ t \in rest
    BY DEF rest
  <2>17. Taken(whole, part, largest)
    BY <2>7, <2>11, <2>12, <2>13, <2>14, <2>15, <2>16 DEF Taken
  <2> QED
    BY <2>3, <2>17
<1> QED
  BY <1>2

\* A query of rows is answered with the value of the row taken last.
LEMMA ExtremumTaken ==
    ASSUME NEW sel, sel \subseteq Rows, IsFiniteSet(sel), sel # {}, NEW largest
    PROVE  \E some, r : /\ Taken(some, sel, largest)
                        /\ r \in some /\ \A s \in some \ {r} : Follows(r, s)
                        /\ extremum_value(sel, largest) = r.value
<1> DEFINE some == CHOOSE some \in SUBSET sel : \A r \in sel :
               r \in some <=> \A s \in LastOf(some \cap Before(sel, r)) :
                                  Better(r.value, s.value, largest)
<1>1. Taken(some, sel, largest)
  <2>1. \E kept \in SUBSET sel : \A r \in sel :
            r \in kept <=> \A s \in LastOf(kept \cap Before(sel, r)) :
                               Better(r.value, s.value, largest)
    BY TakenExists DEF Taken
  <2> QED
    BY <2>1 DEF Taken
<1>2. extremum_value(sel, largest) = (CHOOSE r \in LastOf(some) : TRUE).value
  BY DEF extremum_value, Better, Before
<1> HIDE DEF some
<1>3. some # {}
  BY <1>1, LastOfNone DEF Taken
<1>4. some \subseteq Rows /\ IsFiniteSet(some)
  BY <1>1, FS_Subset DEF Taken
<1>5. PICK r \in some : LastOf(some) = {r} /\ \A s \in some \ {r} : Follows(r, s)
  BY <1>3, <1>4, LastExists
<1> QED
  BY <1>1, <1>2, <1>5

LEMMA ExtremumAmong ==
    ASSUME NEW sel, sel \subseteq Rows, IsFiniteSet(sel), sel # {}, NEW largest
    PROVE  \E r \in sel : extremum_value(sel, largest) = r.value
  BY ExtremumTaken DEF Taken

\* The first of the best rows is taken, and none after it: of revisions of one
\* number, a query is answered with the greatest or the smallest.
Number == {<<n>> : n \in Nat}

LEMMA BetterNumber ==
    ASSUME NEW v \in Number, NEW w \in Number
    PROVE  /\ v[1] \in Nat /\ w[1] \in Nat /\ v \in Revision
           /\ v = w <=> v[1] = w[1]
           /\ \A largest \in BOOLEAN :
                  Better(v, w, largest) <=> IF largest THEN v[1] > w[1] ELSE v[1] < w[1]
<1>1. /\ v[1] \in Nat /\ w[1] \in Nat /\ v \in Seq(Nat) /\ w \in Seq(Nat)
      /\ Len(v) = 1 /\ Len(w) = 1 /\ v \in Revision
      /\ v = w <=> v[1] = w[1]
  <2>1. PICK m \in Nat, n \in Nat : v = <<m>> /\ w = <<n>>
    BY DEF Number
  <2> QED
    BY <2>1 DEF Revision
<1>2. /\ \A i : i \in Differ(v, w) <=> i = 1 /\ v[1] # w[1]
      /\ Differ(v, w) = {} <=> v[1] = w[1]
  BY <1>1, DifferIs
<1>3. Differ(v, w) # {} => Min(Differ(v, w)) = 1
  BY <1>1, <1>2, DifferIs
<1>4. revision_greater_or_equal(v, w) <=> v[1] >= w[1]
  BY <1>1, <1>2, <1>3 DEF revision_greater_or_equal
<1> QED
  BY <1>1, <1>4 DEF Better, revision_greater, revision_smaller

LEMMA ExtremumOfNumbers ==
    ASSUME NEW sel, sel \subseteq Rows, IsFiniteSet(sel), sel # {}, NEW largest \in BOOLEAN,
           \A r \in sel : r.value \in Number
    PROVE  /\ \E r \in sel : extremum_value(sel, largest) = r.value
           /\ \A r \in sel : ~Better(r.value, extremum_value(sel, largest), largest)
<1> DEFINE Beats(x, y) == \/ Better(x.value, y.value, largest)
                          \/ x.value = y.value /\ Follows(y, x)
           R == {p \in sel \X sel : Beats(p[1], p[2])}
<1>1. \A r, s : <<r, s>> \in R <=> r \in sel /\ s \in sel /\ Beats(r, s)
  OBVIOUS
<1>2. ASSUME NEW x \in sel, NEW y \in sel, NEW z \in sel
      PROVE  ~Beats(x, x) /\ (Beats(x, y) /\ Beats(y, z) => Beats(x, z))
  <2>1. /\ {x.value, y.value, z.value} \subseteq Number
        /\ {x, y, z} \subseteq Rows
    OBVIOUS
  <2>2. ~Follows(x, x) /\ (Follows(z, y) /\ Follows(y, x) => Follows(z, x))
    BY <2>1, FollowsOrders
  <2>3. ~Better(x.value, x.value, largest)
    BY <2>1, BetterNumber
  <2>4. Better(x.value, y.value, largest) /\ Better(y.value, z.value, largest)
            => Better(x.value, z.value, largest)
    BY <2>1, BetterNumber
  <2> QED
    BY <2>2, <2>3, <2>4
<1> HIDE DEF R
<1>3. PICK x \in sel : \A y \in sel : ~Beats(y, x)
  <2>0. /\ \A u \in sel : <<u, u>> \notin R
        /\ \A u, v, w \in sel : <<u, v>> \in R /\ <<v, w>> \in R => <<u, w>> \in R
    BY <1>1, <1>2
  <2>1. \E x \in sel : \A y \in sel : <<y, x>> \notin R
    BY <2>0, TopExists
  <2> QED
    BY <1>1, <2>1
<1>4. PICK some, r : /\ Taken(some, sel, largest)
                     /\ r \in some /\ \A s \in some \ {r} : Follows(r, s)
                     /\ extremum_value(sel, largest) = r.value
  BY ExtremumTaken
<1>5. some \in SUBSET sel /\ some \subseteq Rows /\ IsFiniteSet(some)
  BY <1>4, FS_Subset DEF Taken
<1>6. \A y \in sel : LastOf(some \cap Before(sel, y)) \subseteq some \cap Before(sel, y)
  BY DEF LastOf
<1>7. x \in some
  <2>1. ASSUME NEW s \in sel, Follows(x, s) PROVE Better(x.value, s.value, largest)
    <3>1. ~Better(s.value, x.value, largest) /\ s.value # x.value
      BY <1>3, <2>1
    <3> QED
      BY <3>1, BetterNumber
  <2> QED
    BY <1>4, <1>6, <2>1 DEF Taken, Before
<1>8. ASSUME r # x PROVE FALSE
  <2> DEFINE later == {y \in some : Follows(y, x)}
             Q == {p \in later \X later : Follows(p[2], p[1])}
  <2>1. r \in later
    BY <1>4, <1>7, <1>8
  <2>2. later \subseteq Rows /\ later \subseteq sel /\ IsFiniteSet(later)
    BY <1>5, FS_Subset
  <2>3. \A y, z : <<y, z>> \in Q <=> y \in later /\ z \in later /\ Follows(z, y)
    OBVIOUS
  <2> HIDE DEF Q
  <2>4. PICK y \in later : \A z \in later : ~Follows(y, z)
    <3>1. /\ \A u \in later : <<u, u>> \notin Q
          /\ \A u, v, w \in later : <<u, v>> \in Q /\ <<v, w>> \in Q => <<u, w>> \in Q
      BY <2>2, <2>3, FollowsOrders
    <3>2. later # {} /\ IsFiniteSet(later)
      BY <2>1, <2>2
    <3> HIDE DEF later
    <3>3. \E y \in later : \A z \in later : <<z, y>> \notin Q
      BY <3>1, <3>2, TopExists
    <3> QED
      BY <2>3, <3>3
  <2>5. x \in Rows /\ y \in Rows /\ Follows(y, x) /\ y \in some
    BY <2>2
  <2>6. ASSUME NEW s \in some \cap Before(sel, y), s # x PROVE Follows(x, s)
    <3>1. Follows(y, s) /\ s \in Rows /\ s \in some
      BY <1>5 DEF Before
    <3>2. s \notin later
      BY <2>4, <3>1
    <3> QED
      BY <2>5, <2>6, <3>1, <3>2, FollowsOrders
  <2>7. x \in some \cap Before(sel, y)
    BY <1>7, <2>5 DEF Before
  <2>8. x \in LastOf(some \cap Before(sel, y))
    BY <2>6, <2>7 DEF LastOf
  <2>9. Better(y.value, x.value, largest)
    BY <1>4, <1>5, <2>5, <2>8 DEF Taken
  <2> QED
    BY <1>3, <1>5, <2>5, <2>9
<1> QED
  BY <1>3, <1>4, <1>8

(***************************************************************************)
(* Who is told what: answers are in the table.                             *)
(***************************************************************************)

\* handler and client hold records of the fields of NoHandler and Idle.
ShapeInv ==
    /\ DOMAIN handler = Conn
    /\ \A k \in Conn : DOMAIN handler[k] = {"pc", "req", "value", "max", "answer"}
    /\ DOMAIN client = Client
    /\ \A c \in Client : DOMAIN client[c] = {"req", "conn", "tries", "floor"}

\* A client that listens to a connection is the one whose request is handled
\* there.
Heard(h, c) == h.pc # "free" /\ h.req = c.req

ListenInv ==
    \A c \in Client, k \in Conn : client[c].conn = k => Heard(handler[k], client[c])

IInv == ShapeInv /\ ListenInv /\ AnswersStored

LEMMA InitIInv == Init => IInv
  BY PRServerAssumption
     DEF Init, IInv, ShapeInv, ListenInv, AnswersStored, NoHandler, Idle

\* The handler of a connection goes on with its request.
LEMMA GoesKeeps ==
    ASSUME IInv, NEW k \in Conn, NEW to, Goes(k, to),
           DOMAIN to = DOMAIN handler[k], to.req = handler[k].req, to.pc # "free"
    PROVE  IInv'
<1>1. /\ handler' = [handler EXCEPT ![k] = to]
      /\ UNCHANGED <<rows, client, answers>>
  BY DEF Goes, outside, history
<1>2. ShapeInv'
  BY <1>1 DEF IInv, ShapeInv
<1>3. ListenInv'
  BY <1>1 DEF IInv, ShapeInv, ListenInv, Heard
<1>4. AnswersStored'
  BY <1>1 DEF IInv, AnswersStored
<1> QED
  BY <1>2, <1>3, <1>4 DEF IInv

\* The answer is in the table when it is sent, under the checksum asked for.
LEMMA StoreAndReturnKeeps ==
    ASSUME IInv, NEW k \in Conn, NEW value, StoreAndReturn(k, value)
    PROVE  IInv'
<1>1. /\ rows' = rows \cup {Row(handler[k].req.checksum, value)}
      /\ handler' = [handler EXCEPT ![k] = NoHandler]
      /\ client' = [c \in Client |-> IF c \in Listening(k) THEN Idle ELSE client[c]]
      /\ answers' = answers \cup
             {[req |-> client[c].req, value |-> value,
               low |-> Below(value, client[c].floor)] : c \in Listening(k)}
  BY DEF StoreAndReturn, Return, Stored
<1>2. ShapeInv'
  BY <1>1 DEF IInv, ShapeInv, NoHandler, Idle
<1>3. ListenInv'
  <2> SUFFICES ASSUME NEW c \in Client, NEW l \in Conn, client'[c].conn = l
               PROVE  Heard(handler'[l], client'[c])
    BY DEF ListenInv
  <2>1. c \notin Listening(k) /\ client'[c] = client[c]
    BY <1>1, PRServerAssumption DEF Idle
  <2>2. l # k /\ handler'[l] = handler[l]
    BY <1>1, <2>1 DEF Listening, IInv, ShapeInv
  <2> QED
    BY <2>1, <2>2 DEF IInv, ListenInv
<1>4. AnswersStored'
  <2> SUFFICES ASSUME NEW a \in answers', a \notin answers
               PROVE  Row(a.req.checksum, a.value) \in rows'
    BY <1>1 DEF IInv, AnswersStored
  <2>1. PICK c \in Listening(k) : /\ a.req = client[c].req /\ a.value = value
    BY <1>1
  <2>2. client[c].req = handler[k].req
    BY <2>1 DEF Listening, IInv, ListenInv, Heard
  <2> QED
    BY <1>1, <2>1, <2>2
<1> QED
  BY <1>2, <1>3, <1>4 DEF IInv

LEMMA HandlerKeeps ==
    ASSUME IInv, NEW k \in Conn, HandlerStep(k)
    PROVE  IInv'
<1>0. DOMAIN handler[k] = {"pc", "req", "value", "max", "answer"}
  BY DEF IInv, ShapeInv
<1>1. ASSUME GetValue(k) PROVE IInv'
  BY <1>1, StoreAndReturnKeeps DEF GetValue
<1>2. ASSUME Begin(k) PROVE IInv'
  <2> DEFINE found == find_value(rows, handler[k].req.checksum, handler[k].req.history)
             to == [handler[k] EXCEPT !.pc = "ask_max", !.value = found]
  <2>1. GetValue(k) \/ Goes(k, to)
    BY <1>2 DEF Begin
  <2> HIDE DEF found
  <2>2. DOMAIN to = DOMAIN handler[k] /\ to.req = handler[k].req /\ to.pc # "free"
    BY <1>0
  <2> HIDE DEF to
  <2> QED
    BY <1>1, <2>1, <2>2, GoesKeeps
<1>3. ASSUME UpstreamAnswers(k) PROVE IInv'
  <2>1. PICK answer : \/ Goes(k, [handler[k] EXCEPT !.pc = "ask_package"])
                      \/ Goes(k, [handler[k] EXCEPT !.pc = Asking[handler[k].pc],
                                                    !.answer = answer])
    BY <1>3 DEF UpstreamAnswers
  <2>2. Asking[handler[k].pc] # "free"
    BY <1>3 DEF UpstreamAnswers, Asking
  <2> DEFINE to1 == [handler[k] EXCEPT !.pc = "ask_package"]
             to2 == [handler[k] EXCEPT !.pc = Asking[handler[k].pc], !.answer = answer]
  <2>3. DOMAIN to1 = DOMAIN handler[k] /\ to1.req = handler[k].req /\ to1.pc # "free"
    BY <1>0
  <2>4. DOMAIN to2 = DOMAIN handler[k] /\ to2.req = handler[k].req /\ to2.pc # "free"
    BY <1>0, <2>2
  <2>5. Goes(k, to1) \/ Goes(k, to2)
    BY <2>1
  <2> HIDE DEF to1, to2
  <2> QED
    BY <2>3, <2>4, <2>5, GoesKeeps
<1>4. ASSUME KnownHistory(k) PROVE IInv'
  BY <1>1, <1>4 DEF KnownHistory
<1>5. ASSUME Known(k) PROVE IInv'
  <2>1. PICK value : \/ Goes(k, [handler[k] EXCEPT !.pc = "ask_known", !.max = handler[k].answer])
                     \/ StoreAndReturn(k, value)
    BY <1>5 DEF Known
  <2> DEFINE to == [handler[k] EXCEPT !.pc = "ask_known", !.max = handler[k].answer]
  <2>2. DOMAIN to = DOMAIN handler[k] /\ to.req = handler[k].req /\ to.pc # "free"
    BY <1>0
  <2>3. Goes(k, to) \/ StoreAndReturn(k, value)
    BY <2>1
  <2> HIDE DEF to
  <2> QED
    BY <2>2, <2>3, GoesKeeps, StoreAndReturnKeeps
<1>6. ASSUME KnownFails(k) \/ UpstreamFails(k) PROVE IInv'
  <2>1. /\ handler' = [handler EXCEPT ![k] = NoHandler]
        /\ client' = [c \in Client |-> IF c \in Listening(k)
                                       THEN [client[c] EXCEPT !.conn = None]
                                       ELSE client[c]]
        /\ UNCHANGED <<rows, answers>>
    BY <1>6 DEF KnownFails, UpstreamFails, HandlerFails, history
  <2>2. ShapeInv'
    BY <2>1 DEF IInv, ShapeInv, NoHandler
  <2>3. ListenInv'
    <3> SUFFICES ASSUME NEW c \in Client, NEW l \in Conn, client'[c].conn = l
                 PROVE  Heard(handler'[l], client'[c])
      BY DEF ListenInv
    <3>1. c \notin Listening(k)
      <4>1. ASSUME c \in Listening(k) PROVE client'[c].conn = None
        BY <2>1, <4>1 DEF IInv, ShapeInv
      <4> QED
        BY <4>1, PRServerAssumption
    <3>2. client'[c] = client[c] /\ l # k
      BY <2>1, <3>1 DEF Listening
    <3> QED
      BY <2>1, <3>2 DEF IInv, ListenInv, ShapeInv
  <2> QED
    BY <2>1, <2>2, <2>3 DEF IInv, AnswersStored
<1>7. ASSUME KnownBelow(k) PROVE IInv'
  BY <1>7, StoreAndReturnKeeps DEF KnownBelow
<1>8. ASSUME Package(k) PROVE IInv'
  <2> DEFINE to == [handler[k] EXCEPT !.pc = "ask_new", !.answer = None]
  <2>1. GetValue(k) \/ Goes(k, to)
    BY <1>8 DEF Package
  <2>2. DOMAIN to = DOMAIN handler[k] /\ to.req = handler[k].req /\ to.pc # "free"
    BY <1>0
  <2> HIDE DEF to
  <2> QED
    BY <1>1, <2>1, <2>2, GoesKeeps
<1>9. ASSUME NewUpstream(k) PROVE IInv'
  <2> DEFINE to == [handler[k] EXCEPT !.pc = "ask_new_max"]
  <2>1. StoreAndReturn(k, handler[k].answer) \/ Goes(k, to)
    BY <1>9 DEF NewUpstream
  <2>2. DOMAIN to = DOMAIN handler[k] /\ to.req = handler[k].req /\ to.pc # "free"
    BY <1>0
  <2> HIDE DEF to
  <2> QED
    BY <2>1, <2>2, GoesKeeps, StoreAndReturnKeeps
<1>10. ASSUME NewHere(k) PROVE IInv'
  BY <1>10, StoreAndReturnKeeps DEF NewHere
<1> QED
  BY <1>2, <1>3, <1>4, <1>5, <1>6, <1>7, <1>8, <1>9, <1>10 DEF HandlerStep

\* A request goes to a connection nobody listens to.
LEMMA SentKeeps ==
    ASSUME IInv, NEW c \in Client, NEW k \in Conn, k \in Free, NEW req, NEW to,
           DOMAIN to = {"req", "conn", "tries", "floor"}, to.req = req, to.conn = k,
           client' = [client EXCEPT ![c] = to],
           handler' = [handler EXCEPT ![k] = Started(req)],
           UNCHANGED <<rows, answers>>
    PROVE  IInv'
<1>1. /\ DOMAIN Started(req) = {"pc", "req", "value", "max", "answer"}
      /\ Started(req).pc # "free" /\ Started(req).req = req
  BY DEF Started, NoHandler
<1>2. \A d \in Client : client[d].conn # k
  BY DEF Free, NoHandler, IInv, ListenInv, Heard
<1>3. ShapeInv'
  BY <1>1 DEF IInv, ShapeInv
<1>4. ListenInv'
  BY <1>1, <1>2 DEF IInv, ShapeInv, ListenInv, Heard
<1> QED
  BY <1>3, <1>4 DEF IInv, AnswersStored

\* A client that hangs up listens to nothing, and to no less does nobody else.
LEMMA HangsUpKeeps ==
    ASSUME IInv, NEW c \in Client, NEW to,
           DOMAIN to = {"req", "conn", "tries", "floor"}, to.conn = None,
           client' = [client EXCEPT ![c] = to], UNCHANGED <<rows, handler, answers>>
    PROVE  IInv'
<1>1. ShapeInv'
  BY DEF IInv, ShapeInv
<1>2. ListenInv'
  BY PRServerAssumption DEF IInv, ShapeInv, ListenInv
<1> QED
  BY <1>1, <1>2 DEF IInv, AnswersStored

LEMMA StepIInv == IInv /\ [Next]_vars => IInv'
<1> SUFFICES ASSUME IInv, [Next]_vars PROVE IInv'
  OBVIOUS
<1>0. \A c \in Client : DOMAIN client[c] = {"req", "conn", "tries", "floor"}
  BY DEF IInv, ShapeInv
<1>1. ASSUME NEW req \in Request, getPR(req) PROVE IInv'
  <2> DEFINE c == CHOOSE d \in AtRest : TRUE
             to == [req |-> req, conn |-> FreeConn, tries |-> 0, floor |-> greatest]
  <2>1. c \in Client /\ FreeConn \in Conn /\ FreeConn \in Free
    BY <1>1 DEF getPR, AtRest, FreeConn, Free
  <2>2. /\ client' = [client EXCEPT ![c] = to]
        /\ handler' = [handler EXCEPT ![FreeConn] = Started(req)]
        /\ UNCHANGED <<rows, answers>>
    BY <1>1 DEF getPR, history
  <2>3. DOMAIN to = {"req", "conn", "tries", "floor"} /\ to.req = req /\ to.conn = FreeConn
    OBVIOUS
  <2> HIDE DEF c, to
  <2> QED
    BY <2>1, <2>2, <2>3, SentKeeps
<1>2. ASSUME NEW c \in Client, Resend(c) PROVE IInv'
  <2> DEFINE to == [client[c] EXCEPT !.conn = FreeConn, !.tries = client[c].tries + 1]
  <2>1. FreeConn \in Conn /\ FreeConn \in Free
    BY <1>2 DEF Resend, SendAgain, FreeConn, Free
  <2>2. /\ client' = [client EXCEPT ![c] = to]
        /\ handler' = [handler EXCEPT ![FreeConn] = Started(client[c].req)]
        /\ UNCHANGED <<rows, answers>>
    BY <1>2 DEF Resend, SendAgain, history, IInv, ShapeInv
  <2>3. /\ DOMAIN to = {"req", "conn", "tries", "floor"}
        /\ to.req = client[c].req /\ to.conn = FreeConn
    BY <1>0
  <2> HIDE DEF to
  <2> QED
    BY <2>1, <2>2, <2>3, SentKeeps
<1>3. ASSUME NEW c \in Client, GiveUp(c) PROVE IInv'
  <2>1. /\ client' = [client EXCEPT ![c] = Idle] /\ UNCHANGED <<rows, handler, answers>>
    BY <1>3 DEF GiveUp, history
  <2>2. DOMAIN Idle = {"req", "conn", "tries", "floor"} /\ Idle.conn = None
    BY DEF Idle
  <2> QED
    BY <2>1, <2>2, HangsUpKeeps
<1>4. ASSUME NEW c \in Client, Break(c) PROVE IInv'
  <2> DEFINE to == [client[c] EXCEPT !.conn = None]
  <2>1. /\ client' = [client EXCEPT ![c] = to] /\ UNCHANGED <<rows, handler, answers>>
    BY <1>4 DEF Break, history, IInv, ShapeInv
  <2>2. DOMAIN to = {"req", "conn", "tries", "floor"} /\ to.conn = None
    BY <1>0
  <2> HIDE DEF to
  <2> QED
    BY <2>1, <2>2, HangsUpKeeps
<1>5. ASSUME Crash PROVE IInv'
  <2>1. /\ handler' = [k \in Conn |-> NoHandler]
        /\ client' = [c \in Client |-> [client[c] EXCEPT !.conn = None]]
        /\ UNCHANGED <<rows, answers>>
    BY <1>5 DEF Crash, history
  <2>2. ShapeInv'
    BY <2>1 DEF IInv, ShapeInv, NoHandler
  <2>3. \A c \in Client : client'[c].conn = None
    BY <1>0, <2>1
  <2>4. ListenInv'
    BY <2>3, PRServerAssumption DEF ListenInv
  <2> QED
    BY <2>1, <2>2, <2>4 DEF IInv, AnswersStored
<1>6. ASSUME (\E checksum \in Checksum : UpstreamGets(checksum)) \/ UNCHANGED vars
      PROVE  IInv'
  <2>1. UNCHANGED <<rows, handler, client, answers>>
    BY <1>6 DEF UpstreamGets, vars, history
  <2> QED
    BY <2>1 DEF IInv, ShapeInv, ListenInv, AnswersStored
<1> QED
  BY <1>1, <1>2, <1>3, <1>4, <1>5, <1>6, HandlerKeeps DEF Next, ClientStep

(***************************************************************************)
(* Types.                                                                  *)
(***************************************************************************)

Table(table) == table \subseteq [checksum : Checksum, value : Revision] /\ IsFiniteSet(table)

LEMMA TableRows ==
    ASSUME NEW table, Table(table), NEW sel, sel \subseteq table
    PROVE  sel \subseteq Rows /\ IsFiniteSet(sel)
<1>1. IsFiniteSet(sel)
  BY FS_Subset DEF Table
<1>2. Checksum \subseteq Nat
  BY PRServerAssumption
<1> QED
  BY <1>1, <1>2 DEF Table, Rows

LEMMA NoneIsNoRevision == None \notin Revision
  BY PRServerAssumption DEF Revision

LEMMA IncreaseType ==
    ASSUME NEW rev \in Revision
    PROVE  increase_revision(rev) \in Revision
<1>1. rev \in Seq(Nat) /\ Len(rev) \in 1 .. Len(rev) /\ rev[Len(rev)] + 1 \in Nat
  BY EmptySeq DEF Revision
<1> DEFINE up == [rev EXCEPT ![Len(rev)] = rev[Len(rev)] + 1]
<1>2. up \in Seq(Nat) /\ Len(up) = Len(rev)
  BY <1>1, ExceptSeq
<1>3. increase_revision(rev) = up
  BY DEF increase_revision
<1> HIDE DEF up
<1> QED
  BY <1>1, <1>2, <1>3, EmptySeq DEF Revision

LEMMA AppendType ==
    ASSUME NEW rev \in Revision
    PROVE  Append(rev, 0) \in Revision
  BY DEF Revision

\* A query is answered None if there is no row for it, and with the value of
\* one otherwise.
LEMMA QueryType ==
    ASSUME NEW table, Table(table), NEW sel, sel \subseteq table, NEW largest
    PROVE  /\ extremum_value(sel, largest) = None <=> sel = {}
           /\ extremum_value(sel, largest) \in Revision \cup {None}
<1>1. sel = {} => extremum_value(sel, largest) = None
  BY DEF extremum_value
<1>2. ASSUME sel # {} PROVE extremum_value(sel, largest) \in Revision
  <2>1. \E r \in sel : extremum_value(sel, largest) = r.value
    BY <1>2, TableRows, ExtremumAmong
  <2> QED
    BY <2>1 DEF Table
<1> QED
  BY <1>1, <1>2, NoneIsNoRevision

LEMMA FindTypes ==
    ASSUME NEW table, Table(table), NEW checksum, NEW with
    PROVE  /\ find_package_max_value(table) \in Revision \cup {None}
           /\ find_package_max_value(table) = None <=> table = {}
           /\ find_value(table, checksum, with) \in Revision \cup {None}
           /\ find_value(table, checksum, with) # None => table # {}
<1>1. /\ find_package_max_value(table) \in Revision \cup {None}
      /\ find_package_max_value(table) = None <=> table = {}
  BY QueryType DEF find_package_max_value
<1> DEFINE sel == {r \in table : r.checksum = checksum}
<1>2. sel \subseteq table
  OBVIOUS
<1>3. find_value(table, checksum, with) = extremum_value(sel, ~with)
  BY DEF find_value
<1> HIDE DEF sel
<1> QED
  BY <1>1, <1>2, <1>3, QueryType

LEMMA GetValueType ==
    ASSUME NEW table, Table(table), NEW checksum, NEW with
    PROVE  _get_value(table, checksum, with) \in Revision
<1> DEFINE max_value == find_package_max_value(table)
           value == find_value(table, checksum, with)
<1>1. max_value \in Revision \cup {None} /\ value \in Revision \cup {None}
  BY FindTypes
<1>2. max_value = None => value = None
  BY FindTypes
<1>3. <<0>> \in Revision
  BY DEF Revision
<1>4. max_value # None => increase_revision(max_value) \in Revision
  BY <1>1, IncreaseType
<1> HIDE DEF max_value, value
<1>5. _get_value(table, checksum, with) \in {<<0>>, increase_revision(max_value), value}
  BY DEF _get_value, max_value, value
<1> QED
  BY <1>1, <1>2, <1>3, <1>4 DEF _get_value, max_value, value

LEMMA SubvalueType ==
    ASSUME NEW table, Table(table), NEW base \in Revision
    PROVE  find_new_subvalue(table, base) \in Revision
<1> DEFINE sel == {r \in table : base # r.value /\ IsPrefix(base, r.value)}
           value == extremum_value(sel, TRUE)
<1>1. value \in Revision \cup {None}
  BY QueryType
<1>2. find_new_subvalue(table, base) =
          IF value = None THEN Append(base, 0) ELSE increase_revision(value)
  BY DEF find_new_subvalue
<1> HIDE DEF value
<1> QED
  BY <1>1, <1>2, AppendType, IncreaseType

\* What a handler waits with is known; that upstream knows the package stays so.
HandlerOK(h) ==
    /\ h.req \in Request \cup {None}
    /\ {h.value, h.max} \subseteq Revision \cup {None}
    /\ h.pc # "free" => h.req \in Request
    /\ h.pc \in {"max", "known", "new"} => h.answer \in Revision \cup {None}
    /\ h.pc = "max" => h.value # None
    /\ h.value # None => rows # {}
    /\ h.pc \in {"ask_known", "known"} => h.max # None
    /\ h.pc \in {"ask_new", "new", "ask_new_max"} => uprows # {}
    /\ h.pc = "package" => (h.answer => uprows # {})
    /\ h.pc = "new_max" => h.answer \in Revision

ClientOK(d) ==
    /\ d.req \in Request \cup {None}
    /\ d.conn \in Conn \cup {None}
    /\ d.tries \in 0 .. MaxTries

TypeInv ==
    /\ Table(rows) /\ Table(uprows)
    /\ \A k \in Conn : HandlerOK(handler[k])
    /\ \A c \in Client : ClientOK(client[c])

LEMMA TypeInvImplies == TypeInv => TypeOK
  BY DEF TypeInv, Table, HandlerOK, ClientOK, TypeOK

LEMMA FreeOK == HandlerOK(NoHandler) /\ ClientOK(Idle)
  BY PRServerAssumption DEF HandlerOK, ClientOK, NoHandler, Idle

LEMMA InitTypeInv == Init => TypeInv
<1> SUFFICES ASSUME Init PROVE TypeInv
  OBVIOUS
<1>1. Max(Checksum) \in Checksum
  <2> DEFINE R == {p \in Checksum \X Checksum : p[1] > p[2]}
  <2>1. \A m, n : <<m, n>> \in R <=> m \in Checksum /\ n \in Checksum /\ m > n
    OBVIOUS
  <2>2. Checksum \subseteq Nat /\ Checksum # {} /\ IsFiniteSet(Checksum)
    BY PRServerAssumption
  <2> HIDE DEF R
  <2>3. /\ \A x \in Checksum : <<x, x>> \notin R
        /\ \A x, y, z \in Checksum : <<x, y>> \in R /\ <<y, z>> \in R => <<x, z>> \in R
    BY <2>1, <2>2
  <2>4. PICK m \in Checksum : \A n \in Checksum : <<n, m>> \notin R
    BY <2>2, <2>3, TopExists
  <2>5. \A n \in Checksum : m >= n
    <3> SUFFICES ASSUME NEW n \in Checksum PROVE m >= n
      OBVIOUS
    <3>1. m \in Nat /\ n \in Nat /\ ~(n > m)
      BY <2>1, <2>2, <2>4
    <3> QED
      BY <3>1
  <2> QED
    BY <2>5 DEF Max
<1>2. \A n \in Starts : <<n>> \in Revision
  BY PRServerAssumption DEF Revision
<1>3. Table({}) /\ \A n \in Starts : Table({Row(Max(Checksum), <<n>>)})
  <2>1. Table({})
    BY FS_EmptySet DEF Table
  <2>2. ASSUME NEW n \in Starts PROVE Table({Row(Max(Checksum), <<n>>)})
    <3>1. Row(Max(Checksum), <<n>>) \in [checksum : Checksum, value : Revision]
      BY <1>1, <1>2 DEF Row
    <3> QED
      BY <3>1, FS_Singleton DEF Table
  <2> QED
    BY <2>1, <2>2
<1>4. Table(rows) /\ Table(uprows)
  BY <1>3 DEF Init
<1> QED
  BY <1>4, FreeOK DEF Init, TypeInv

\* A row more: a table stays one, and what handlers know stays true.
LEMMA StoredTable ==
    ASSUME NEW table, Table(table), NEW checksum \in Checksum, NEW value \in Revision
    PROVE  Table(table \cup {Row(checksum, value)}) /\ table \cup {Row(checksum, value)} # {}
<1>1. IsFiniteSet(table \cup {Row(checksum, value)})
  BY FS_AddElement DEF Table
<1>2. Row(checksum, value) \in [checksum : Checksum, value : Revision]
  BY DEF Row
<1> QED
  BY <1>1, <1>2 DEF Table

LEMMA StaysOK ==
    ASSUME NEW h, HandlerOK(h), rows # {} => rows' # {}, uprows # {} => uprows' # {}
    PROVE  HandlerOK(h)'
  BY DEF HandlerOK

LEMMA GoesTypes ==
    ASSUME TypeInv, ShapeInv, NEW k \in Conn, NEW to, Goes(k, to), HandlerOK(to)
    PROVE  TypeInv'
<1>1. /\ handler' = [handler EXCEPT ![k] = to]
      /\ UNCHANGED <<rows, uprows, client>>
  BY DEF Goes, outside
<1>2. \A l \in Conn : HandlerOK(handler'[l])
  BY <1>1 DEF TypeInv, ShapeInv
<1>3. \A l \in Conn : HandlerOK(handler[l])'
  BY <1>1, <1>2, StaysOK
<1> QED
  BY <1>1, <1>3 DEF TypeInv, Table, ClientOK

LEMMA StoreAndReturnTypes ==
    ASSUME TypeInv, NEW k \in Conn, handler[k].req \in Request,
           NEW value \in Revision, StoreAndReturn(k, value)
    PROVE  TypeInv'
<1>1. /\ rows' = rows \cup {Row(handler[k].req.checksum, value)}
      /\ handler' = [handler EXCEPT ![k] = NoHandler]
      /\ client' = [c \in Client |-> IF c \in Listening(k) THEN Idle ELSE client[c]]
      /\ uprows' = uprows
  BY DEF StoreAndReturn, Return, Stored
<1>2. handler[k].req.checksum \in Checksum
  BY DEF Request
<1>3. Table(rows)' /\ Table(uprows)' /\ rows' # {}
  <2>1. Table(rows \cup {Row(handler[k].req.checksum, value)})
        /\ rows \cup {Row(handler[k].req.checksum, value)} # {}
    BY <1>2, StoredTable DEF TypeInv
  <2> QED
    BY <1>1, <2>1 DEF TypeInv, Table
<1>4. \A l \in Conn : HandlerOK(handler'[l])
  BY <1>1, FreeOK DEF TypeInv
<1>5. \A l \in Conn : HandlerOK(handler[l])'
  BY <1>1, <1>3, <1>4, StaysOK
<1>6. \A c \in Client : ClientOK(client'[c])
  BY <1>1, FreeOK DEF TypeInv
<1> QED
  BY <1>3, <1>5, <1>6 DEF TypeInv, ClientOK

LEMMA HandlerTypes ==
    ASSUME TypeInv, ShapeInv, NEW k \in Conn, HandlerStep(k)
    PROVE  TypeInv'
<1> DEFINE h == handler[k]
<1>0. /\ DOMAIN h = {"pc", "req", "value", "max", "answer"} /\ HandlerOK(h)
      /\ Table(rows) /\ Table(uprows)
  BY DEF ShapeInv, TypeInv
<1>1. ASSUME h.pc # "free", GetValue(k) PROVE TypeInv'
  <2>1. h.req \in Request
    BY <1>0, <1>1 DEF HandlerOK
  <2>2. _get_value(rows, h.req.checksum, h.req.history) \in Revision
    BY <1>0, GetValueType
  <2> QED
    BY <1>1, <2>1, <2>2, StoreAndReturnTypes DEF GetValue
<1>2. ASSUME Begin(k) PROVE TypeInv'
  <2> DEFINE found == find_value(rows, h.req.checksum, h.req.history)
             to == [h EXCEPT !.pc = "ask_max", !.value = found]
  <2>1. h.pc # "free" /\ (GetValue(k) \/ Goes(k, to))
    BY <1>2 DEF Begin
  <2>2. found \in Revision \cup {None} /\ (found # None => rows # {})
    BY <1>0, FindTypes
  <2> HIDE DEF found
  <2>3. HandlerOK(to)
    BY <1>0, <2>1, <2>2 DEF HandlerOK
  <2> HIDE DEF to
  <2> QED
    BY <1>1, <2>1, <2>3, GoesTypes
<1>3. ASSUME UpstreamAnswers(k) PROVE TypeInv'
  <2> DEFINE found == find_package_max_value(uprows)
             known == find_value(uprows, h.req.checksum, FALSE)
  <2>1. /\ found \in Revision \cup {None} /\ known \in Revision \cup {None}
        /\ found = None <=> uprows = {}
    BY <1>0, FindTypes
  <2>2. h.pc \in {"ask_max", "ask_known", "ask_package", "ask_new", "ask_new_max"}
    BY <1>3 DEF UpstreamAnswers, Asking
  <2> HIDE DEF found, known
  <2>3. CASE h.pc = "ask_max" /\ h.value = None
    <3> DEFINE to == [h EXCEPT !.pc = "ask_package"]
    <3>1. Goes(k, to)
      BY <1>3, <2>3 DEF UpstreamAnswers
    <3>2. HandlerOK(to)
      BY <1>0, <2>3 DEF HandlerOK
    <3> HIDE DEF to
    <3> QED
      BY <3>1, <3>2, GoesTypes
  <2>4. CASE h.pc = "ask_max" /\ h.value # None
    <3> DEFINE to == [h EXCEPT !.pc = "max", !.answer = found]
    <3>1. Goes(k, to)
      BY <1>3, <2>4 DEF UpstreamAnswers, Asking, found
    <3>2. HandlerOK(to)
      BY <1>0, <2>1, <2>4 DEF HandlerOK
    <3> HIDE DEF to
    <3> QED
      BY <3>1, <3>2, GoesTypes
  <2>5. CASE h.pc = "ask_known"
    <3> DEFINE to == [h EXCEPT !.pc = "known", !.answer = known]
    <3>1. Goes(k, to)
      BY <1>3, <2>5 DEF UpstreamAnswers, Asking, known
    <3>2. HandlerOK(to)
      BY <1>0, <2>1, <2>5 DEF HandlerOK
    <3> HIDE DEF to
    <3> QED
      BY <3>1, <3>2, GoesTypes
  <2>6. CASE h.pc = "ask_package"
    <3> DEFINE to == [h EXCEPT !.pc = "package", !.answer = (uprows # {})]
    <3>1. Goes(k, to)
      BY <1>3, <2>6 DEF UpstreamAnswers, Asking
    <3>2. HandlerOK(to)
      BY <1>0, <2>6 DEF HandlerOK
    <3> HIDE DEF to
    <3> QED
      BY <3>1, <3>2, GoesTypes
  <2>7. CASE h.pc = "ask_new"
    <3> DEFINE to == [h EXCEPT !.pc = "new", !.answer = known]
    <3>1. Goes(k, to)
      BY <1>3, <2>7 DEF UpstreamAnswers, Asking, known
    <3>2. HandlerOK(to)
      BY <1>0, <2>1, <2>7 DEF HandlerOK
    <3> HIDE DEF to
    <3> QED
      BY <3>1, <3>2, GoesTypes
  <2>8. CASE h.pc = "ask_new_max"
    <3> DEFINE to == [h EXCEPT !.pc = "new_max", !.answer = found]
    <3>1. Goes(k, to)
      BY <1>3, <2>8 DEF UpstreamAnswers, Asking, found
    <3>2. uprows # {}
      BY <1>0, <2>8 DEF HandlerOK
    <3>3. HandlerOK(to)
      BY <1>0, <2>1, <2>8, <3>2 DEF HandlerOK
    <3> HIDE DEF to
    <3> QED
      BY <3>1, <3>3, GoesTypes
  <2> QED
    BY <2>2, <2>3, <2>4, <2>5, <2>6, <2>7, <2>8
<1>4. ASSUME KnownHistory(k) PROVE TypeInv'
  BY <1>1, <1>4 DEF KnownHistory
<1>5. ASSUME Known(k) PROVE TypeInv'
  <2> DEFINE local_max == find_package_max_value(rows)
             value == Raised(h.value, local_max)
             to == [h EXCEPT !.pc = "ask_known", !.max = h.answer]
  <2>1. h.pc = "max" /\ h.answer # None /\ (Goes(k, to) \/ StoreAndReturn(k, value))
    BY <1>5 DEF Known
  <2>2. h.value \in Revision /\ h.answer \in Revision /\ h.req \in Request /\ rows # {}
    BY <1>0, <2>1 DEF HandlerOK
  <2>3. local_max \in Revision
    BY <1>0, <2>2, FindTypes
  <2>4. value \in Revision
    BY <2>2, <2>3, IncreaseType DEF Raised
  <2> HIDE DEF value
  <2>5. HandlerOK(to)
    BY <1>0, <2>1, <2>2, NoneIsNoRevision DEF HandlerOK
  <2> HIDE DEF to
  <2> QED
    BY <2>1, <2>2, <2>4, <2>5, GoesTypes, StoreAndReturnTypes
<1>6. ASSUME KnownFails(k) \/ UpstreamFails(k) PROVE TypeInv'
  <2>1. /\ handler' = [handler EXCEPT ![k] = NoHandler]
        /\ client' = [c \in Client |-> IF c \in Listening(k)
                                       THEN [client[c] EXCEPT !.conn = None]
                                       ELSE client[c]]
        /\ UNCHANGED <<rows, uprows>>
    BY <1>6 DEF KnownFails, UpstreamFails, HandlerFails
  <2>2. \A l \in Conn : HandlerOK(handler'[l])
    BY <2>1, FreeOK DEF TypeInv
  <2>3. \A l \in Conn : HandlerOK(handler[l])'
    BY <2>1, <2>2, StaysOK
  <2>4. \A c \in Client : ClientOK(client'[c])
    BY <2>1 DEF TypeInv, ShapeInv, ClientOK
  <2> QED
    BY <2>1, <2>3, <2>4 DEF TypeInv, Table, ClientOK
<1>7. ASSUME KnownBelow(k) PROVE TypeInv'
  <2>1. h.req \in Request /\ h.max \in Revision /\ h.answer \in Revision \cup {None}
    BY <1>0, <1>7 DEF KnownBelow, HandlerOK
  <2> DEFINE value == IF h.answer = None THEN Append(h.max, 0) ELSE h.max
  <2>2. value \in Revision
    BY <2>1, AppendType
  <2>3. StoreAndReturn(k, value)
    BY <1>7 DEF KnownBelow
  <2> HIDE DEF value
  <2> QED
    BY <2>1, <2>2, <2>3, StoreAndReturnTypes
<1>8. ASSUME Package(k) PROVE TypeInv'
  <2>1. CASE h.answer
    <3> DEFINE to == [h EXCEPT !.pc = "ask_new", !.answer = None]
    <3>1. h.pc = "package" /\ Goes(k, to)
      BY <1>8, <2>1 DEF Package
    <3>2. HandlerOK(to)
      BY <1>0, <2>1, <3>1 DEF HandlerOK
    <3> HIDE DEF to
    <3> QED
      BY <3>1, <3>2, GoesTypes
  <2>2. CASE ~h.answer
    BY <1>1, <1>8, <2>2 DEF Package
  <2> QED
    BY <2>1, <2>2
<1>9. ASSUME NewUpstream(k) PROVE TypeInv'
  <2> DEFINE to == [h EXCEPT !.pc = "ask_new_max"]
  <2>1. /\ h.pc = "new" /\ h.answer \in Revision \cup {None} /\ h.req \in Request
        /\ IF h.answer # None THEN StoreAndReturn(k, h.answer) ELSE Goes(k, to)
    BY <1>0, <1>9 DEF NewUpstream, HandlerOK
  <2>2. HandlerOK(to)
    BY <1>0, <2>1 DEF HandlerOK
  <2> HIDE DEF to
  <2> QED
    BY <2>1, <2>2, GoesTypes, StoreAndReturnTypes
<1>10. ASSUME NewHere(k) PROVE TypeInv'
  <2>1. h.req \in Request /\ h.answer \in Revision
    BY <1>0, <1>10 DEF NewHere, HandlerOK
  <2>2. find_new_subvalue(rows, h.answer) \in Revision
    BY <1>0, <2>1, SubvalueType
  <2>3. StoreAndReturn(k, find_new_subvalue(rows, h.answer))
    BY <1>10 DEF NewHere
  <2> QED
    BY <2>1, <2>2, <2>3, StoreAndReturnTypes
<1> QED
  BY <1>2, <1>3, <1>4, <1>5, <1>6, <1>7, <1>8, <1>9, <1>10 DEF HandlerStep

LEMMA StepTypeInv == IInv /\ TypeInv /\ [Next]_vars => TypeInv'
<1> SUFFICES ASSUME IInv, TypeInv, [Next]_vars PROVE TypeInv'
  OBVIOUS
<1>0. /\ \A c \in Client : DOMAIN client[c] = {"req", "conn", "tries", "floor"}
      /\ DOMAIN client = Client /\ DOMAIN handler = Conn /\ ShapeInv
  BY DEF IInv, ShapeInv
<1>1. ASSUME NEW c \in Client, NEW k \in Conn, NEW req \in Request, NEW to, ClientOK(to),
             client' = [client EXCEPT ![c] = to],
             handler' = [handler EXCEPT ![k] = Started(req)],
             UNCHANGED <<rows, uprows>>
      PROVE  TypeInv'
  <2>1. HandlerOK(Started(req))
    BY PRServerAssumption DEF HandlerOK, Started, NoHandler
  <2>2. \A l \in Conn : HandlerOK(handler'[l])
    BY <1>0, <1>1, <2>1 DEF TypeInv
  <2>3. \A l \in Conn : HandlerOK(handler[l])'
    BY <1>1, <2>2, StaysOK
  <2>4. \A d \in Client : ClientOK(client'[d])
    BY <1>0, <1>1 DEF TypeInv
  <2> QED
    BY <1>1, <2>3, <2>4 DEF TypeInv, Table, ClientOK
<1>2. ASSUME NEW req \in Request, getPR(req) PROVE TypeInv'
  <2> DEFINE c == CHOOSE d \in AtRest : TRUE
             to == [req |-> req, conn |-> FreeConn, tries |-> 0, floor |-> greatest]
  <2>1. c \in Client /\ FreeConn \in Conn
    BY <1>2 DEF getPR, AtRest, FreeConn, Free
  <2>2. /\ client' = [client EXCEPT ![c] = to]
        /\ handler' = [handler EXCEPT ![FreeConn] = Started(req)]
        /\ UNCHANGED <<rows, uprows>>
    BY <1>2 DEF getPR
  <2>3. ClientOK(to)
    BY <2>1, PRServerAssumption DEF ClientOK
  <2> HIDE DEF c, to
  <2> QED
    BY <1>1, <2>1, <2>2, <2>3
<1>3. ASSUME NEW c \in Client, Resend(c) PROVE TypeInv'
  <2> DEFINE to == [client[c] EXCEPT !.conn = FreeConn, !.tries = client[c].tries + 1]
  <2>1. FreeConn \in Conn /\ client[c].req \in Request
    BY <1>3 DEF Resend, SendAgain, FreeConn, Free, TypeInv, ClientOK
  <2>2. /\ client' = [client EXCEPT ![c] = to]
        /\ handler' = [handler EXCEPT ![FreeConn] = Started(client[c].req)]
        /\ UNCHANGED <<rows, uprows>>
    BY <1>0, <1>3 DEF Resend, SendAgain
  <2>3. ClientOK(to)
    BY <1>0, <1>3, <2>1, PRServerAssumption
       DEF Resend, SendAgain, TriesLeft, TypeInv, ClientOK
  <2> HIDE DEF to
  <2> QED
    BY <1>1, <2>1, <2>2, <2>3
<1>4. ASSUME NEW c \in Client, GiveUp(c) PROVE TypeInv'
  <2>1. /\ client' = [client EXCEPT ![c] = Idle] /\ UNCHANGED <<rows, uprows, handler>>
    BY <1>4 DEF GiveUp
  <2>2. \A d \in Client : ClientOK(client'[d])
    BY <1>0, <2>1, FreeOK DEF TypeInv
  <2> QED
    BY <2>1, <2>2 DEF TypeInv, Table, HandlerOK, ClientOK
<1>5. ASSUME NEW c \in Client, Break(c) PROVE TypeInv'
  <2>1. /\ client' = [client EXCEPT ![c].conn = None]
        /\ UNCHANGED <<rows, uprows, handler>>
    BY <1>5 DEF Break
  <2>2. \A d \in Client : ClientOK(client'[d])
    BY <1>0, <2>1 DEF TypeInv, ClientOK
  <2> QED
    BY <2>1, <2>2 DEF TypeInv, Table, HandlerOK, ClientOK
<1>6. ASSUME Crash PROVE TypeInv'
  <2>1. /\ handler' = [k \in Conn |-> NoHandler]
        /\ client' = [c \in Client |-> [client[c] EXCEPT !.conn = None]]
        /\ UNCHANGED <<rows, uprows>>
    BY <1>6 DEF Crash
  <2>2. \A k \in Conn : HandlerOK(handler'[k])
    BY <2>1, FreeOK
  <2>3. \A k \in Conn : HandlerOK(handler[k])'
    BY <2>1, <2>2, StaysOK
  <2>4. \A c \in Client : ClientOK(client'[c])
    BY <1>0, <2>1 DEF TypeInv, ClientOK
  <2> QED
    BY <2>1, <2>3, <2>4 DEF TypeInv, Table, ClientOK
<1>7. ASSUME NEW checksum \in Checksum, UpstreamGets(checksum) PROVE TypeInv'
  <2> DEFINE value == _get_value(uprows, checksum, FALSE)
  <2>1. value \in Revision
    BY GetValueType DEF TypeInv
  <2>2. /\ uprows' = uprows \cup {Row(checksum, value)}
        /\ UNCHANGED <<rows, handler, client>>
    BY <1>7 DEF UpstreamGets
  <2> HIDE DEF value
  <2>3. Table(uprows \cup {Row(checksum, value)}) /\ uprows \cup {Row(checksum, value)} # {}
    BY <2>1, StoredTable DEF TypeInv
  <2>4. Table(uprows)' /\ Table(rows)' /\ uprows' # {}
    BY <2>2, <2>3 DEF TypeInv, Table
  <2>5. \A k \in Conn : HandlerOK(handler[k])'
    BY <2>2, <2>4, StaysOK DEF TypeInv
  <2> QED
    BY <2>2, <2>4, <2>5 DEF TypeInv, ClientOK
<1>8. CASE UNCHANGED vars
  BY <1>8 DEF vars, TypeInv, Table, HandlerOK, ClientOK
<1> QED
  BY <1>0, <1>2, <1>3, <1>4, <1>5, <1>6, <1>7, <1>8, HandlerTypes DEF Next, ClientStep

(***************************************************************************)
(* A server without upstream: revisions of one number.                     *)
(***************************************************************************)

Numbers(table) == \A r \in table : r.value \in Number

LEMMA TextLessNumber ==
    ASSUME NEW v \in Number, NEW w \in Number, v[1] < 10, w[1] < 10
    PROVE  TextLess(v, w) <=> v[1] < w[1]
<1>1. /\ v[1] \in Nat /\ w[1] \in Nat /\ v \in Seq(Nat) /\ w \in Seq(Nat)
      /\ Len(v) = 1 /\ Len(w) = 1
  <2>1. PICK m \in Nat, n \in Nat : v = <<m>> /\ w = <<n>>
    BY DEF Number
  <2> QED
    BY <2>1
<1>2. Key(v[1]) < Key(w[1]) <=> v[1] < w[1]
  BY <1>1, KeySmall
<1>3. ASSUME NEW i \in Nat, Parts(v, w, i) PROVE Key(v[1]) < Key(w[1])
  <2>1. i = 1
    BY <1>1, <1>3 DEF Parts
  <2> QED
    BY <1>1, <1>3, <2>1 DEF Parts
<1>4. Key(v[1]) < Key(w[1]) => Parts(v, w, 1)
  BY <1>1 DEF Parts
<1> QED
  BY <1>1, <1>2, <1>3, <1>4, TextLessParts

LEMMA IncreaseNumber ==
    ASSUME NEW v \in Number
    PROVE  increase_revision(v) \in Number /\ increase_revision(v)[1] = v[1] + 1
<1>1. PICK n \in Nat : v = <<n>>
  BY DEF Number
<1>2. increase_revision(v) = <<n + 1>>
  BY <1>1 DEF increase_revision
<1> QED
  BY <1>1, <1>2 DEF Number

\* A query of numbers is answered with the greatest or the smallest.
LEMMA QueryNumbers ==
    ASSUME NEW table, Table(table), Numbers(table), NEW sel, sel \subseteq table, sel # {},
           NEW largest \in BOOLEAN
    PROVE  /\ extremum_value(sel, largest) \in Number
           /\ \E r \in sel : extremum_value(sel, largest) = r.value
           /\ \A r \in sel : IF largest THEN r.value[1] <= extremum_value(sel, largest)[1]
                             ELSE extremum_value(sel, largest)[1] <= r.value[1]
<1> DEFINE value == extremum_value(sel, largest)
<1>1. sel \subseteq Rows /\ IsFiniteSet(sel) /\ \A r \in sel : r.value \in Number
  BY TableRows DEF Numbers
<1>2. /\ \E r \in sel : value = r.value
      /\ \A r \in sel : ~Better(r.value, value, largest)
  BY <1>1, ExtremumOfNumbers
<1> HIDE DEF value
<1>3. value \in Number
  BY <1>1, <1>2
<1>4. ASSUME NEW r \in sel
      PROVE  IF largest THEN r.value[1] <= value[1] ELSE value[1] <= r.value[1]
  <2>1. r.value \in Number /\ ~Better(r.value, value, largest)
    BY <1>1, <1>2
  <2> QED
    BY <1>3, <2>1, BetterNumber
<1> QED
  BY <1>2, <1>3, <1>4 DEF value

\* What get_value() stores: a value of the checksum that is in the table, or one
\* above all.  With history it is the least of the checksum, and without it is the
\* greatest of all, if all are below ten.
LEMMA GetValueNumbers ==
    ASSUME NEW table, Table(table), Numbers(table), NEW checksum, NEW with \in BOOLEAN
    PROVE  LET v == _get_value(table, checksum, with) IN
           /\ v \in Number
           /\ \/ \E r \in table : r.checksum = checksum /\ r.value = v
              \/ \A r \in table : r.value[1] < v[1]
           /\ with => \A r \in table : r.checksum = checksum => v[1] <= r.value[1]
           /\ ~with /\ (\A r \in table : r.value[1] < 10)
                  => \A r \in table : r.value[1] <= v[1]
<1> DEFINE v == _get_value(table, checksum, with)
           max_value == find_package_max_value(table)
           value == find_value(table, checksum, with)
           sel == {r \in table : r.checksum = checksum}
<1>0. v = CASE max_value = None -> <<0>>
            [] max_value # None /\ value = None -> increase_revision(max_value)
            [] value # None /\ ~with /\ TextLess(value, max_value) ->
                   increase_revision(max_value)
            [] OTHER -> value
  BY DEF _get_value
<1>1. max_value = None <=> table = {}
  BY FindTypes
<1>2. table # {} => /\ max_value \in Number
                    /\ \A r \in table : r.value[1] <= max_value[1]
                    /\ \E r \in table : max_value = r.value
  BY QueryNumbers DEF find_package_max_value
<1>3. value = extremum_value(sel, ~with) /\ sel \subseteq table
  BY DEF find_value
<1>4. value = None <=> sel = {}
  BY <1>3, QueryType
<1>5. sel # {} => /\ value \in Number
                  /\ \E r \in sel : value = r.value
                  /\ with => \A r \in sel : value[1] <= r.value[1]
  <2>1. (~with) \in BOOLEAN
    OBVIOUS
  <2> QED
    BY <1>3, <2>1, QueryNumbers
<1>6. \A r \in table : r.value[1] \in Nat
  BY BetterNumber DEF Numbers
<1> HIDE DEF v, max_value, value
<1>7. CASE table = {}
  <2>1. v = <<0>>
    BY <1>0, <1>1, <1>4, <1>7
  <2> QED
    BY <1>7, <2>1 DEF Number, v
<1>8. CASE table # {} /\ v = increase_revision(max_value)
                      /\ (value = None \/ (~with /\ TextLess(value, max_value)))
  <2>1. v \in Number /\ v[1] = max_value[1] + 1 /\ max_value[1] \in Nat
    BY <1>2, <1>8, IncreaseNumber, BetterNumber
  <2>2. \A r \in table : r.value[1] < v[1] /\ r.value[1] <= v[1]
    BY <1>2, <1>6, <1>8, <2>1
  <2>3. with => sel = {}
    BY <1>4, <1>8
  <2> QED
    BY <2>1, <2>2, <2>3 DEF v
<1>9. CASE table # {} /\ v = value /\ value # None
                      /\ (with \/ ~TextLess(value, max_value))
  <2>1. /\ v \in Number /\ v[1] \in Nat
        /\ \E r \in table : r.checksum = checksum /\ r.value = v
        /\ with => \A r \in table : r.checksum = checksum => v[1] <= r.value[1]
    BY <1>4, <1>5, <1>9, BetterNumber
  <2>2. ASSUME ~with, \A r \in table : r.value[1] < 10, NEW r \in table
        PROVE  r.value[1] <= v[1]
    <3>1. v[1] < 10 /\ max_value[1] < 10 /\ max_value \in Number
      BY <1>2, <1>9, <2>1, <2>2
    <3>2. ~(v[1] < max_value[1])
      BY <1>9, <2>1, <2>2, <3>1, TextLessNumber
    <3>3. r.value[1] <= max_value[1] /\ max_value[1] \in Nat /\ r.value[1] \in Nat
      BY <1>2, <1>6, <1>9, <3>1, BetterNumber
    <3> QED
      BY <2>1, <3>2, <3>3
  <2> QED
    BY <2>1, <2>2 DEF v
<1>10. \/ table = {}
       \/ table # {} /\ v = increase_revision(max_value)
                     /\ (value = None \/ (~with /\ TextLess(value, max_value)))
       \/ table # {} /\ v = value /\ value # None
                     /\ (with \/ ~TextLess(value, max_value))
  <2>1. CASE table # {} /\ value = None
    BY <1>0, <1>1, <2>1
  <2>2. CASE table # {} /\ value # None /\ ~with /\ TextLess(value, max_value)
    BY <1>0, <1>1, <2>2
  <2>3. CASE table # {} /\ value # None /\ ~(~with /\ TextLess(value, max_value))
    BY <1>0, <1>1, <2>3
  <2> QED
    BY <2>1, <2>2, <2>3
<1> QED
  BY <1>7, <1>8, <1>9, <1>10

\* A step either stores a value and answers with it, or leaves the table and what
\* was told alone.
LEMMA StepKinds ==
    ASSUME ShapeInv, [Next]_vars
    PROVE  /\ upstream' = upstream
           /\ \/ \E k \in Conn : \E value :
                    /\ StoreAndReturn(k, value) /\ handler[k].pc # "free"
                    /\ handler[k].pc = "begin" =>
                           value = _get_value(rows, handler[k].req.checksum,
                                              handler[k].req.history)
              \/ /\ UNCHANGED <<rows, answers, greatest>>
                 /\ \A c \in Client : client'[c].floor \in {client[c].floor, None, greatest}
<1>0. /\ \A c \in Client : DOMAIN client[c] = {"req", "conn", "tries", "floor"}
      /\ DOMAIN client = Client
  BY DEF ShapeInv
<1> DEFINE Stays == /\ UNCHANGED <<rows, answers, greatest>>
                    /\ \A c \in Client :
                           client'[c].floor \in {client[c].floor, None, greatest}
<1>1. ASSUME NEW k \in Conn, NEW to, Goes(k, to) PROVE upstream' = upstream /\ Stays
  BY <1>1 DEF Goes, outside, history
<1>2. ASSUME NEW k \in Conn, NEW value, StoreAndReturn(k, value) PROVE upstream' = upstream
  BY <1>2 DEF StoreAndReturn, Return
<1>3. ASSUME NEW k \in Conn, HandlerStep(k)
      PROVE  \/ \E value : /\ StoreAndReturn(k, value) /\ handler[k].pc # "free"
                           /\ handler[k].pc = "begin" =>
                                  value = _get_value(rows, handler[k].req.checksum,
                                                     handler[k].req.history)
             \/ \E to : Goes(k, to)
             \/ HandlerFails(k)
  <2>1. ASSUME GetValue(k)
        PROVE  StoreAndReturn(k, _get_value(rows, handler[k].req.checksum,
                                            handler[k].req.history))
    BY <2>1 DEF GetValue
  <2>2. CASE Begin(k)
    BY <2>1, <2>2 DEF Begin
  <2>3. CASE UpstreamAnswers(k)
    BY <2>3 DEF UpstreamAnswers
  <2>4. CASE KnownHistory(k)
    BY <2>1, <2>4 DEF KnownHistory
  <2>5. CASE Known(k)
    BY <2>5 DEF Known
  <2>6. CASE KnownFails(k) \/ UpstreamFails(k)
    BY <2>6 DEF KnownFails, UpstreamFails
  <2>7. CASE KnownBelow(k)
    BY <2>7 DEF KnownBelow
  <2>8. CASE Package(k)
    BY <2>1, <2>8 DEF Package
  <2>9. CASE NewUpstream(k)
    BY <2>9 DEF NewUpstream
  <2>10. CASE NewHere(k)
    BY <2>10 DEF NewHere
  <2> QED
    BY <1>3, <2>2, <2>3, <2>4, <2>5, <2>6, <2>7, <2>8, <2>9, <2>10 DEF HandlerStep
<1>4. ASSUME NEW k \in Conn, HandlerFails(k) PROVE upstream' = upstream /\ Stays
  BY <1>0, <1>4 DEF HandlerFails, history
<1>5. ASSUME NEW req \in Request, getPR(req) PROVE upstream' = upstream /\ Stays
  BY <1>0, <1>5 DEF getPR, history
<1>6. ASSUME NEW c \in Client, ClientStep(c) \/ Break(c) PROVE upstream' = upstream /\ Stays
  BY <1>0, <1>6 DEF ClientStep, Resend, SendAgain, GiveUp, Break, Idle, history
<1>7. ASSUME Crash PROVE upstream' = upstream /\ Stays
  BY <1>0, <1>7 DEF Crash, history
<1>8. ASSUME NEW checksum \in Checksum, UpstreamGets(checksum)
      PROVE  upstream' = upstream /\ Stays
  BY <1>8 DEF UpstreamGets, history
<1>9. CASE UNCHANGED vars
  BY <1>9 DEF vars
<1> QED
  BY <1>1, <1>2, <1>3, <1>4, <1>5, <1>6, <1>7, <1>8, <1>9 DEF Next

\* Values that were told are values of the table.
Past(value) == value # None => \E r \in rows : r.value = value

PastInv == Past(greatest) /\ \A c \in Client : Past(client[c].floor)

LEMMA StepPastInv == IInv /\ PastInv /\ [Next]_vars => PastInv'
<1> SUFFICES ASSUME IInv, PastInv, [Next]_vars PROVE PastInv'
  OBVIOUS
<1>1. ASSUME NEW k \in Conn, NEW value, StoreAndReturn(k, value) PROVE PastInv'
  <2>1. /\ rows' = rows \cup {Row(handler[k].req.checksum, value)}
        /\ client' = [c \in Client |-> IF c \in Listening(k) THEN Idle ELSE client[c]]
        /\ greatest' \in {value, greatest}
    BY <1>1 DEF StoreAndReturn, Return, Stored
  <2>2. Row(handler[k].req.checksum, value).value = value
    BY DEF Row
  <2>3. Past(greatest)'
    BY <2>1, <2>2 DEF Past, PastInv
  <2>4. \A c \in Client : Past(client[c].floor)'
    BY <2>1 DEF Past, PastInv, Idle
  <2> QED
    BY <2>3, <2>4 DEF PastInv
<1>2. ASSUME UNCHANGED <<rows, answers, greatest>>,
             \A c \in Client : client'[c].floor \in {client[c].floor, None, greatest}
      PROVE  PastInv'
  BY <1>2 DEF Past, PastInv
<1> QED
  BY <1>1, <1>2, StepKinds DEF IInv

\* Without upstream, a handler never waits.
NoWaiting == ~upstream => \A k \in Conn : handler[k].pc \in {"free", "begin"}

LEMMA StepNoWaiting == IInv /\ NoWaiting /\ [Next]_vars => NoWaiting'
<1> SUFFICES ASSUME IInv, NoWaiting, [Next]_vars, ~upstream
             PROVE  \A k \in Conn : handler'[k].pc \in {"free", "begin"}
  BY StepKinds DEF NoWaiting, IInv
<1>0. /\ \A k \in Conn : handler[k].pc \in {"free", "begin"}
      /\ DOMAIN handler = Conn /\ NoHandler.pc = "free"
      /\ \A req : Started(req).pc = "begin"
  BY DEF NoWaiting, IInv, ShapeInv, NoHandler, Started
<1>1. ASSUME NEW k \in Conn, HandlerStep(k)
      PROVE  \A l \in Conn : handler'[l].pc \in {"free", "begin"}
  <2>1. Begin(k) \/ handler[k].pc \notin {"free", "begin"}
    BY <1>1 DEF HandlerStep, UpstreamAnswers, UpstreamFails, Asking, KnownHistory, Known,
                KnownFails, KnownBelow, Package, NewUpstream, NewHere
  <2>2. handler' = [handler EXCEPT ![k] = NoHandler]
    BY <1>0, <2>1 DEF Begin, GetValue, StoreAndReturn, Return
  <2> QED
    BY <1>0, <2>2
<1>2. ASSUME NEW req \in Request, getPR(req)
      PROVE  \A l \in Conn : handler'[l].pc \in {"free", "begin"}
  BY <1>0, <1>2 DEF getPR
<1>3. ASSUME NEW c \in Client, ClientStep(c) \/ Break(c)
      PROVE  \A l \in Conn : handler'[l].pc \in {"free", "begin"}
  BY <1>0, <1>3 DEF ClientStep, Resend, SendAgain, GiveUp, Break
<1>4. ASSUME Crash PROVE \A l \in Conn : handler'[l].pc \in {"free", "begin"}
  BY <1>0, <1>4 DEF Crash
<1>5. ASSUME NEW checksum \in Checksum, UpstreamGets(checksum)
      PROVE  \A l \in Conn : handler'[l].pc \in {"free", "begin"}
  BY <1>0, <1>5 DEF UpstreamGets
<1>6. CASE UNCHANGED vars
  BY <1>0, <1>6 DEF vars
<1> QED
  BY <1>1, <1>2, <1>3, <1>4, <1>5, <1>6 DEF Next

\* What is told with history is the least value of its checksum, and what is told
\* without is not below what was told before, as long as values are below ten.
ValuesBelowTen == \A r \in rows : r.value[1] < 10

LeastTold ==
    \A a \in answers : a.req.history =>
        \A r \in rows : r.checksum = a.req.checksum => a.value[1] <= r.value[1]

NumberInv ==
    ~upstream =>
        /\ Numbers(rows)
        /\ LeastTold
        /\ ValuesBelowTen => NotDecremented

LEMMA StepNumberInv ==
    IInv /\ TypeInv /\ PastInv /\ NoWaiting /\ NumberInv /\ [Next]_vars => NumberInv'
<1> SUFFICES ASSUME IInv, TypeInv, PastInv, NoWaiting, NumberInv, [Next]_vars, ~upstream
             PROVE  Numbers(rows)' /\ LeastTold' /\ (ValuesBelowTen => NotDecremented)'
  BY StepKinds DEF NumberInv, IInv
<1>0. /\ Numbers(rows) /\ LeastTold /\ (ValuesBelowTen => NotDecremented)
      /\ AnswersStored /\ Table(rows)
  BY DEF NumberInv, IInv, TypeInv
<1>1. ASSUME NEW k \in Conn, NEW value, StoreAndReturn(k, value), handler[k].pc # "free",
             handler[k].pc = "begin" =>
                 value = _get_value(rows, handler[k].req.checksum, handler[k].req.history)
      PROVE  Numbers(rows)' /\ LeastTold' /\ (ValuesBelowTen => NotDecremented)'
  <2> DEFINE req == handler[k].req
  <2>1. req \in Request /\ value = _get_value(rows, req.checksum, req.history)
    BY <1>1 DEF NoWaiting, TypeInv, HandlerOK
  <2>2. req.history \in BOOLEAN
    BY <2>1 DEF Request
  <2>3. /\ value \in Number
        /\ \/ \E r \in rows : r.checksum = req.checksum /\ r.value = value
           \/ \A r \in rows : r.value[1] < value[1]
        /\ req.history => \A r \in rows : r.checksum = req.checksum => value[1] <= r.value[1]
        /\ ~req.history /\ ValuesBelowTen => \A r \in rows : r.value[1] <= value[1]
    BY <1>0, <2>1, <2>2, GetValueNumbers DEF ValuesBelowTen
  <2>4. /\ rows' = rows \cup {Row(req.checksum, value)}
        /\ answers' = answers \cup
               {[req |-> client[c].req, value |-> value,
                 low |-> Below(value, client[c].floor)] : c \in Listening(k)}
    BY <1>1 DEF StoreAndReturn, Return, Stored
  <2>5. /\ Row(req.checksum, value).value = value
        /\ Row(req.checksum, value).checksum = req.checksum
    BY DEF Row
  <2>6. value[1] \in Nat /\ \A r \in rows : r.value \in Number /\ r.value[1] \in Nat
    BY <1>0, <2>3, BetterNumber DEF Numbers
  <2> HIDE DEF req
  <2>7. ASSUME NEW a \in answers', a \notin answers
        PROVE  \E c \in Client : /\ a.req = req /\ a.value = value
                                 /\ a.low = Below(value, client[c].floor)
    <3>1. PICK c \in Listening(k) : a = [req |-> client[c].req, value |-> value,
                                         low |-> Below(value, client[c].floor)]
      BY <2>4, <2>7
    <3>2. c \in Client /\ client[c].req = req
      BY <3>1 DEF Listening, IInv, ListenInv, Heard, req
    <3> QED
      BY <3>1, <3>2
  <2>8. Numbers(rows)'
    BY <1>0, <2>3, <2>4, <2>5 DEF Numbers
  <2>9. LeastTold'
    <3> SUFFICES ASSUME NEW a \in answers', a.req.history,
                        NEW r \in rows', r.checksum = a.req.checksum
                 PROVE  a.value[1] <= r.value[1]
      BY DEF LeastTold
    <3>1. CASE a \in answers
      <4>1. CASE r \in rows
        BY <1>0, <3>1, <4>1 DEF LeastTold
      <4>2. CASE r.checksum = req.checksum /\ r.value = value
        <5>1. CASE \E s \in rows : s.checksum = req.checksum /\ s.value = value
          BY <1>0, <3>1, <4>2, <5>1 DEF LeastTold
        <5>2. CASE \A s \in rows : s.value[1] < value[1]
          <6>1. Row(a.req.checksum, a.value) \in rows
                /\ Row(a.req.checksum, a.value).value = a.value
            BY <1>0, <3>1 DEF AnswersStored, Row
          <6>2. a.value[1] < value[1] /\ a.value[1] \in Nat
            BY <2>6, <5>2, <6>1
          <6> QED
            BY <2>6, <4>2, <6>2
        <5> QED
          BY <2>3, <5>1, <5>2
      <4> QED
        BY <2>4, <2>5, <4>1, <4>2
    <3>2. CASE a \notin answers
      <4>1. a.req = req /\ a.value = value
        BY <2>7, <3>2
      <4>2. CASE r \in rows
        BY <2>3, <4>1, <4>2
      <4>3. CASE r.value = value
        BY <2>6, <4>1, <4>3
      <4> QED
        BY <2>4, <2>5, <4>2, <4>3
    <3> QED
      BY <3>1, <3>2
  <2>10. ASSUME ValuesBelowTen' PROVE NotDecremented'
    <3>1. ValuesBelowTen
      BY <2>4, <2>10 DEF ValuesBelowTen
    <3> SUFFICES ASSUME NEW a \in answers', ~a.req.history, a.low PROVE FALSE
      BY DEF NotDecremented
    <3>2. a \notin answers
      BY <1>0, <3>1 DEF NotDecremented
    <3>3. PICK c \in Client : a.req = req /\ a.low = Below(value, client[c].floor)
      BY <2>7, <3>2
    <3>4. \A r \in rows : r.value[1] <= value[1]
      BY <2>3, <3>1, <3>3
    <3> DEFINE floor == client[c].floor
    <3>5. Below(value, floor)
      BY <3>3
    <3>6. value # None /\ value \in Revision
      BY <2>3, BetterNumber, NoneIsNoRevision
    <3>7. floor # None
      BY <3>5, <3>6 DEF Below
    <3>8. PICK r \in rows : r.value = floor
      BY <3>7 DEF PastInv, Past
    <3> HIDE DEF floor
    <3>9. floor \in Number /\ floor[1] \in Nat /\ floor[1] <= value[1]
      BY <2>6, <3>4, <3>8
    <3>10. /\ value \in Seq(Nat) /\ floor \in Seq(Nat)
           /\ Len(value) = 1 /\ Len(floor) = 1
      <4>1. PICK m \in Nat, n \in Nat : value = <<m>> /\ floor = <<n>>
        BY <2>3, <3>9 DEF Number
      <4> QED
        BY <4>1
    <3>11. \A i : i \in Differ(value, floor) => i = 1
      BY <3>10, DifferIs
    <3>12. Differ(value, floor) # {} => Min(Differ(value, floor)) = 1
      BY <3>10, <3>11, DifferIs
    <3>13. Differ(value, floor) # {} => value[1] < floor[1]
      BY <3>5, <3>6, <3>7, <3>12 DEF Below
    <3>14. Differ(value, floor) = {} => Len(value) < Len(floor)
      BY <3>5, <3>6, <3>7 DEF Below
    <3> QED
      BY <2>6, <3>9, <3>10, <3>13, <3>14
  <2> QED
    BY <2>8, <2>9, <2>10
<1>2. ASSUME UNCHANGED <<rows, answers, greatest>>
      PROVE  Numbers(rows)' /\ LeastTold' /\ (ValuesBelowTen => NotDecremented)'
  BY <1>0, <1>2 DEF Numbers, LeastTold, ValuesBelowTen, NotDecremented
<1> QED
  BY <1>1, <1>2, StepKinds DEF IInv

(***************************************************************************)
(* The theorems.                                                           *)
(***************************************************************************)

AllInv == IInv /\ TypeInv /\ PastInv /\ NoWaiting /\ NumberInv

LEMMA InitAllInv == Init => AllInv
<1> SUFFICES ASSUME Init PROVE AllInv
  OBVIOUS
<1>1. greatest = None /\ \A c \in Client : client[c].floor = None
  BY DEF Init, Idle
<1>2. PastInv
  BY <1>1 DEF PastInv, Past
<1>3. NoWaiting
  BY DEF Init, NoWaiting, NoHandler
<1>4. \A n \in Starts : <<n>> \in Number
  BY PRServerAssumption DEF Number
<1>5. Numbers(rows) /\ answers = {}
  BY <1>4 DEF Init, Numbers, Row
<1>6. NumberInv
  BY <1>5 DEF NumberInv, LeastTold, NotDecremented
<1> QED
  BY <1>2, <1>3, <1>6, InitIInv, InitTypeInv DEF AllInv

LEMMA StepAllInv == AllInv /\ [Next]_vars => AllInv'
  BY StepIInv, StepTypeInv, StepPastInv, StepNoWaiting, StepNumberInv DEF AllInv

LEMMA AllInvImplies ==
    AllInv => AnswersKept /\ (ValuesBelowTen => NoHistoryGrows)
<1> SUFFICES ASSUME AllInv PROVE AnswersKept /\ (ValuesBelowTen => NoHistoryGrows)
  OBVIOUS
<1>1. TypeOK /\ AnswersStored
  BY TypeInvImplies DEF AllInv, IInv
<1>2. ValuesBelowTen => NoHistoryGrows
  BY DEF AllInv, NumberInv, NoHistoryGrows
<1>3. ASSUME ~upstream, NEW a \in answers, NEW b \in answers, a.req.history, a.req = b.req
      PROVE  a.value = b.value
  <2>1. /\ \A c \in answers : Row(c.req.checksum, c.value) \in rows
        /\ Numbers(rows) /\ LeastTold
    BY <1>1, <1>3 DEF AnswersStored, AllInv, NumberInv
  <2>2. \A c \in answers : /\ Row(c.req.checksum, c.value).value = c.value
                           /\ Row(c.req.checksum, c.value).checksum = c.req.checksum
    BY DEF Row
  <2>3. a.value \in Number /\ b.value \in Number
    BY <2>1, <2>2 DEF Numbers
  <2>4. a.value[1] <= b.value[1] /\ b.value[1] <= a.value[1]
    BY <1>3, <2>1, <2>2 DEF LeastTold
  <2> QED
    BY <2>3, <2>4, BetterNumber
<1>4. HistoryRepeats
  BY <1>3 DEF HistoryRepeats
<1> QED
  BY <1>1, <1>2, <1>4 DEF AnswersKept

\* What a client was told survives: the row is in the table that a restarted
\* server reads, through broken connections, repeated requests and crashes, and
\* with answers of handlers that waited for upstream meanwhile; the tables,
\* handlers and requests keep their types; and without upstream, a request with
\* history is told the same value whenever it is made.
THEOREM AnswersKeptTheorem == Spec => []AnswersKept
<1>1. AllInv => AnswersKept
  BY AllInvImplies
<1> QED
  BY <1>1, InitAllInv, StepAllInv, PTL DEF Spec

\* A value told without history is not below any told before the request was made,
\* as long as the values of the table are below ten: there the order of texts, by
\* which _get_value() sees that a value is not the greatest any more, is that of
\* numbers.
THEOREM NoHistoryGrowsTheorem == Spec => [](ValuesBelowTen => NoHistoryGrows)
<1>1. AllInv => (ValuesBelowTen => NoHistoryGrows)
  BY AllInvImplies
<1> QED
  BY <1>1, InitAllInv, StepAllInv, PTL DEF Spec
=============================================================================

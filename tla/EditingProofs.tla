----------------------------- MODULE EditingProofs -----------------------------
(***************************************************************************)
(* Proofs about the tools that edit a document's blocks, Sections and      *)
(* UpdateBlock, for any document, any number of calls and edits, and any   *)
(* interleaving.                                                           *)
(***************************************************************************)
EXTENDS Sections, UpdateBlock, SequenceTheorems, WellFoundedInduction, TLAPS

-----------------------------------------------------------------------------
(* Documents                                                               *)

(* Sets of numbers have a least member.                                    *)
LEMMA HasMin ==
    ASSUME NEW S \in SUBSET Nat, S # {}
    PROVE  Min(S) \in S /\ \A y \in S : Min(S) <= y
<1> DEFINE R == {ss \in Nat \X Nat : ss[1] < ss[2]}
<1>1. IsWellFoundedOn(R, Nat)
  BY NatLessThanWellFounded DEF OpToRel
<1> HIDE DEF R
<1>2. PICK x \in S : \A y \in S : <<y, x>> \notin R
  BY <1>1, WFMin
<1>3. ASSUME NEW y \in S PROVE x <= y
  <2>1. x \in Nat /\ y \in Nat /\ <<y, x>> \notin R
    BY <1>2
  <2> QED
    BY <2>1 DEF R
<1> QED
  BY <1>2, <1>3 DEF Min

LEMMA DocProperties ==
    ASSUME NEW d \in Seq(Block)
    PROVE  /\ Len(d) \in Nat /\ DOMAIN d = 1..Len(d)
           /\ \A i \in 1..Len(d) : d[i] \in Block /\ d[i].id \in Nat /\ d[i].level \in 0..6
           /\ ToSet(d) = {d[i] : i \in 1..Len(d)}
           /\ \A x : x \in Ids(d) <=> \E i \in 1..Len(d) : d[i].id = x
           /\ Ids(d) \subseteq Nat
<1>1. Len(d) \in Nat /\ DOMAIN d = 1..Len(d) /\ \A i \in 1..Len(d) : d[i] \in Block
  BY LenProperties, ElementOfSeq
<1>2. ToSet(d) = {d[i] : i \in 1..Len(d)}
  BY <1>1 DEF ToSet
<1>3. \A b \in Block : b.id \in Nat /\ b.level \in 0..6
  BY DEF Block
<1> QED
  BY <1>1, <1>2, <1>3 DEF Ids

(* Blocks with different ids stand in a total order.                       *)
LEMMA Order ==
    ASSUME NEW d \in Seq(Block), Distinct(d)
    PROVE  /\ \A x, y : Before(d, x, y) => x \in Ids(d) /\ y \in Ids(d) /\ x # y /\ ~Before(d, y, x)
           /\ \A x, y, z : Before(d, x, y) /\ Before(d, y, z) => Before(d, x, z)
           /\ \A x, y \in Ids(d) : x = y \/ Before(d, x, y) \/ Before(d, y, x)
<1>1. /\ Len(d) \in Nat /\ DOMAIN d = 1..Len(d)
      /\ \A x : x \in Ids(d) <=> \E i \in 1..Len(d) : d[i].id = x
      /\ \A i, j \in 1..Len(d) : d[i].id = d[j].id => i = j
  BY DocProperties DEF Distinct
<1>2. ASSUME NEW x, NEW y, Before(d, x, y)
      PROVE  x \in Ids(d) /\ y \in Ids(d) /\ x # y /\ ~Before(d, y, x)
  <2>1. PICK i \in 1..Len(d), j \in 1..Len(d) : i < j /\ d[i].id = x /\ d[j].id = y
    BY <1>1, <1>2 DEF Before
  <2>2. x \in Ids(d) /\ y \in Ids(d) /\ x # y
    BY <1>1, <2>1
  <2>3. ASSUME Before(d, y, x) PROVE FALSE
    <3>1. PICK k \in 1..Len(d), l \in 1..Len(d) : k < l /\ d[k].id = y /\ d[l].id = x
      BY <1>1, <2>3 DEF Before
    <3>2. k = j /\ l = i
      BY <1>1, <2>1, <3>1
    <3> QED
      BY <1>1, <2>1, <3>1, <3>2
  <2> QED
    BY <2>2, <2>3
<1>3. ASSUME NEW x, NEW y, NEW z, Before(d, x, y), Before(d, y, z) PROVE Before(d, x, z)
  <2>1. PICK i \in 1..Len(d), j \in 1..Len(d) : i < j /\ d[i].id = x /\ d[j].id = y
    BY <1>1, <1>3 DEF Before
  <2>2. PICK k \in 1..Len(d), l \in 1..Len(d) : k < l /\ d[k].id = y /\ d[l].id = z
    BY <1>1, <1>3 DEF Before
  <2>3. j = k
    BY <1>1, <2>1, <2>2
  <2>4. i < l
    BY <1>1, <2>1, <2>2, <2>3
  <2> QED
    BY <1>1, <2>1, <2>2, <2>4 DEF Before
<1>4. ASSUME NEW x \in Ids(d), NEW y \in Ids(d), x # y PROVE Before(d, x, y) \/ Before(d, y, x)
  <2>1. PICK i \in 1..Len(d), j \in 1..Len(d) : d[i].id = x /\ d[j].id = y
    BY <1>1
  <2>2. i < j \/ j < i
    BY <1>1, <1>4, <2>1
  <2> QED
    BY <1>1, <2>1, <2>2 DEF Before
<1> QED
  BY <1>2, <1>3, <1>4

(* `new` behind the first k entries of d.                                  *)
Splice(d, k, new) == SubSeq(d, 1, k) \o new \o SubSeq(d, k + 1, Len(d))

(* e is that, entry by entry.                                              *)
Spliced(e, d, k, new) ==
    /\ Len(e) = Len(d) + Len(new)
    /\ \A i \in 1..k : e[i] = d[i]
    /\ \A i \in 1..Len(new) : e[k + i] = new[i]
    /\ \A i \in k + 1 .. Len(d) : e[Len(new) + i] = d[i]

LEMMA SpliceEntries ==
    ASSUME NEW S, NEW d \in Seq(S), NEW new \in Seq(S), NEW k \in 0..Len(d)
    PROVE  Splice(d, k, new) \in Seq(S) /\ Spliced(Splice(d, k, new), d, k, new)
<1>1. Len(d) \in Nat /\ Len(new) \in Nat /\ \A i \in 1..Len(d) : d[i] \in S
  BY LenProperties, ElementOfSeq
<1> DEFINE u == SubSeq(d, 1, k)
           v == SubSeq(d, k + 1, Len(d))
           un == u \o new
           e == un \o v
<1>2. u \in Seq(S) /\ Len(u) = k /\ \A i \in 1..k : u[i] = d[i]
  BY <1>1, SubSeqProperties
<1>3. v \in Seq(S) /\ Len(v) = Len(d) - k /\ \A i \in 1 .. Len(d) - k : v[i] = d[k + i]
  <2>1. /\ v \in Seq(S) /\ Len(v) = IF k + 1 <= Len(d) THEN Len(d) - (k + 1) + 1 ELSE 0
        /\ \A i \in 1 .. Len(d) - (k + 1) + 1 : v[i] = d[k + 1 + i - 1]
    BY <1>1, SubSeqProperties
  <2> HIDE DEF v
  <2>2. Len(v) = Len(d) - k
    BY <1>1, <2>1
  <2>3. ASSUME NEW i \in 1 .. Len(d) - k PROVE v[i] = d[k + i]
    <3>1. i \in 1 .. Len(d) - (k + 1) + 1 /\ k + 1 + i - 1 = k + i
      BY <1>1
    <3> QED
      BY <2>1, <3>1
  <2> QED
    BY <2>1, <2>2, <2>3
<1> HIDE DEF u, v
<1>4. /\ un \in Seq(S) /\ Len(un) = k + Len(new)
      /\ \A i \in 1 .. k + Len(new) : un[i] = IF i <= k THEN u[i] ELSE new[i - k]
  BY <1>2, ConcatProperties
<1> HIDE DEF un
<1>5. /\ e \in Seq(S) /\ Len(e) = Len(un) + Len(v)
      /\ \A i \in 1 .. Len(un) + Len(v) : e[i] = IF i <= Len(un) THEN un[i] ELSE v[i - Len(un)]
  BY <1>3, <1>4, ConcatProperties
<1> HIDE DEF e
<1>6. Len(e) = Len(d) + Len(new)
  BY <1>1, <1>3, <1>4, <1>5
<1>7. ASSUME NEW i \in 1..k PROVE e[i] = d[i]
  <2>1. i \in 1 .. Len(un) + Len(v) /\ i <= Len(un) /\ i \in 1 .. k + Len(new) /\ i <= k
    BY <1>1, <1>3, <1>4
  <2>2. e[i] = un[i] /\ un[i] = u[i]
    BY <1>4, <1>5, <2>1
  <2> QED
    BY <1>2, <2>2
<1>8. ASSUME NEW i \in 1..Len(new) PROVE e[k + i] = new[i]
  <2>1. /\ k + i \in 1 .. Len(un) + Len(v) /\ k + i <= Len(un) /\ k + i \in 1 .. k + Len(new)
        /\ ~(k + i <= k) /\ k + i - k = i
    BY <1>1, <1>3, <1>4
  <2>2. e[k + i] = un[k + i] /\ un[k + i] = new[k + i - k]
    BY <1>4, <1>5, <2>1
  <2> QED
    BY <2>1, <2>2
<1>9. ASSUME NEW i \in k + 1 .. Len(d) PROVE e[Len(new) + i] = d[i]
  <2>1. /\ Len(new) + i \in 1 .. Len(un) + Len(v) /\ ~(Len(new) + i <= Len(un))
        /\ Len(new) + i - Len(un) = i - k /\ i - k \in 1 .. Len(d) - k /\ k + (i - k) = i
    BY <1>1, <1>3, <1>4
  <2> DEFINE j == Len(new) + i
  <2>2. e[j] = IF j <= Len(un) THEN un[j] ELSE v[j - Len(un)]
    BY <1>5, <2>1
  <2>3. ~(j <= Len(un)) /\ j - Len(un) = i - k
    BY <2>1
  <2>4. v[i - k] = d[k + (i - k)] /\ k + (i - k) = i
    BY <1>3, <2>1
  <2> HIDE DEF j
  <2>5. e[j] = d[i]
    BY <2>2, <2>3, <2>4
  <2> QED
    BY <2>5 DEF j
<1> QED
  BY <1>5, <1>6, <1>7, <1>8, <1>9 DEF e, un, u, v, Splice, Spliced

(* New blocks between old ones.                                            *)
LEMMA SpliceBlocks ==
    ASSUME NEW d \in Seq(Block), Distinct(d), NEW new \in Seq(Block), Distinct(new),
           Ids(d) \cap Ids(new) = {}, NEW k \in 0..Len(d)
    PROVE  LET e == Splice(d, k, new)
           IN  /\ e \in Seq(Block) /\ Distinct(e) /\ ToSet(e) = ToSet(d) \cup ToSet(new)
               /\ Ids(e) = Ids(d) \cup Ids(new)
               /\ \A x, y : Before(d, x, y) \/ Before(new, x, y) => Before(e, x, y)
               /\ \A i \in 1..k, y \in Ids(new) : Before(e, d[i].id, y)
               /\ \A i \in k + 1 .. Len(d), y \in Ids(new) : Before(e, y, d[i].id)
<1> DEFINE e == Splice(d, k, new)
           n == Len(new)
           at(i) == IF i <= k THEN i ELSE n + i
<1>1. /\ e \in Seq(Block) /\ Len(e) = Len(d) + n
      /\ \A i \in 1..k : e[i] = d[i]
      /\ \A i \in 1..n : e[k + i] = new[i]
      /\ \A i \in k + 1 .. Len(d) : e[n + i] = d[i]
  <2>1. e \in Seq(Block) /\ Spliced(e, d, k, new)
    BY SpliceEntries
  <2> HIDE DEF e
  <2> QED
    BY <2>1 DEF Spliced
<1> HIDE DEF e
<1>2. /\ Len(d) \in Nat /\ n \in Nat /\ DOMAIN d = 1..Len(d) /\ DOMAIN new = 1..n
      /\ DOMAIN e = 1 .. Len(d) + n
      /\ \A x : x \in Ids(d) <=> \E i \in 1..Len(d) : d[i].id = x
      /\ \A x : x \in Ids(new) <=> \E i \in 1..n : new[i].id = x
      /\ ToSet(d) = {d[i] : i \in 1..Len(d)} /\ ToSet(new) = {new[i] : i \in 1..n}
      /\ ToSet(e) = {e[i] : i \in 1 .. Len(d) + n}
  BY <1>1, DocProperties
<1> HIDE DEF n
<1>3. ASSUME NEW i \in 1..Len(d) PROVE at(i) \in 1 .. Len(d) + n /\ e[at(i)] = d[i]
  BY <1>1, <1>2
<1>4. ASSUME NEW i \in 1..n PROVE k + i \in 1 .. Len(d) + n /\ e[k + i] = new[i]
  BY <1>1, <1>2
<1>5. ASSUME NEW j \in 1 .. Len(d) + n
      PROVE  (\E i \in 1..Len(d) : j = at(i)) \/ (\E i \in 1..n : j = k + i)
  <2>1. CASE j <= k
    BY <1>2, <2>1
  <2>2. CASE j > k /\ j <= k + n
    <3>1. j - k \in 1..n /\ j = k + (j - k)
      BY <1>2, <2>2
    <3> QED
      BY <3>1
  <2>3. CASE j > k + n
    <3>1. j - n \in 1..Len(d) /\ j = at(j - n)
      BY <1>2, <2>3
    <3> QED
      BY <3>1
  <2> QED
    BY <1>2, <2>1, <2>2, <2>3
<1>6. \A i, j \in 1..Len(d) : (i < j => at(i) < at(j)) /\ (at(i) = at(j) => i = j)
  BY <1>2
<1>7. ToSet(e) = ToSet(d) \cup ToSet(new)
  <2> HIDE DEF at
  <2>1. ASSUME NEW b \in ToSet(e) PROVE b \in ToSet(d) \cup ToSet(new)
    <3>1. PICK j \in 1 .. Len(d) + n : b = e[j]
      BY <1>2
    <3>2. CASE \E i \in 1..Len(d) : j = at(i)
      BY <1>2, <1>3, <3>1, <3>2
    <3>3. ASSUME NEW i \in 1..n, j = k + i PROVE b \in ToSet(new)
      <4>1. b = new[i]
        BY <1>4, <3>1, <3>3
      <4> QED
        BY <1>2, <4>1
    <3> QED
      BY <1>5, <3>2, <3>3
  <2>2. ASSUME NEW b \in ToSet(d) \cup ToSet(new) PROVE b \in ToSet(e)
    BY <1>2, <1>3, <1>4
  <2> QED
    BY <2>1, <2>2
<1>8. Ids(e) = Ids(d) \cup Ids(new)
  BY <1>7 DEF Ids
<1>9. Distinct(e)
  <2>1. SUFFICES ASSUME NEW p \in 1 .. Len(d) + n, NEW q \in 1 .. Len(d) + n, e[p].id = e[q].id
                 PROVE  p = q
    BY <1>2 DEF Distinct
  <2> HIDE DEF at
  <2>2. \A i \in 1..Len(d), j \in 1..n : d[i].id # new[j].id
    BY <1>2
  <2>3. /\ \A i, j \in 1..Len(d) : d[i].id = d[j].id => i = j
        /\ \A i, j \in 1..n : new[i].id = new[j].id => i = j
    BY <1>2 DEF Distinct
  <2>4. CASE (\E i \in 1..Len(d) : p = at(i)) /\ (\E i \in 1..Len(d) : q = at(i))
    BY <1>3, <2>1, <2>3, <2>4
  <2>5. CASE (\E i \in 1..n : p = k + i) /\ (\E i \in 1..n : q = k + i)
    BY <1>4, <2>1, <2>3, <2>5
  <2>6. CASE (\E i \in 1..n : p = k + i) /\ (\E i \in 1..Len(d) : q = at(i))
    BY <1>3, <1>4, <2>1, <2>2, <2>6, SMTT(30)
  <2>7. CASE (\E i \in 1..Len(d) : p = at(i)) /\ (\E i \in 1..n : q = k + i)
    BY <1>3, <1>4, <2>1, <2>2, <2>7, SMTT(30)
  <2> QED
    BY <1>5, <2>4, <2>5, <2>6, <2>7
<1>10. ASSUME NEW x, NEW y, Before(d, x, y) PROVE Before(e, x, y)
  <2>1. PICK i \in 1..Len(d), j \in 1..Len(d) : i < j /\ d[i].id = x /\ d[j].id = y
    BY <1>2, <1>10 DEF Before
  <2>2. at(i) < at(j)
    BY <1>6, <2>1
  <2> HIDE DEF at
  <2> QED
    BY <1>2, <1>3, <2>1, <2>2 DEF Before
<1>11. ASSUME NEW x, NEW y, Before(new, x, y) PROVE Before(e, x, y)
  <2>1. PICK i \in 1..n, j \in 1..n : i < j /\ new[i].id = x /\ new[j].id = y
    BY <1>2, <1>11 DEF Before
  <2>2. k + i < k + j
    BY <1>2, <2>1
  <2> QED
    BY <1>2, <1>4, <2>1, <2>2 DEF Before
<1>12. ASSUME NEW i \in 1..k, NEW y \in Ids(new) PROVE Before(e, d[i].id, y)
  <2>1. PICK j \in 1..n : new[j].id = y
    BY <1>2
  <2>2. Len(d) \in Nat /\ n \in Nat
    BY <1>2
  <2>3. i \in 1 .. Len(d) + n /\ i < k + j
    BY <2>2
  <2>4. e[i] = d[i]
    BY <1>1
  <2> QED
    BY <1>2, <1>4, <2>1, <2>3, <2>4 DEF Before
<1>13. ASSUME NEW i \in k + 1 .. Len(d), NEW y \in Ids(new) PROVE Before(e, y, d[i].id)
  <2>1. PICK j \in 1..n : new[j].id = y
    BY <1>2
  <2>2. Len(d) \in Nat /\ n \in Nat
    BY <1>2
  <2>3. n + i \in 1 .. Len(d) + n /\ k + j < n + i
    BY <2>2
  <2>4. e[n + i] = d[i]
    BY <1>1
  <2> QED
    BY <1>2, <1>4, <2>1, <2>3, <2>4 DEF Before
<1> QED
  BY <1>1, <1>7, <1>8, <1>9, <1>10, <1>11, <1>12, <1>13 DEF e

LEMMA Ends ==
    ASSUME NEW S, NEW d \in Seq(S), NEW new \in Seq(S)
    PROVE  d \o new = Splice(d, Len(d), new) /\ new \o d = Splice(d, 0, new)
<1>1. Len(d) \in Nat
  BY LenProperties
<1>2. SubSeq(d, 1, Len(d)) = d
  BY SubSeqFull
<1>3. SubSeq(d, Len(d) + 1, Len(d)) = << >> /\ SubSeq(d, 1, 0) = << >>
  BY <1>1, SubSeqEmpty
<1>4. d \o new \in Seq(S)
  BY ConcatProperties
<1>5. (d \o new) \o << >> = d \o new /\ << >> \o new = new
  BY <1>4, ConcatEmptySeq
<1>6. Splice(d, Len(d), new) = d \o new
  BY <1>2, <1>3, <1>5 DEF Splice
<1>7. Splice(d, 0, new) = new \o d
  BY <1>2, <1>3, <1>5 DEF Splice
<1> QED
  BY <1>6, <1>7

LEMMA PlaceIs ==
    ASSUME NEW d \in Seq(Block), NEW id \in Ids(d)
    PROVE  Place(d, id) \in 1..Len(d) /\ d[Place(d, id)].id = id
BY DocProperties DEF Place

LEMMA InsertAfterIs ==
    ASSUME NEW d \in Seq(Block), NEW id \in Ids(d), NEW new
    PROVE  InsertAfter(d, id, new) = Splice(d, Place(d, id), new)
BY DEF InsertAfter, Splice

(* What is left when a block goes.                                         *)
LEMMA WithoutBlocks ==
    ASSUME NEW d \in Seq(Block), Distinct(d), NEW id
    PROVE  LET e == Without(d, id)
           IN  /\ e \in Seq(Block) /\ Distinct(e)
               /\ ToSet(e) = {b \in ToSet(d) : b.id # id} /\ Ids(e) = Ids(d) \ {id}
               /\ \A x, y : x # id /\ y # id /\ Before(d, x, y) => Before(e, x, y)
<1> DEFINE e == Without(d, id)
<1>1. /\ Len(d) \in Nat /\ DOMAIN d = 1..Len(d)
      /\ \A x : x \in Ids(d) <=> \E i \in 1..Len(d) : d[i].id = x
      /\ ToSet(d) = {d[i] : i \in 1..Len(d)}
      /\ \A i \in 1..Len(d) : d[i] \in Block
      /\ \A i, j \in 1..Len(d) : d[i].id = d[j].id => i = j
  BY DocProperties DEF Distinct
<1>2. CASE id \notin Ids(d)
  <2>1. e = d /\ \A b \in ToSet(d) : b.id # id
    BY <1>2 DEF Without, Ids
  <2> QED
    BY <1>2, <2>1
<1>3. CASE id \in Ids(d)
  <2> DEFINE k == Place(d, id)
             u == SubSeq(d, 1, k - 1)
             v == SubSeq(d, k + 1, Len(d))
             n == Len(d) - 1
             at(i) == IF i < k THEN i ELSE i + 1
  <2>1. k \in 1..Len(d) /\ d[k].id = id
    BY <1>3, PlaceIs
  <2>2. e = u \o v
    BY <1>3 DEF Without, RemoveAt
  <2> HIDE DEF k, e
  <2>3. /\ u \in Seq(Block) /\ Len(u) = k - 1 /\ \A i \in 1 .. k - 1 : u[i] = d[i]
    BY <1>1, <2>1, SubSeqProperties
  <2>4. /\ v \in Seq(Block) /\ Len(v) = Len(d) - k /\ \A i \in 1 .. Len(d) - k : v[i] = d[k + i]
    <3>1. /\ v \in Seq(Block) /\ Len(v) = IF k + 1 <= Len(d) THEN Len(d) - (k + 1) + 1 ELSE 0
          /\ \A i \in 1 .. Len(d) - (k + 1) + 1 : v[i] = d[k + 1 + i - 1]
      BY <1>1, <2>1, SubSeqProperties
    <3> HIDE DEF v
    <3>2. Len(v) = Len(d) - k
      <4>1. CASE k + 1 <= Len(d)
        BY <1>1, <2>1, <3>1, <4>1
      <4>2. CASE ~(k + 1 <= Len(d))
        <5>1. Len(v) = 0
          BY <3>1, <4>2
        <5>2. Len(d) \in Nat /\ k \in 1..Len(d)
          BY <1>1, <2>1
        <5> QED
          BY <4>2, <5>1, <5>2
      <4> QED
        BY <4>1, <4>2
    <3>3. ASSUME NEW i \in 1 .. Len(d) - k PROVE v[i] = d[k + i]
      <4>1. i \in 1 .. Len(d) - (k + 1) + 1 /\ k + 1 + i - 1 = k + i
        BY <1>1, <2>1
      <4> QED
        BY <3>1, <4>1
    <3> QED
      BY <3>1, <3>2, <3>3
  <2> HIDE DEF u, v
  <2>5. /\ e \in Seq(Block) /\ Len(e) = Len(u) + Len(v)
        /\ \A i \in 1 .. Len(u) + Len(v) : e[i] = IF i <= Len(u) THEN u[i] ELSE v[i - Len(u)]
    BY <2>2, <2>3, <2>4, ConcatProperties
  <2>6. n \in Nat /\ Len(e) = n /\ DOMAIN e = 1..n
    BY <1>1, <2>1, <2>3, <2>4, <2>5, LenProperties
  <2>7. ASSUME NEW i \in 1..n PROVE at(i) \in 1..Len(d) /\ at(i) # k /\ e[i] = d[at(i)]
    <3>1. CASE i < k
      <4>1. i \in 1 .. Len(u) + Len(v) /\ i <= Len(u) /\ i \in 1 .. k - 1
        BY <1>1, <2>1, <2>3, <2>4, <3>1
      <4>2. e[i] = u[i] /\ u[i] = d[i]
        BY <2>3, <2>5, <4>1
      <4> QED
        BY <1>1, <2>1, <3>1, <4>2
    <3>2. CASE ~(i < k)
      <4>1. /\ i \in 1 .. Len(u) + Len(v) /\ ~(i <= Len(u)) /\ i - Len(u) \in 1 .. Len(d) - k
            /\ k + (i - Len(u)) = i + 1
        BY <1>1, <2>1, <2>3, <2>4, <3>2
      <4>2. e[i] = v[i - Len(u)] /\ v[i - Len(u)] = d[k + (i - Len(u))]
        BY <2>4, <2>5, <4>1
      <4>3. e[i] = d[i + 1]
        BY <4>1, <4>2
      <4>4. i + 1 \in 1..Len(d) /\ i + 1 # k
        BY <1>1, <2>1, <3>2
      <4> QED
        BY <3>2, <4>3, <4>4
    <3> QED
      BY <3>1, <3>2
  <2>8. ASSUME NEW j \in 1..Len(d), j # k PROVE \E i \in 1..n : at(i) = j
    <3>1. CASE j < k
      <4>1. j \in 1..n /\ at(j) = j
        BY <1>1, <2>1, <3>1
      <4> HIDE DEF at, n
      <4> QED
        BY <4>1
    <3>2. CASE j > k
      <4>1. j - 1 \in 1..n /\ at(j - 1) = j
        BY <1>1, <2>1, <3>2
      <4> HIDE DEF at, n
      <4> QED
        BY <4>1
    <3> QED
      BY <1>1, <2>1, <2>8, <3>1, <3>2
  <2>9. \A i, j \in 1..n : (at(i) < at(j) => i < j) /\ (at(i) = at(j) => i = j)
    BY <1>1, <2>1
  <2> HIDE DEF at, n
  <2>10. ToSet(e) = {e[i] : i \in 1..n}
    BY <2>6 DEF ToSet
  <2>11. ToSet(e) = {b \in ToSet(d) : b.id # id}
    <3>1. ASSUME NEW b \in ToSet(e) PROVE b \in ToSet(d) /\ b.id # id
      <4>1. PICK i \in 1..n : b = e[i]
        BY <2>10
      <4>2. b = d[at(i)] /\ at(i) \in 1..Len(d) /\ at(i) # k
        BY <2>7, <4>1
      <4> QED
        BY <1>1, <2>1, <4>2
    <3>2. ASSUME NEW b \in ToSet(d), b.id # id PROVE b \in ToSet(e)
      <4>1. PICK j \in 1..Len(d) : b = d[j]
        BY <1>1
      <4>2. j # k
        BY <2>1, <3>2, <4>1
      <4>3. PICK i \in 1..n : at(i) = j
        BY <2>8, <4>2
      <4> QED
        BY <2>7, <2>10, <4>1, <4>3
    <3> QED
      BY <3>1, <3>2
  <2>12. Distinct(e)
    <3>1. ASSUME NEW i \in 1..n, NEW j \in 1..n, e[i].id = e[j].id PROVE i = j
      <4>1. d[at(i)].id = d[at(j)].id /\ at(i) \in 1..Len(d) /\ at(j) \in 1..Len(d)
        BY <2>7, <3>1
      <4> QED
        BY <1>1, <2>9, <4>1
    <3> QED
      BY <2>6, <3>1 DEF Distinct
  <2>13. ASSUME NEW x, NEW y, x # id, y # id, Before(d, x, y) PROVE Before(e, x, y)
    <3>1. PICK p \in 1..Len(d), q \in 1..Len(d) : p < q /\ d[p].id = x /\ d[q].id = y
      BY <1>1, <2>13 DEF Before
    <3>2. p # k /\ q # k
      BY <2>1, <2>13, <3>1
    <3>3. PICK i \in 1..n : at(i) = p
      BY <2>8, <3>2
    <3>4. PICK j \in 1..n : at(j) = q
      BY <2>8, <3>2
    <3>5. i < j /\ e[i].id = x /\ e[j].id = y
      BY <2>7, <2>9, <3>1, <3>3, <3>4
    <3> QED
      BY <2>6, <3>5 DEF Before
  <2>14. Ids(e) = Ids(d) \ {id}
    BY <2>11 DEF Ids
  <2> QED
    BY <2>5, <2>11, <2>12, <2>13, <2>14 DEF e
<1> QED
  BY <1>2, <1>3

(* A block is in a section if it comes behind the heading, and neither it  *)
(* nor any block in between is a heading of the same or a higher rank.     *)
LEMMA SectionIs ==
    ASSUME NEW d \in Seq(Block), Distinct(d), NEW h \in ToSet(d)
    PROVE  /\ Section(d, h.id) \in Seq(Block)
           /\ \A x : x \in Ids(Section(d, h.id)) <=>
                  /\ Before(d, h.id, x)
                  /\ \A b \in ToSet(d) :
                        Before(d, h.id, b.id) /\ (b.id = x \/ Before(d, b.id, x))
                            => b.level \notin 1 .. h.level
<1> DEFINE at    == Place(d, h.id)
           stops == {i \in at + 1 .. Len(d) : d[i].level \in 1 .. d[at].level}
           end   == IF stops = {} THEN Len(d) ELSE Min(stops) - 1
           s     == SubSeq(d, at + 1, end)
<1>1. /\ Len(d) \in Nat /\ DOMAIN d = 1..Len(d)
      /\ ToSet(d) = {d[i] : i \in 1..Len(d)}
      /\ \A i \in 1..Len(d) : d[i] \in Block
      /\ \A i, j \in 1..Len(d) : d[i].id = d[j].id => i = j
      /\ h.id \in Ids(d)
  BY DocProperties DEF Distinct, Ids
<1>2. at \in 1..Len(d) /\ d[at].id = h.id /\ d[at] = h
  BY <1>1, PlaceIs
<1>3. Section(d, h.id) = s
  BY <1>1 DEF Section
<1> HIDE DEF at
<1>4. end \in at .. Len(d) /\ \A j \in at + 1 .. Len(d) : j <= end <=> \A i \in at + 1 .. j : i \notin stops
  <2>1. CASE stops = {}
    BY <1>1, <1>2, <2>1
  <2>2. CASE stops # {}
    <3>1. stops \in SUBSET Nat
      BY <1>1, <1>2
    <3> DEFINE m == Min(stops)
    <3>2. m \in stops /\ \A i \in stops : m <= i
      BY <2>2, <3>1, HasMin
    <3>3. end = m - 1
      BY <2>2
    <3>4. m \in at + 1 .. Len(d)
      BY <3>2
    <3> HIDE DEF m, end, stops
    <3>5. end \in at .. Len(d)
      BY <1>1, <1>2, <3>3, <3>4
    <3>6. ASSUME NEW j \in at + 1 .. Len(d) PROVE j <= end <=> \A i \in at + 1 .. j : i \notin stops
      <4>1. CASE j <= end
        <5>1. ASSUME NEW i \in at + 1 .. j PROVE i \notin stops
          BY <1>1, <1>2, <3>2, <3>3, <3>4, <4>1
        <5> QED
          BY <4>1, <5>1
      <4>2. CASE ~(j <= end)
        <5>1. m \in at + 1 .. j
          BY <1>1, <1>2, <3>3, <3>4, <4>2
        <5> QED
          BY <3>2, <4>2, <5>1
      <4> QED
        BY <4>1, <4>2
    <3> QED
      BY <3>5, <3>6
  <2> QED
    BY <2>1, <2>2
<1>5. /\ s \in Seq(Block) /\ Len(s) = end - at
      /\ \A i \in 1 .. end - at : s[i] = d[at + i]
  <2> HIDE DEF end
  <2>1. \A i \in at + 1 .. end : d[i] \in Block
    BY <1>1, <1>2, <1>4
  <2>2. /\ s \in Seq(Block) /\ Len(s) = IF at + 1 <= end THEN end - (at + 1) + 1 ELSE 0
        /\ \A i \in 1 .. end - (at + 1) + 1 : s[i] = d[at + 1 + i - 1]
    BY <1>1, <1>2, <1>4, <2>1, SubSeqProperties
  <2> HIDE DEF s
  <2>3. Len(s) = end - at
    BY <1>1, <1>2, <1>4, <2>2
  <2>4. ASSUME NEW i \in 1 .. end - at PROVE s[i] = d[at + i]
    <3>1. i \in 1 .. end - (at + 1) + 1 /\ at + 1 + i - 1 = at + i
      BY <1>1, <1>2, <1>4
    <3> QED
      BY <2>2, <3>1
  <2> QED
    BY <2>2, <2>3, <2>4
<1>6. ASSUME NEW x PROVE x \in Ids(s) <=> \E j \in at + 1 .. end : d[j].id = x
  <2> HIDE DEF s, end
  <2>1. x \in Ids(s) <=> \E i \in 1 .. end - at : s[i].id = x
    BY <1>5, DocProperties
  <2>2. ASSUME NEW i \in 1 .. end - at, s[i].id = x PROVE \E j \in at + 1 .. end : d[j].id = x
    <3>1. at + i \in at + 1 .. end /\ d[at + i].id = x
      BY <1>1, <1>2, <1>4, <1>5, <2>2
    <3> QED
      BY <3>1
  <2>3. ASSUME NEW j \in at + 1 .. end, d[j].id = x PROVE \E i \in 1 .. end - at : s[i].id = x
    <3>1. j - at \in 1 .. end - at /\ at + (j - at) = j
      BY <1>1, <1>2, <1>4
    <3>2. s[j - at] = d[j]
      BY <1>5, <3>1
    <3> QED
      BY <2>3, <3>1, <3>2
  <2> QED
    BY <2>1, <2>2, <2>3
<1> HIDE DEF s, end
<1>7. ASSUME NEW x, NEW j \in at + 1 .. end, d[j].id = x
      PROVE  /\ Before(d, h.id, x)
             /\ \A b \in ToSet(d) :
                   Before(d, h.id, b.id) /\ (b.id = x \/ Before(d, b.id, x)) => b.level \notin 1 .. h.level
  <2>1. j \in 1..Len(d) /\ at < j
    BY <1>1, <1>2, <1>4
  <2>2. Before(d, h.id, x)
    BY <1>1, <1>2, <1>7, <2>1 DEF Before
  <2>3. ASSUME NEW b \in ToSet(d), Before(d, h.id, b.id), b.id = x \/ Before(d, b.id, x)
        PROVE  b.level \notin 1 .. h.level
    <3>1. PICK i \in 1..Len(d) : b = d[i]
      BY <1>1
    <3>2. at < i
      <4>1. PICK p \in 1..Len(d), q \in 1..Len(d) : p < q /\ d[p].id = h.id /\ d[q].id = b.id
        BY <1>1, <2>3 DEF Before
      <4>2. p = at /\ q = i
        BY <1>1, <1>2, <3>1, <4>1
      <4> QED
        BY <4>1, <4>2
    <3>3. i <= j
      <4>1. CASE b.id = x
        BY <1>1, <1>7, <2>1, <3>1, <4>1
      <4>2. CASE Before(d, b.id, x)
        <5>1. PICK p \in 1..Len(d), q \in 1..Len(d) : p < q /\ d[p].id = b.id /\ d[q].id = x
          BY <1>1, <4>2 DEF Before
        <5>2. p = i /\ q = j
          BY <1>1, <1>7, <2>1, <3>1, <5>1
        <5> QED
          BY <1>1, <5>1, <5>2
      <4> QED
        BY <2>3, <4>1, <4>2
    <3>4. i \notin stops
      BY <1>1, <1>2, <1>4, <2>1, <3>2, <3>3
    <3> QED
      BY <1>1, <1>2, <3>1, <3>2, <3>4
  <2> QED
    BY <2>2, <2>3
<1>8. ASSUME NEW x, Before(d, h.id, x),
             \A b \in ToSet(d) :
                Before(d, h.id, b.id) /\ (b.id = x \/ Before(d, b.id, x)) => b.level \notin 1 .. h.level
      PROVE  \E j \in at + 1 .. end : d[j].id = x
  <2>1. PICK p \in 1..Len(d), j \in 1..Len(d) : p < j /\ d[p].id = h.id /\ d[j].id = x
    BY <1>1, <1>8 DEF Before
  <2>2. p = at
    BY <1>1, <1>2, <2>1
  <2>3. ASSUME NEW i \in at + 1 .. j PROVE i \notin stops
    <3>1. i \in 1..Len(d) /\ at < i /\ d[i] \in ToSet(d)
      BY <1>1, <1>2
    <3>2. Before(d, h.id, d[i].id)
      BY <1>1, <1>2, <3>1 DEF Before
    <3>3. d[i].id = x \/ Before(d, d[i].id, x)
      <4>1. i = j \/ i < j
        BY <1>1, <1>2
      <4> QED
        BY <1>1, <2>1, <3>1, <4>1 DEF Before
    <3>4. d[i].level \notin 1 .. h.level
      BY <1>8, <3>1, <3>2, <3>3
    <3> QED
      BY <1>2, <3>4
  <2>4. j \in at + 1 .. Len(d)
    BY <1>1, <1>2, <2>1, <2>2
  <2>5. j <= end
    BY <1>4, <2>3, <2>4
  <2>6. j \in at + 1 .. end
    BY <1>4, <2>4, <2>5
  <2> QED
    BY <2>1, <2>6
<1> QED
  BY <1>3, <1>5, <1>6, <1>7, <1>8

LEMMA SectionType ==
    ASSUME NEW d \in Seq(Block), Distinct(d), NEW id
    PROVE  Section(d, id) \in Seq(Block) /\ Ids(Section(d, id)) \subseteq Ids(d)
<1>1. CASE id \notin Ids(d)
  <2>1. Section(d, id) = << >> /\ << >> \in Seq(Block)
    BY <1>1 DEF Section
  <2>2. Ids(<< >>) = {}
    BY DEF Ids, ToSet
  <2> QED
    BY <2>1, <2>2
<1>2. CASE id \in Ids(d)
  <2>1. PICK h \in ToSet(d) : h.id = id
    BY <1>2 DEF Ids
  <2>2. Section(d, id) \in Seq(Block) /\ \A x \in Ids(Section(d, id)) : Before(d, id, x)
    BY <2>1, SectionIs
  <2>3. \A x : Before(d, id, x) => x \in Ids(d)
    BY Order
  <2> QED
    BY <2>2, <2>3
<1> QED
  BY <1>1, <1>2

-----------------------------------------------------------------------------
(* Sections                                                                *)

(* No block with this id is other than a heading, nor will one be.         *)
NamesHeading(x) ==
    /\ x \in 0 .. next - 1
    /\ \A b \in ToSet(doc) \cup ToSet(Doc0) : b.id = x => IsHeading(b)

Fresh == Ids(doc) \cup Ids(Doc0) \subseteq 0 .. next - 1

SameLevels == \A b \in ToSet(doc), o \in ToSet(Doc0) : b.id = o.id => b.level = o.level

HeadingsKnown ==
    /\ \A b \in rows : NamesHeading(b.id)
    /\ \A c \in Calls : heading[c] # None => NamesHeading(heading[c])

(* Sections are created behind all there is.                               *)
NewLast ==
    \A b \in ToSet(doc), x \in Ids(doc) \cap Ids(Doc0) :
        IsHeading(b) /\ b.id \notin Ids(Doc0) => Before(doc, x, b.id)

OrderOfRest ==
    \A x, y \in Ids(doc) : Before(Doc0, x, y) => Before(doc, x, y)

OnlyLost ==
    /\ Ids(Doc0) \ Ids(doc) \subseteq Lost
    /\ \A c \in Calls : ToSet(todo[c]) \cap Ids(Doc0) \subseteq Lost

Control ==
    \A c \in Calls :
        /\ pc[c] # "idle" => call[c] \in Args
        /\ pc[c] \in {"idle", "query", "children"} => heading[c] = None
        /\ pc[c] = "section" => heading[c] # None
        /\ pc[c] = "delete" => todo[c] # << >>

SectionsInv ==
    /\ TypeOK /\ Fresh /\ SameLevels /\ HeadingsKnown /\ NewLast /\ OrderOfRest
    /\ OnlyLost /\ Control

(* Two calls at work on one name have clashed; one that is to create its   *)
(* section has seen that it is not there.                                  *)
Unrivalled ==
    /\ \A c \in clash : pc[c] # "idle"
    /\ OneByOne =>
        /\ \A c, d \in Calls : Working(c) /\ Working(d) /\ Canon[call[c].name] = Canon[call[d].name]
                                   => c = d
        /\ edits = Edits => \A c \in Calls : pc[c] = "append" =>
                                Matching(ToSet(doc), call[c].name) = {}

(* What any step does to the document.                                     *)
DocStep ==
    /\ doc' \in Seq(Block) /\ Distinct(doc') /\ next' \in Nat /\ next' >= next
    /\ Ids(doc') \subseteq Ids(doc) \cup (next .. next' - 1)
    /\ \A b \in ToSet(doc') : b.id \in Ids(doc) =>
          \E o \in ToSet(doc) : o.id = b.id /\ o.level = b.level
    /\ \A x, y \in Ids(doc') : Before(doc, x, y) => Before(doc', x, y)
    /\ \A b \in ToSet(doc'), x \in Ids(doc) \cap Ids(doc') :
          IsHeading(b) /\ b.id \notin Ids(doc) => Before(doc', x, b.id)
    /\ \A x \in Ids(doc) \ Ids(doc') : \E c \in Calls : x \in ToSet(todo[c])

LEMMA Growth ==
    ASSUME TypeOK, Fresh, NEW new \in Seq(Block), Distinct(new), next' \in Nat, next' >= next,
           Ids(new) \subseteq next .. next' - 1, NEW k \in 0..Len(doc), doc' = Splice(doc, k, new),
           k = Len(doc) \/ \A b \in ToSet(new) : ~IsHeading(b)
    PROVE  DocStep
<1>1. doc \in Seq(Block) /\ Distinct(doc) /\ next \in Nat
  BY DEF TypeOK
<1>2. Ids(doc) \cap Ids(new) = {}
  BY <1>1 DEF Fresh
<1>3. /\ doc' \in Seq(Block) /\ Distinct(doc') /\ ToSet(doc') = ToSet(doc) \cup ToSet(new)
      /\ Ids(doc') = Ids(doc) \cup Ids(new)
      /\ \A x, y : Before(doc, x, y) => Before(doc', x, y)
      /\ \A i \in 1..k, y \in Ids(new) : Before(doc', doc[i].id, y)
  BY <1>1, <1>2, SpliceBlocks
<1>4. \A b \in ToSet(doc') : b.id \in Ids(doc) => b \in ToSet(doc)
  BY <1>2, <1>3 DEF Ids
<1>5. ASSUME NEW b \in ToSet(doc'), NEW x \in Ids(doc), IsHeading(b), b.id \notin Ids(doc)
      PROVE  Before(doc', x, b.id)
  <2>1. b \in ToSet(new) /\ b.id \in Ids(new)
    BY <1>3, <1>5 DEF Ids
  <2>2. k = Len(doc)
    BY <1>5, <2>1
  <2>3. PICK i \in 1..Len(doc) : doc[i].id = x
    BY <1>1, <1>5, DocProperties
  <2> QED
    BY <1>3, <2>1, <2>2, <2>3
<1> QED
  BY <1>3, <1>4, <1>5 DEF DocStep

LEMMA Loss ==
    ASSUME TypeOK, NEW c \in Calls, NEW id \in ToSet(todo[c]), doc' = Without(doc, id), next' = next
    PROVE  DocStep
<1>1. doc \in Seq(Block) /\ Distinct(doc) /\ next \in Nat
  BY DEF TypeOK
<1>2. /\ doc' \in Seq(Block) /\ Distinct(doc')
      /\ ToSet(doc') = {b \in ToSet(doc) : b.id # id} /\ Ids(doc') = Ids(doc) \ {id}
      /\ \A x, y : x # id /\ y # id /\ Before(doc, x, y) => Before(doc', x, y)
  BY <1>1, WithoutBlocks
<1>3. \A b \in ToSet(doc') : b \in ToSet(doc) /\ b.id \in Ids(doc)
  BY <1>2 DEF Ids
<1> QED
  BY <1>1, <1>2, <1>3 DEF DocStep

LEMMA Sparing ==
    ASSUME TypeOK, Spared
    PROVE  DocStep
<1>1. doc \in Seq(Block) /\ Distinct(doc) /\ next \in Nat /\ doc' = doc /\ next' = next
  BY DEF TypeOK, Spared
<1>2. \A b \in ToSet(doc) : b.id \in Ids(doc)
  BY DEF Ids
<1> QED
  BY <1>1, <1>2 DEF DocStep

(* A block with another text is still in its place.                        *)
Retitled(d, i, t) == [d EXCEPT ![i].text = t]

LEMMA TextChanged ==
    ASSUME NEW d \in Seq(Block), Distinct(d), NEW i \in DOMAIN d, NEW t \in Texts
    PROVE  LET e == Retitled(d, i, t) IN
           /\ e \in Seq(Block) /\ Len(e) = Len(d) /\ Distinct(e) /\ Ids(e) = Ids(d)
           /\ \A j \in 1..Len(d) : /\ e[j].id = d[j].id /\ e[j].level = d[j].level
                                   /\ j # i => e[j] = d[j]
           /\ \A x, y : Before(d, x, y) => Before(e, x, y)
           /\ \A b \in ToSet(e) :
                 b.id \in Ids(d) /\ \E o \in ToSet(d) : o.id = b.id /\ o.level = b.level
<1> DEFINE e == Retitled(d, i, t)
<1> USE DEF Retitled
<1>1. /\ Len(d) \in Nat /\ DOMAIN d = 1..Len(d) /\ \A j \in 1..Len(d) : d[j] \in Block
  BY DocProperties
<1>3. /\ DOMAIN e = 1..Len(d)
      /\ \A j \in 1..Len(d) :
            /\ e[j] \in Block /\ e[j].id = d[j].id /\ e[j].level = d[j].level
            /\ j # i => e[j] = d[j]
  BY <1>1 DEF Block
<1>2. e = [j \in DOMAIN d |-> e[j]]
  OBVIOUS
<1> HIDE DEF e, Retitled
<1>4. e \in Seq(Block) /\ Len(e) = Len(d)
  <2>1. e \in [1..Len(d) -> Block]
    BY <1>1, <1>3, <1>2
  <2> QED
    BY <1>1, <2>1, SeqDef, LenProperties
<1>5. Distinct(e)
  BY <1>1, <1>3 DEF Distinct
<1>6. \A x, y : Before(d, x, y) => Before(e, x, y)
  BY <1>1, <1>3 DEF Before
<1>7. Ids(e) = Ids(d)
  <2>1. \A x : x \in Ids(d) <=> \E j \in 1..Len(d) : d[j].id = x
    BY <1>1, DocProperties
  <2>2. \A x : x \in Ids(e) <=> \E j \in 1..Len(d) : e[j].id = x
    BY <1>4, DocProperties
  <2>3. \A x : x \in Ids(e) <=> x \in Ids(d)
    BY <1>3, <2>1, <2>2
  <2> QED
    BY <2>3
<1>8. ASSUME NEW b \in ToSet(e)
      PROVE  b.id \in Ids(d) /\ \E o \in ToSet(d) : o.id = b.id /\ o.level = b.level
  <2>1. PICK j \in 1..Len(d) : b = e[j]
    BY <1>3 DEF ToSet
  <2>2. d[j] \in ToSet(d)
    BY <1>1 DEF ToSet
  <2> QED
    BY <1>3, <2>1, <2>2 DEF Ids
<1> QED
  BY <1>1, <1>3, <1>4, <1>5, <1>6, <1>7, <1>8 DEF e

LEMMA Renewal ==
    ASSUME TypeOK, NEW e \in Seq(Block), Distinct(e), Ids(e) = Ids(doc),
           \A x, y : Before(doc, x, y) => Before(e, x, y),
           \A b \in ToSet(e) :
              b.id \in Ids(doc) /\ \E o \in ToSet(doc) : o.id = b.id /\ o.level = b.level,
           doc' = e, next' = next
    PROVE  DocStep
BY DEF DocStep, TypeOK

(* The caller's blocks are no headings, and new.                           *)
LEMMA BodyIs ==
    ASSUME NEW c \in Calls, call[c] \in Args, NEW i \in Nat
    PROVE  /\ call[c].size \in 0..2 /\ call[c].name \in Names
           /\ Body(c, i) \in Seq(Block) /\ Distinct(Body(c, i))
           /\ \A b \in ToSet(Body(c, i)) : b.level = 0
           /\ Ids(Body(c, i)) = i .. i + call[c].size - 1
<1> DEFINE n == call[c].size
           new == Body(c, i)
<1>1. n \in 0..2 /\ call[c].name \in Names
  BY SizesAssumption DEF Args
<1>2. \A k \in 1..n : [id |-> i + k - 1, level |-> 0, text |-> <<c, k>>] \in Block
  <2>1. ASSUME NEW k \in 1..n PROVE i + k - 1 \in Nat /\ <<c, k>> \in Texts
    BY <1>1, TextsAssumption DEF Bodies
  <2> HIDE DEF n
  <2> QED
    BY <1>1, <2>1 DEF Block
<1>3. new = [k \in 1..n |-> [id |-> i + k - 1, level |-> 0, text |-> <<c, k>>]]
  BY DEF Body
<1> HIDE DEF n, new
<1>4. new \in Seq(Block) /\ Len(new) = n
  <2>1. new \in [1..n -> Block] /\ n \in Nat
    BY <1>1, <1>2, <1>3
  <2> QED
    BY <2>1, SeqDef, LenProperties
<1>5. DOMAIN new = 1..n /\ \A k \in 1..n : new[k].id = i + k - 1 /\ new[k].level = 0
  BY <1>3
<1>6. Distinct(new)
  BY <1>1, <1>5 DEF Distinct
<1>7. \A b \in ToSet(new) : b.level = 0
  BY <1>5 DEF ToSet
<1>8. Ids(new) = i .. i + n - 1
  <2>1. \A x : x \in Ids(new) <=> \E k \in 1..n : new[k].id = x
    BY <1>4, DocProperties
  <2>2. ASSUME NEW x \in i .. i + n - 1 PROVE x \in Ids(new)
    <3>1. x - i + 1 \in 1..n /\ i + (x - i + 1) - 1 = x
      BY <1>1
    <3> QED
      BY <1>5, <2>1, <3>1
  <2>3. ASSUME NEW x \in Ids(new) PROVE x \in i .. i + n - 1
    BY <1>1, <1>5, <2>1
  <2> QED
    BY <2>2, <2>3
<1> QED
  BY <1>1, <1>4, <1>6, <1>7, <1>8 DEF n, new

(* Every step is one of these.                                             *)
LEMMA CreationStep ==
    ASSUME TypeOK, Fresh, NEW c \in Calls, call[c] \in Args, Creation(c)
    PROVE  /\ DocStep
           /\ ToSet(doc') = ToSet(doc)
                \cup {[id |-> next, level |-> NewLevel, text |-> call[c].name]}
                \cup ToSet(Body(c, next + 1))
           /\ \E new \in Seq(Block) :
                 /\ Distinct(new) /\ Ids(doc) \cap Ids(new) = {} /\ new # << >>
                 /\ new[1].level = NewLevel /\ doc' = Splice(doc, Len(doc), new)
<1> DEFINE h    == [id |-> next, level |-> NewLevel, text |-> call[c].name]
           body == Body(c, next + 1)
           new  == <<h>> \o body
<1>1. doc \in Seq(Block) /\ Distinct(doc) /\ next \in Nat /\ next + 1 \in Nat
  BY DEF TypeOK
<1>2. /\ call[c].size \in 0..2 /\ call[c].name \in Names
      /\ body \in Seq(Block) /\ Distinct(body)
      /\ Ids(body) = next + 1 .. next + call[c].size
  <2>1. call[c].size \in 0..2 /\ next + 1 \in Nat
    BY <1>1, BodyIs
  <2>2. next + 1 + call[c].size - 1 = next + call[c].size
    BY <1>1, <2>1
  <2> QED
    BY <2>1, <2>2, BodyIs
<1>3. h \in Block
  BY <1>1, <1>2, SizesAssumption, TextsAssumption DEF Block
<1>4. h.id = next
  OBVIOUS
<1>5. doc' = (doc \o <<h>>) \o body
  BY DEF Creation
<1>13. next' = next + 1 + call[c].size
  BY DEF Creation
<1> HIDE DEF h, body
<1>6. /\ <<h>> \in Seq(Block) /\ Len(<<h>>) = 1 /\ Distinct(<<h>>)
      /\ ToSet(<<h>>) = {h} /\ Ids(<<h>>) = {next}
  <2>1. <<h>> \in Seq(Block) /\ Len(<<h>>) = 1 /\ <<h>>[1] = h
    BY <1>3
  <2>2. DOMAIN <<h>> = {1}
    BY <2>1, DocProperties
  <2> QED
    BY <1>4, <2>1, <2>2 DEF Distinct, ToSet, Ids
<1>7. /\ new \in Seq(Block) /\ Distinct(new) /\ ToSet(new) = ToSet(body) \cup {h}
      /\ Ids(new) = Ids(body) \cup {next}
  <2>1. new = Splice(body, 0, <<h>>)
    BY <1>2, <1>6, Ends
  <2>2. Ids(body) \cap Ids(<<h>>) = {} /\ 0 \in 0..Len(body)
    BY <1>1, <1>2, <1>6, DocProperties
  <2> HIDE DEF new
  <2>3. /\ Splice(body, 0, <<h>>) \in Seq(Block) /\ Distinct(Splice(body, 0, <<h>>))
        /\ ToSet(Splice(body, 0, <<h>>)) = ToSet(body) \cup ToSet(<<h>>)
        /\ Ids(Splice(body, 0, <<h>>)) = Ids(body) \cup Ids(<<h>>)
    BY <1>2, <1>6, <2>2, SpliceBlocks
  <2> QED
    BY <1>6, <2>1, <2>3
<1>8. doc' = doc \o new
  BY <1>1, <1>2, <1>5, <1>6, ConcatAssociative
<1> HIDE DEF new
<1>9. doc' = Splice(doc, Len(doc), new) /\ Len(doc) \in 0..Len(doc)
  <2>1. doc \o new = Splice(doc, Len(doc), new) /\ Len(doc) \in Nat
    BY <1>1, <1>7, Ends, LenProperties
  <2> QED
    BY <1>8, <2>1
<1>10. next' \in Nat /\ next' >= next /\ Ids(new) \subseteq next .. next' - 1
  <2>1. call[c].size \in 0..2 /\ next \in Nat /\ next' = next + 1 + call[c].size
        /\ Ids(new) = (next + 1 .. next + call[c].size) \cup {next}
    BY <1>1, <1>2, <1>13, <1>7
  <2> QED
    BY <2>1
<1>11. DocStep
  BY <1>7, <1>9, <1>10, Growth
<1>12. ToSet(doc') = ToSet(doc) \cup ToSet(new)
  <2>1. Ids(doc) \cap Ids(new) = {}
    BY <1>1, <1>10 DEF Fresh
  <2> QED
    BY <1>1, <1>7, <1>9, <2>1, SpliceBlocks
<1>14. /\ Distinct(new) /\ Ids(doc) \cap Ids(new) = {} /\ new # << >>
       /\ new[1].level = NewLevel /\ doc' = Splice(doc, Len(doc), new)
  <2>1. /\ Len(new) = Len(<<h>>) + Len(body)
        /\ \A i \in 1 .. Len(<<h>>) + Len(body) : new[i] = IF i <= Len(<<h>>) THEN <<h>>[i] ELSE body[i - Len(<<h>>)]
    BY <1>2, <1>6, ConcatProperties DEF new
  <2>2. Len(body) \in Nat /\ Len(<<h>>) = 1 /\ <<h>>[1] = h
    BY <1>2, <1>6, LenProperties
  <2>3. 1 \in 1 .. Len(<<h>>) + Len(body) /\ 1 <= Len(<<h>>) /\ Len(<<h>>) + Len(body) # 0
    BY <2>2
  <2>4. new[1] = h /\ Len(new) # 0
    BY <2>1, <2>2, <2>3
  <2>5. h.level = NewLevel
    BY DEF h
  <2>6. Ids(doc) \cap Ids(new) = {}
    BY <1>1, <1>10 DEF Fresh
  <2> QED
    BY <1>7, <1>9, <2>4, <2>5, <2>6, EmptySeq
<1> QED
  BY <1>7, <1>11, <1>12, <1>14 DEF h, body

LEMMA InsertionStep ==
    ASSUME TypeOK, Fresh, NEW c \in Calls, call[c] \in Args, Insertion(c)
    PROVE  DocStep /\ ToSet(doc') = ToSet(doc) \cup ToSet(Body(c, next))
<1> DEFINE body == Body(c, next)
<1>1. /\ doc \in Seq(Block) /\ Distinct(doc) /\ next \in Nat
      /\ anchor[c] \in Ids(doc) /\ doc' = InsertAfter(doc, anchor[c], body)
      /\ next' = next + call[c].size
  BY DEF TypeOK, Insertion
<1>2. /\ call[c].size \in 0..2 /\ body \in Seq(Block) /\ Distinct(body)
      /\ \A b \in ToSet(body) : b.level = 0
      /\ Ids(body) = next .. next + call[c].size - 1
  BY <1>1, BodyIs
<1> HIDE DEF body
<1>3. /\ doc' = Splice(doc, Place(doc, anchor[c]), body)
      /\ Place(doc, anchor[c]) \in 0..Len(doc)
  BY <1>1, InsertAfterIs, PlaceIs, DocProperties
<1>4. /\ next' \in Nat /\ next' >= next /\ Ids(body) \subseteq next .. next' - 1
      /\ \A b \in ToSet(body) : ~IsHeading(b)
  BY <1>1, <1>2 DEF IsHeading
<1>5. DocStep
  BY <1>2, <1>3, <1>4, Growth
<1>6. ToSet(doc') = ToSet(doc) \cup ToSet(body)
  <2>1. Ids(doc) \cap Ids(body) = {}
    BY <1>1, <1>4 DEF Fresh
  <2> QED
    BY <1>1, <1>2, <1>3, <2>1, SpliceBlocks, SMTT(30)
<1> QED
  BY <1>5, <1>6 DEF body

LEMMA RemovalStep ==
    ASSUME TypeOK, NEW c \in Calls, todo[c] # << >>, Removal(c)
    PROVE  DocStep /\ ToSet(doc') \subseteq ToSet(doc)
<1>1. todo[c] \in Seq(Nat)
  BY DEF TypeOK
<1>2. Head(todo[c]) \in ToSet(todo[c])
  <2>1. 1 \in DOMAIN todo[c] /\ Head(todo[c]) = todo[c][1]
    BY <1>1, EmptySeq, LenProperties
  <2> QED
    BY <2>1 DEF ToSet
<1>3. doc' = Without(doc, Head(todo[c])) /\ next' = next /\ doc \in Seq(Block) /\ Distinct(doc)
  BY DEF Removal, TypeOK
<1>4. ToSet(doc') \subseteq ToSet(doc)
  BY <1>3, WithoutBlocks
<1>5. DocStep
  BY <1>2, <1>3, Loss
<1> QED
  BY <1>4, <1>5

LEMMA EditStep ==
    ASSUME TypeOK, Fresh, EditElsewhere
    PROVE  DocStep
<1>1. doc \in Seq(Block) /\ Distinct(doc) /\ next \in Nat
  BY DEF TypeOK
<1>2. CASE \E t \in Names, i \in DOMAIN doc :
              doc' = [doc EXCEPT ![i].text = t] /\ UNCHANGED next
  <2>1. PICK t \in Names, i \in DOMAIN doc : doc' = [doc EXCEPT ![i].text = t] /\ next' = next
    BY <1>2
  <2> DEFINE e == Retitled(doc, i, t)
  <2>2. /\ e \in Seq(Block) /\ Distinct(e) /\ Ids(e) = Ids(doc)
        /\ \A x, y : Before(doc, x, y) => Before(e, x, y)
        /\ \A b \in ToSet(e) :
              b.id \in Ids(doc) /\ \E o \in ToSet(doc) : o.id = b.id /\ o.level = b.level
    <3>1. t \in Texts /\ i \in DOMAIN doc
      BY <2>1, TextsAssumption
    <3> QED
      BY <1>1, <3>1, TextChanged
  <2>3. doc' = e /\ next' = next
    BY <2>1 DEF Retitled
  <2> HIDE DEF e
  <2> QED
    BY <2>2, <2>3, Renewal
<1>3. CASE \E t \in Names :
              /\ doc' = Append(doc, [id |-> next, level |-> NewLevel, text |-> t])
              /\ next' = next + 1
  <2>1. PICK t \in Names : /\ doc' = Append(doc, [id |-> next, level |-> NewLevel, text |-> t])
                           /\ next' = next + 1
    BY <1>3
  <2> DEFINE h == [id |-> next, level |-> NewLevel, text |-> t]
  <2>2. h \in Block /\ h.id = next
    BY <1>1, SizesAssumption, TextsAssumption DEF Block
  <2>3. doc' = Append(doc, h)
    BY <2>1
  <2> HIDE DEF h
  <2>4. <<h>> \in Seq(Block) /\ Distinct(<<h>>) /\ Ids(<<h>>) = {next}
    <3>1. <<h>> \in Seq(Block) /\ Len(<<h>>) = 1 /\ <<h>>[1] = h
      BY <2>2
    <3>2. DOMAIN <<h>> = {1}
      BY <3>1, DocProperties
    <3> QED
      BY <2>2, <3>1, <3>2 DEF Distinct, ToSet, Ids
  <2>5. doc' = Splice(doc, Len(doc), <<h>>) /\ Len(doc) \in 0..Len(doc)
    <3>1. doc' = doc \o <<h>>
      BY <1>1, <2>2, <2>3, AppendIsConcat
    <3>2. doc \o <<h>> = Splice(doc, Len(doc), <<h>>) /\ Len(doc) \in Nat
      BY <1>1, <2>4, Ends, LenProperties
    <3> QED
      BY <3>1, <3>2
  <2>6. next' \in Nat /\ next' >= next /\ Ids(<<h>>) \subseteq next .. next' - 1
    BY <1>1, <2>1, <2>4
  <2> QED
    BY <2>4, <2>5, <2>6, Growth
<1> QED
  BY <1>2, <1>3 DEF EditElsewhere

(* Ids are numbers up to a greatest one.                                   *)
LEMMA TopId ==
    ASSUME NEW d \in Seq(Block)
    PROVE  LET top == Max({0} \cup Ids(d)) IN top \in Nat /\ \A x \in Ids(d) : x <= top
<1> DEFINE P(n) == {0} \cup {d[i].id : i \in 1..n}
           Bad  == {n \in 0..Len(d) : ~\E m \in P(n) : \A x \in P(n) : x <= m}
<1>1. /\ Len(d) \in Nat /\ \A i \in 1..Len(d) : d[i].id \in Nat
      /\ \A x : x \in Ids(d) <=> \E i \in 1..Len(d) : d[i].id = x
  BY DocProperties
<1>2. Bad = {}
  <2>1. SUFFICES ASSUME Bad # {} PROVE FALSE
    OBVIOUS
  <2>2. Bad \in SUBSET Nat
    BY <1>1
  <2>3. PICK n \in Bad : \A k \in Bad : n <= k
    BY <2>1, <2>2, HasMin, ZenonT(60)
  <2>4. n \in 0..Len(d) /\ ~\E m \in P(n) : \A x \in P(n) : x <= m
    BY <2>3
  <2>5. CASE n = 0
    <3>1. P(n) = {0}
      BY <2>5
    <3> HIDE DEF P
    <3>2. 0 \in P(n) /\ \A x \in P(n) : x <= 0
      BY <3>1
    <3> QED
      BY <2>4, <3>2
  <2>6. CASE n # 0
    <3>1. n - 1 \in 0..Len(d) /\ n \in 1..Len(d) /\ ~(n <= n - 1)
      BY <1>1, <2>4, <2>6
    <3>2. PICK m \in P(n - 1) : \A x \in P(n - 1) : x <= m
      BY <2>3, <3>1
    <3>3. P(n) = P(n - 1) \cup {d[n].id}
      <4>1. 1..n = (1 .. n - 1) \cup {n}
        BY <3>1
      <4> QED
        BY <4>1
    <3>4. m \in Nat /\ d[n].id \in Nat
      BY <1>1, <3>1, <3>2
    <3> HIDE DEF P
    <3>5. CASE d[n].id <= m
      BY <2>4, <3>2, <3>3, <3>5
    <3>6. CASE m <= d[n].id
      <4>1. \A x \in P(n - 1) : x \in Nat
        BY <1>1, <3>1 DEF P
      <4> QED
        BY <2>4, <3>2, <3>3, <3>4, <3>6, <4>1
    <3> QED
      BY <3>4, <3>5, <3>6
  <2> QED
    BY <2>5, <2>6
<1>3. P(Len(d)) = {0} \cup Ids(d)
  BY <1>1
<1>4. Len(d) \in 0..Len(d)
  BY <1>1
<1>5. PICK m \in {0} \cup Ids(d) : \A x \in {0} \cup Ids(d) : x <= m
  BY <1>2, <1>3, <1>4
<1> DEFINE top == Max({0} \cup Ids(d))
<1>6. \A x \in {0} \cup Ids(d) : x \in Nat
  BY DocProperties
<1>7. top \in {0} \cup Ids(d) /\ \A x \in {0} \cup Ids(d) : top >= x
  BY <1>5, <1>6 DEF Max
<1> HIDE DEF top
<1>8. \A x \in Ids(d) : x <= top
  BY <1>6, <1>7
<1> QED
  BY <1>6, <1>7, <1>8 DEF top

(* What both start from.                                                   *)
LEMMA DocumentInit ==
    ASSUME InitDocument
    PROVE  /\ Doc0 \in Seq(Block) /\ Distinct(Doc0) /\ Ids(Doc0) \subseteq Nat
           /\ next \in Nat /\ Ids(Doc0) \subseteq 0 .. next - 1
           /\ doc = Doc0 /\ edits = Edits /\ edits \in 0..Edits
           /\ pc = [c \in Calls |-> "idle"] /\ call = [c \in Calls |-> None]
           /\ result = [c \in Calls |-> "none"]
<1> DEFINE top == Max({0} \cup Ids(Doc0))
<1>1. /\ Doc0 \in Seq(Block) /\ Distinct(Doc0) /\ Ids(Doc0) \subseteq Nat
      /\ top \in Nat /\ \A x \in Ids(Doc0) : x <= top
  BY DocAssumption, TopId, DocProperties
<1>2. /\ next = 1 + top /\ doc = Doc0 /\ edits = Edits
      /\ pc = [c \in Calls |-> "idle"] /\ call = [c \in Calls |-> None]
      /\ result = [c \in Calls |-> "none"]
  BY DEF InitDocument
<1> HIDE DEF top
<1>3. next \in Nat /\ Ids(Doc0) \subseteq 0 .. next - 1
  BY <1>1, <1>2
<1>4. edits \in 0..Edits
  BY <1>2, DocAssumption
<1> QED
  BY <1>1, <1>2, <1>3, <1>4

LEMMA SectionsInit == Init => SectionsInv /\ Unrivalled
<1> SUFFICES ASSUME Init PROVE SectionsInv /\ Unrivalled
  OBVIOUS
<1>0. /\ rows \in {Headings(Doc0), {}}
      /\ heading = [c \in Calls |-> None] /\ todo = [c \in Calls |-> << >>]
      /\ anchor = [c \in Calls |-> None] /\ clash = {} /\ botched = {}
  BY DEF Init
<1>1. /\ Doc0 \in Seq(Block) /\ Distinct(Doc0) /\ Ids(Doc0) \subseteq Nat
      /\ next \in Nat /\ Ids(Doc0) \subseteq 0 .. next - 1
      /\ doc = Doc0 /\ edits \in 0..Edits
      /\ pc = [c \in Calls |-> "idle"] /\ call = [c \in Calls |-> None]
      /\ result = [c \in Calls |-> "none"]
  BY DocumentInit DEF Init
<1>2. ToSet(Doc0) \subseteq Block
  BY <1>1, DocProperties
<1>3. TypeOK
  <2>1. << >> \in Seq(Nat)
    OBVIOUS
  <2>2. rows \subseteq Block
    BY <1>0, <1>2 DEF Headings
  <2>3. /\ call \in [Calls -> Args \cup {None}] /\ pc \in [Calls -> {"idle", "done"} \cup Requests]
        /\ result \in [Calls -> Results]
    BY <1>1 DEF Results
  <2>4. /\ heading \in [Calls -> Nat \cup {None}] /\ todo \in [Calls -> Seq(Nat)]
        /\ anchor \in [Calls -> Nat \cup {None}] /\ clash \subseteq Calls /\ botched \subseteq Calls
    BY <1>0, <2>1
  <2>5. doc \in Seq(Block) /\ Distinct(doc) /\ next \in Nat /\ edits \in 0..Edits
    BY <1>1
  <2> QED
    BY <2>2, <2>3, <2>4, <2>5 DEF TypeOK
<1>4. SameLevels
  <2>1. Doc0 \in Seq(Block) /\ Distinct(Doc0)
    BY <1>1
  <2>2. ASSUME NEW b \in ToSet(Doc0), NEW o \in ToSet(Doc0), b.id = o.id PROVE b = o
    BY <2>1, <2>2, DocProperties DEF Distinct
  <2> QED
    BY <1>1, <2>2 DEF SameLevels
<1>5. HeadingsKnown
  <2>1. ASSUME NEW b \in rows PROVE NamesHeading(b.id)
    <3>1. b \in ToSet(Doc0) /\ IsHeading(b) /\ b.id \in Ids(Doc0)
      BY <1>0 DEF Headings, Ids
    <3>2. \A o \in ToSet(Doc0) : b.id = o.id => IsHeading(o)
      BY <1>1, <1>4, <3>1 DEF SameLevels, IsHeading
    <3> QED
      BY <1>1, <3>1, <3>2 DEF NamesHeading
  <2> QED
    BY <1>0, <2>1 DEF HeadingsKnown
<1>6. Fresh /\ NewLast /\ OrderOfRest
  BY <1>0, <1>1 DEF Fresh, NewLast, OrderOfRest, Ids
<1>7. OnlyLost
  BY <1>0, <1>1 DEF OnlyLost, ToSet
<1>8. Control
  BY <1>0, <1>1 DEF Control
<1> QED
  BY <1>0, <1>1, <1>3, <1>4, <1>5, <1>6, <1>7, <1>8 DEF SectionsInv, Unrivalled, Working, Requests

(* What is in a section of the document and was there at first is in the   *)
(* same section of the document at first, or in one that a call settled on.*)
LEMMA LostCovers ==
    ASSUME SectionsInv, NEW c \in Calls, heading[c] # None
    PROVE  Ids(Section(doc, heading[c])) \cap Ids(Doc0) \subseteq Lost
<1>1. /\ doc \in Seq(Block) /\ Distinct(doc) /\ next \in Nat
      /\ Doc0 \in Seq(Block) /\ Distinct(Doc0)
  BY DocAssumption DEF SectionsInv, TypeOK
<1>2. SUFFICES ASSUME NEW x \in Ids(Doc0), x \in Ids(Section(doc, heading[c])), x \notin Lost
               PROVE  FALSE
  OBVIOUS
<1>3. PICK h \in ToSet(doc) : h.id = heading[c]
  <2>1. CASE heading[c] \in Ids(doc)
    BY <2>1 DEF Ids
  <2>2. CASE heading[c] \notin Ids(doc)
    BY <1>2, <2>2 DEF Section, Ids, ToSet
  <2> QED
    BY <2>1, <2>2
<1>4. /\ Before(doc, h.id, x)
      /\ \A b \in ToSet(doc) :
            Before(doc, h.id, b.id) /\ (b.id = x \/ Before(doc, b.id, x)) => b.level \notin 1 .. h.level
  BY <1>1, <1>2, <1>3, SectionIs
<1>5. h.id \in Ids(doc) /\ x \in Ids(doc) /\ h.id # x /\ ~Before(doc, x, h.id)
  BY <1>1, <1>4, Order
<1>6. IsHeading(h)
  BY <1>3 DEF SectionsInv, HeadingsKnown, NamesHeading
<1>7. h.id \in Ids(Doc0)
  BY <1>2, <1>5, <1>6 DEF SectionsInv, NewLast
<1>8. Before(Doc0, h.id, x)
  <2>1. Before(Doc0, h.id, x) \/ Before(Doc0, x, h.id)
    BY <1>1, <1>2, <1>5, <1>7, Order
  <2>2. ~Before(Doc0, x, h.id)
    BY <1>5 DEF SectionsInv, OrderOfRest
  <2> QED
    BY <2>1, <2>2
<1>9. PICK k \in ToSet(Doc0) : k.id = h.id
  BY <1>7 DEF Ids
<1>10. k.level = h.level
  BY <1>9 DEF SectionsInv, SameLevels
<1> DEFINE Stops == {b \in ToSet(Doc0) : /\ Before(Doc0, h.id, b.id)
                                         /\ b.id = x \/ Before(Doc0, b.id, x)
                                         /\ b.level \in 1 .. h.level}
           Levels == {b.level : b \in Stops}
<1>11. Levels # {}
  <2>1. x \notin Ids(Section(Doc0, k.id))
    BY <1>2, <1>3, <1>9 DEF Lost
  <2>2. PICK b \in ToSet(Doc0) : /\ Before(Doc0, k.id, b.id)
                                 /\ b.id = x \/ Before(Doc0, b.id, x)
                                 /\ b.level \in 1 .. k.level
    BY <1>1, <1>8, <1>9, <2>1, SectionIs
  <2>3. b \in Stops
    BY <1>9, <1>10, <2>2
  <2> QED
    BY <2>3
<1>12. \A b \in ToSet(Doc0) : b.level \in 0..6
  BY <1>1, DocProperties
<1>13. PICK s \in Stops : \A b \in Stops : s.level <= b.level
  <2>1. Levels \in SUBSET Nat
    BY <1>12
  <2>2. Min(Levels) \in Levels /\ \A y \in Levels : Min(Levels) <= y
    BY <1>11, <2>1, HasMin
  <2> QED
    BY <2>2
<1>14. /\ s \in ToSet(Doc0) /\ Before(Doc0, h.id, s.id)
       /\ s.id = x \/ Before(Doc0, s.id, x)
       /\ s.level \in 1 .. h.level /\ s.id \in Ids(Doc0)
  BY DEF Ids
<1>15. CASE s.id \in Ids(doc)
  <2>1. PICK b \in ToSet(doc) : b.id = s.id
    BY <1>15 DEF Ids
  <2>2. b.level = s.level
    BY <1>14, <2>1 DEF SectionsInv, SameLevels
  <2>3. Before(doc, h.id, b.id)
    BY <1>5, <1>14, <1>15, <2>1 DEF SectionsInv, OrderOfRest
  <2>4. b.id = x \/ Before(doc, b.id, x)
    BY <1>5, <1>14, <1>15, <2>1 DEF SectionsInv, OrderOfRest
  <2> QED
    BY <1>4, <1>14, <2>2, <2>3, <2>4
<1>16. CASE s.id \notin Ids(doc)
  <2>1. PICK d \in Calls : heading[d] # None /\ s.id \in Ids(Section(Doc0, heading[d]))
    BY <1>14, <1>16 DEF SectionsInv, OnlyLost, Lost
  <2>2. x \notin Ids(Section(Doc0, heading[d]))
    BY <1>2, <2>1 DEF Lost
  <2>3. PICK g \in ToSet(Doc0) : g.id = heading[d]
    <3>1. CASE heading[d] \in Ids(Doc0)
      BY <3>1 DEF Ids
    <3>2. CASE heading[d] \notin Ids(Doc0)
      BY <2>1, <3>2 DEF Section, Ids, ToSet
    <3> QED
      BY <3>1, <3>2
  <2>4. g.level \in 1..6
    <3>1. IsHeading(g)
      BY <2>1, <2>3 DEF SectionsInv, HeadingsKnown, NamesHeading
    <3> QED
      BY <1>12, <2>3, <3>1 DEF IsHeading
  <2>5. /\ Before(Doc0, g.id, s.id)
        /\ \A b \in ToSet(Doc0) :
              Before(Doc0, g.id, b.id) /\ (b.id = s.id \/ Before(Doc0, b.id, s.id))
                  => b.level \notin 1 .. g.level
    BY <1>1, <2>1, <2>3, SectionIs
  <2>6. g.level < s.level
    BY <1>12, <1>14, <2>4, <2>5
  <2>7. Before(Doc0, s.id, x) /\ Before(Doc0, g.id, x)
    BY <1>1, <1>14, <2>1, <2>2, <2>5, Order
  <2>8. PICK q \in ToSet(Doc0) : /\ Before(Doc0, g.id, q.id)
                                 /\ q.id = x \/ Before(Doc0, q.id, x)
                                 /\ q.level \in 1 .. g.level
    BY <1>1, <2>2, <2>3, <2>7, SectionIs
  <2>9. Before(Doc0, s.id, q.id)
    <3>1. q.id \in Ids(Doc0)
      BY DEF Ids
    <3> QED
      BY <1>1, <1>14, <2>5, <2>8, <3>1, Order
  <2>10. q \in Stops
    <3>1. Before(Doc0, h.id, q.id)
      BY <1>1, <1>14, <2>9, Order
    <3>2. q.level \in 1 .. h.level
      <4>1. h.level \in 0..6 /\ s.level \in 0..6 /\ q.level \in 0..6
        BY <1>9, <1>10, <1>12, <1>14, <2>8
      <4> QED
        BY <1>14, <2>4, <2>6, <2>8, <4>1
    <3> QED
      BY <2>8, <3>1, <3>2
  <2>11. s.level <= q.level
    BY <1>13, <2>10
  <2> QED
    BY <1>12, <1>14, <2>4, <2>6, <2>8, <2>11
<1> QED
  BY <1>15, <1>16

(* The parts of the invariant on the document go with every step of it.    *)
LEMMA DocStepKeeps ==
    ASSUME SectionsInv, DocStep, Lost \subseteq Lost'
    PROVE  /\ Fresh' /\ SameLevels' /\ NewLast' /\ OrderOfRest'
           /\ Ids(Doc0) \ Ids(doc') \subseteq Lost'
           /\ \A x : NamesHeading(x) => NamesHeading(x)'
<1>1. /\ next \in Nat /\ next' \in Nat /\ next' >= next
      /\ Ids(doc') \subseteq Ids(doc) \cup (next .. next' - 1)
      /\ Ids(doc) \subseteq 0 .. next - 1 /\ Ids(Doc0) \subseteq 0 .. next - 1
  BY DEF SectionsInv, TypeOK, Fresh, DocStep
<1>2. \A x \in Ids(doc') : x \notin Ids(doc) => x \in Nat /\ x >= next
  BY <1>1
<1>3. \A x \in Ids(doc') \cap Ids(Doc0) : x \in Ids(doc)
  BY <1>1, <1>2
<1>4. ASSUME NEW b \in ToSet(doc')
      PROVE  b.id \in Ids(doc') /\ (b.id \in Ids(doc) => \E o \in ToSet(doc) : o.id = b.id /\ o.level = b.level)
  BY DEF DocStep, Ids
<1>5. Fresh'
  <2>1. Ids(doc') \cup Ids(Doc0) \subseteq 0 .. next' - 1
    BY <1>1
  <2> QED
    BY <2>1 DEF Fresh
<1>6. SameLevels'
  <2>1. ASSUME NEW b \in ToSet(doc'), NEW o \in ToSet(Doc0), b.id = o.id PROVE b.level = o.level
    <3>1. o.id \in Ids(Doc0)
      BY DEF Ids
    <3>2. PICK q \in ToSet(doc) : q.id = b.id /\ q.level = b.level
      BY <1>3, <1>4, <2>1, <3>1
    <3> QED
      BY <2>1, <3>2 DEF SectionsInv, SameLevels
  <2> QED
    BY <2>1 DEF SameLevels
<1>7. NewLast'
  <2>1. ASSUME NEW b \in ToSet(doc'), NEW x \in Ids(doc') \cap Ids(Doc0),
               IsHeading(b), b.id \notin Ids(Doc0)
        PROVE  Before(doc', x, b.id)
    <3>1. x \in Ids(doc) \cap Ids(doc')
      BY <1>3
    <3>2. CASE b.id \in Ids(doc)
      <4>1. PICK q \in ToSet(doc) : q.id = b.id /\ q.level = b.level
        BY <1>4, <3>2
      <4>2. Before(doc, x, b.id)
        BY <2>1, <3>1, <4>1 DEF SectionsInv, NewLast, IsHeading
      <4> QED
        BY <1>4, <4>2 DEF DocStep
    <3>3. CASE b.id \notin Ids(doc)
      BY <2>1, <3>1, <3>3 DEF DocStep
    <3> QED
      BY <3>2, <3>3
  <2> QED
    BY <2>1 DEF NewLast
<1>8. OrderOfRest'
  <2>1. ASSUME NEW x \in Ids(doc'), NEW y \in Ids(doc'), Before(Doc0, x, y) PROVE Before(doc', x, y)
    <3>1. x \in Ids(Doc0) /\ y \in Ids(Doc0)
      BY <2>1, DocAssumption, Order
    <3>2. x \in Ids(doc) /\ y \in Ids(doc)
      BY <1>3, <3>1
    <3> QED
      BY <2>1, <3>2 DEF SectionsInv, OrderOfRest, DocStep
  <2> QED
    BY <2>1 DEF OrderOfRest
<1>9. ASSUME NEW x \in Ids(Doc0) \ Ids(doc') PROVE x \in Lost'
  <2>1. CASE x \notin Ids(doc)
    BY <2>1 DEF SectionsInv, OnlyLost
  <2>2. CASE x \in Ids(doc)
    <3>1. PICK c \in Calls : x \in ToSet(todo[c])
      BY <2>2 DEF DocStep
    <3> QED
      BY <3>1 DEF SectionsInv, OnlyLost
  <2> QED
    BY <2>1, <2>2
<1>10. ASSUME NEW x \in Nat, NamesHeading(x) PROVE NamesHeading(x)'
  <2>1. x <= next - 1 /\ \A b \in ToSet(doc) \cup ToSet(Doc0) : b.id = x => IsHeading(b)
    BY <1>1, <1>10 DEF NamesHeading
  <2>2. x \in 0 .. next' - 1 /\ ~(x >= next)
    <3>1. next \in Nat /\ next' \in Nat /\ next' >= next
      BY <1>1
    <3>2. x \in Nat /\ x <= next - 1
      BY <1>10, <2>1
    <3>3. ASSUME NEW m \in Nat, m >= next PROVE x \in 0 .. m - 1 /\ ~(x >= next)
      BY <3>1, <3>2, <3>3
    <3> QED
      BY <3>1, <3>3
  <2>3. ASSUME NEW b \in ToSet(doc'), b.id = x PROVE IsHeading(b)
    <3>1. b.id \in Ids(doc)
      BY <1>2, <1>4, <2>2, <2>3
    <3>2. PICK q \in ToSet(doc) : q.id = b.id /\ q.level = b.level
      BY <1>4, <3>1
    <3> QED
      BY <2>1, <2>3, <3>2 DEF IsHeading
  <2> QED
    BY <2>1, <2>2, <2>3 DEF NamesHeading
<1>11. \A x : NamesHeading(x) => x \in Nat
  BY <1>1 DEF NamesHeading
<1> QED
  BY <1>5, <1>6, <1>7, <1>8, <1>9, <1>10, <1>11

(* What a step does beside that.                                           *)
StepOK ==
    /\ TypeOK' /\ DocStep
    /\ \A c \in Calls : heading'[c] # heading[c] => heading[c] = None /\ NamesHeading(heading'[c])
    /\ \A b \in rows' : NamesHeading(b.id)
    /\ \A c \in Calls : ToSet(todo'[c]) \cap Ids(Doc0) \subseteq Lost
    /\ Control'

LEMMA StepKeeps ==
    ASSUME SectionsInv, StepOK
    PROVE  SectionsInv' /\ Lost \subseteq Lost'
<1>1. ASSUME NEW x \in Lost PROVE x \in Lost'
  <2>1. PICK c \in Calls : heading[c] # None /\ x \in Ids(Section(Doc0, heading[c]))
    BY DEF Lost
  <2>2. heading'[c] = heading[c]
    BY <2>1 DEF StepOK
  <2> QED
    BY <2>1, <2>2 DEF Lost
<1>2. /\ Fresh' /\ SameLevels' /\ NewLast' /\ OrderOfRest'
      /\ Ids(Doc0) \ Ids(doc') \subseteq Lost'
      /\ \A x : NamesHeading(x) => NamesHeading(x)'
  <2>1. DocStep /\ Lost \subseteq Lost'
    BY <1>1 DEF StepOK
  <2> QED
    BY <2>1, DocStepKeeps
<1>3. HeadingsKnown'
  <2>1. \A b \in rows' : NamesHeading(b.id)'
    BY <1>2 DEF StepOK
  <2>2. ASSUME NEW c \in Calls, NEW h, h = heading'[c], h # None PROVE NamesHeading(h)'
    <3>1. NamesHeading(h)
      BY <2>2 DEF StepOK, SectionsInv, HeadingsKnown
    <3> QED
      BY <1>2, <3>1
  <2> QED
    BY <2>1, <2>2 DEF HeadingsKnown, NamesHeading
<1>4. OnlyLost'
  BY <1>1, <1>2 DEF OnlyLost, StepOK
<1> QED
  BY <1>1, <1>2, <1>3, <1>4 DEF SectionsInv, StepOK

(* The requests of a call one after another.                               *)
LEMMA PcStep ==
    ASSUME TypeOK, NEW c \in Calls,
           (\E r \in Requests : Goto(c, r)) \/ (\E r \in Results : End(c, r))
    PROVE  /\ pc' \in [Calls -> {"idle", "done"} \cup Requests]
           /\ result' \in [Calls -> Results]
           /\ pc'[c] \in Requests \cup {"done"}
           /\ \A d \in Calls : d # c => pc'[d] = pc[d]
BY DEF TypeOK, Goto, End

LEMMA SettleStep ==
    ASSUME SectionsInv, NEW c \in Calls, NEW found, \A b \in found : NamesHeading(b.id),
           pc[c] \in {"query", "children"}, Settle(c, found),
           UNCHANGED <<doc, next, rows, edits, call, todo, anchor, clash, botched>>
    PROVE  StepOK
<1>1. heading[c] = None /\ call[c] \in Args
  BY DEF SectionsInv, Control
<1>2. TypeOK
  BY DEF SectionsInv
<1>3. DocStep
  BY <1>2, Sparing DEF Spared
<1>4. CASE \E b \in found : heading' = [heading EXCEPT ![c] = b.id] /\ Goto(c, "section")
  <2>1. PICK b \in found : heading' = [heading EXCEPT ![c] = b.id] /\ Goto(c, "section")
    BY <1>4
  <2>2. NamesHeading(b.id) /\ b.id \in Nat /\ b.id # None
    <3>1. NamesHeading(b.id) /\ next \in Nat
      BY <1>2, <2>1 DEF TypeOK
    <3> QED
      BY <3>1, NoneAssumption DEF NamesHeading
  <2>3. /\ heading' \in [Calls -> Nat \cup {None}]
        /\ heading'[c] = b.id /\ \A d \in Calls : d # c => heading'[d] = heading[d]
    BY <1>2, <2>1, <2>2 DEF TypeOK
  <2>4. /\ pc' \in [Calls -> {"idle", "done"} \cup Requests] /\ result' \in [Calls -> Results]
        /\ pc'[c] = "section" /\ \A d \in Calls : d # c => pc'[d] = pc[d]
    BY <1>2, <2>1 DEF Goto, TypeOK, Requests
  <2>5. TypeOK'
    BY <1>2, <2>3, <2>4 DEF TypeOK
  <2>6. Control'
    BY <1>1, <2>2, <2>3, <2>4 DEF SectionsInv, Control
  <2> QED
    BY <1>1, <1>3, <2>2, <2>3, <2>5, <2>6 DEF StepOK, SectionsInv, HeadingsKnown, OnlyLost
<1>5. CASE End(c, "rejected") /\ UNCHANGED heading
  <2>1. /\ pc' \in [Calls -> {"idle", "done"} \cup Requests] /\ result' \in [Calls -> Results]
        /\ pc'[c] = "done" /\ \A d \in Calls : d # c => pc'[d] = pc[d]
    BY <1>2, <1>5 DEF End, TypeOK, Results
  <2>2. TypeOK'
    BY <1>2, <1>5, <2>1 DEF TypeOK
  <2>3. Control'
    BY <1>1, <1>5, <2>1 DEF SectionsInv, Control
  <2> QED
    BY <1>3, <1>5, <2>2, <2>3 DEF StepOK, SectionsInv, HeadingsKnown, OnlyLost
<1> QED
  BY <1>4, <1>5 DEF Settle

(* A block of the document that is a heading.                              *)
LEMMA HeadingIs ==
    ASSUME SectionsInv, NEW b \in ToSet(doc), IsHeading(b)
    PROVE  NamesHeading(b.id)
<1>1. doc \in Seq(Block) /\ Distinct(doc)
  BY DEF SectionsInv, TypeOK
<1>2. b.id \in Ids(doc)
  BY DEF Ids
<1>3. ASSUME NEW o \in ToSet(doc), o.id = b.id PROVE o = b
  BY <1>1, <1>3, DocProperties DEF Distinct
<1>4. \A o \in ToSet(Doc0) : o.id = b.id => o.level = b.level
  BY DEF SectionsInv, SameLevels
<1> QED
  BY <1>2, <1>3, <1>4 DEF NamesHeading, SectionsInv, Fresh, IsHeading

(* Steps that write nothing and settle on nothing.                         *)
LEMMA PlainStep ==
    ASSUME SectionsInv, NEW c \in Calls,
           (\E r \in Requests \ {"section", "delete"} : Goto(c, r)) \/ (\E r \in Results : End(c, r)),
           DocStep, call'[c] \in Args, \A d \in Calls : d # c => call'[d] = call[d],
           call' \in [Calls -> Args \cup {None}],
           pc'[c] \in {"query", "children"} => heading[c] = None,
           UNCHANGED <<rows, edits, heading, todo>>,
           anchor' \in [Calls -> Nat \cup {None}], clash' \subseteq Calls, botched' \subseteq Calls
    PROVE  StepOK
<1>1. TypeOK
  BY DEF SectionsInv
<1>2. /\ pc' \in [Calls -> {"idle", "done"} \cup Requests] /\ result' \in [Calls -> Results]
      /\ \A d \in Calls : d # c => pc'[d] = pc[d]
      /\ pc'[c] \in (Requests \ {"section", "delete"}) \cup {"done"}
  <2>1. CASE \E r \in Requests \ {"section", "delete"} : Goto(c, r)
    BY <1>1, <2>1 DEF Goto, TypeOK
  <2>2. CASE \E r \in Results : End(c, r)
    BY <1>1, <2>2 DEF End, TypeOK
  <2> QED
    BY <2>1, <2>2
<1>3. TypeOK'
  BY <1>1, <1>2 DEF TypeOK, DocStep
<1>4. Control'
  BY <1>2 DEF SectionsInv, Control, Requests
<1> QED
  BY <1>3, <1>4 DEF StepOK, SectionsInv, HeadingsKnown, OnlyLost

LEMMA BeginStep ==
    ASSUME SectionsInv, NEW c \in Calls, Begin(c)
    PROVE  StepOK
<1>1. TypeOK
  BY DEF SectionsInv
<1>2. heading[c] = None
  BY DEF SectionsInv, Control, Begin
<1>3. PICK a \in Args :
        /\ call' = [call EXCEPT ![c] = a]
        /\ clash' \subseteq clash \cup {d \in Calls : Working(d)} \cup {c}
  BY DEF Begin
<1>4. /\ call' \in [Calls -> Args \cup {None}] /\ call'[c] \in Args
      /\ \A d \in Calls : d # c => call'[d] = call[d]
  BY <1>1, <1>3 DEF TypeOK
<1>5. clash' \subseteq Calls
  BY <1>1, <1>3 DEF TypeOK
<1>6. /\ UNCHANGED <<doc, next, rows, edits, heading, todo, anchor, botched>> /\ Goto(c, "query")
  BY DEF Begin
<1>7. DocStep
  BY <1>1, <1>6, Sparing DEF Spared
<1> QED
  BY <1>1, <1>2, <1>4, <1>5, <1>6, <1>7, PlainStep DEF TypeOK, Requests

LEMMA QueryStep ==
    ASSUME SectionsInv, NEW c \in Calls, QueryHeadings(c) \/ QueryChildren(c)
    PROVE  StepOK
<1>1. TypeOK
  BY DEF SectionsInv
<1>2. /\ UNCHANGED <<doc, next, rows, edits, call, todo, anchor, clash, botched>>
      /\ pc[c] \in {"query", "children"}
  BY DEF QueryHeadings, QueryChildren
<1>3. heading[c] = None /\ call[c] \in Args
  BY <1>2 DEF SectionsInv, Control
<1>4. DocStep
  BY <1>1, <1>2, Sparing DEF Spared
<1>5. CASE \E found : Settle(c, found) /\ \A b \in found : NamesHeading(b.id)
  BY <1>2, <1>5, SettleStep
<1>6. CASE /\ Goto(c, "children") \/ Goto(c, "append") \/ End(c, "rejected")
           /\ UNCHANGED heading
  BY <1>1, <1>2, <1>3, <1>4, <1>6, PlainStep DEF TypeOK, Requests, Results
<1>7. \A b \in Matching(rows, call[c].name) : NamesHeading(b.id)
  BY DEF Matching, SectionsInv, HeadingsKnown
<1>8. \A b \in Matching(ToSet(doc), call[c].name) : NamesHeading(b.id)
  BY HeadingIs DEF Matching
<1> QED
  BY <1>5, <1>6, <1>7, <1>8 DEF QueryHeadings, QueryChildren

LEMMA IdsInOrder ==
    ASSUME NEW s \in Seq(Block)
    PROVE  LET kids == [k \in DOMAIN s |-> s[k].id]
           IN  kids \in Seq(Nat) /\ Len(kids) = Len(s) /\ ToSet(kids) = Ids(s)
<1> DEFINE kids == [k \in DOMAIN s |-> s[k].id]
<1>1. /\ Len(s) \in Nat /\ DOMAIN s = 1..Len(s) /\ \A i \in 1..Len(s) : s[i].id \in Nat
      /\ ToSet(s) = {s[i] : i \in 1..Len(s)}
  BY DocProperties
<1>2. DOMAIN kids = 1..Len(s) /\ \A k \in 1..Len(s) : kids[k] = s[k].id
  BY <1>1
<1>3. kids \in [1..Len(s) -> Nat]
  BY <1>1
<1> HIDE DEF kids
<1>4. kids \in Seq(Nat) /\ Len(kids) = Len(s)
  BY <1>1, <1>3, SeqDef, LenProperties
<1>5. \A x : x \in ToSet(kids) <=> x \in Ids(s)
  BY <1>1, <1>2 DEF ToSet, Ids
<1>6. ToSet(kids) = Ids(s)
  BY <1>5
<1> QED
  BY <1>4, <1>6 DEF kids

LEMMA ReverseIs ==
    ASSUME NEW s \in Seq(Nat)
    PROVE  Reverse(s) \in Seq(Nat) /\ Len(Reverse(s)) = Len(s) /\ ToSet(Reverse(s)) \subseteq ToSet(s)
<1>1. Len(s) \in Nat /\ DOMAIN s = 1..Len(s) /\ \A i \in 1..Len(s) : s[i] \in Nat
  BY LenProperties, ElementOfSeq
<1>2. Reverse(s) = [i \in 1..Len(s) |-> s[(Len(s) - i) + 1]]
  BY DEF Reverse
<1>3. \A i \in 1..Len(s) : (Len(s) - i) + 1 \in 1..Len(s)
  BY <1>1
<1>4. Reverse(s) \in [1..Len(s) -> Nat]
  BY <1>1, <1>2, <1>3
<1>5. Reverse(s) \in Seq(Nat) /\ Len(Reverse(s)) = Len(s)
  BY <1>1, <1>4, SeqDef, LenProperties, SMTT(30)
<1>6. \A i \in DOMAIN Reverse(s) : \E j \in DOMAIN s : Reverse(s)[i] = s[j]
  BY <1>1, <1>2, <1>3
<1>7. ToSet(Reverse(s)) \subseteq ToSet(s)
  BY <1>6 DEF ToSet
<1> QED
  BY <1>5, <1>7

LEMMA TailIs ==
    ASSUME NEW S, NEW s \in Seq(S), s # << >>
    PROVE  Tail(s) \in Seq(S) /\ ToSet(Tail(s)) \subseteq ToSet(s)
<1>1. /\ Tail(s) \in Seq(S) /\ Len(Tail(s)) = Len(s) - 1 /\ Len(s) \in Nat
      /\ \A i \in 1 .. Len(s) - 1 : Tail(s)[i] = s[i + 1]
  BY HeadTailProperties, LenProperties
<1>2. DOMAIN Tail(s) = 1 .. Len(s) - 1 /\ DOMAIN s = 1..Len(s)
  BY <1>1, LenProperties
<1>3. \A i \in 1 .. Len(s) - 1 : i + 1 \in 1..Len(s)
  BY <1>1
<1> QED
  BY <1>1, <1>2, <1>3 DEF ToSet

LEMMA LastIs ==
    ASSUME NEW S, NEW x \in S, NEW s \in Seq(S)
    PROVE  Last(<<x>> \o s) \in S
<1>1. <<x>> \in Seq(S) /\ Len(<<x>>) = 1
  OBVIOUS
<1> DEFINE u == <<x>>
<1> HIDE DEF u
<1>2. u \o s \in Seq(S) /\ Len(u \o s) = 1 + Len(s) /\ Len(s) \in Nat
  BY <1>1, ConcatProperties, LenProperties DEF u
<1>3. Len(u \o s) \in 1..Len(u \o s)
  BY <1>2
<1>4. (u \o s)[Len(u \o s)] \in S
  BY <1>2, <1>3, ElementOfSeq
<1> QED
  BY <1>4 DEF Last, u

(* A write, whether it is answered or not.                                 *)
LEMMA WriteStep ==
    ASSUME SectionsInv, NEW c \in Calls,
           \/ Spared
           \/ pc[c] = "delete" /\ Removal(c)
           \/ pc[c] = "insert" /\ Insertion(c)
           \/ pc[c] = "append" /\ Creation(c)
    PROVE  DocStep
<1>1. TypeOK /\ Fresh
  BY DEF SectionsInv
<1>2. pc[c] # "idle" => call[c] \in Args
  BY DEF SectionsInv, Control
<1>3. pc[c] = "delete" => todo[c] # << >>
  BY DEF SectionsInv, Control
<1> QED
  BY <1>1, <1>2, <1>3, Sparing, RemovalStep, InsertionStep, CreationStep

LEMMA WritesStep ==
    ASSUME SectionsInv, NEW c \in Calls, InsertBlock(c) \/ AppendSection(c) \/ Fail(c)
    PROVE  StepOK
<1>1. TypeOK
  BY DEF SectionsInv
<1>2. pc[c] \in Requests
  BY DEF InsertBlock, AppendSection, Fail, Working, Requests
<1>3. /\ UNCHANGED <<rows, edits, call, heading, todo, anchor, clash, botched>>
      /\ \E r \in Results : End(c, r)
  BY DEF InsertBlock, AppendSection, Fail, Results
<1>4. DocStep
  BY WriteStep DEF InsertBlock, AppendSection, Fail
<1>5. call[c] \in Args
  BY <1>2 DEF SectionsInv, Control, Requests
<1>6. pc'[c] \notin {"query", "children"}
  BY <1>1, <1>3 DEF End, TypeOK
<1> QED
  BY <1>1, <1>3, <1>4, <1>5, <1>6, PlainStep DEF TypeOK

(* Deleting on, or past the last deletion.                                 *)
LEMMA DeleteOn ==
    ASSUME SectionsInv, NEW c \in Calls, NEW rest \in Seq(Nat), Delete(c, rest),
           ToSet(rest) \cap Ids(Doc0) \subseteq Lost,
           DocStep, call[c] \in Args, botched' \subseteq Calls,
           anchor' \in [Calls -> Nat \cup {None}],
           UNCHANGED <<rows, edits, call, heading, clash>>
    PROVE  StepOK
<1>1. TypeOK
  BY DEF SectionsInv
<1>2. /\ todo' \in [Calls -> Seq(Nat)] /\ todo'[c] = rest
      /\ \A d \in Calls : d # c => todo'[d] = todo[d]
  BY <1>1 DEF Delete, TypeOK
<1>3. /\ pc' \in [Calls -> {"idle", "done"} \cup Requests] /\ result' \in [Calls -> Results]
      /\ \A d \in Calls : d # c => pc'[d] = pc[d]
      /\ pc'[c] \in {"delete", "insert", "done"} /\ (pc'[c] = "delete" => rest # << >>)
  <2>1. CASE rest # << >>
    BY <1>1, <2>1 DEF Delete, Goto, TypeOK, Requests
  <2>2. CASE rest = << >>
    BY <1>1, <2>2 DEF Delete, Goto, End, TypeOK, Requests, Results
  <2> QED
    BY <2>1, <2>2
<1>4. TypeOK'
  BY <1>1, <1>2, <1>3 DEF TypeOK, DocStep
<1>5. Control'
  BY <1>2, <1>3 DEF SectionsInv, Control
<1>6. \A d \in Calls : ToSet(todo'[d]) \cap Ids(Doc0) \subseteq Lost
  BY <1>2 DEF SectionsInv, OnlyLost
<1> QED
  BY <1>4, <1>5, <1>6 DEF StepOK, SectionsInv, HeadingsKnown

LEMMA ReadStep ==
    ASSUME SectionsInv, NEW c \in Calls, ReadSection(c)
    PROVE  StepOK
<1>1. TypeOK /\ doc \in Seq(Block) /\ Distinct(doc)
  BY DEF SectionsInv, TypeOK
<1>2. /\ pc[c] = "section" /\ call[c] \in Args /\ heading[c] # None /\ heading[c] \in Nat
  BY <1>1 DEF SectionsInv, Control, TypeOK, ReadSection
<1>3. UNCHANGED <<doc, next, rows, edits, call, heading, clash, botched>>
  BY DEF ReadSection
<1>4. DocStep
  BY <1>1, <1>3, Sparing DEF Spared
<1> DEFINE section == Section(doc, heading[c])
           kids    == [k \in DOMAIN section |-> section[k].id]
<1>5. kids \in Seq(Nat) /\ ToSet(kids) = Ids(section)
  BY <1>1, SectionType, IdsInOrder
<1>6. ToSet(kids) \cap Ids(Doc0) \subseteq Lost
  BY <1>2, <1>5, LostCovers
<1>7. \/ Delete(c, Reverse(kids)) /\ anchor' = [anchor EXCEPT ![c] = heading[c]]
      \/ /\ anchor' = [anchor EXCEPT ![c] = Last(<<heading[c]>> \o kids)]
         /\ Goto(c, "insert") /\ UNCHANGED todo
  BY DEF ReadSection
<1> HIDE DEF kids
<1>8. CASE Delete(c, Reverse(kids)) /\ anchor' = [anchor EXCEPT ![c] = heading[c]]
  <2>1. Reverse(kids) \in Seq(Nat) /\ ToSet(Reverse(kids)) \subseteq ToSet(kids)
    BY <1>5, ReverseIs
  <2>2. anchor' \in [Calls -> Nat \cup {None}] /\ botched' \subseteq Calls
    BY <1>1, <1>2, <1>3, <1>8 DEF TypeOK
  <2> QED
    BY <1>2, <1>3, <1>4, <1>6, <1>8, <2>1, <2>2, DeleteOn
<1>9. CASE /\ anchor' = [anchor EXCEPT ![c] = Last(<<heading[c]>> \o kids)]
           /\ Goto(c, "insert") /\ UNCHANGED todo
  <2>1. Last(<<heading[c]>> \o kids) \in Nat
    BY <1>2, <1>5, LastIs
  <2>2. anchor' \in [Calls -> Nat \cup {None}]
    BY <1>1, <1>9, <2>1 DEF TypeOK
  <2>3. pc'[c] = "insert"
    BY <1>1, <1>9 DEF Goto, TypeOK
  <2> QED
    BY <1>1, <1>2, <1>3, <1>4, <1>9, <2>2, <2>3, PlainStep DEF TypeOK, Requests
<1> QED
  BY <1>7, <1>8, <1>9

LEMMA DeleteStep ==
    ASSUME SectionsInv, NEW c \in Calls, DeleteBlock(c)
    PROVE  StepOK
<1>1. TypeOK
  BY DEF SectionsInv
<1>2. /\ pc[c] = "delete" /\ call[c] \in Args /\ todo[c] # << >> /\ todo[c] \in Seq(Nat)
  BY <1>1 DEF SectionsInv, Control, TypeOK, DeleteBlock
<1>3. DocStep
  BY <1>2, WriteStep DEF DeleteBlock
<1>4. Tail(todo[c]) \in Seq(Nat) /\ ToSet(Tail(todo[c])) \subseteq ToSet(todo[c])
  BY <1>2, TailIs
<1>5. ToSet(Tail(todo[c])) \cap Ids(Doc0) \subseteq Lost
  BY <1>4 DEF SectionsInv, OnlyLost
<1>6. /\ UNCHANGED <<rows, edits, call, heading, anchor, clash>> /\ Delete(c, Tail(todo[c]))
      /\ botched' \subseteq Calls
  BY <1>1 DEF DeleteBlock, TypeOK
<1>7. anchor' \in [Calls -> Nat \cup {None}]
  BY <1>1, <1>6 DEF TypeOK
<1> QED
  BY <1>2, <1>3, <1>4, <1>5, <1>6, <1>7, DeleteOn

LEMMA OtherStep ==
    ASSUME SectionsInv, Reindex \/ EditElsewhere \/ UNCHANGED vars
    PROVE  StepOK
<1>1. TypeOK /\ Fresh
  BY DEF SectionsInv
<1>2. UNCHANGED <<pc, call, heading, todo, anchor, result, clash, botched>>
  BY DEF Reindex, EditElsewhere, vars
<1>3. DocStep
  BY <1>1, Sparing, EditStep DEF Reindex, vars, Spared
<1>4. edits' \in 0..Edits
  BY <1>1, DocAssumption DEF TypeOK, Reindex, EditElsewhere, vars
<1>5. \A b \in rows' : NamesHeading(b.id) /\ b \in Block
  <2>1. CASE rows' = rows
    BY <1>1, <2>1 DEF SectionsInv, HeadingsKnown, TypeOK
  <2>2. CASE rows' = Headings(doc)
    <3>1. ToSet(doc) \subseteq Block
      BY <1>1, DocProperties DEF TypeOK
    <3> QED
      BY <2>2, <3>1, HeadingIs DEF Headings
  <2> QED
    BY <2>1, <2>2 DEF Reindex, EditElsewhere, vars
<1>6. TypeOK'
  BY <1>1, <1>2, <1>3, <1>4, <1>5 DEF TypeOK, DocStep
<1>7. Control'
  BY <1>2 DEF SectionsInv, Control
<1> QED
  BY <1>2, <1>3, <1>5, <1>6, <1>7 DEF StepOK, SectionsInv, OnlyLost

LEMMA SectionsStep ==
    ASSUME SectionsInv, [Next]_vars
    PROVE  StepOK
BY BeginStep, QueryStep, ReadStep, DeleteStep, WritesStep, OtherStep DEF Next

(* Only a creation and another client's edit make headings.                *)
LEMMA HeadingsStep ==
    ASSUME SectionsInv, [Next]_vars, edits' = Edits
    PROVE  /\ edits = Edits
           /\ \/ Headings(doc') \subseteq Headings(doc)
              \/ \E c \in Calls : \E h :
                    /\ pc[c] = "append" /\ pc'[c] = "done"
                    /\ Headings(doc') \subseteq Headings(doc) \cup {h}
                    /\ h.text = call[c].name
<1>1. TypeOK /\ Fresh
  BY DEF SectionsInv
<1>2. ~EditElsewhere
  BY <1>1, DocAssumption DEF EditElsewhere, TypeOK
<1>3. edits = Edits
  BY <1>2 DEF Next, vars, Begin, QueryHeadings, QueryChildren, ReadSection, DeleteBlock, InsertBlock,
              AppendSection, Fail, Reindex
<1>4. ASSUME NEW c \in Calls, pc[c] # "idle"
      PROVE  call[c] \in Args /\ (pc[c] = "delete" => todo[c] # << >>)
  BY <1>4 DEF SectionsInv, Control
<1>5. ASSUME NEW c \in Calls, pc[c] = "append", Creation(c), pc'[c] = "done"
      PROVE  \E h : /\ Headings(doc') \subseteq Headings(doc) \cup {h}
                    /\ h.text = call[c].name
  <2> DEFINE h    == [id |-> next, level |-> NewLevel, text |-> call[c].name]
             body == Body(c, next + 1)
  <2>1. ToSet(doc') = ToSet(doc) \cup {h} \cup ToSet(body)
    BY <1>1, <1>4, <1>5, CreationStep
  <2>2. \A b \in ToSet(body) : ~IsHeading(b)
    <3>1. next + 1 \in Nat
      BY <1>1 DEF TypeOK
    <3>2. \A b \in ToSet(body) : b.level = 0
      BY <1>4, <1>5, <3>1, BodyIs
    <3> QED
      BY <3>2 DEF IsHeading
  <2>3. h.text = call[c].name
    OBVIOUS
  <2> HIDE DEF h, body
  <2> QED
    BY <2>1, <2>2, <2>3 DEF Headings
<1>6. ASSUME NEW c \in Calls, pc[c] = "insert", Insertion(c)
      PROVE  Headings(doc') \subseteq Headings(doc)
  <2> DEFINE body == Body(c, next)
  <2>1. ToSet(doc') = ToSet(doc) \cup ToSet(body)
    BY <1>1, <1>4, <1>6, InsertionStep
  <2>2. \A b \in ToSet(body) : ~IsHeading(b)
    <3>1. next \in Nat
      BY <1>1 DEF TypeOK
    <3>2. \A b \in ToSet(body) : b.level = 0
      BY <1>4, <1>6, <3>1, BodyIs
    <3> QED
      BY <3>2 DEF IsHeading
  <2> HIDE DEF body
  <2> QED
    BY <2>1, <2>2 DEF Headings
<1>7. ASSUME NEW c \in Calls, pc[c] = "delete", Removal(c)
      PROVE  Headings(doc') \subseteq Headings(doc)
  <2>1. ToSet(doc') \subseteq ToSet(doc)
    BY <1>1, <1>4, <1>7, RemovalStep
  <2> QED
    BY <2>1 DEF Headings
<1>8. doc' = doc => Headings(doc') \subseteq Headings(doc)
  OBVIOUS
<1>9. ASSUME NEW c \in Calls, AppendSection(c) \/ Fail(c) PROVE pc'[c] = "done"
  BY <1>1, <1>9 DEF AppendSection, Fail, End, TypeOK
<1>10. CASE \E c \in Calls : Begin(c) \/ QueryHeadings(c) \/ QueryChildren(c) \/ ReadSection(c)
  BY <1>3, <1>8, <1>10 DEF Begin, QueryHeadings, QueryChildren, ReadSection
<1>11. CASE \E c \in Calls : DeleteBlock(c) \/ InsertBlock(c) \/ AppendSection(c) \/ Fail(c)
  BY <1>3, <1>5, <1>6, <1>7, <1>8, <1>9, <1>11
     DEF DeleteBlock, InsertBlock, AppendSection, Fail, Spared
<1>12. CASE Reindex \/ UNCHANGED vars
  BY <1>3, <1>8, <1>12 DEF Reindex, vars
<1> QED
  BY <1>2, <1>10, <1>11, <1>12 DEF Next

(* Calls at work keep their arguments; a call that comes to create its     *)
(* section has just seen that it is not there.                             *)
LEMMA WorkStep ==
    ASSUME SectionsInv, [Next]_vars
    PROVE  /\ clash \subseteq clash' /\ \A c \in clash' : c \in clash \/ pc'[c] # "idle"
           /\ \A c \in Calls : pc[c] # "idle" => pc'[c] # "idle" /\ call'[c] = call[c]
           /\ \/ \E c \in Calls : Begin(c)
              \/ \A c \in Calls : Working(c)' => Working(c) /\ call'[c] = call[c]
           /\ \A c \in Calls : pc'[c] = "append" =>
                 \/ pc[c] = "append" /\ call'[c] = call[c]
                 \/ Matching(ToSet(doc'), call'[c].name) = {}
<1>1. TypeOK
  BY DEF SectionsInv
<1>2. CASE \E c \in Calls : Begin(c)
  <2>1. PICK c \in Calls : Begin(c)
    BY <1>2
  <2>2. pc'[c] = "query" /\ \A d \in Calls : d # c => pc'[d] = pc[d] /\ call'[d] = call[d]
    BY <1>1, <2>1 DEF Begin, Goto, TypeOK
  <2>3. /\ clash \subseteq clash' /\ pc[c] = "idle"
        /\ \A d \in clash' : d \in clash \/ (d \in Calls /\ Working(d)) \/ d = c
    BY <2>1 DEF Begin
  <2>4. \A d \in Calls : Working(d) => pc[d] # "idle"
    BY DEF Working, Requests
  <2>5. \A d \in clash' : d \in clash \/ pc'[d] # "idle"
    BY <2>2, <2>3, <2>4
  <2>6. \A d \in Calls : pc[d] # "idle" => pc'[d] # "idle" /\ call'[d] = call[d]
    BY <2>2, <2>3
  <2>7. \A d \in Calls : pc'[d] = "append" => pc[d] = "append" /\ call'[d] = call[d]
    BY <2>2
  <2> QED
    BY <1>2, <2>3, <2>5, <2>6, <2>7
<1>3. CASE \E c \in Calls : QueryHeadings(c) \/ QueryChildren(c)
  <2>1. PICK c \in Calls : QueryHeadings(c) \/ QueryChildren(c)
    BY <1>3
  <2>2. /\ UNCHANGED <<doc, call, clash>> /\ pc[c] \in Requests /\ pc'[c] # "idle"
        /\ \A d \in Calls : d # c => pc'[d] = pc[d]
    BY <1>1, <2>1 DEF QueryHeadings, QueryChildren, Settle, Goto, End, TypeOK, Requests
  <2>3. pc'[c] = "append" => Matching(ToSet(doc), call[c].name) = {}
    BY <1>1, <2>1 DEF QueryHeadings, QueryChildren, Settle, Goto, End, TypeOK
  <2> QED
    BY <2>2, <2>3 DEF Working
<1>4. CASE \E c \in Calls : ReadSection(c) \/ DeleteBlock(c) \/ InsertBlock(c) \/ AppendSection(c) \/ Fail(c)
  <2>1. PICK c \in Calls : ReadSection(c) \/ DeleteBlock(c) \/ InsertBlock(c) \/ AppendSection(c) \/ Fail(c)
    BY <1>4
  <2>2. /\ UNCHANGED <<call, clash>> /\ pc[c] \in Requests
        /\ \A d \in Calls : d # c => pc'[d] = pc[d]
        /\ pc'[c] \notin {"append", "idle"}
    <3>1. UNCHANGED <<call, clash>> /\ pc[c] \in Requests
      BY <2>1 DEF ReadSection, DeleteBlock, InsertBlock, AppendSection, Fail, Working, Requests
    <3>2. \/ \E r \in {"delete", "insert"} : Goto(c, r)
          \/ \E r \in Results : End(c, r)
      BY <2>1 DEF ReadSection, DeleteBlock, Delete, InsertBlock, AppendSection, Fail, Results
    <3> QED
      BY <1>1, <3>1, <3>2 DEF Goto, End, TypeOK
  <2> QED
    BY <2>2 DEF Working
<1>5. CASE Reindex \/ EditElsewhere \/ UNCHANGED vars
  BY <1>5 DEF Reindex, EditElsewhere, vars, Working
<1> QED
  BY <1>2, <1>3, <1>4, <1>5 DEF Next

LEMMA UnrivalledStep ==
    ASSUME SectionsInv, Unrivalled, NoDuplicateSection, [Next]_vars
    PROVE  Unrivalled' /\ NoDuplicateSection'
<1>1. TypeOK
  BY DEF SectionsInv
<1>9. \A c \in clash' : pc'[c] # "idle"
  BY <1>1, WorkStep DEF Unrivalled, TypeOK
<1>2. SUFFICES ASSUME OneByOne' PROVE Unrivalled' /\ NoDuplicateSection'
  BY <1>9 DEF Unrivalled, NoDuplicateSection
<1>3. OneByOne
  <2>1. \A c \in clash : c \in clash' /\ call'[c] = call[c]
    BY <1>1, WorkStep DEF Unrivalled, TypeOK
  <2> QED
    BY <1>2, <2>1 DEF OneByOne
<1>4. \A c, d \in Calls : Working(c) /\ Working(d) /\ Canon[call[c].name] = Canon[call[d].name] => c = d
  BY <1>3 DEF Unrivalled
<1>5. ASSUME NEW c \in Calls, NEW d \in Calls, Working(c)', Working(d)',
             Canon[call'[c].name] = Canon[call'[d].name]
      PROVE  c = d
  <2>1. CASE \E e \in Calls : Begin(e)
    <3>1. PICK e \in Calls : Begin(e)
      BY <2>1
    <3>2. PICK a \in Args :
            /\ call' = [call EXCEPT ![e] = a]
            /\ \A f \in Calls : Working(f) /\ Shares(call[f].name, a.name) => {e, f} \subseteq clash'
      BY <3>1 DEF Begin
    <3>5. /\ call'[e] = a /\ ~Working(e)
          /\ \A f \in Calls : f # e => call'[f] = call[f] /\ (Working(f)' => Working(f))
      BY <1>1, <3>1, <3>2 DEF Begin, Goto, Working, TypeOK, Requests
    <3>4. \A f \in Calls : Working(f) => Canon[call[f].name] # Canon[a.name]
      <4>1. SUFFICES ASSUME NEW f \in Calls, Working(f), Canon[call[f].name] = Canon[a.name]
                     PROVE  FALSE
        OBVIOUS
      <4>2. Shares(call[f].name, a.name)
        BY <4>1 DEF Shares
      <4>3. {e, f} \subseteq clash' /\ f # e
        BY <3>2, <3>5, <4>1, <4>2
      <4> QED
        BY <1>2, <3>5, <4>1, <4>3 DEF OneByOne
    <3>6. CASE c = e \/ d = e
      BY <1>5, <3>4, <3>5, <3>6
    <3>7. CASE c # e /\ d # e
      BY <1>4, <1>5, <3>5, <3>7
    <3> QED
      BY <3>6, <3>7
  <2>2. CASE \A e \in Calls : Working(e)' => Working(e) /\ call'[e] = call[e]
    BY <1>4, <1>5, <2>2
  <2> QED
    BY <2>1, <2>2, WorkStep
<1>6. ASSUME edits' = Edits, NEW c \in Calls, pc'[c] = "append"
      PROVE  Matching(ToSet(doc'), call'[c].name) = {}
  <2>1. SUFFICES ASSUME pc[c] = "append", call'[c] = call[c]
                 PROVE  Matching(ToSet(doc'), call[c].name) = {}
    BY <1>6, WorkStep
  <2>2. /\ edits = Edits
        /\ \/ Headings(doc') \subseteq Headings(doc)
           \/ \E d \in Calls : \E h :
                 /\ pc[d] = "append" /\ pc'[d] = "done"
                 /\ Headings(doc') \subseteq Headings(doc) \cup {h}
                 /\ h.text = call[d].name
    BY <1>6, HeadingsStep
  <2>3. Matching(ToSet(doc), call[c].name) = {}
    BY <1>3, <2>1, <2>2 DEF Unrivalled
  <2>4. CASE Headings(doc') \subseteq Headings(doc)
    BY <2>3, <2>4 DEF Matching, Headings
  <2>5. CASE \E d \in Calls : \E h :
                 /\ pc[d] = "append" /\ pc'[d] = "done"
                 /\ Headings(doc') \subseteq Headings(doc) \cup {h}
                 /\ h.text = call[d].name
    <3>0. PICK d \in Calls : \E h :
                 /\ pc[d] = "append" /\ pc'[d] = "done"
                 /\ Headings(doc') \subseteq Headings(doc) \cup {h}
                 /\ h.text = call[d].name
      BY <2>5
    <3>1. PICK h : /\ pc[d] = "append" /\ pc'[d] = "done"
                   /\ Headings(doc') \subseteq Headings(doc) \cup {h}
                   /\ h.text = call[d].name
      BY <3>0
    <3>2. c # d /\ Working(c) /\ Working(d)
      BY <1>6, <2>1, <3>1 DEF Working, Requests
    <3>3. Canon[h.text] # Canon[call[c].name]
      BY <1>4, <3>1, <3>2
    <3> QED
      BY <2>3, <3>1, <3>3 DEF Matching, Headings
  <2> QED
    BY <2>2, <2>4, <2>5
<1>7. Unrivalled'
  BY <1>5, <1>6, <1>9 DEF Unrivalled
<1>8. ASSUME Singular(Doc0), edits' = Edits PROVE Singular(doc')
  <2>1. /\ edits = Edits
        /\ \/ Headings(doc') \subseteq Headings(doc)
           \/ \E d \in Calls : \E h :
                 /\ pc[d] = "append" /\ pc'[d] = "done"
                 /\ Headings(doc') \subseteq Headings(doc) \cup {h}
                 /\ h.text = call[d].name
    BY <1>8, HeadingsStep
  <2>2. Singular(doc)
    BY <1>3, <1>8, <2>1 DEF NoDuplicateSection
  <2>3. CASE Headings(doc') \subseteq Headings(doc)
    BY <2>2, <2>3 DEF Singular
  <2>4. CASE \E d \in Calls : \E h :
                 /\ pc[d] = "append" /\ pc'[d] = "done"
                 /\ Headings(doc') \subseteq Headings(doc) \cup {h}
                 /\ h.text = call[d].name
    <3>0. PICK d \in Calls : \E h :
                 /\ pc[d] = "append" /\ pc'[d] = "done"
                 /\ Headings(doc') \subseteq Headings(doc) \cup {h}
                 /\ h.text = call[d].name
      BY <2>4
    <3>1. PICK h : /\ pc[d] = "append" /\ pc'[d] = "done"
                   /\ Headings(doc') \subseteq Headings(doc) \cup {h}
                   /\ h.text = call[d].name
      BY <3>0
    <3>2. Matching(ToSet(doc), call[d].name) = {}
      BY <1>3, <2>1, <3>1 DEF Unrivalled
    <3>3. \A b \in Headings(doc) : Canon[b.text] # Canon[h.text]
      BY <3>1, <3>2 DEF Matching, Headings
    <3> QED
      BY <2>2, <3>1, <3>3 DEF Singular
  <2> QED
    BY <2>1, <2>3, <2>4
<1> QED
  BY <1>7, <1>8 DEF NoDuplicateSection

-----------------------------------------------------------------------------
(* Theorems about the section tools                                        *)

LEMMA SectionsInvariant == Spec => [](SectionsInv /\ Unrivalled /\ NoDuplicateSection)
<1>1. Init => SectionsInv /\ Unrivalled /\ NoDuplicateSection
  <2>1. Init => NoDuplicateSection
    BY DEF Init, InitDocument, NoDuplicateSection
  <2> QED
    BY <2>1, SectionsInit
<1>2. SectionsInv /\ Unrivalled /\ NoDuplicateSection /\ [Next]_vars
          => (SectionsInv /\ Unrivalled /\ NoDuplicateSection)'
  BY SectionsStep, StepKeeps, UnrivalledStep
<1> QED
  BY <1>1, <1>2, PTL DEF Spec

(* The variables of the section tools have their types: in particular ids  *)
(* stay unique whatever the calls insert, delete and create.               *)
THEOREM SectionsType == Spec => []TypeOK
<1>1. SectionsInv => TypeOK
  BY DEF SectionsInv
<1> QED
  BY <1>1, SectionsInvariant, PTL

(* upsert_section and append_to_section leave every block that was there   *)
(* at first and is in no section a call has settled on, in its place and   *)
(* order, for any document and any interleaving of calls, failures and     *)
(* edits.                                                                  *)
THEOREM FrameStays == Spec => []FrameIsKept
<1>1. SectionsInv => FrameIsKept
  <2>1. \A i, j \in DOMAIN Doc0 : i < j => Before(Doc0, Doc0[i].id, Doc0[j].id)
    BY DEF Before
  <2> QED
    BY <2>1 DEF SectionsInv, OnlyLost, OrderOfRest, FrameIsKept
<1> QED
  BY <1>1, SectionsInvariant, PTL

(* Calls on one section that do not overlap never make it twice: each of   *)
(* them asks the kernel's tree before it creates a section, whatever the   *)
(* index says and whichever requests failed before.                        *)
THEOREM SectionsStaySingular == Spec => []NoDuplicateSection
BY SectionsInvariant, PTL

-----------------------------------------------------------------------------
(* Sections by place                                                       *)

(* The block at i ends a section of the heading at a.                      *)
Stops(d, a, i) == d[i].level \in 1 .. d[a].level

(* The section of the heading at a ends at b.                              *)
Spans(d, a, b) ==
    /\ a \in 1..Len(d) /\ b \in a..Len(d)
    /\ \A i \in a + 1 .. b : ~Stops(d, a, i)
    /\ b < Len(d) => Stops(d, a, b + 1)

LEMMA NotInRange == \A x : 0 \notin 1 .. x
OBVIOUS

LEMMA StretchIs ==
    ASSUME NEW d \in Seq(Block), NEW a \in 0..Len(d), NEW b \in a..Len(d)
    PROVE  /\ SubSeq(d, a + 1, b) \in Seq(Block) /\ Len(SubSeq(d, a + 1, b)) = b - a
           /\ \A i \in 1 .. b - a : SubSeq(d, a + 1, b)[i] = d[a + i]
<1>1. Len(d) \in Nat /\ \A i \in 1..Len(d) : d[i] \in Block
  BY DocProperties
<1>2. a + 1 \in Int /\ b \in Int /\ \A i \in a + 1 .. b : d[i] \in Block
  BY <1>1
<1> DEFINE s == SubSeq(d, a + 1, b)
<1>3. /\ s \in Seq(Block) /\ Len(s) = IF a + 1 <= b THEN b - (a + 1) + 1 ELSE 0
      /\ \A i \in 1 .. b - (a + 1) + 1 : s[i] = d[a + 1 + i - 1]
  BY <1>2, SubSeqProperties
<1> HIDE DEF s
<1>4. Len(s) = b - a
  BY <1>1, <1>3
<1>5. ASSUME NEW i \in 1 .. b - a PROVE s[i] = d[a + i]
  <2>1. i \in 1 .. b - (a + 1) + 1 /\ a + 1 + i - 1 = a + i
    BY <1>1
  <2> QED
    BY <1>3, <2>1
<1> QED
  BY <1>3, <1>4, <1>5 DEF s

LEMMA SpansSection ==
    ASSUME NEW d \in Seq(Block), Distinct(d), NEW a, NEW b, Spans(d, a, b)
    PROVE  /\ Section(d, d[a].id) \in Seq(Block) /\ Len(Section(d, d[a].id)) = b - a
           /\ \A i \in 1 .. b - a : Section(d, d[a].id)[i] = d[a + i]
           /\ \A z : z \in Ids(Section(d, d[a].id)) <=> \E i \in a + 1 .. b : d[i].id = z
<1>1. /\ Len(d) \in Nat /\ DOMAIN d = 1..Len(d) /\ a \in 1..Len(d) /\ b \in a..Len(d)
      /\ \A i, j \in 1..Len(d) : d[i].id = d[j].id => i = j
      /\ d[a].id \in Ids(d)
  BY DocProperties DEF Distinct, Spans
<1>8. b = Len(d) \/ b < Len(d)
  <2>1. Len(d) \in Int /\ b \in Int /\ b <= Len(d)
    BY <1>1
  <2>2. \A m, j \in Int : j <= m => j = m \/ j < m
    OBVIOUS
  <2> QED
    BY <2>1, <2>2
<1> DEFINE stops == {i \in a + 1 .. Len(d) : d[i].level \in 1 .. d[a].level}
           end   == IF stops = {} THEN Len(d) ELSE Min(stops) - 1
           s     == Section(d, d[a].id)
<1>2. Place(d, d[a].id) = a
  BY <1>1, PlaceIs
<1>3. s = SubSeq(d, a + 1, end)
  BY <1>1, <1>2 DEF Section
<1>4. end = b
  <2>1. CASE b = Len(d)
    <3>1. stops = {}
      BY <1>1, <2>1 DEF Spans, Stops
    <3> QED
      BY <2>1, <3>1
  <2>2. CASE b < Len(d)
    <3>1. b + 1 \in stops /\ \A i \in stops : i >= b + 1
      BY <1>1, <2>2 DEF Spans, Stops
    <3>2. stops \in SUBSET Nat /\ stops # {}
      BY <1>1, <3>1
    <3> DEFINE m == Min(stops)
    <3> HIDE DEF stops
    <3>3. m \in stops /\ \A i \in stops : m <= i
      BY <3>2, HasMin
    <3>4. end = m - 1
      BY <3>2
    <3> HIDE DEF m, end
    <3>5. m = b + 1
      BY <1>1, <3>1, <3>2, <3>3
    <3> QED
      BY <1>1, <3>4, <3>5
  <2> QED
    BY <1>8, <2>1, <2>2
<1> HIDE DEF end
<1>5. s \in Seq(Block) /\ Len(s) = b - a /\ \A i \in 1 .. b - a : s[i] = d[a + i]
  BY <1>1, <1>3, <1>4, StretchIs
<1> HIDE DEF s
<1>6. \A z : z \in Ids(s) <=> \E i \in 1 .. b - a : s[i].id = z
  BY <1>5, DocProperties
<1>7. ASSUME NEW z PROVE (\E i \in 1 .. b - a : s[i].id = z) <=> \E i \in a + 1 .. b : d[i].id = z
  <2>1. ASSUME NEW i \in 1 .. b - a, s[i].id = z PROVE \E j \in a + 1 .. b : d[j].id = z
    <3>1. a + i \in a + 1 .. b
      BY <1>1
    <3> QED
      BY <1>5, <2>1, <3>1
  <2>2. ASSUME NEW j \in a + 1 .. b, d[j].id = z PROVE \E i \in 1 .. b - a : s[i].id = z
    <3>1. j - a \in 1 .. b - a /\ a + (j - a) = j
      BY <1>1
    <3> QED
      BY <1>5, <2>2, <3>1
  <2> QED
    BY <2>1, <2>2
<1> QED
  BY <1>5, <1>6, <1>7 DEF s

LEMMA HasSpan ==
    ASSUME NEW d \in Seq(Block), NEW y \in Ids(d)
    PROVE  \E a, b : Spans(d, a, b) /\ d[a].id = y
<1>1. Len(d) \in Nat /\ y \in Ids(d)
  BY DocProperties
<1>2. PICK a \in 1..Len(d) : d[a].id = y
  BY <1>1, DocProperties
<1> DEFINE stops == {i \in a + 1 .. Len(d) : Stops(d, a, i)}
           m     == Min(stops)
<1>3. stops \in SUBSET Nat /\ \A i : i \in stops <=> i \in a + 1 .. Len(d) /\ Stops(d, a, i)
  BY <1>1, <1>2
<1> HIDE DEF stops
<1>4. CASE stops = {}
  <2>1. Spans(d, a, Len(d))
    BY <1>1, <1>2, <1>3, <1>4 DEF Spans
  <2> QED
    BY <1>2, <2>1
<1>5. CASE stops # {}
  <2>1. m \in stops /\ \A i \in stops : m <= i
    BY <1>3, <1>5, HasMin
  <2> HIDE DEF m
  <2>2. m \in a + 1 .. Len(d) /\ Stops(d, a, m)
    BY <1>3, <2>1
  <2>3. m - 1 \in a .. Len(d) /\ (m - 1) + 1 = m
    BY <1>1, <1>2, <2>2
  <2>4. \A i \in a + 1 .. m - 1 : ~Stops(d, a, i)
    BY <1>1, <1>2, <1>3, <2>1, <2>2
  <2>5. Spans(d, a, m - 1)
    BY <1>2, <2>2, <2>3, <2>4 DEF Spans
  <2> QED
    BY <1>2, <2>5
<1> QED
  BY <1>4, <1>5

(* A stretch that is moved as it is, and ended as before, is the section   *)
(* it was.                                                                 *)
LEMMA Shifted ==
    ASSUME NEW d \in Seq(Block), Distinct(d), NEW e \in Seq(Block), Distinct(e),
           NEW a, NEW b, Spans(d, a, b), NEW s \in Int, a + s \in 1..Len(e), b + s \in a + s .. Len(e),
           \A i \in a..b : e[i + s] = d[i],
           b + s < Len(e) => e[b + s + 1].level \in 1 .. d[a].level
    PROVE  /\ Spans(e, a + s, b + s) /\ e[a + s] = d[a]
           /\ Section(e, d[a].id) = Section(d, d[a].id)
<1>1. Len(d) \in Nat /\ Len(e) \in Nat /\ a \in 1..Len(d) /\ b \in a..Len(d)
  BY DocProperties DEF Spans
<1>2. e[a + s] = d[a]
  BY <1>1
<1>3. Spans(e, a + s, b + s)
  <2>1. ASSUME NEW i \in a + s + 1 .. b + s PROVE ~Stops(e, a + s, i)
    <3>1. i - s \in a + 1 .. b /\ i - s \in a..b /\ (i - s) + s = i
      BY <1>1
    <3>2. e[i] = d[i - s]
      BY <3>1
    <3> QED
      BY <1>2, <3>1, <3>2 DEF Spans, Stops
  <2> QED
    BY <1>1, <1>2, <2>1 DEF Spans, Stops
<1>4. /\ Section(d, d[a].id) \in Seq(Block) /\ Len(Section(d, d[a].id)) = b - a
      /\ \A i \in 1 .. b - a : Section(d, d[a].id)[i] = d[a + i]
  BY SpansSection
<1>5. /\ Section(e, d[a].id) \in Seq(Block) /\ Len(Section(e, d[a].id)) = (b + s) - (a + s)
      /\ \A i \in 1 .. (b + s) - (a + s) : Section(e, d[a].id)[i] = e[(a + s) + i]
  <2> DEFINE f == a + s
             g == b + s
  <2>1. Spans(e, f, g) /\ e[f] = d[a]
    BY <1>2, <1>3
  <2> HIDE DEF f, g
  <2>2. /\ Section(e, e[f].id) \in Seq(Block) /\ Len(Section(e, e[f].id)) = g - f
        /\ \A i \in 1 .. g - f : Section(e, e[f].id)[i] = e[f + i]
    BY <2>1, SpansSection, SMTT(30)
  <2>3. Section(e, e[f].id) = Section(e, d[a].id)
    BY <2>1
  <2>4. /\ Section(e, d[a].id) \in Seq(Block) /\ Len(Section(e, d[a].id)) = g - f
        /\ \A i \in 1 .. g - f : Section(e, d[a].id)[i] = e[f + i]
    BY <2>2, <2>3
  <2> QED
    BY <2>4 DEF f, g
<1>6. (b + s) - (a + s) = b - a
  BY <1>1
<1>7. ASSUME NEW i \in 1 .. b - a PROVE e[(a + s) + i] = d[a + i]
  <2>1. a + i \in a..b /\ (a + i) + s = (a + s) + i
    BY <1>1
  <2> QED
    BY <2>1
<1>8. Section(e, d[a].id) = Section(d, d[a].id)
  <2> DEFINE u == Section(e, d[a].id)
             v == Section(d, d[a].id)
  <2>1. /\ u \in Seq(Block) /\ v \in Seq(Block) /\ Len(u) = b - a /\ Len(v) = b - a
        /\ \A i \in 1 .. b - a : u[i] = v[i]
    BY <1>4, <1>5, <1>6, <1>7, SMTT(30)
  <2> HIDE DEF u, v
  <2>2. u = v
    BY <2>1, SeqEqual, SMTT(30)
  <2> QED
    BY <2>2 DEF u, v
<1> QED
  BY <1>2, <1>3, <1>8

LEMMA RemovalEntries ==
    ASSUME NEW d \in Seq(Block), Distinct(d), NEW k \in 1..Len(d)
    PROVE  LET e == Without(d, d[k].id)
           IN  /\ Len(e) = Len(d) - 1
               /\ \A i \in 1 .. k - 1 : e[i] = d[i]
               /\ \A i \in k + 1 .. Len(d) : e[i - 1] = d[i]
<1> DEFINE e == Without(d, d[k].id)
           u == SubSeq(d, 1, k - 1)
           v == SubSeq(d, k + 1, Len(d))
<1>1. /\ Len(d) \in Nat /\ \A i, j \in 1..Len(d) : d[i].id = d[j].id => i = j
      /\ d[k].id \in Ids(d)
  BY DocProperties DEF Distinct
<1>2. Place(d, d[k].id) = k
  BY <1>1, PlaceIs
<1>3. e = u \o v
  BY <1>1, <1>2 DEF Without, RemoveAt
<1>4. u \in Seq(Block) /\ Len(u) = k - 1 /\ \A i \in 1 .. k - 1 : u[i] = d[i]
  <2>1. k - 1 \in 0..Len(d) /\ 0 \in 0..Len(d)
    BY <1>1
  <2>2. /\ SubSeq(d, 0 + 1, k - 1) \in Seq(Block) /\ Len(SubSeq(d, 0 + 1, k - 1)) = k - 1 - 0
        /\ \A i \in 1 .. k - 1 - 0 : SubSeq(d, 0 + 1, k - 1)[i] = d[0 + i]
    BY <2>1, StretchIs
  <2>3. 0 + 1 = 1 /\ k - 1 - 0 = k - 1 /\ \A i \in 1 .. k - 1 : 0 + i = i
    BY <1>1
  <2> QED
    BY <2>2, <2>3
<1>5. v \in Seq(Block) /\ Len(v) = Len(d) - k /\ \A i \in 1 .. Len(d) - k : v[i] = d[k + i]
  <2>1. k \in 0..Len(d) /\ Len(d) \in k..Len(d)
    BY <1>1
  <2> QED
    BY <2>1, StretchIs
<1> HIDE DEF e, u, v
<1>6. /\ Len(e) = Len(u) + Len(v)
      /\ \A i \in 1 .. Len(u) + Len(v) : e[i] = IF i <= Len(u) THEN u[i] ELSE v[i - Len(u)]
  BY <1>3, <1>4, <1>5, ConcatProperties
<1>7. Len(u) + Len(v) = Len(d) - 1
  BY <1>1, <1>4, <1>5
<1>8. ASSUME NEW i \in 1 .. k - 1 PROVE e[i] = d[i]
  <2>1. i \in 1 .. Len(d) - 1 /\ i <= k - 1
    BY <1>1
  <2> QED
    BY <1>4, <1>6, <1>7, <2>1
<1>9. ASSUME NEW i \in k + 1 .. Len(d) PROVE e[i - 1] = d[i]
  <2>1. /\ i - 1 \in 1 .. Len(d) - 1 /\ ~(i - 1 <= k - 1)
        /\ (i - 1) - (k - 1) \in 1 .. Len(d) - k /\ k + ((i - 1) - (k - 1)) = i
    BY <1>1
  <2>2. e[i - 1] = v[(i - 1) - (k - 1)]
    BY <1>4, <1>6, <1>7, <2>1
  <2>3. v[(i - 1) - (k - 1)] = d[i]
    BY <1>5, <2>1
  <2> QED
    BY <2>2, <2>3
<1> QED
  BY <1>6, <1>7, <1>8, <1>9 DEF e

(* The section at a .. b after one block of the section at g .. f is gone, *)
(* or blocks are inserted there.                                           *)
Apart(a, b, g, f) == a \notin g..f /\ g \notin a..b

LEMMA AsideRemoval ==
    ASSUME NEW d \in Seq(Block), Distinct(d), NEW a, NEW b, Spans(d, a, b), NEW g, NEW f, Spans(d, g, f),
           Apart(a, b, g, f), NEW k \in g + 1 .. f
    PROVE  LET e == Without(d, d[k].id)
           IN  /\ Section(e, d[a].id) = Section(d, d[a].id)
               /\ \E s \in Int : Spans(e, a + s, b + s) /\ e[a + s] = d[a]
                                   /\ (b + s = Len(e) => b = Len(d))
<1> DEFINE e == Without(d, d[k].id)
<1>1. /\ Len(d) \in Nat /\ a \in 1..Len(d) /\ b \in a..Len(d) /\ g \in 1..Len(d) /\ f \in g..Len(d)
  BY DocProperties DEF Spans
<1>2. k \in 1..Len(d)
  BY <1>1
<1>3. e \in Seq(Block) /\ Distinct(e)
  BY WithoutBlocks
<1>4. /\ Len(e) = Len(d) - 1 /\ \A i \in 1 .. k - 1 : e[i] = d[i]
      /\ \A i \in k + 1 .. Len(d) : e[i - 1] = d[i]
  BY <1>2, RemovalEntries
<1> HIDE DEF e
<1>5. b < Len(d) => d[b + 1].level \in 1 .. d[a].level
  BY DEF Spans, Stops
<1>6. CASE a > f
  <2> DEFINE s == -1
  <2>0. s \in Int
    OBVIOUS
  <2>1. a + s \in 1..Len(e) /\ b + s \in a + s .. Len(e)
    BY <1>1, <1>4, <1>6
  <2>2. ASSUME NEW i \in a..b PROVE e[i + s] = d[i]
    <3>1. i \in k + 1 .. Len(d) /\ i + s = i - 1
      BY <1>1, <1>6
    <3> QED
      BY <1>4, <3>1
  <2>3. ASSUME b + s < Len(e) PROVE e[b + s + 1].level \in 1 .. d[a].level
    <3>1. b < Len(d) /\ b + 1 \in k + 1 .. Len(d) /\ (b + 1) - 1 = b + s + 1
      BY <1>1, <1>4, <1>6, <2>3
    <3>2. e[b + s + 1] = d[b + 1]
      BY <1>4, <3>1
    <3> QED
      BY <1>5, <3>1, <3>2
  <2> HIDE DEF s
  <2>4. /\ Spans(e, a + s, b + s) /\ e[a + s] = d[a]
        /\ Section(e, d[a].id) = Section(d, d[a].id)
    BY <1>3, <2>0, <2>1, <2>2, <2>3, Shifted
  <2>5. b + s = Len(e) => b = Len(d)
    BY <1>1, <1>4 DEF s
  <2> QED
    BY <2>0, <2>4, <2>5 DEF e
<1>7. CASE g > b
  <2>1. a + 0 \in 1..Len(e) /\ b + 0 \in a + 0 .. Len(e)
    BY <1>1, <1>4, <1>7
  <2>2. ASSUME NEW i \in a..b PROVE e[i + 0] = d[i]
    <3>1. i \in 1 .. k - 1 /\ i + 0 = i
      BY <1>1, <1>7
    <3> QED
      BY <1>4, <3>1
  <2>3. e[b + 0 + 1].level \in 1 .. d[a].level
    <3>1. b < Len(d) /\ b + 1 \in 1 .. k - 1 /\ b + 1 = b + 0 + 1
      BY <1>1, <1>7
    <3>2. e[b + 0 + 1] = d[b + 1]
      BY <1>4, <3>1
    <3> QED
      BY <1>5, <3>1, <3>2
  <2>4. /\ Spans(e, a + 0, b + 0) /\ e[a + 0] = d[a]
        /\ Section(e, d[a].id) = Section(d, d[a].id)
    BY <1>3, <2>1, <2>2, <2>3, Shifted
  <2>5. b + 0 # Len(e)
    BY <1>1, <1>4, <1>7
  <2> QED
    BY <2>4, <2>5 DEF e
<1>8. a > f \/ g > b
  BY <1>1 DEF Apart
<1> QED
  BY <1>6, <1>7, <1>8

LEMMA AsideInsertion ==
    ASSUME NEW d \in Seq(Block), Distinct(d), NEW a, NEW b, Spans(d, a, b), NEW g, NEW f, Spans(d, g, f),
           Apart(a, b, g, f), NEW k \in g..f,
           NEW new \in Seq(Block), Distinct(new), Ids(d) \cap Ids(new) = {}
    PROVE  LET e == Splice(d, k, new)
           IN  /\ Section(e, d[a].id) = Section(d, d[a].id)
               /\ \E s \in Int : Spans(e, a + s, b + s) /\ e[a + s] = d[a]
                                   /\ (b + s = Len(e) => b = Len(d))
<1> DEFINE e == Splice(d, k, new)
           n == Len(new)
<1>1. /\ Len(d) \in Nat /\ a \in 1..Len(d) /\ b \in a..Len(d) /\ g \in 1..Len(d) /\ f \in g..Len(d)
      /\ n \in Nat
  BY DocProperties DEF Spans
<1>2. k \in 0..Len(d)
  BY <1>1
<1>3. e \in Seq(Block) /\ Distinct(e)
  BY <1>2, SpliceBlocks
<1>4. /\ Len(e) = Len(d) + n /\ \A i \in 1..k : e[i] = d[i]
      /\ \A i \in k + 1 .. Len(d) : e[n + i] = d[i]
  <2>1. Spliced(e, d, k, new)
    BY <1>2, SpliceEntries
  <2> HIDE DEF e
  <2> QED
    BY <2>1 DEF Spliced
<1> HIDE DEF e, n
<1>5. b < Len(d) => d[b + 1].level \in 1 .. d[a].level
  BY DEF Spans, Stops
<1>6. CASE a > f
  <2>1. a + n \in 1..Len(e) /\ b + n \in a + n .. Len(e) /\ n \in Int
    BY <1>1, <1>4, <1>6
  <2>2. ASSUME NEW i \in a..b PROVE e[i + n] = d[i]
    <3>1. i \in k + 1 .. Len(d) /\ i + n = n + i
      BY <1>1, <1>6
    <3> QED
      BY <1>4, <3>1
  <2>3. ASSUME b + n < Len(e) PROVE e[b + n + 1].level \in 1 .. d[a].level
    <3>1. b < Len(d) /\ b + 1 \in k + 1 .. Len(d) /\ n + (b + 1) = b + n + 1
      BY <1>1, <1>4, <1>6, <2>3
    <3>2. e[b + n + 1] = d[b + 1]
      BY <1>4, <3>1
    <3> QED
      BY <1>5, <3>1, <3>2
  <2>4. /\ Spans(e, a + n, b + n) /\ e[a + n] = d[a]
        /\ Section(e, d[a].id) = Section(d, d[a].id)
    BY <1>3, <2>1, <2>2, <2>3, Shifted, SMTT(60)
  <2>5. n \in Int /\ (b + n = Len(e) => b = Len(d))
    BY <1>1, <1>4
  <2> QED
    BY <2>4, <2>5 DEF e
<1>7. CASE g > b
  <2>1. a + 0 \in 1..Len(e) /\ b + 0 \in a + 0 .. Len(e)
    BY <1>1, <1>4, <1>7
  <2>2. ASSUME NEW i \in a..b PROVE e[i + 0] = d[i]
    <3>1. i \in 1..k /\ i + 0 = i
      BY <1>1, <1>7
    <3> QED
      BY <1>4, <3>1
  <2>3. e[b + 0 + 1].level \in 1 .. d[a].level
    <3>1. b < Len(d) /\ b + 1 \in 1..k /\ b + 1 = b + 0 + 1
      BY <1>1, <1>7
    <3>2. e[b + 0 + 1] = d[b + 1]
      BY <1>4, <3>1
    <3> QED
      BY <1>5, <3>1, <3>2
  <2>4. /\ Spans(e, a + 0, b + 0) /\ e[a + 0] = d[a]
        /\ Section(e, d[a].id) = Section(d, d[a].id)
    BY <1>3, <2>1, <2>2, <2>3, Shifted
  <2>5. b + 0 # Len(e)
    BY <1>1, <1>4, <1>7
  <2> QED
    BY <2>4, <2>5 DEF e
<1>8. a > f \/ g > b
  BY <1>1 DEF Apart
<1> QED
  BY <1>6, <1>7, <1>8

(* What is added at the end, beginning with a heading, leaves a section    *)
(* alone that has ended, or that this heading ends.                        *)
LEMMA AsideCreation ==
    ASSUME NEW d \in Seq(Block), Distinct(d), NEW a, NEW b, Spans(d, a, b),
           NEW new \in Seq(Block), Distinct(new), Ids(d) \cap Ids(new) = {}, new # << >>,
           b = Len(d) => new[1].level \in 1 .. d[a].level
    PROVE  LET e == Splice(d, Len(d), new)
           IN  Section(e, d[a].id) = Section(d, d[a].id) /\ Spans(e, a, b) /\ e[a] = d[a] /\ b < Len(e)
<1> DEFINE e == Splice(d, Len(d), new)
           n == Len(new)
<1>1. /\ Len(d) \in Nat /\ a \in 1..Len(d) /\ b \in a..Len(d) /\ n \in Nat /\ n # 0
  BY DocProperties, EmptySeq DEF Spans
<1>2. Len(d) \in 0..Len(d)
  BY <1>1
<1>3. e \in Seq(Block) /\ Distinct(e)
  BY <1>2, SpliceBlocks
<1>4. /\ Len(e) = Len(d) + n /\ \A i \in 1..Len(d) : e[i] = d[i]
      /\ \A i \in 1..n : e[Len(d) + i] = new[i]
  <2>1. Spliced(e, d, Len(d), new)
    BY <1>2, SpliceEntries
  <2> HIDE DEF e
  <2> QED
    BY <2>1 DEF Spliced
<1> HIDE DEF e, n
<1>5. b < Len(d) => d[b + 1].level \in 1 .. d[a].level
  BY DEF Spans, Stops
<1>6. a + 0 \in 1..Len(e) /\ b + 0 \in a + 0 .. Len(e) /\ a + 0 = a /\ b + 0 = b /\ b < Len(e)
  BY <1>1, <1>4
<1>7. ASSUME NEW i \in a..b PROVE e[i + 0] = d[i]
  <2>1. i \in 1..Len(d) /\ i + 0 = i
    BY <1>1
  <2> QED
    BY <1>4, <2>1
<1>8. e[b + 0 + 1].level \in 1 .. d[a].level
  <2>1. CASE b < Len(d)
    <3>1. b + 1 \in 1..Len(d) /\ b + 0 + 1 = b + 1
      BY <1>1, <2>1
    <3>2. e[b + 0 + 1] = d[b + 1]
      BY <1>4, <3>1
    <3> QED
      BY <1>5, <2>1, <3>2
  <2>2. CASE b = Len(d)
    <3>1. 1 \in 1..n /\ b + 0 + 1 = Len(d) + 1
      BY <1>1, <2>2
    <3>2. e[b + 0 + 1] = new[1]
      BY <1>4, <3>1
    <3> QED
      BY <2>2, <3>2
  <2> QED
    BY <1>1, <2>1, <2>2
<1>9. /\ Spans(e, a + 0, b + 0) /\ e[a + 0] = d[a]
      /\ Section(e, d[a].id) = Section(d, d[a].id)
  BY <1>3, <1>6, <1>7, <1>8, Shifted
<1> QED
  BY <1>6, <1>9 DEF e

(* The section at a .. b itself, changed.                                  *)
LEMMA OwnRemoval ==
    ASSUME NEW d \in Seq(Block), Distinct(d), NEW a, NEW b, Spans(d, a, b), NEW k \in a + 1 .. b
    PROVE  LET e == Without(d, d[k].id)
           IN  /\ Spans(e, a, b - 1) /\ e[a] = d[a] /\ (b - 1 = Len(e) => b = Len(d))
               /\ \A i \in 1 .. k - 1 : e[i] = d[i]
<1> DEFINE e == Without(d, d[k].id)
<1>1. Len(d) \in Nat /\ a \in 1..Len(d) /\ b \in a..Len(d)
  BY DocProperties DEF Spans
<1>2. k \in 1..Len(d)
  BY <1>1
<1>3. /\ Len(e) = Len(d) - 1 /\ \A i \in 1 .. k - 1 : e[i] = d[i]
      /\ \A i \in k + 1 .. Len(d) : e[i - 1] = d[i]
  BY <1>2, RemovalEntries
<1> HIDE DEF e
<1>4. e[a] = d[a]
  BY <1>1, <1>3
<1>5. ASSUME NEW i \in a + 1 .. b - 1 PROVE ~Stops(e, a, i)
  <2>1. \E j \in a + 1 .. b : e[i] = d[j]
    <3>1. CASE i <= k - 1
      BY <1>1, <1>3, <3>1
    <3>2. CASE i >= k
      <4>1. i + 1 \in k + 1 .. Len(d) /\ i + 1 \in a + 1 .. b /\ (i + 1) - 1 = i
        BY <1>1, <3>2
      <4> QED
        BY <1>3, <4>1
    <3> QED
      BY <1>1, <3>1, <3>2
  <2> QED
    BY <1>4, <2>1 DEF Spans, Stops
<1>6. ASSUME b - 1 < Len(e) PROVE Stops(e, a, b - 1 + 1)
  <2>1. b < Len(d) /\ b + 1 \in k + 1 .. Len(d) /\ (b + 1) - 1 = b - 1 + 1
    BY <1>1, <1>3, <1>6
  <2>2. e[b - 1 + 1] = d[b + 1]
    BY <1>3, <2>1
  <2> QED
    BY <1>4, <2>1, <2>2 DEF Spans, Stops
<1>7. a \in 1..Len(e) /\ b - 1 \in a..Len(e) /\ (b - 1 = Len(e) => b = Len(d))
  BY <1>1, <1>3
<1>8. Spans(e, a, b - 1)
  BY <1>5, <1>6, <1>7 DEF Spans
<1> QED
  BY <1>3, <1>4, <1>7, <1>8 DEF e

LEMMA OwnInsertion ==
    ASSUME NEW d \in Seq(Block), Distinct(d), NEW a, NEW b, Spans(d, a, b), NEW k \in a..b,
           NEW new \in Seq(Block), \A i \in 1..Len(new) : new[i].level = 0
    PROVE  LET e == Splice(d, k, new)
           IN  /\ Spans(e, a, b + Len(new)) /\ e[a] = d[a] /\ (b + Len(new) = Len(e) => b = Len(d))
               /\ \A i \in 1..k : e[i] = d[i]
               /\ \A i \in 1..Len(new) : e[k + i] = new[i]
               /\ \A i \in k + 1 .. Len(d) : e[Len(new) + i] = d[i]
<1> DEFINE e == Splice(d, k, new)
           n == Len(new)
<1>1. Len(d) \in Nat /\ a \in 1..Len(d) /\ b \in a..Len(d) /\ n \in Nat
  BY DocProperties DEF Spans
<1>2. k \in 0..Len(d)
  BY <1>1
<1>3. /\ Len(e) = Len(d) + n /\ \A i \in 1..k : e[i] = d[i]
      /\ \A i \in 1..n : e[k + i] = new[i]
      /\ \A i \in k + 1 .. Len(d) : e[n + i] = d[i]
  <2>1. Spliced(e, d, k, new)
    BY <1>2, SpliceEntries
  <2> HIDE DEF e
  <2> QED
    BY <2>1 DEF Spliced
<1>10. \A i \in 1..n : new[i].level = 0
  OBVIOUS
<1> HIDE DEF e, n
<1>4. e[a] = d[a]
  BY <1>1, <1>3
<1>5. ASSUME NEW i \in a + 1 .. b + n PROVE ~Stops(e, a, i)
  <2>1. CASE i <= k
    BY <1>1, <1>3, <1>4, <2>1 DEF Spans, Stops
  <2>2. CASE i > k /\ i <= k + n
    <3>1. i - k \in 1..n /\ k + (i - k) = i
      BY <1>1, <2>2
    <3>2. e[i].level = 0
      BY <1>3, <1>10, <3>1
    <3> QED
      BY <3>2, NotInRange DEF Stops
  <2>3. CASE i > k + n
    <3>1. i - n \in k + 1 .. Len(d) /\ i - n \in a + 1 .. b /\ n + (i - n) = i
      BY <1>1, <2>3
    <3>2. e[i] = d[i - n]
      BY <1>3, <3>1
    <3> QED
      BY <1>4, <3>1, <3>2 DEF Spans, Stops
  <2> QED
    BY <1>1, <2>1, <2>2, <2>3
<1>6. ASSUME b + n < Len(e) PROVE Stops(e, a, b + n + 1)
  <2>1. b < Len(d) /\ b + 1 \in k + 1 .. Len(d) /\ n + (b + 1) = b + n + 1
    BY <1>1, <1>3, <1>6
  <2>2. e[b + n + 1] = d[b + 1]
    BY <1>3, <2>1
  <2> QED
    BY <1>4, <2>1, <2>2 DEF Spans, Stops
<1>7. a \in 1..Len(e) /\ b + n \in a..Len(e) /\ (b + n = Len(e) => b = Len(d))
  BY <1>1, <1>3
<1>8. Spans(e, a, b + n)
  BY <1>5, <1>6, <1>7 DEF Spans
<1> QED
  BY <1>3, <1>4, <1>7, <1>8 DEF e, n

LEMMA AtEnd ==
    ASSUME NEW e \in Seq(Block), Distinct(e), NEW a \in 1..Len(e), NEW body \in Seq(Block),
           Len(e) - a = Len(body),
           \A i \in 1..Len(body) : e[a + i] = body[i] /\ body[i].level = 0
    PROVE  Section(e, e[a].id) = body
<1>1. Len(e) \in Nat /\ Len(body) \in Nat
  BY DocProperties
<1>2. ASSUME NEW i \in a + 1 .. Len(e) PROVE ~Stops(e, a, i)
  <2>1. i - a \in 1..Len(body) /\ a + (i - a) = i
    BY <1>1
  <2>2. e[i].level = 0
    BY <2>1
  <2> QED
    BY <2>2, NotInRange DEF Stops
<1>3. PICK b : b = Len(e)
  OBVIOUS
<1>4. Spans(e, a, b)
  <2>1. b \in a..Len(e) /\ ~(b < Len(e))
    BY <1>1, <1>3
  <2> QED
    BY <1>2, <1>3, <2>1 DEF Spans
<1>5. /\ Section(e, e[a].id) \in Seq(Block) /\ Len(Section(e, e[a].id)) = b - a
      /\ \A i \in 1 .. b - a : Section(e, e[a].id)[i] = e[a + i]
  BY <1>4, SpansSection
<1>6. b - a = Len(body)
  BY <1>3
<1>7. \A i \in 1..Len(body) : Section(e, e[a].id)[i] = body[i]
  BY <1>5, <1>6
<1> QED
  BY <1>5, <1>6, <1>7, SeqEqual

LEMMA OwnCreation ==
    ASSUME NEW d \in Seq(Block), NEW h \in Block, NEW body \in Seq(Block),
           \A i \in 1..Len(body) : body[i].level = 0,
           NEW e \in Seq(Block), Distinct(e), e = (d \o <<h>>) \o body
    PROVE  Section(e, h.id) = body
<1> DEFINE a == Len(d) + 1
           n == Len(body)
<1>1. Len(d) \in Nat /\ n \in Nat /\ a \in Nat
  BY DocProperties
<1>2. d \o <<h>> \in Seq(Block) /\ Len(d \o <<h>>) = a /\ (d \o <<h>>)[a] = h
  <2>1. <<h>> \in Seq(Block) /\ Len(<<h>>) = 1 /\ <<h>>[1] = h
    OBVIOUS
  <2> DEFINE u == <<h>>
  <2> HIDE DEF u
  <2>2. /\ d \o u \in Seq(Block) /\ Len(d \o u) = Len(d) + Len(u)
        /\ \A i \in 1 .. Len(d) + Len(u) : (d \o u)[i] = IF i <= Len(d) THEN d[i] ELSE u[i - Len(d)]
    BY <2>1, ConcatProperties DEF u
  <2>3. Len(u) = 1 /\ a \in 1 .. Len(d) + 1 /\ ~(a <= Len(d)) /\ a - Len(d) = 1 /\ u[1] = h
    BY <1>1, <2>1 DEF u
  <2>4. (d \o u)[a] = h
    BY <2>2, <2>3
  <2> QED
    BY <2>2, <2>3, <2>4 DEF u
<1> DEFINE v == d \o <<h>>
<1> HIDE DEF v
<1>3. Len(e) = a + n /\ \A i \in 1 .. a + n : e[i] = IF i <= a THEN v[i] ELSE body[i - a]
  <2>1. e = v \o body /\ v \in Seq(Block) /\ Len(v) = a
    BY <1>2 DEF v
  <2>2. /\ Len(v \o body) = Len(v) + Len(body)
        /\ \A i \in 1 .. Len(v) + Len(body) : (v \o body)[i] = IF i <= Len(v) THEN v[i] ELSE body[i - Len(v)]
    BY <2>1, ConcatProperties
  <2> QED
    BY <2>1, <2>2
<1>4. e[a] = h
  BY <1>1, <1>2, <1>3 DEF v
<1>5. \A i \in 1..n : e[a + i] = body[i]
  <2>1. ASSUME NEW i \in 1..n PROVE e[a + i] = body[i]
    <3>1. a + i \in 1 .. a + n /\ ~(a + i <= a) /\ (a + i) - a = i
      BY <1>1
    <3> QED
      BY <1>3, <3>1
  <2> QED
    BY <2>1
<1>6. \A i \in 1..n : body[i].level = 0
  OBVIOUS
<1>7. a \in 1..Len(e) /\ Len(e) - a = n
  <2>1. \A x, y \in Nat : x + 1 \in 1 .. (x + 1) + y /\ (x + 1) + y - (x + 1) = y
    OBVIOUS
  <2> QED
    BY <1>1, <1>3, <2>1
<1> HIDE DEF a
<1>8. Section(e, e[a].id) = body
  BY <1>5, <1>6, <1>7, AtEnd
<1> QED
  BY <1>4, <1>8

-----------------------------------------------------------------------------
(* Sections by id                                                          *)

(* A heading ends the section of y before the document does.               *)
Ended(d, y) ==
    \E i \in DOMAIN d : i > Place(d, y) /\ d[i].level \in 1 .. d[Place(d, y)].level

(* Neither section is, or is within, the other.                            *)
Clear(d, x, y) == x # y /\ x \notin Ids(Section(d, y)) /\ y \notin Ids(Section(d, x))

(* The block y is still there, and its section has not changed.            *)
Kept(d, e, y) ==
    /\ y \in Ids(e) /\ e[Place(e, y)] = d[Place(d, y)]
    /\ Section(e, y) = Section(d, y)
    /\ Ended(d, y) => Ended(e, y)

(* The heading y is at a, and its section ends at b.                       *)
SpanOf(d, a, b, y) == Spans(d, a, b) /\ d[a].id = y

LEMMA SectionIds ==
    ASSUME NEW d \in Seq(Block), Distinct(d), NEW a, NEW b, NEW y, SpanOf(d, a, b, y)
    PROVE  \A z : z \in Ids(Section(d, y)) <=> \E i \in a + 1 .. b : d[i].id = z
<1>1. Spans(d, a, b)
  BY DEF SpanOf
<1>2. \A z : z \in Ids(Section(d, d[a].id)) <=> \E i \in a + 1 .. b : d[i].id = z
  BY <1>1, SpansSection
<1> QED
  BY <1>2 DEF SpanOf

LEMMA IsSpanOf ==
    ASSUME NEW d \in Seq(Block), NEW y \in Ids(d)
    PROVE  \E a, b : SpanOf(d, a, b, y)
BY HasSpan DEF SpanOf

LEMMA SpanPlace ==
    ASSUME NEW d \in Seq(Block), Distinct(d), NEW a, NEW b, Spans(d, a, b)
    PROVE  /\ d[a].id \in Ids(d) /\ Place(d, d[a].id) = a
           /\ Ended(d, d[a].id) <=> b < Len(d)
<1>1. /\ Len(d) \in Nat /\ DOMAIN d = 1..Len(d) /\ a \in 1..Len(d) /\ b \in a..Len(d)
      /\ \A i, j \in 1..Len(d) : d[i].id = d[j].id => i = j
      /\ d[a].id \in Ids(d)
  BY DocProperties DEF Distinct, Spans
<1>2. Place(d, d[a].id) = a
  BY <1>1, PlaceIs
<1>3. Ended(d, d[a].id) <=> \E i \in 1..Len(d) : i > a /\ Stops(d, a, i)
  BY <1>1, <1>2 DEF Ended, Stops
<1>4. ASSUME b < Len(d) PROVE \E i \in 1..Len(d) : i > a /\ Stops(d, a, i)
  <2>1. b + 1 \in 1..Len(d) /\ b + 1 > a /\ Stops(d, a, b + 1)
    BY <1>1, <1>4 DEF Spans
  <2> QED
    BY <2>1
<1>5. ASSUME NEW i \in 1..Len(d), i > a, Stops(d, a, i) PROVE b < Len(d)
  <2>1. i \notin a + 1 .. b
    BY <1>5 DEF Spans
  <2> QED
    BY <1>1, <1>5, <2>1
<1> QED
  BY <1>1, <1>2, <1>3, <1>4, <1>5

LEMMA ClearIs ==
    ASSUME NEW d \in Seq(Block), Distinct(d), NEW a, NEW b, Spans(d, a, b), NEW g, NEW f, Spans(d, g, f),
           Clear(d, d[g].id, d[a].id)
    PROVE  Apart(a, b, g, f)
<1>1. /\ Len(d) \in Nat /\ a \in 1..Len(d) /\ b \in a..Len(d) /\ g \in 1..Len(d) /\ f \in g..Len(d)
  BY DocProperties DEF Spans
<1>2. \A i \in a + 1 .. b : d[i].id # d[g].id
  BY SpansSection DEF Clear
<1>3. \A i \in g + 1 .. f : d[i].id # d[a].id
  BY SpansSection DEF Clear
<1>4. a # g
  BY DEF Clear
<1>5. g \notin a..b
  BY <1>1, <1>2, <1>4
<1>6. a \notin g..f
  BY <1>1, <1>3, <1>4
<1> QED
  BY <1>5, <1>6 DEF Apart

LEMMA KeptIs ==
    ASSUME NEW d \in Seq(Block), Distinct(d), NEW e \in Seq(Block), Distinct(e),
           NEW a, NEW b, Spans(d, a, b), NEW g, NEW f, Spans(e, g, f), e[g] = d[a],
           Section(e, d[a].id) = Section(d, d[a].id), f = Len(e) => b = Len(d)
    PROVE  Kept(d, e, d[a].id)
<1>1. d[a].id \in Ids(d) /\ Place(d, d[a].id) = a /\ (Ended(d, d[a].id) <=> b < Len(d))
  BY SpanPlace
<1>2. e[g].id \in Ids(e) /\ Place(e, e[g].id) = g /\ (Ended(e, e[g].id) <=> f < Len(e))
  BY SpanPlace
<1>3. Len(d) \in Nat /\ Len(e) \in Nat /\ b \in 1..Len(d) /\ f \in 1..Len(e)
  BY DocProperties DEF Spans
<1>4. b < Len(d) => f < Len(e)
  BY <1>3
<1> QED
  BY <1>1, <1>2, <1>4 DEF Kept

LEMMA KeptByRemoval ==
    ASSUME NEW d \in Seq(Block), Distinct(d), NEW x \in Ids(d), NEW y \in Ids(d), Clear(d, x, y),
           NEW z \in Ids(Section(d, x))
    PROVE  Kept(d, Without(d, z), y)
<1> DEFINE e == Without(d, z)
<1>1. PICK a, b : SpanOf(d, a, b, y)
  BY IsSpanOf
<1>2. PICK g, f : SpanOf(d, g, f, x)
  BY IsSpanOf
<1>3. Apart(a, b, g, f)
  BY <1>1, <1>2, ClearIs DEF SpanOf
<1>4. PICK k \in g + 1 .. f : d[k].id = z
  BY <1>2, SectionIds
<1>5. e \in Seq(Block) /\ Distinct(e)
  BY WithoutBlocks
<1>6. /\ Section(e, y) = Section(d, y)
      /\ \E s \in Int : Spans(e, a + s, b + s) /\ e[a + s] = d[a] /\ (b + s = Len(e) => b = Len(d))
  BY <1>1, <1>2, <1>3, <1>4, AsideRemoval, SMTT(30) DEF SpanOf
<1> HIDE DEF e
<1>7. PICK s \in Int : Spans(e, a + s, b + s) /\ e[a + s] = d[a] /\ (b + s = Len(e) => b = Len(d))
  BY <1>6
<1>8. PICK i, j : i = a + s /\ j = b + s
  OBVIOUS
<1>9. Spans(e, i, j) /\ e[i] = d[a] /\ (j = Len(e) => b = Len(d))
  BY <1>7, <1>8
<1>10. Kept(d, e, d[a].id)
  BY <1>1, <1>5, <1>6, <1>9, KeptIs DEF SpanOf
<1> QED
  BY <1>1, <1>10 DEF e, SpanOf

LEMMA KeptByInsertion ==
    ASSUME NEW d \in Seq(Block), Distinct(d), NEW x \in Ids(d), NEW y \in Ids(d), Clear(d, x, y),
           NEW z, z = x \/ z \in Ids(Section(d, x)),
           NEW new \in Seq(Block), Distinct(new), Ids(d) \cap Ids(new) = {}
    PROVE  Kept(d, InsertAfter(d, z, new), y)
<1>1. PICK a, b : SpanOf(d, a, b, y)
  BY IsSpanOf
<1>2. PICK g, f : SpanOf(d, g, f, x)
  BY IsSpanOf
<1>3. Apart(a, b, g, f)
  BY <1>1, <1>2, ClearIs DEF SpanOf
<1>4. Len(d) \in Nat /\ g \in 1..Len(d) /\ f \in g..Len(d)
  BY <1>2, DocProperties DEF Spans, SpanOf
<1>5. PICK k \in g..f : d[k].id = z
  <2>1. CASE z = x
    <3>1. g \in g..f
      BY <1>4
    <3> QED
      BY <1>2, <2>1, <3>1 DEF SpanOf
  <2>2. CASE z \in Ids(Section(d, x))
    <3>1. PICK k \in g + 1 .. f : d[k].id = z
      <4>1. \A w : w \in Ids(Section(d, x)) <=> \E k \in g + 1 .. f : d[k].id = w
        BY <1>2, SectionIds
      <4> QED
        BY <2>2, <4>1
    <3>2. k \in g..f
      BY <1>4, <3>1
    <3> QED
      BY <3>1, <3>2
  <2> QED
    BY <2>1, <2>2
<1>6. k \in 1..Len(d) /\ k \in 0..Len(d)
  BY <1>4, <1>5
<1>7. z \in Ids(d) /\ Place(d, z) = k
  <2>1. z \in Ids(d)
    BY <1>5, <1>6, DocProperties
  <2>2. Place(d, z) \in 1..Len(d) /\ d[Place(d, z)].id = z
    BY <2>1, PlaceIs
  <2>3. \A i, j \in 1..Len(d) : d[i].id = d[j].id => i = j
    BY DocProperties DEF Distinct
  <2> QED
    BY <1>5, <1>6, <2>1, <2>2, <2>3
<1> DEFINE e == Splice(d, k, new)
<1>8. InsertAfter(d, z, new) = e
  BY <1>7, InsertAfterIs
<1>9. e \in Seq(Block) /\ Distinct(e)
  BY <1>6, SpliceBlocks
<1>10. /\ Section(e, y) = Section(d, y)
       /\ \E s \in Int : Spans(e, a + s, b + s) /\ e[a + s] = d[a] /\ (b + s = Len(e) => b = Len(d))
  BY <1>1, <1>2, <1>3, AsideInsertion DEF SpanOf
<1> HIDE DEF e
<1>11. PICK s \in Int : Spans(e, a + s, b + s) /\ e[a + s] = d[a] /\ (b + s = Len(e) => b = Len(d))
  BY <1>10
<1>12. PICK i, j : i = a + s /\ j = b + s
  OBVIOUS
<1>13. Spans(e, i, j) /\ e[i] = d[a] /\ (j = Len(e) => b = Len(d))
  BY <1>11, <1>12
<1>14. Kept(d, e, d[a].id)
  BY <1>1, <1>9, <1>10, <1>13, KeptIs DEF SpanOf
<1> QED
  BY <1>1, <1>8, <1>14 DEF SpanOf

LEMMA KeptByCreation ==
    ASSUME NEW d \in Seq(Block), Distinct(d), NEW y \in Ids(d),
           NEW new \in Seq(Block), Distinct(new), Ids(d) \cap Ids(new) = {}, new # << >>,
           Ended(d, y) \/ new[1].level \in 1 .. d[Place(d, y)].level
    PROVE  Kept(d, Splice(d, Len(d), new), y)
<1> DEFINE e == Splice(d, Len(d), new)
<1>1. PICK a, b : SpanOf(d, a, b, y)
  BY IsSpanOf
<1>2. Place(d, y) = a /\ (Ended(d, y) <=> b < Len(d))
  BY <1>1, SpanPlace DEF SpanOf
<1>3. Len(d) \in 0..Len(d) /\ ~(Len(d) < Len(d))
  BY DocProperties
<1>4. e \in Seq(Block) /\ Distinct(e)
  BY <1>3, SpliceBlocks
<1>5. b = Len(d) => new[1].level \in 1 .. d[a].level
  BY <1>2, <1>3
<1>6. Section(e, d[a].id) = Section(d, d[a].id) /\ Spans(e, a, b) /\ e[a] = d[a] /\ b < Len(e)
  BY <1>1, <1>5, AsideCreation DEF SpanOf
<1> HIDE DEF e
<1>7. b # Len(e)
  BY <1>4, <1>6, DocProperties
<1>8. Kept(d, e, d[a].id)
  BY <1>1, <1>4, <1>6, <1>7, KeptIs DEF SpanOf
<1> QED
  BY <1>1, <1>8 DEF e, SpanOf

(* A section loses a block of its own.                                     *)
LEMMA OwnLoss ==
    ASSUME NEW d \in Seq(Block), Distinct(d), NEW x \in Ids(d), NEW z \in Ids(Section(d, x))
    PROVE  LET e == Without(d, z)
           IN  /\ x \in Ids(e) /\ e[Place(e, x)] = d[Place(d, x)] /\ (Ended(d, x) => Ended(e, x))
               /\ Ids(Section(e, x)) = Ids(Section(d, x)) \ {z}
<1> DEFINE e == Without(d, z)
<1>1. PICK a, b : SpanOf(d, a, b, x)
  BY IsSpanOf
<1>2. PICK k \in a + 1 .. b : d[k].id = z
  BY <1>1, SectionIds
<1>3. Len(d) \in Nat /\ a \in 1..Len(d) /\ b \in a..Len(d)
  BY <1>1, DocProperties DEF Spans, SpanOf
<1>4. e \in Seq(Block) /\ Distinct(e)
  BY WithoutBlocks
<1>5. k \in 1..Len(d)
  BY <1>2, <1>3
<1>6. /\ Spans(e, a, b - 1) /\ e[a] = d[a] /\ (b - 1 = Len(e) => b = Len(d))
  BY <1>1, <1>2, OwnRemoval DEF SpanOf
<1>7. /\ \A i \in 1 .. k - 1 : e[i] = d[i]
      /\ \A i \in k + 1 .. Len(d) : e[i - 1] = d[i]
  BY <1>2, <1>5, RemovalEntries
<1>8. \A i, j \in 1..Len(d) : d[i].id = d[j].id => i = j
  BY DocProperties DEF Distinct
<1> HIDE DEF e
<1>9. PICK f : f = b - 1
  OBVIOUS
<1>10. SpanOf(e, a, f, x)
  BY <1>1, <1>6, <1>9 DEF SpanOf
<1>11. /\ x \in Ids(e) /\ Place(e, x) = a /\ (Ended(e, x) <=> f < Len(e))
  BY <1>4, <1>10, SpanPlace DEF SpanOf
<1>12. /\ Place(d, x) = a /\ (Ended(d, x) <=> b < Len(d))
  BY <1>1, SpanPlace DEF SpanOf
<1>13. Ended(d, x) => Ended(e, x)
  <2>1. Len(e) \in Nat /\ f \in 1..Len(e)
    BY <1>4, <1>10, DocProperties DEF SpanOf, Spans
  <2>2. f = Len(e) => b = Len(d)
    BY <1>6, <1>9
  <2>3. f < Len(e) \/ f = Len(e)
    BY <2>1
  <2>4. b = Len(d) => ~(b < Len(d))
    BY <1>3
  <2> QED
    BY <1>11, <1>12, <2>2, <2>3, <2>4
<1>14. ASSUME NEW w \in Ids(Section(e, x)) PROVE w \in Ids(Section(d, x)) /\ w # z
  <2>1. PICK i \in a + 1 .. f : e[i].id = w
    BY <1>4, <1>10, SectionIds
  <2>2. \E j \in a + 1 .. b : j # k /\ e[i] = d[j]
    <3>1. CASE i < k
      <4>1. i \in 1 .. k - 1 /\ i \in a + 1 .. b /\ i # k
        BY <1>2, <1>3, <1>9, <2>1, <3>1
      <4> QED
        BY <1>7, <4>1
    <3>2. CASE ~(i < k)
      <4>1. i + 1 \in k + 1 .. Len(d) /\ i + 1 \in a + 1 .. b /\ i + 1 # k /\ (i + 1) - 1 = i
        BY <1>2, <1>3, <1>9, <2>1, <3>2
      <4> QED
        BY <1>7, <4>1
    <3> QED
      BY <3>1, <3>2
  <2>3. PICK j \in a + 1 .. b : j # k /\ e[i] = d[j]
    BY <2>2
  <2>4. j \in 1..Len(d) /\ d[j].id = w
    BY <1>3, <2>1, <2>3
  <2>5. w \in Ids(Section(d, x))
    BY <1>1, <2>3, <2>4, SectionIds
  <2> QED
    BY <1>2, <1>5, <1>8, <2>3, <2>4, <2>5
<1>15. ASSUME NEW w \in Ids(Section(d, x)), w # z PROVE w \in Ids(Section(e, x))
  <2>1. PICK j \in a + 1 .. b : d[j].id = w
    BY <1>1, SectionIds
  <2>2. j # k
    BY <1>2, <1>15, <2>1
  <2>3. \E i \in a + 1 .. f : e[i] = d[j]
    <3>1. CASE j < k
      <4>1. j \in 1 .. k - 1 /\ j \in a + 1 .. f
        BY <1>2, <1>3, <1>9, <2>1, <3>1
      <4> QED
        BY <1>7, <4>1
    <3>2. CASE ~(j < k)
      <4>1. j \in k + 1 .. Len(d) /\ j - 1 \in a + 1 .. f
        BY <1>2, <1>3, <1>9, <2>1, <2>2, <3>2
      <4> QED
        BY <1>7, <4>1
    <3> QED
      BY <3>1, <3>2
  <2> QED
    BY <1>4, <1>10, <2>1, <2>3, SectionIds
<1>16. Ids(Section(e, x)) = Ids(Section(d, x)) \ {z}
  BY <1>14, <1>15
<1> QED
  BY <1>6, <1>11, <1>12, <1>13, <1>16 DEF e

(* The last block of the section of x, or x itself.                        *)
Tip(d, x) == IF Section(d, x) = << >> THEN x ELSE Last(Section(d, x)).id

LEMMA TipIs ==
    ASSUME NEW d \in Seq(Block), Distinct(d), NEW a, NEW b, NEW x, SpanOf(d, a, b, x)
    PROVE  Tip(d, x) = d[b].id /\ Place(d, Tip(d, x)) = b
<1>1. Len(d) \in Nat /\ a \in 1..Len(d) /\ b \in a..Len(d)
  BY DocProperties DEF SpanOf, Spans
<1>2. /\ Section(d, d[a].id) \in Seq(Block) /\ Len(Section(d, d[a].id)) = b - a
      /\ \A i \in 1 .. b - a : Section(d, d[a].id)[i] = d[a + i]
  BY SpansSection DEF SpanOf
<1> DEFINE s == Section(d, d[a].id)
<1>3. Tip(d, x) = IF s = << >> THEN d[a].id ELSE s[Len(s)].id
  BY DEF Tip, SpanOf, Last
<1> HIDE DEF s
<1>4. s = << >> <=> Len(s) = 0
  BY <1>2, EmptySeq DEF s
<1>5. Len(s) = b - a /\ \A i \in 1 .. b - a : s[i] = d[a + i]
  BY <1>2 DEF s
<1>6. Tip(d, x) = d[b].id
  <2>1. CASE b = a
    BY <1>1, <1>3, <1>4, <1>5, <2>1
  <2>2. CASE b # a
    <3>1. b - a \in 1 .. b - a /\ a + (b - a) = b /\ b - a # 0
      BY <1>1, <2>2
    <3> QED
      BY <1>3, <1>4, <1>5, <3>1
  <2> QED
    BY <2>1, <2>2
<1>7. b \in 1..Len(d)
  BY <1>1
<1>8. Place(d, d[b].id) = b
  <2>1. \A i, j \in 1..Len(d) : d[i].id = d[j].id => i = j
    BY DocProperties DEF Distinct
  <2>2. d[b].id \in Ids(d)
    BY <1>7, DocProperties
  <2>3. Place(d, d[b].id) \in 1..Len(d) /\ d[Place(d, d[b].id)].id = d[b].id
    BY <2>2, PlaceIs
  <2> QED
    BY <1>7, <2>1, <2>3
<1> QED
  BY <1>6, <1>8

(* A section gains blocks at its end.                                      *)
LEMMA OwnGain ==
    ASSUME NEW d \in Seq(Block), Distinct(d), NEW x \in Ids(d),
           NEW new \in Seq(Block), Distinct(new), Ids(d) \cap Ids(new) = {},
           \A i \in 1..Len(new) : new[i].level = 0
    PROVE  Section(InsertAfter(d, Tip(d, x), new), x) = Section(d, x) \o new
<1>1. PICK a, b : SpanOf(d, a, b, x)
  BY IsSpanOf
<1>2. Len(d) \in Nat /\ Len(new) \in Nat /\ a \in 1..Len(d) /\ b \in a..Len(d)
  BY <1>1, DocProperties DEF SpanOf, Spans
<1>3. b \in 0..Len(d) /\ b \in a..b /\ b \in 1..Len(d)
  BY <1>2
<1>4. Tip(d, x) = d[b].id /\ Place(d, Tip(d, x)) = b
  BY <1>1, TipIs
<1>5. Tip(d, x) \in Ids(d)
  BY <1>3, <1>4, DocProperties
<1> DEFINE e == Splice(d, b, new)
           n == Len(new)
<1>6. InsertAfter(d, Tip(d, x), new) = e
  BY <1>4, <1>5, InsertAfterIs
<1>7. e \in Seq(Block) /\ Distinct(e)
  BY <1>3, SpliceBlocks
<1>8. /\ Spans(e, a, b + n) /\ e[a] = d[a]
      /\ \A i \in 1..b : e[i] = d[i]
      /\ \A i \in 1..n : e[b + i] = new[i]
  BY <1>1, <1>3, OwnInsertion DEF SpanOf
<1>9. n \in Nat
  BY <1>2
<1> HIDE DEF e, n
<1>10. PICK f : f = b + n
  OBVIOUS
<1>11. Spans(e, a, f) /\ Spans(d, a, b)
  BY <1>1, <1>8, <1>10 DEF SpanOf
<1>12. /\ Section(e, e[a].id) \in Seq(Block) /\ Len(Section(e, e[a].id)) = f - a
       /\ \A i \in 1 .. f - a : Section(e, e[a].id)[i] = e[a + i]
  BY <1>7, <1>11, SpansSection
<1>13. /\ Section(d, d[a].id) \in Seq(Block) /\ Len(Section(d, d[a].id)) = b - a
       /\ \A i \in 1 .. b - a : Section(d, d[a].id)[i] = d[a + i]
  BY <1>11, SpansSection
<1> DEFINE s == Section(d, d[a].id)
           t == Section(e, e[a].id)
<1>14. s = Section(d, x) /\ t = Section(e, x)
  BY <1>1, <1>8 DEF SpanOf
<1> HIDE DEF s, t
<1>15. /\ s \o new \in Seq(Block) /\ Len(s \o new) = Len(s) + Len(new)
       /\ \A i \in 1 .. Len(s) + Len(new) : (s \o new)[i] = IF i <= Len(s) THEN s[i] ELSE new[i - Len(s)]
  BY <1>13, ConcatProperties DEF s
<1>16. t \in Seq(Block) /\ Len(t) = f - a /\ \A i \in 1 .. f - a : t[i] = e[a + i]
  BY <1>12 DEF t
<1>17. Len(s) = b - a /\ \A i \in 1 .. b - a : s[i] = d[a + i]
  BY <1>13 DEF s
<1>18. Len(t) = Len(s \o new)
  BY <1>2, <1>9, <1>10, <1>15, <1>16, <1>17 DEF n
<1>19. ASSUME NEW i \in 1..Len(t) PROVE t[i] = (s \o new)[i]
  <2>1. i \in 1 .. f - a /\ i \in 1 .. Len(s) + Len(new)
    BY <1>15, <1>16, <1>18
  <2>2. CASE i <= b - a
    <3>1. i \in 1 .. b - a /\ a + i \in 1..b
      BY <1>2, <2>1, <2>2
    <3> QED
      BY <1>8, <1>15, <1>16, <1>17, <2>1, <2>2, <3>1
  <2>3. CASE ~(i <= b - a)
    <3>1. i - (b - a) \in 1..n /\ b + (i - (b - a)) = a + i
      BY <1>2, <1>9, <1>10, <2>1, <2>3
    <3> QED
      BY <1>8, <1>15, <1>16, <1>17, <2>1, <2>3, <3>1
  <2> QED
    BY <2>2, <2>3
<1>20. t = s \o new
  BY <1>15, <1>16, <1>18, <1>19, SeqEqual
<1> QED
  BY <1>6, <1>14, <1>20

(* The ids of a section as upsert_section and append_to_section list them. *)
NoRepeat(s) == \A i, j \in DOMAIN s : s[i] = s[j] => i = j

LEMMA SectionDistinct ==
    ASSUME NEW d \in Seq(Block), Distinct(d), NEW x
    PROVE  Section(d, x) \in Seq(Block) /\ Distinct(Section(d, x))
<1>1. CASE x \in Ids(d)
  <2>1. PICK a, b : SpanOf(d, a, b, x)
    BY <1>1, IsSpanOf
  <2>2. Len(d) \in Nat /\ a \in 1..Len(d) /\ b \in a..Len(d)
    BY <2>1, DocProperties DEF SpanOf, Spans
  <2>3. /\ Section(d, d[a].id) \in Seq(Block) /\ Len(Section(d, d[a].id)) = b - a
        /\ \A i \in 1 .. b - a : Section(d, d[a].id)[i] = d[a + i]
    BY <2>1, SpansSection DEF SpanOf
  <2> DEFINE s == Section(d, d[a].id)
  <2>4. s = Section(d, x)
    BY <2>1 DEF SpanOf
  <2> HIDE DEF s
  <2>5. s \in Seq(Block) /\ DOMAIN s = 1 .. b - a /\ \A i \in 1 .. b - a : s[i] = d[a + i]
    BY <2>3, DocProperties DEF s
  <2>6. \A i, j \in 1..Len(d) : d[i].id = d[j].id => i = j
    BY DocProperties DEF Distinct
  <2>7. ASSUME NEW i \in 1 .. b - a, NEW j \in 1 .. b - a, s[i].id = s[j].id PROVE i = j
    <3>1. a + i \in 1..Len(d) /\ a + j \in 1..Len(d)
      BY <2>2
    <3>2. a + i = a + j
      BY <2>5, <2>6, <2>7, <3>1
    <3> QED
      BY <2>2, <3>2
  <2> QED
    BY <2>4, <2>5, <2>7 DEF Distinct
<1>2. CASE x \notin Ids(d)
  BY <1>2 DEF Section, Distinct
<1> QED
  BY <1>1, <1>2

LEMMA SectionBlocks ==
    ASSUME NEW d \in Seq(Block), Distinct(d), NEW x
    PROVE  ToSet(Section(d, x)) \subseteq ToSet(d)
<1>1. CASE x \in Ids(d)
  <2>1. PICK a, b : SpanOf(d, a, b, x)
    BY <1>1, IsSpanOf
  <2>2. Len(d) \in Nat /\ a \in 1..Len(d) /\ b \in a..Len(d)
    BY <2>1, DocProperties DEF SpanOf, Spans
  <2>3. /\ Section(d, d[a].id) \in Seq(Block) /\ Len(Section(d, d[a].id)) = b - a
        /\ \A i \in 1 .. b - a : Section(d, d[a].id)[i] = d[a + i]
    BY <2>1, SpansSection DEF SpanOf
  <2>4. Section(d, d[a].id) = Section(d, x)
    BY <2>1 DEF SpanOf
  <2>5. ASSUME NEW o \in ToSet(Section(d, d[a].id)) PROVE o \in ToSet(d)
    <3>1. PICK i \in 1 .. b - a : o = Section(d, d[a].id)[i]
      BY <2>3, DocProperties
    <3>2. a + i \in 1..Len(d)
      BY <2>2
    <3>3. d[a + i] \in ToSet(d)
      BY <3>2, DocProperties
    <3> QED
      BY <2>3, <3>1, <3>3
  <2> QED
    BY <2>4, <2>5
<1>2. CASE x \notin Ids(d)
  BY <1>2 DEF Section, ToSet
<1> QED
  BY <1>1, <1>2

LEMMA ReverseKids ==
    ASSUME NEW s \in Seq(Block), Distinct(s)
    PROVE  LET kids == [k \in DOMAIN s |-> s[k].id]
           IN  /\ Reverse(kids) \in Seq(Nat) /\ NoRepeat(Reverse(kids)) /\ ToSet(Reverse(kids)) = Ids(s)
               /\ Reverse(kids) = << >> <=> s = << >>
<1> DEFINE kids == [k \in DOMAIN s |-> s[k].id]
           r    == Reverse(kids)
<1>1. kids \in Seq(Nat) /\ Len(kids) = Len(s) /\ ToSet(kids) = Ids(s)
  BY IdsInOrder
<1>2. Len(s) \in Nat /\ DOMAIN s = 1..Len(s) /\ DOMAIN kids = 1..Len(s)
  BY DocProperties
<1>3. NoRepeat(kids)
  BY DEF Distinct, NoRepeat
<1> HIDE DEF kids
<1>4. r \in Seq(Nat) /\ Len(r) = Len(s) /\ ToSet(r) \subseteq ToSet(kids)
  BY <1>1, ReverseIs
<1>5. r = [i \in 1..Len(s) |-> kids[(Len(s) - i) + 1]]
  BY <1>1 DEF Reverse
<1> HIDE DEF r
<1>6. DOMAIN r = 1..Len(s) /\ \A i \in 1..Len(s) : (Len(s) - i) + 1 \in 1..Len(s) /\ r[i] = kids[(Len(s) - i) + 1]
  BY <1>2, <1>5
<1>7. NoRepeat(r)
  <2>1. ASSUME NEW i \in 1..Len(s), NEW j \in 1..Len(s), r[i] = r[j] PROVE i = j
    <3>1. (Len(s) - i) + 1 = (Len(s) - j) + 1
      BY <1>2, <1>3, <1>6, <2>1 DEF NoRepeat
    <3> QED
      BY <1>2, <3>1
  <2> QED
    BY <1>6, <2>1 DEF NoRepeat
<1>8. ASSUME NEW w \in ToSet(kids) PROVE w \in ToSet(r)
  <2>1. PICK j \in 1..Len(s) : kids[j] = w
    BY <1>2 DEF ToSet
  <2>2. (Len(s) - j) + 1 \in 1..Len(s) /\ (Len(s) - ((Len(s) - j) + 1)) + 1 = j
    BY <1>2
  <2>3. r[(Len(s) - j) + 1] = w
    BY <1>6, <2>1, <2>2
  <2> QED
    BY <1>6, <2>2, <2>3 DEF ToSet
<1>9. r = << >> <=> s = << >>
  BY <1>4, EmptySeq
<1> QED
  BY <1>1, <1>4, <1>7, <1>8, <1>9 DEF r, kids

LEMMA LastOfKids ==
    ASSUME NEW s \in Seq(Block), NEW x \in Nat
    PROVE  LET kids == [k \in DOMAIN s |-> s[k].id]
           IN  Last(<<x>> \o kids) = IF s = << >> THEN x ELSE Last(s).id
<1> DEFINE kids == [k \in DOMAIN s |-> s[k].id]
           u    == <<x>>
<1>1. kids \in Seq(Nat) /\ Len(kids) = Len(s)
  BY IdsInOrder
<1>2. Len(s) \in Nat /\ DOMAIN s = 1..Len(s) /\ \A k \in 1..Len(s) : kids[k] = s[k].id
  BY DocProperties
<1> HIDE DEF kids
<1>3. u \in Seq(Nat) /\ Len(u) = 1 /\ u[1] = x
  OBVIOUS
<1> HIDE DEF u
<1>4. /\ Len(u \o kids) = Len(u) + Len(kids)
      /\ \A i \in 1 .. Len(u) + Len(kids) : (u \o kids)[i] = IF i <= Len(u) THEN u[i] ELSE kids[i - Len(u)]
  BY <1>1, <1>3, ConcatProperties
<1>5. s = << >> <=> Len(s) = 0
  BY EmptySeq
<1>6. Last(u \o kids) = (u \o kids)[1 + Len(s)]
  BY <1>1, <1>3, <1>4 DEF Last
<1>7. CASE Len(s) = 0
  <2>1. 1 + Len(s) = 1 /\ 1 \in 1 .. Len(u) + Len(kids) /\ 1 <= Len(u)
    BY <1>1, <1>3, <1>7
  <2>2. (u \o kids)[1 + Len(s)] = x
    BY <1>3, <1>4, <2>1
  <2> QED
    BY <1>5, <1>6, <1>7, <2>2 DEF u, kids
<1>8. CASE Len(s) # 0
  <2>1. /\ 1 + Len(s) \in 1 .. Len(u) + Len(kids) /\ ~(1 + Len(s) <= Len(u))
        /\ (1 + Len(s)) - Len(u) = Len(s) /\ Len(s) \in 1..Len(s)
    BY <1>1, <1>2, <1>3, <1>8
  <2>2. (u \o kids)[1 + Len(s)] = kids[Len(s)]
    BY <1>4, <2>1
  <2>3. (u \o kids)[1 + Len(s)] = s[Len(s)].id
    BY <1>2, <2>1, <2>2
  <2> QED
    BY <1>5, <1>6, <1>8, <2>3 DEF u, kids, Last
<1> QED
  BY <1>7, <1>8

-----------------------------------------------------------------------------
(* Calls whose sections are apart                                          *)

(* The section of y reaches to the end, and ranks above a new one.         *)
Reaches(d, y) == d[Place(d, y)].level < NewLevel /\ ~Ended(d, y)

(* The headings whose sections are the call's, as things are.              *)
Targets(c) ==
    IF heading[c] # None THEN {heading[c]} \cap Ids(doc)
    ELSE {b.id : b \in Matching(ToSet(doc), call[c].name)}

Separate(c, d) ==
    /\ Canon[call[c].name] # Canon[call[d].name]
    /\ \A x \in Targets(c), y \in Targets(d) : x # y /\ x \notin Ids(Section(doc, y))
    /\ heading[c] = None /\ Targets(c) = {} => \A y \in Targets(d) : ~Reaches(doc, y)

Mine(c) == Section(doc, heading[c])

(* Where a call is, and what its section and its list hold then.           *)
InHand(c) ==
    /\ pc[c] \in {"section", "delete", "insert"} => heading[c] # None
    /\ heading[c] # None =>
          \A b \in ToSet(doc) : b.id = heading[c] => b \in Matching(ToSet(doc), call[c].name)
    /\ pc[c] = "delete" =>
          /\ call[c].tool = "upsert" /\ heading[c] \in Ids(doc) /\ anchor[c] = heading[c]
          /\ NoRepeat(todo[c]) /\ ToSet(todo[c]) \subseteq Ids(Mine(c))
          /\ c \notin botched => Ids(Mine(c)) \subseteq ToSet(todo[c])
    /\ pc[c] = "insert" /\ call[c].tool = "upsert" =>
          anchor[c] = heading[c] /\ (c \notin botched => Mine(c) = << >>)
    /\ pc[c] = "insert" /\ call[c].tool = "append" => anchor[c] = Tip(doc, heading[c])
    /\ pc[c] = "append" => heading[c] = None /\ Targets(c) = {}

RowsAgree == edits = Edits => \A b \in rows, o \in ToSet(doc) : b.id = o.id => b = o

(* Calls at work are in `clash` together or not at all.                    *)
AllOrNone ==
    /\ \A c \in clash : pc[c] # "idle"
    /\ \A c, d \in Calls : Working(c) /\ Working(d) /\ c \in clash => d \in clash

ApartInv ==
    edits = Edits => \A c \in Calls : Working(c) /\ c \notin clash =>
        InHand(c) /\ \A d \in Calls : Working(d) /\ c # d => Separate(c, d)

LEMMA BlockAt ==
    ASSUME NEW d \in Seq(Block), Distinct(d), NEW b \in ToSet(d)
    PROVE  b.id \in Ids(d) /\ d[Place(d, b.id)] = b
<1>1. PICK i \in 1..Len(d) : d[i] = b
  BY DocProperties
<1>2. b.id \in Ids(d)
  BY DEF Ids
<1>3. Place(d, b.id) \in 1..Len(d) /\ d[Place(d, b.id)].id = b.id
  BY <1>2, PlaceIs
<1>4. \A k, j \in 1..Len(d) : d[k].id = d[j].id => k = j
  BY DocProperties DEF Distinct
<1> QED
  BY <1>1, <1>2, <1>3, <1>4

LEMMA EnclosesIs ==
    ASSUME TypeOK, NEW h \in ToSet(doc)
    PROVE  Encloses(h) <=> Reaches(doc, h.id)
<1>1. doc \in Seq(Block) /\ Distinct(doc)
  BY DEF TypeOK
<1>2. doc[Place(doc, h.id)] = h
  BY <1>1, BlockAt
<1> QED
  BY <1>2 DEF Encloses, Reaches, Ended

LEMMA TargetsAreThere ==
    ASSUME TypeOK, NEW c \in Calls
    PROVE  Targets(c) \subseteq Ids(doc)
BY DEF Targets, Matching, Ids

(* What a write does to the blocks.                                        *)
Write(c) ==
    \/ Spared
    \/ pc[c] = "delete" /\ Removal(c)
    \/ pc[c] = "insert" /\ Insertion(c)
    \/ pc[c] = "append" /\ Creation(c)

LEMMA WriteBlocks ==
    ASSUME SectionsInv, NEW c \in Calls, Write(c)
    PROVE  \A b \in ToSet(doc') : \/ b \in ToSet(doc)
                                  \/ /\ b.id >= next
                                     /\ IsHeading(b) => pc[c] = "append" /\ b.text = call[c].name
<1>1. TypeOK /\ Fresh /\ next \in Nat /\ next + 1 \in Nat
  BY DEF SectionsInv, TypeOK
<1>2. pc[c] # "idle" => call[c] \in Args
  BY DEF SectionsInv, Control
<1>3. pc[c] = "delete" => todo[c] # << >>
  BY DEF SectionsInv, Control
<1>4. CASE Spared
  BY <1>4 DEF Spared
<1>5. CASE pc[c] = "delete" /\ Removal(c)
  BY <1>1, <1>3, <1>5, RemovalStep
<1>6. CASE pc[c] = "insert" /\ Insertion(c)
  <2>1. ToSet(doc') = ToSet(doc) \cup ToSet(Body(c, next))
    BY <1>1, <1>2, <1>6, InsertionStep
  <2>2. /\ \A b \in ToSet(Body(c, next)) : b.level = 0
        /\ Ids(Body(c, next)) = next .. next + call[c].size - 1
    BY <1>1, <1>2, <1>6, BodyIs
  <2>3. ASSUME NEW b \in ToSet(Body(c, next)) PROVE b.id >= next /\ ~IsHeading(b)
    <3>1. b.id \in next .. next + call[c].size - 1
      BY <2>2 DEF Ids
    <3> QED
      BY <1>1, <2>2, <3>1 DEF IsHeading
  <2> QED
    BY <2>1, <2>3
<1>7. CASE pc[c] = "append" /\ Creation(c)
  <2> DEFINE h == [id |-> next, level |-> NewLevel, text |-> call[c].name]
  <2>1. ToSet(doc') = ToSet(doc) \cup {h} \cup ToSet(Body(c, next + 1))
    BY <1>1, <1>2, <1>7, CreationStep
  <2>2. /\ \A b \in ToSet(Body(c, next + 1)) : b.level = 0
        /\ Ids(Body(c, next + 1)) = next + 1 .. next + 1 + call[c].size - 1
    BY <1>1, <1>2, <1>7, BodyIs
  <2>3. ASSUME NEW b \in ToSet(Body(c, next + 1)) PROVE b.id >= next /\ ~IsHeading(b)
    <3>1. b.id \in next + 1 .. next + 1 + call[c].size - 1
      BY <2>2 DEF Ids
    <3> QED
      BY <1>1, <2>2, <3>1 DEF IsHeading
  <2>4. h.id = next /\ h.text = call[c].name /\ next >= next
    BY <1>1
  <2> HIDE DEF h
  <2> QED
    BY <1>7, <2>1, <2>3, <2>4
<1> QED
  BY <1>4, <1>5, <1>6, <1>7 DEF Write

(* What one call writes does not change what is another's.                 *)
LEMMA AsideWrite ==
    ASSUME SectionsInv, NEW w \in Calls, Working(w), Write(w), InHand(w), NEW c \in Calls,
           Separate(w, c), Separate(c, w), NEW y \in Targets(c)
    PROVE  Kept(doc, doc', y)
<1>1. TypeOK /\ Fresh /\ doc \in Seq(Block) /\ Distinct(doc) /\ next \in Nat
  BY DEF SectionsInv, TypeOK
<1>2. y \in Ids(doc)
  BY <1>1, TargetsAreThere
<1>3. call[w] \in Args
  BY DEF SectionsInv, Control, Working, Requests
<1>4. ASSUME heading[w] # None, heading[w] \in Ids(doc) PROVE Clear(doc, heading[w], y)
  <2>1. heading[w] \in Targets(w)
    BY <1>4 DEF Targets
  <2> QED
    BY <2>1 DEF Separate, Clear
<1>5. CASE Spared
  BY <1>2, <1>5 DEF Spared, Kept
<1>6. CASE pc[w] = "delete" /\ Removal(w)
  <2>1. heading[w] # None /\ heading[w] \in Ids(doc) /\ ToSet(todo[w]) \subseteq Ids(Mine(w))
    BY <1>6 DEF InHand
  <2>2. todo[w] # << >> /\ todo[w] \in Seq(Nat)
    BY <1>1, <1>6 DEF SectionsInv, Control, TypeOK
  <2>3. Head(todo[w]) \in ToSet(todo[w])
    <3>1. 1 \in DOMAIN todo[w] /\ Head(todo[w]) = todo[w][1]
      BY <2>2, EmptySeq, LenProperties
    <3> QED
      BY <3>1 DEF ToSet
  <2>4. Head(todo[w]) \in Ids(Section(doc, heading[w]))
    BY <2>1, <2>3 DEF Mine
  <2>5. Kept(doc, Without(doc, Head(todo[w])), y)
    BY <1>1, <1>2, <1>4, <2>1, <2>4, KeptByRemoval
  <2> QED
    BY <1>6, <2>5 DEF Removal
<1>7. CASE pc[w] = "insert" /\ Insertion(w)
  <2>1. heading[w] # None /\ anchor[w] \in Ids(doc)
    BY <1>7 DEF InHand, Insertion
  <2>2. /\ heading[w] \in Ids(doc)
        /\ anchor[w] = heading[w] \/ anchor[w] \in Ids(Section(doc, heading[w]))
    <3>1. call[w].tool \in {"upsert", "append"}
      BY <1>3 DEF Args
    <3>2. CASE call[w].tool = "upsert"
      BY <1>7, <2>1, <3>2 DEF InHand
    <3>3. CASE call[w].tool = "append"
      <4>1. anchor[w] = Tip(doc, heading[w])
        BY <1>7, <3>3 DEF InHand
      <4>2. CASE Section(doc, heading[w]) = << >>
        BY <2>1, <4>1, <4>2 DEF Tip
      <4>3. CASE Section(doc, heading[w]) # << >>
        <5>1. heading[w] \in Ids(doc)
          BY <4>3 DEF Section
        <5>2. Section(doc, heading[w]) \in Seq(Block)
          BY <1>1, SectionDistinct
        <5> DEFINE s == Section(doc, heading[w])
        <5> HIDE DEF s
        <5>3. s \in Seq(Block) /\ Len(s) \in 1..Len(s)
          <6>1. s \in Seq(Block) /\ s # << >>
            BY <4>3, <5>2 DEF s
          <6>2. Len(s) \in Nat /\ Len(s) # 0
            BY <6>1, EmptySeq, LenProperties
          <6> QED
            BY <6>1, <6>2
        <5>4. Last(s).id \in Ids(s)
          BY <5>3, DocProperties DEF Last
        <5> QED
          BY <4>1, <4>3, <5>1, <5>4 DEF Tip, s
      <4> QED
        BY <4>2, <4>3
    <3> QED
      BY <3>1, <3>2, <3>3
  <2>3. /\ Body(w, next) \in Seq(Block) /\ Distinct(Body(w, next))
        /\ Ids(Body(w, next)) = next .. next + call[w].size - 1
    BY <1>1, <1>3, BodyIs
  <2>4. Ids(doc) \cap Ids(Body(w, next)) = {}
    BY <1>1, <2>3 DEF Fresh
  <2>5. Clear(doc, heading[w], y)
    BY <1>4, <2>1, <2>2
  <2>6. Kept(doc, InsertAfter(doc, anchor[w], Body(w, next)), y)
    BY <1>1, <1>2, <2>2, <2>3, <2>4, <2>5, KeptByInsertion
  <2> QED
    BY <1>7, <2>6 DEF Insertion
<1>8. CASE pc[w] = "append" /\ Creation(w)
  <2>1. ~Reaches(doc, y)
    BY <1>8 DEF InHand, Separate
  <2>2. PICK new \in Seq(Block) :
           /\ Distinct(new) /\ Ids(doc) \cap Ids(new) = {} /\ new # << >>
           /\ new[1].level = NewLevel /\ doc' = Splice(doc, Len(doc), new)
    BY <1>1, <1>3, <1>8, CreationStep
  <2>3. doc[Place(doc, y)].level \in 0..6
    BY <1>1, <1>2, PlaceIs, DocProperties
  <2>4. Ended(doc, y) \/ new[1].level \in 1 .. doc[Place(doc, y)].level
    BY <2>1, <2>2, <2>3, SizesAssumption DEF Reaches
  <2>5. Kept(doc, Splice(doc, Len(doc), new), y)
    BY <1>1, <1>2, <2>2, <2>4, KeptByCreation
  <2> QED
    BY <2>2, <2>5
<1> QED
  BY <1>5, <1>6, <1>7, <1>8 DEF Write

(* What a step may do to a call that others are separate from.             *)
Narrows(c) ==
    /\ call'[c] = call[c]
    /\ Targets(c)' \subseteq Targets(c)
    /\ \A y \in Targets(c)' : /\ Ids(Section(doc', y)) \subseteq Ids(Section(doc, y))
                              /\ Reaches(doc', y) => Reaches(doc, y)
    /\ heading'[c] = None /\ Targets(c)' = {} => heading[c] = None /\ Targets(c) = {}

LEMMA SeparateKeeps ==
    ASSUME NEW c \in Calls, NEW d \in Calls, Separate(c, d), Narrows(c), Narrows(d)
    PROVE  Separate(c, d)'
<1>1. Canon[call'[c].name] # Canon[call'[d].name]
  BY DEF Separate, Narrows
<1>2. \A x \in Targets(c)', y \in Targets(d)' : x # y /\ x \notin Ids(Section(doc', y))
  BY DEF Separate, Narrows
<1>3. heading'[c] = None /\ Targets(c)' = {} => \A y \in Targets(d)' : ~Reaches(doc', y)
  BY DEF Separate, Narrows
<1> QED
  BY <1>1, <1>2, <1>3 DEF Separate

LEMMA KeptNarrows ==
    ASSUME NEW y, Kept(doc, doc', y)
    PROVE  /\ Ids(Section(doc', y)) \subseteq Ids(Section(doc, y))
           /\ Reaches(doc', y) => Reaches(doc, y)
BY DEF Kept, Reaches

Waits(c) ==
    /\ pc'[c] = pc[c] /\ call'[c] = call[c] /\ heading'[c] = heading[c]
    /\ todo'[c] = todo[c] /\ anchor'[c] = anchor[c] /\ (c \in botched => c \in botched')

(* A call that waits keeps what it has, as long as others write elsewhere. *)
LEMMA WaitingKeeps ==
    ASSUME SectionsInv, NEW c \in Calls, InHand(c), Waits(c),
           \A y \in Targets(c) : Kept(doc, doc', y),
           doc' \in Seq(Block), Distinct(doc'),
           \A b \in ToSet(doc') : \/ b \in ToSet(doc)
                                  \/ /\ b.id >= next
                                     /\ IsHeading(b) => Canon[b.text] # Canon[call[c].name]
    PROVE  InHand(c)' /\ Narrows(c)
<1>1. TypeOK /\ doc \in Seq(Block) /\ Distinct(doc) /\ next \in Nat
  BY DEF SectionsInv, TypeOK
<1>2. heading[c] # None => heading[c] \in 0 .. next - 1
  BY DEF SectionsInv, HeadingsKnown, NamesHeading
<1>3. ASSUME NEW b \in ToSet(doc'), heading[c] # None, b.id = heading[c] PROVE b \in ToSet(doc)
  <2>1. ~(heading[c] >= next)
    BY <1>1, <1>2, <1>3
  <2> QED
    BY <1>3, <2>1
<1>4. ASSUME NEW y \in Targets(c) PROVE y \in Targets(c)'
  <2>1. y \in Ids(doc') /\ doc'[Place(doc', y)] = doc[Place(doc, y)]
    BY DEF Kept
  <2>2. CASE heading[c] # None
    BY <2>1, <2>2 DEF Targets, Waits
  <2>3. CASE heading[c] = None
    <3>1. PICK b \in Matching(ToSet(doc), call[c].name) : b.id = y
      BY <2>3 DEF Targets
    <3>2. doc[Place(doc, y)] = b
      BY <1>1, <3>1, BlockAt DEF Matching
    <3>3. doc'[Place(doc', y)] \in ToSet(doc')
      <4>1. Place(doc', y) \in 1..Len(doc')
        BY <2>1, PlaceIs
      <4> QED
        BY <4>1, DocProperties
    <3>4. b \in ToSet(doc')
      BY <2>1, <3>2, <3>3
    <3>5. b \in Matching(ToSet(doc'), call'[c].name)
      BY <3>1, <3>4 DEF Matching, Waits
    <3>6. heading'[c] = None
      BY <2>3 DEF Waits
    <3> QED
      BY <3>1, <3>5, <3>6 DEF Targets
  <2> QED
    BY <2>2, <2>3
<1>5. ASSUME NEW y \in Targets(c)' PROVE y \in Targets(c)
  <2>1. CASE heading[c] # None
    <3>1. y = heading[c] /\ y \in Ids(doc')
      BY <1>5, <2>1 DEF Targets, Waits
    <3>2. PICK b \in ToSet(doc') : b.id = y
      BY <3>1 DEF Ids
    <3>3. y \in Ids(doc)
      BY <1>3, <2>1, <3>1, <3>2 DEF Ids
    <3> QED
      BY <2>1, <3>1, <3>3 DEF Targets
  <2>2. CASE heading[c] = None
    <3>1. PICK b \in Matching(ToSet(doc'), call[c].name) : b.id = y
      BY <1>5, <2>2 DEF Targets, Waits
    <3>2. b \in Matching(ToSet(doc), call[c].name)
      BY <3>1 DEF Matching
    <3> QED
      BY <2>2, <3>1, <3>2 DEF Targets
  <2> QED
    BY <2>1, <2>2
<1>6. Targets(c)' = Targets(c)
  BY <1>4, <1>5
<1>7. Narrows(c)
  BY <1>6, KeptNarrows DEF Narrows, Waits
<1>8. heading[c] # None => Section(doc', heading[c]) = Section(doc, heading[c])
  <2>1. CASE heading[c] \in Ids(doc) /\ heading[c] # None
    BY <2>1 DEF Targets, Kept
  <2>2. CASE heading[c] \notin Ids(doc) /\ heading[c] # None
    <3>1. heading[c] \notin Ids(doc')
      BY <1>3, <2>2 DEF Ids
    <3> QED
      BY <2>2, <3>1 DEF Section
  <2> QED
    BY <2>1, <2>2
<1>9. heading[c] # None => Mine(c)' = Mine(c) /\ Tip(doc', heading[c]) = Tip(doc, heading[c])
  BY <1>8 DEF Mine, Tip, Waits
<1>10. heading[c] # None /\ heading[c] \in Ids(doc) => heading[c] \in Ids(doc')
  BY DEF Targets, Kept
<1>11. heading[c] # None =>
          \A b \in ToSet(doc') : b.id = heading[c] => b \in Matching(ToSet(doc'), call[c].name)
  BY <1>3 DEF InHand, Matching
<1>12. InHand(c)'
  <2> USE DEF Waits
  <2>1. pc'[c] \in {"section", "delete", "insert"} => heading'[c] # None
    BY DEF InHand
  <2>2. heading'[c] # None =>
          \A b \in ToSet(doc') : b.id = heading'[c] => b \in Matching(ToSet(doc'), call'[c].name)
    BY <1>11
  <2>3. pc'[c] = "delete" =>
          /\ call'[c].tool = "upsert" /\ heading'[c] \in Ids(doc') /\ anchor'[c] = heading'[c]
          /\ NoRepeat(todo'[c]) /\ ToSet(todo'[c]) \subseteq Ids(Mine(c)')
          /\ c \notin botched' => Ids(Mine(c)') \subseteq ToSet(todo'[c])
    BY <1>9, <1>10 DEF InHand
  <2>4. pc'[c] = "insert" /\ call'[c].tool = "upsert" =>
          anchor'[c] = heading'[c] /\ (c \notin botched' => Mine(c)' = << >>)
    BY <1>9 DEF InHand
  <2>5. pc'[c] = "insert" /\ call'[c].tool = "append" => anchor'[c] = Tip(doc', heading'[c])
    BY <1>9 DEF InHand
  <2>6. pc'[c] = "append" => heading'[c] = None /\ Targets(c)' = {}
    BY <1>6 DEF InHand
  <2> QED
    BY <2>1, <2>2, <2>3, <2>4, <2>5, <2>6 DEF InHand
<1> QED
  BY <1>7, <1>12

LEMMA NoWriteKeeps ==
    ASSUME TypeOK, NEW c \in Calls, doc' = doc
    PROVE  \A y \in Targets(c) : Kept(doc, doc', y)
BY TargetsAreThere DEF Kept

LEMMA TailDistinct ==
    ASSUME NEW s \in Seq(Nat), s # << >>, NoRepeat(s)
    PROVE  /\ Tail(s) \in Seq(Nat) /\ NoRepeat(Tail(s))
           /\ ToSet(Tail(s)) = ToSet(s) \ {Head(s)} /\ Head(s) \in ToSet(s)
<1>1. /\ Tail(s) \in Seq(Nat) /\ Len(Tail(s)) = Len(s) - 1 /\ Len(s) \in Nat
      /\ \A i \in 1 .. Len(s) - 1 : Tail(s)[i] = s[i + 1]
  BY HeadTailProperties, LenProperties
<1>2. DOMAIN Tail(s) = 1 .. Len(s) - 1 /\ DOMAIN s = 1..Len(s)
  BY <1>1, LenProperties
<1>3. 1 \in 1..Len(s) /\ Head(s) = s[1]
  BY EmptySeq, LenProperties
<1> DEFINE t == Tail(s)
           h == Head(s)
<1> HIDE DEF t, h
<1>4. /\ Len(s) \in Nat /\ DOMAIN t = 1 .. Len(s) - 1 /\ DOMAIN s = 1..Len(s) /\ h = s[1]
      /\ \A i \in 1 .. Len(s) - 1 : t[i] = s[i + 1]
  BY <1>1, <1>2, <1>3 DEF t, h
<1>5. NoRepeat(t)
  <2>1. ASSUME NEW i \in 1 .. Len(s) - 1, NEW j \in 1 .. Len(s) - 1, t[i] = t[j] PROVE i = j
    <3>1. i + 1 \in 1..Len(s) /\ j + 1 \in 1..Len(s)
      BY <1>4
    <3>2. i + 1 = j + 1
      BY <1>4, <2>1, <3>1 DEF NoRepeat
    <3> QED
      BY <1>4, <3>2
  <2> QED
    BY <1>4, <2>1 DEF NoRepeat
<1>6. ASSUME NEW w \in ToSet(t) PROVE w \in ToSet(s) /\ w # h
  <2>1. PICK i \in 1 .. Len(s) - 1 : t[i] = w
    BY <1>4 DEF ToSet
  <2>2. i + 1 \in 1..Len(s) /\ 1 \in 1..Len(s) /\ i + 1 # 1
    BY <1>3, <1>4, <2>1
  <2>3. s[i + 1] = w
    BY <1>4, <2>1
  <2>4. w # s[1]
    BY <1>4, <2>2, <2>3 DEF NoRepeat
  <2>5. w \in ToSet(s)
    BY <1>4, <2>2, <2>3 DEF ToSet
  <2> QED
    BY <1>4, <2>4, <2>5
<1>7. ASSUME NEW w \in ToSet(s), w # h PROVE w \in ToSet(t)
  <2>1. PICK j \in 1..Len(s) : s[j] = w
    BY <1>4 DEF ToSet
  <2>2. j # 1
    BY <1>4, <1>7, <2>1
  <2>3. j - 1 \in 1 .. Len(s) - 1 /\ (j - 1) + 1 = j
    BY <1>4, <2>1, <2>2
  <2>4. t[j - 1] = w
    BY <1>4, <2>1, <2>3
  <2> QED
    BY <1>4, <2>3, <2>4 DEF ToSet
<1>8. h \in ToSet(s)
  BY <1>3, <1>4 DEF ToSet
<1> QED
  BY <1>1, <1>5, <1>6, <1>7, <1>8 DEF t, h

LEMMA NoIds ==
    ASSUME NEW s \in Seq(Block), Ids(s) = {}
    PROVE  s = << >>
<1>1. SUFFICES ASSUME s # << >> PROVE FALSE
  OBVIOUS
<1>2. 1 \in 1..Len(s)
  BY <1>1, EmptySeq, DocProperties
<1>3. s[1].id \in Ids(s)
  BY <1>2, DocProperties
<1> QED
  BY <1>3

(* One call's step leaves the other sections to the others.                *)
LEMMA ApartByStep ==
    ASSUME SectionsInv, AllOrNone, ApartInv, edits = Edits,
           NEW w \in Calls, Working(w), Write(w), \A c \in Calls : c # w => Waits(c),
           clash' = clash, doc' \in Seq(Block), Distinct(doc'),
           pc'[w] # "idle",
           InHand(w) /\ w \notin clash /\ Working(w)' => InHand(w)' /\ Narrows(w)
    PROVE  AllOrNone' /\ ApartInv'
<1>1. \A c \in Calls : Working(c)' => Working(c)
  BY DEF Waits, Working
<1>2. AllOrNone'
  <2>1. \A c \in Calls : c # w => pc'[c] = pc[c]
    BY DEF Waits
  <2>2. clash \subseteq Calls
    BY DEF SectionsInv, TypeOK
  <2> QED
    BY <1>1, <2>1, <2>2 DEF AllOrNone
<1>3. ASSUME NEW c \in Calls, Working(c)', c \notin clash PROVE InHand(c)' /\ Narrows(c)
  <2>1. Working(c) /\ w \notin clash
    BY <1>1, <1>3 DEF AllOrNone
  <2>2. InHand(c) /\ InHand(w)
    BY <1>3, <2>1 DEF ApartInv
  <2>3. CASE c = w
    BY <1>3, <2>1, <2>2, <2>3
  <2>4. CASE c # w
    <3>1. Separate(w, c) /\ Separate(c, w)
      BY <1>3, <2>1, <2>4 DEF ApartInv
    <3>2. \A y \in Targets(c) : Kept(doc, doc', y)
      BY <2>2, <3>1, AsideWrite
    <3>3. \A b \in ToSet(doc') : \/ b \in ToSet(doc)
                                 \/ /\ b.id >= next
                                    /\ IsHeading(b) => Canon[b.text] # Canon[call[c].name]
      BY <3>1, WriteBlocks DEF Separate
    <3>4. Waits(c)
      BY <2>4
    <3> QED
      BY <2>2, <3>2, <3>3, <3>4, WaitingKeeps
  <2> QED
    BY <2>3, <2>4
<1>4. ASSUME NEW c \in Calls, NEW d \in Calls, Working(c)', Working(d)', c # d, c \notin clash
      PROVE  Separate(c, d)'
  <2>1. Working(c) /\ Working(d) /\ d \notin clash
    BY <1>1, <1>4 DEF AllOrNone
  <2>2. Separate(c, d)
    BY <1>4, <2>1 DEF ApartInv
  <2> QED
    BY <1>3, <1>4, <2>1, <2>2, SeparateKeeps
<1> QED
  BY <1>2, <1>3, <1>4 DEF ApartInv

(* What upsert_section still has to delete is what its section holds.      *)
LEMMA DeleteLeaves ==
    ASSUME SectionsInv, NEW w \in Calls, DeleteBlock(w), InHand(w)
    PROVE  /\ heading[w] # None /\ heading[w] \in Ids(doc') /\ ToSet(doc') \subseteq ToSet(doc)
           /\ ToSet(Tail(todo[w])) \subseteq Ids(Section(doc', heading[w]))
           /\ w \notin botched' => Ids(Section(doc', heading[w])) \subseteq ToSet(Tail(todo[w]))
           /\ NoRepeat(Tail(todo[w]))
           /\ Ids(Section(doc', heading[w])) \subseteq Ids(Section(doc, heading[w]))
           /\ Reaches(doc', heading[w]) => Reaches(doc, heading[w])
<1>1. TypeOK /\ doc \in Seq(Block) /\ Distinct(doc)
  BY DEF SectionsInv, TypeOK
<1>2. /\ pc[w] = "delete" /\ todo[w] \in Seq(Nat) /\ todo[w] # << >>
  BY <1>1 DEF DeleteBlock, SectionsInv, Control, TypeOK
<1>3. /\ heading[w] # None /\ heading[w] \in Ids(doc) /\ NoRepeat(todo[w])
      /\ ToSet(todo[w]) \subseteq Ids(Section(doc, heading[w]))
      /\ w \notin botched => Ids(Section(doc, heading[w])) \subseteq ToSet(todo[w])
  BY <1>2 DEF InHand, Mine
<1>4. /\ NoRepeat(Tail(todo[w])) /\ ToSet(Tail(todo[w])) = ToSet(todo[w]) \ {Head(todo[w])}
      /\ Head(todo[w]) \in ToSet(todo[w])
  BY <1>2, <1>3, TailDistinct
<1>5. CASE Removal(w) /\ UNCHANGED botched
  <2> DEFINE z == Head(todo[w])
             e == Without(doc, z)
  <2>1. doc' = e
    BY <1>5 DEF Removal
  <2>2. z \in Ids(Section(doc, heading[w]))
    BY <1>3, <1>4
  <2>3. /\ heading[w] \in Ids(e) /\ e[Place(e, heading[w])] = doc[Place(doc, heading[w])]
        /\ Ended(doc, heading[w]) => Ended(e, heading[w])
        /\ Ids(Section(e, heading[w])) = Ids(Section(doc, heading[w])) \ {z}
    BY <1>1, <1>3, <2>2, OwnLoss
  <2>4. ToSet(e) \subseteq ToSet(doc)
    BY <1>1, WithoutBlocks
  <2> HIDE DEF e, z
  <2>5. Reaches(e, heading[w]) => Reaches(doc, heading[w])
    BY <2>3 DEF Reaches
  <2>6. ToSet(Tail(todo[w])) = ToSet(todo[w]) \ {z}
    BY <1>4 DEF z
  <2>7. botched' = botched
    BY <1>5
  <2> QED
    BY <1>3, <1>4, <2>1, <2>3, <2>4, <2>5, <2>6, <2>7
<1>6. CASE Spared /\ botched' = botched \cup {w}
  BY <1>3, <1>4, <1>6 DEF Spared
<1> QED
  BY <1>5, <1>6 DEF DeleteBlock

LEMMA DeleteKeeps ==
    ASSUME SectionsInv, NEW w \in Calls, DeleteBlock(w), InHand(w), Working(w)'
    PROVE  InHand(w)' /\ Narrows(w)
<1>1. TypeOK /\ doc \in Seq(Block) /\ Distinct(doc)
  BY DEF SectionsInv, TypeOK
<1>2. /\ pc[w] = "delete" /\ Delete(w, Tail(todo[w]))
      /\ call'[w] = call[w] /\ heading'[w] = heading[w] /\ anchor'[w] = anchor[w]
  BY DEF DeleteBlock
<1>3. call[w].tool = "upsert" /\ anchor[w] = heading[w] /\ heading[w] \in Ids(doc)
  BY <1>2 DEF InHand
<1>4. todo'[w] = Tail(todo[w])
  BY <1>1, <1>2 DEF Delete, TypeOK
<1>5. pc'[w] \in {"delete", "insert", "done"} /\ (pc'[w] = "insert" => Tail(todo[w]) = << >>)
  BY <1>1, <1>2 DEF Delete, Goto, End, TypeOK
<1>6. /\ heading[w] # None /\ heading[w] \in Ids(doc') /\ ToSet(doc') \subseteq ToSet(doc)
      /\ ToSet(Tail(todo[w])) \subseteq Ids(Section(doc', heading[w]))
      /\ w \notin botched' => Ids(Section(doc', heading[w])) \subseteq ToSet(Tail(todo[w]))
      /\ NoRepeat(Tail(todo[w]))
      /\ Ids(Section(doc', heading[w])) \subseteq Ids(Section(doc, heading[w]))
      /\ Reaches(doc', heading[w]) => Reaches(doc, heading[w])
  BY DeleteLeaves
<1>7. Section(doc', heading[w]) \in Seq(Block)
  <2>1. doc' \in Seq(Block) /\ Distinct(doc')
    BY DeleteStep DEF StepOK, TypeOK
  <2> QED
    BY <2>1, SectionDistinct
<1>8. Tail(todo[w]) = << >> /\ w \notin botched' => Section(doc', heading[w]) = << >>
  <2>1. ToSet(<< >>) = {}
    BY DEF ToSet
  <2> QED
    BY <1>6, <1>7, <2>1, NoIds
<1>9. Narrows(w)
  <2>1. Targets(w) = {heading[w]} /\ Targets(w)' = {heading[w]}
    BY <1>2, <1>3, <1>6 DEF Targets
  <2> QED
    BY <1>2, <1>6, <2>1 DEF Narrows
<1>10. \A b \in ToSet(doc') : b.id = heading[w] => b \in Matching(ToSet(doc'), call[w].name)
  BY <1>6 DEF InHand, Matching
<1>11. InHand(w)'
  <2>1. pc'[w] = "delete" \/ pc'[w] = "insert"
    BY <1>5 DEF Working, Requests
  <2>2. CASE pc'[w] = "delete"
    BY <1>2, <1>3, <1>4, <1>6, <1>10, <2>2 DEF InHand, Mine
  <2>3. CASE pc'[w] = "insert"
    BY <1>2, <1>3, <1>5, <1>6, <1>8, <1>10, <2>3 DEF InHand, Mine
  <2> QED
    BY <2>1, <2>2, <2>3
<1> QED
  BY <1>9, <1>11

LEMMA SameNarrows ==
    ASSUME NEW c \in Calls, doc' = doc, call'[c] = call[c], heading'[c] = heading[c]
    PROVE  Narrows(c) /\ Targets(c)' = Targets(c) /\ Mine(c)' = Mine(c)
<1>1. Targets(c)' = Targets(c)
  BY DEF Targets
<1>2. Narrows(c)
  BY <1>1 DEF Narrows, Reaches, Ended
<1> QED
  BY <1>1, <1>2 DEF Mine

(* A call lists what its section holds, or where it ends.                  *)
LEMMA ReadKeeps ==
    ASSUME SectionsInv, NEW w \in Calls, ReadSection(w), InHand(w)
    PROVE  InHand(w)' /\ Narrows(w)
<1>1. TypeOK /\ doc \in Seq(Block) /\ Distinct(doc)
  BY DEF SectionsInv, TypeOK
<1>2. pc[w] = "section" /\ heading[w] # None /\ heading[w] \in Nat
  BY <1>1 DEF ReadSection, SectionsInv, Control, TypeOK
<1>3. doc' = doc /\ call' = call /\ heading' = heading /\ botched' = botched
  BY DEF ReadSection
<1>4. Narrows(w) /\ Mine(w)' = Mine(w)
  BY <1>3, SameNarrows
<1> DEFINE s    == Section(doc, heading[w])
           kids == [k \in DOMAIN s |-> s[k].id]
<1>5. s \in Seq(Block) /\ Distinct(s)
  BY <1>1, SectionDistinct
<1>6. /\ Reverse(kids) \in Seq(Nat) /\ NoRepeat(Reverse(kids)) /\ ToSet(Reverse(kids)) = Ids(s)
      /\ Reverse(kids) = << >> <=> s = << >>
  BY <1>5, ReverseKids
<1>7. Last(<<heading[w]>> \o kids) = Tip(doc, heading[w])
  BY <1>2, <1>5, LastOfKids DEF Tip
<1>8. s # << >> => heading[w] \in Ids(doc)
  BY DEF Section
<1>9. \/ /\ call[w].tool = "upsert"
         /\ Delete(w, Reverse(kids))
         /\ anchor' = [anchor EXCEPT ![w] = heading[w]]
      \/ /\ call[w].tool = "append"
         /\ anchor' = [anchor EXCEPT ![w] = Last(<<heading[w]>> \o kids)]
         /\ Goto(w, "insert")
  BY DEF ReadSection
<1>10. \A b \in ToSet(doc') : b.id = heading'[w] => b \in Matching(ToSet(doc'), call'[w].name)
  BY <1>2, <1>3 DEF InHand
<1> DEFINE list == Reverse(kids)
           tip  == Last(<<heading[w]>> \o kids)
<1>11. Mine(w) = s
  BY DEF Mine
<1> HIDE DEF list, tip, s
<1>12. CASE call[w].tool = "upsert" /\ Delete(w, list) /\ anchor' = [anchor EXCEPT ![w] = heading[w]]
  <2>1. anchor'[w] = heading[w] /\ todo'[w] = list
    BY <1>1, <1>12 DEF TypeOK, Delete
  <2>2. CASE list # << >>
    <3>1. pc'[w] = "delete"
      BY <1>1, <1>12, <2>2 DEF Delete, Goto, TypeOK
    <3> QED
      BY <1>2, <1>3, <1>4, <1>6, <1>8, <1>10, <1>11, <1>12, <2>1, <2>2, <3>1 DEF InHand, list
  <2>3. CASE list = << >>
    <3>1. pc'[w] \in {"insert", "done"}
      BY <1>1, <1>12, <2>3 DEF Delete, Goto, End, TypeOK
    <3> QED
      BY <1>2, <1>3, <1>4, <1>6, <1>10, <1>11, <1>12, <2>1, <2>3, <3>1 DEF InHand, list
  <2> QED
    BY <2>2, <2>3
<1>13. CASE call[w].tool = "append" /\ anchor' = [anchor EXCEPT ![w] = tip] /\ Goto(w, "insert")
  <2>1. anchor'[w] = tip /\ pc'[w] = "insert"
    BY <1>1, <1>13 DEF TypeOK, Goto
  <2>2. tip = Tip(doc, heading[w])
    BY <1>7 DEF tip
  <2>3. anchor'[w] = Tip(doc', heading'[w])
    BY <1>3, <2>1, <2>2
  <2> QED
    BY <1>2, <1>3, <1>4, <1>10, <1>13, <2>1, <2>3 DEF InHand
<1> QED
  BY <1>9, <1>12, <1>13 DEF list, tip

(* A call settles on the one heading that matches in the index, or in the  *)
(* tree; only the tree's answer makes it create one.                       *)
LEMMA QueriesKeep ==
    ASSUME SectionsInv, RowsAgree, edits = Edits, NEW w \in Calls,
           QueryHeadings(w) \/ QueryChildren(w), InHand(w), Working(w)'
    PROVE  InHand(w)' /\ Narrows(w)
<1>1. TypeOK /\ doc \in Seq(Block) /\ Distinct(doc)
  BY DEF SectionsInv, TypeOK
<1>2. pc[w] \in {"query", "children"} /\ heading[w] = None
  BY DEF QueryHeadings, QueryChildren, SectionsInv, Control
<1>3. UNCHANGED <<doc, next, rows, edits, call, todo, anchor, clash, botched>>
  BY DEF QueryHeadings, QueryChildren
<1> DEFINE name == call[w].name
<1>4. \/ Settle(w, Matching(rows, name))
      \/ Settle(w, Matching(ToSet(doc), name))
      \/ Goto(w, "children") /\ UNCHANGED heading
      \/ Matching(ToSet(doc), name) = {} /\ UNCHANGED heading
           /\ (Goto(w, "append") \/ End(w, "rejected"))
  BY DEF QueryHeadings, QueryChildren
<1>5. pc'[w] # "done"
  BY DEF Working, Requests
<1> HIDE DEF name
<1>6. ASSUME NEW found, Settle(w, found), found \in {Matching(rows, name), Matching(ToSet(doc), name)}
      PROVE  InHand(w)' /\ Narrows(w)
  <2>1. PICK b \in found : heading' = [heading EXCEPT ![w] = b.id] /\ Goto(w, "section")
    BY <1>1, <1>5, <1>6 DEF Settle, End, TypeOK
  <2>2. heading'[w] = b.id /\ pc'[w] = "section"
    BY <1>1, <2>1 DEF Goto, TypeOK
  <2>3. IsHeading(b) /\ Canon[b.text] = Canon[name] /\ b \in rows \cup ToSet(doc)
    BY <1>6 DEF Matching
  <2>4. b.id \in Nat
    <3>1. b \in Block
      <4>1. doc \in Seq(Block) /\ rows \subseteq Block
        BY <1>1 DEF TypeOK
      <4>2. ToSet(doc) \subseteq Block
        BY <4>1, DocProperties
      <4> QED
        BY <2>3, <4>1, <4>2
    <3> QED
      BY <3>1 DEF Block
  <2>5. b.id # None
    BY <2>4, NoneAssumption
  <2>6. ASSUME NEW o \in ToSet(doc), o.id = b.id PROVE o \in Matching(ToSet(doc), name)
    <3>1. o = b
      <4>1. CASE b \in rows
        BY <2>6, <4>1 DEF RowsAgree
      <4>2. CASE b \in ToSet(doc)
        BY <1>1, <2>6, <4>2, BlockAt
      <4> QED
        BY <2>3, <4>1, <4>2
    <3> QED
      BY <2>3, <3>1 DEF Matching
  <2>7. Targets(w)' \subseteq Targets(w)
    <3>1. Targets(w)' = {b.id} \cap Ids(doc)
      BY <1>3, <2>2, <2>5 DEF Targets
    <3>2. Targets(w) = {o.id : o \in Matching(ToSet(doc), name)}
      BY <1>2 DEF Targets, name
    <3>3. ASSUME b.id \in Ids(doc) PROVE b.id \in Targets(w)
      <4>1. PICK o \in ToSet(doc) : o.id = b.id
        BY <3>3 DEF Ids
      <4>2. o \in Matching(ToSet(doc), name)
        BY <2>6, <4>1
      <4> QED
        BY <3>2, <4>1, <4>2
    <3> QED
      BY <3>1, <3>3
  <2>8. Narrows(w)
    BY <1>3, <2>2, <2>5, <2>7 DEF Narrows, Reaches, Ended
  <2>9. InHand(w)'
    BY <1>3, <2>2, <2>5, <2>6 DEF InHand, name
  <2> QED
    BY <2>8, <2>9
<1>7. CASE heading' = heading
  <2>1. Narrows(w) /\ Targets(w)' = Targets(w)
    BY <1>3, <1>7, SameNarrows
  <2>2. heading'[w] = None
    BY <1>2, <1>7
  <2>3. CASE Goto(w, "children")
    BY <1>1, <2>1, <2>2, <2>3 DEF Goto, InHand, TypeOK
  <2>4. CASE Matching(ToSet(doc), name) = {} /\ Goto(w, "append")
    <3>1. pc'[w] = "append"
      BY <1>1, <2>4 DEF Goto, TypeOK
    <3>2. Targets(w) = {}
      BY <1>2, <2>4 DEF Targets, name
    <3> QED
      BY <2>1, <2>2, <3>1, <3>2 DEF InHand
  <2> QED
    BY <1>1, <1>4, <1>5, <1>6, <2>3, <2>4 DEF End, TypeOK
<1> QED
  BY <1>4, <1>6, <1>7

(* Names that share no blocks have sections apart.                         *)
LEMMA NotWithin ==
    ASSUME TypeOK, NEW m, NEW n, ~Within(m, n),
           NEW y, \E h \in Matching(ToSet(doc), n) : h.id = y
    PROVE  /\ \A g \in Matching(ToSet(doc), m) : g.id \notin Ids(Section(doc, y))
           /\ Matching(ToSet(doc), m) = {} => ~Reaches(doc, y)
<1>1. doc \in Seq(Block) /\ Distinct(doc)
  BY DEF TypeOK
<1>2. PICK h \in Matching(ToSet(doc), n) : h.id = y
  OBVIOUS
<1>3. h \in ToSet(doc)
  BY DEF Matching
<1>4. ASSUME NEW g \in Matching(ToSet(doc), m), g.id \in Ids(Section(doc, y)) PROVE FALSE
  <2>1. PICK o \in ToSet(Section(doc, h.id)) : o.id = g.id
    BY <1>2, <1>4 DEF Ids
  <2>2. o \in ToSet(doc) /\ g \in ToSet(doc)
    BY <1>1, SectionBlocks DEF Matching
  <2>3. o = g
    BY <1>1, <2>1, <2>2, BlockAt
  <2> QED
    BY <2>1, <2>3 DEF Within
<1>5. Matching(ToSet(doc), m) = {} => ~Reaches(doc, y)
  BY <1>2, <1>3, EnclosesIs DEF Within
<1> QED
  BY <1>4, <1>5

LEMMA TargetsMatch ==
    ASSUME NEW c \in Calls, InHand(c), NEW y \in Targets(c)
    PROVE  \E h \in Matching(ToSet(doc), call[c].name) : h.id = y
<1>1. CASE heading[c] # None
  <2>1. y = heading[c] /\ y \in Ids(doc)
    BY <1>1 DEF Targets
  <2>2. PICK b \in ToSet(doc) : b.id = y
    BY <2>1 DEF Ids
  <2> QED
    BY <1>1, <2>1, <2>2 DEF InHand
<1>2. CASE heading[c] = None
  BY <1>2 DEF Targets
<1> QED
  BY <1>1, <1>2

Named(m) == {b.id : b \in Matching(ToSet(doc), m)}

LEMMA ApartByName ==
    ASSUME TypeOK, NEW m, NEW n, ~Shares(m, n)
    PROVE  /\ Canon[m] # Canon[n]
           /\ \A x \in Named(m), y \in Named(n) : x # y /\ x \notin Ids(Section(doc, y))
           /\ Named(m) = {} => \A y \in Named(n) : ~Reaches(doc, y)
<1>1. doc \in Seq(Block) /\ Distinct(doc)
  BY DEF TypeOK
<1>2. Canon[m] # Canon[n] /\ ~Within(m, n)
  BY DEF Shares
<1>3. ASSUME NEW x \in Named(m), NEW y \in Named(n) PROVE x # y /\ x \notin Ids(Section(doc, y))
  <2>1. PICK g \in Matching(ToSet(doc), m) : g.id = x
    BY DEF Named
  <2>2. PICK h \in Matching(ToSet(doc), n) : h.id = y
    BY DEF Named
  <2>3. g.id \notin Ids(Section(doc, y))
    BY <1>2, <2>2, NotWithin
  <2>4. g.id # h.id
    <3>1. g # h /\ g \in ToSet(doc) /\ h \in ToSet(doc)
      BY <1>2 DEF Matching
    <3> QED
      BY <1>1, <3>1, BlockAt
  <2> QED
    BY <2>1, <2>2, <2>3, <2>4
<1>4. ASSUME Named(m) = {}, NEW y \in Named(n) PROVE ~Reaches(doc, y)
  <2>1. Matching(ToSet(doc), m) = {}
    BY <1>4 DEF Named
  <2>2. \E h \in Matching(ToSet(doc), n) : h.id = y
    BY DEF Named
  <2> QED
    BY <1>2, <2>1, <2>2, NotWithin
<1> QED
  BY <1>2, <1>3, <1>4

(* With nothing written, calls that wait keep what they have.              *)
LEMMA StillKeeps ==
    ASSUME SectionsInv, NEW c \in Calls, InHand(c), Waits(c), doc' = doc
    PROVE  InHand(c)' /\ Narrows(c)
<1>1. TypeOK /\ doc' \in Seq(Block) /\ Distinct(doc')
  BY DEF SectionsInv, TypeOK
<1>2. \A y \in Targets(c) : Kept(doc, doc', y)
  BY <1>1, NoWriteKeeps
<1> QED
  BY <1>1, <1>2, WaitingKeeps

(* A call that begins shares blocks with one at work, or is apart.         *)
LEMMA BeginApart ==
    ASSUME SectionsInv, AllOrNone, ApartInv, edits = Edits, NEW w \in Calls, Begin(w)
    PROVE  AllOrNone' /\ ApartInv'
<1>1. TypeOK /\ clash \subseteq Calls
  BY DEF SectionsInv, TypeOK
<1>2. PICK a \in Args :
        /\ call' = [call EXCEPT ![w] = a]
        /\ LET others == {d \in Calls : Working(d)}
               rivals == {d \in others : Shares(call[d].name, a.name)}
           IN  clash' = clash \cup IF rivals \cup (clash \cap others) = {} THEN {}
                                   ELSE others \cup {w}
  BY DEF Begin
<1> DEFINE others == {d \in Calls : Working(d)}
           rivals == {d \in others : Shares(call[d].name, a.name)}
<1>3. clash' = clash \cup IF rivals \cup (clash \cap others) = {} THEN {} ELSE others \cup {w}
  BY <1>2
<1>4. /\ UNCHANGED <<doc, next, rows, edits, heading, todo, anchor, botched>>
      /\ pc' = [pc EXCEPT ![w] = "query"] /\ pc[w] = "idle"
  BY DEF Begin, Goto
<1>5. /\ call'[w] = a /\ pc'[w] = "query"
      /\ \A c \in Calls : c # w => Waits(c)
  BY <1>1, <1>2, <1>4 DEF TypeOK, Waits
<1>6. heading[w] = None
  BY <1>4 DEF SectionsInv, Control
<1>7. /\ Working(w)' /\ ~Working(w)
      /\ \A c \in Calls : c # w => (Working(c)' <=> Working(c))
  BY <1>4, <1>5 DEF Working, Requests, Waits
<1>8. \A c \in Calls : c \in others <=> Working(c)
  OBVIOUS
<1> HIDE DEF others, rivals
<1>9. \A c \in clash' : c \in clash \/ c \in others \/ c = w
  BY <1>3
<1>10. \A c \in clash' : pc'[c] # "idle"
  <2>1. \A c \in clash : c \in Calls /\ c # w /\ pc'[c] = pc[c] /\ pc[c] # "idle"
    BY <1>1, <1>4, <1>5 DEF AllOrNone, Waits
  <2>2. \A c \in Calls : Working(c)' => pc'[c] # "idle"
    BY DEF Working, Requests
  <2>3. \A c \in others : c \in Calls /\ Working(c)'
    <3>1. others \subseteq Calls
      BY DEF others
    <3> QED
      BY <1>7, <1>8, <3>1
  <2> QED
    BY <1>7, <1>9, <2>1, <2>2, <2>3
<1>11. CASE rivals \cup (clash \cap others) # {}
  <2>1. clash' = clash \cup (others \cup {w})
    BY <1>3, <1>11
  <2>2. \A c \in Calls : Working(c)' => c \in clash'
    BY <1>7, <1>8, <2>1
  <2> QED
    BY <1>10, <2>2 DEF AllOrNone, ApartInv
<1>12. CASE rivals \cup (clash \cap others) = {}
  <2>1. clash' = clash
    BY <1>3, <1>12
  <2>2. \A c \in Calls : Working(c)' => c \notin clash
    <3>1. w \notin clash
      BY <1>4 DEF AllOrNone
    <3> QED
      BY <1>7, <1>8, <1>12, <3>1
  <2>3. AllOrNone'
    BY <1>10, <2>1, <2>2 DEF AllOrNone
  <2>4. ASSUME NEW c \in Calls, Working(c), c # w
        PROVE  /\ InHand(c) /\ InHand(c)' /\ Narrows(c)
               /\ \A d \in Calls : Working(d) /\ c # d => Separate(c, d)
    <3>1. c \notin clash
      BY <1>7, <2>2, <2>4
    <3>2. InHand(c) /\ \A d \in Calls : Working(d) /\ c # d => Separate(c, d)
      BY <2>4, <3>1 DEF ApartInv
    <3>3. Waits(c) /\ doc' = doc
      BY <1>4, <1>5, <2>4
    <3> QED
      BY <3>2, <3>3, StillKeeps
  <2>5. InHand(w)'
    BY <1>4, <1>5, <1>6 DEF InHand
  <2>6. ASSUME NEW c \in Calls, Working(c), c # w PROVE Separate(c, w)' /\ Separate(w, c)'
    <3>1. ~Shares(call[c].name, a.name)
      BY <1>8, <1>12, <2>6 DEF rivals
    <3>2. call'[c] = call[c] /\ call'[w] = a /\ heading'[w] = None /\ doc' = doc
      BY <1>4, <1>5, <1>6, <2>6 DEF Waits
    <3> DEFINE m == call[c].name
               n == a.name
    <3>3. ~Shares(m, n) /\ ~Shares(n, m)
      BY <3>1 DEF Shares
    <3>4. Targets(w)' = Named(n)
      BY <3>2 DEF Targets, Named
    <3>5. Targets(c)' \subseteq Named(m)
      <4>1. \A y \in Targets(c) : y \in Named(m)
        BY <2>4, <2>6, TargetsMatch DEF Named
      <4> QED
        BY <2>4, <2>6, <4>1 DEF Narrows
    <3>6. heading'[c] = None /\ Targets(c)' = {} => Named(m) = {}
      BY <2>4, <2>6 DEF Narrows, Targets, Named
    <3> HIDE DEF m, n
    <3>7. /\ Canon[m] # Canon[n]
          /\ \A x \in Named(m), y \in Named(n) : x # y /\ x \notin Ids(Section(doc, y))
          /\ Named(m) = {} => \A y \in Named(n) : ~Reaches(doc, y)
          /\ \A x \in Named(n), y \in Named(m) : x # y /\ x \notin Ids(Section(doc, y))
          /\ Named(n) = {} => \A y \in Named(m) : ~Reaches(doc, y)
      BY <1>1, <3>3, ApartByName
    <3>8. Canon[call'[c].name] # Canon[call'[w].name]
      BY <3>2, <3>7 DEF m, n
    <3> QED
      BY <3>2, <3>4, <3>5, <3>6, <3>7, <3>8 DEF Separate
  <2>7. ASSUME NEW c \in Calls, NEW d \in Calls, Working(c)', Working(d)', c # d
        PROVE  InHand(c)' /\ Separate(c, d)'
    <3>1. CASE c = w
      BY <1>7, <2>5, <2>6, <2>7, <3>1
    <3>2. CASE d = w
      BY <1>7, <2>4, <2>6, <2>7, <3>2
    <3>3. CASE c # w /\ d # w
      BY <1>7, <2>4, <2>7, <3>3, SeparateKeeps
    <3> QED
      BY <3>1, <3>2, <3>3
  <2>8. \A c \in Calls : Working(c)' => InHand(c)'
    BY <1>7, <2>4, <2>5
  <2>9. ApartInv'
    BY <2>7, <2>8 DEF ApartInv
  <2> QED
    BY <2>3, <2>9
<1> QED
  BY <1>11, <1>12

(* A call at work makes its requests one after another.                    *)
Work(w) ==
    \/ QueryHeadings(w) \/ QueryChildren(w) \/ ReadSection(w)
    \/ DeleteBlock(w) \/ InsertBlock(w) \/ AppendSection(w) \/ Fail(w)

LEMMA WorkIs ==
    ASSUME SectionsInv, NEW w \in Calls, Work(w)
    PROVE  /\ Working(w) /\ Write(w) /\ pc'[w] # "idle" /\ clash' = clash /\ rows' = rows
           /\ \A c \in Calls : c # w => Waits(c)
<1>1. TypeOK
  BY DEF SectionsInv
<1>2. Working(w)
  BY DEF Work, QueryHeadings, QueryChildren, ReadSection, DeleteBlock, InsertBlock, AppendSection,
         Fail, Working, Requests
<1>3. Write(w)
  BY DEF Work, QueryHeadings, QueryChildren, ReadSection, DeleteBlock, InsertBlock, AppendSection,
         Fail, Write, Spared
<1>4. clash' = clash /\ rows' = rows
  BY DEF Work, QueryHeadings, QueryChildren, ReadSection, DeleteBlock, InsertBlock, AppendSection, Fail
<1>5. CASE QueryHeadings(w) \/ QueryChildren(w)
  <2>1. /\ heading' = [heading EXCEPT ![w] = heading'[w]]
        /\ (\E r \in Requests : Goto(w, r)) \/ (\E r \in Results : End(w, r))
    BY <1>1, <1>5 DEF QueryHeadings, QueryChildren, Settle, Requests, Results, TypeOK
  <2>2. UNCHANGED <<call, todo, anchor, botched>>
    BY <1>5 DEF QueryHeadings, QueryChildren
  <2> QED
    BY <1>1, <1>2, <1>3, <1>4, <2>1, <2>2 DEF Goto, End, TypeOK, Waits, Requests
<1>6. CASE ReadSection(w)
  BY <1>1, <1>2, <1>3, <1>4, <1>6 DEF ReadSection, Delete, Goto, End, TypeOK, Waits
<1>7. CASE DeleteBlock(w)
  BY <1>1, <1>2, <1>3, <1>4, <1>7 DEF DeleteBlock, Delete, Goto, End, TypeOK, Waits
<1>8. CASE InsertBlock(w) \/ AppendSection(w) \/ Fail(w)
  BY <1>1, <1>2, <1>3, <1>4, <1>8 DEF InsertBlock, AppendSection, Fail, End, TypeOK, Waits
<1> QED
  BY <1>5, <1>6, <1>7, <1>8 DEF Work

(* While nobody edits headings.                                            *)
SectionsApart == edits = Edits => RowsAgree /\ AllOrNone /\ ApartInv

LEMMA RowsStep ==
    ASSUME SectionsInv, RowsAgree, edits = Edits,
           \/ rows' = rows /\ \E w \in Calls : Write(w)
           \/ rows' = Headings(doc) /\ doc' = doc
           \/ rows' = rows /\ doc' = doc
    PROVE  RowsAgree'
<1>1. TypeOK /\ doc \in Seq(Block) /\ Distinct(doc) /\ next \in Nat
  BY DEF SectionsInv, TypeOK
<1>2. CASE rows' = rows /\ \E w \in Calls : Write(w)
  <2>1. \A o \in ToSet(doc') : o \in ToSet(doc) \/ o.id >= next
    BY <1>2, WriteBlocks
  <2>2. \A b \in rows : b.id \in 0 .. next - 1
    BY DEF SectionsInv, HeadingsKnown, NamesHeading
  <2>3. ASSUME NEW b \in rows, NEW o \in ToSet(doc'), b.id = o.id PROVE b = o
    <3>1. ~(o.id >= next)
      BY <1>1, <2>2, <2>3
    <3> QED
      BY <2>1, <2>3, <3>1 DEF RowsAgree
  <2> QED
    BY <1>2, <2>3 DEF RowsAgree
<1>3. CASE rows' = Headings(doc) /\ doc' = doc
  <2>1. ASSUME NEW b \in Headings(doc), NEW o \in ToSet(doc), b.id = o.id PROVE b = o
    BY <1>1, <2>1, BlockAt DEF Headings
  <2> QED
    BY <1>3, <2>1 DEF RowsAgree
<1>4. CASE rows' = rows /\ doc' = doc
  BY <1>4 DEF RowsAgree
<1> QED
  BY <1>2, <1>3, <1>4

LEMMA WorkApart ==
    ASSUME SectionsInv, RowsAgree, AllOrNone, ApartInv, edits = Edits, NEW w \in Calls, Work(w)
    PROVE  AllOrNone' /\ ApartInv'
<1>1. /\ Working(w) /\ Write(w) /\ pc'[w] # "idle" /\ clash' = clash
      /\ \A c \in Calls : c # w => Waits(c)
  BY WorkIs
<1>2. doc' \in Seq(Block) /\ Distinct(doc')
  BY QueryStep, ReadStep, DeleteStep, WritesStep DEF Work, StepOK, TypeOK
<1>3. ASSUME InHand(w), Working(w)' PROVE InHand(w)' /\ Narrows(w)
  <2>1. CASE QueryHeadings(w) \/ QueryChildren(w)
    BY <1>3, <2>1, QueriesKeep
  <2>2. CASE ReadSection(w)
    BY <1>3, <2>2, ReadKeeps
  <2>3. CASE DeleteBlock(w)
    BY <1>3, <2>3, DeleteKeeps
  <2>4. CASE InsertBlock(w) \/ AppendSection(w) \/ Fail(w)
    <3>1. pc'[w] = "done"
      BY <2>4 DEF InsertBlock, AppendSection, Fail, End, SectionsInv, TypeOK
    <3> QED
      BY <1>3, <3>1 DEF Working, Requests
  <2> QED
    BY <2>1, <2>2, <2>3, <2>4 DEF Work
<1> QED
  BY <1>1, <1>2, <1>3, ApartByStep

LEMMA StillApart ==
    ASSUME SectionsInv, AllOrNone, ApartInv, edits = Edits, doc' = doc, clash' = clash,
           pc' = pc, \A c \in Calls : Waits(c)
    PROVE  AllOrNone' /\ ApartInv'
<1>1. \A c \in Calls : Working(c)' <=> Working(c)
  BY DEF Working
<1>2. AllOrNone'
  BY <1>1 DEF AllOrNone
<1>3. ASSUME NEW c \in Calls, Working(c), c \notin clash
      PROVE  InHand(c) /\ InHand(c)' /\ Narrows(c)
  BY <1>3, StillKeeps DEF ApartInv
<1>4. ASSUME NEW c \in Calls, NEW d \in Calls, Working(c), Working(d), c # d, c \notin clash
      PROVE  Separate(c, d)'
  <2>1. d \notin clash
    BY <1>4 DEF AllOrNone
  <2> QED
    BY <1>3, <1>4, <2>1, SeparateKeeps DEF ApartInv
<1> QED
  BY <1>1, <1>2, <1>3, <1>4 DEF ApartInv

LEMMA ApartStep ==
    ASSUME SectionsInv, SectionsApart, [Next]_vars
    PROVE  SectionsApart'
<1> SUFFICES ASSUME edits' = Edits PROVE RowsAgree' /\ AllOrNone' /\ ApartInv'
  BY DEF SectionsApart
<1>1. edits = Edits
  BY HeadingsStep
<1>2. RowsAgree /\ AllOrNone /\ ApartInv
  BY <1>1 DEF SectionsApart
<1>3. ~EditElsewhere
  BY <1>1, DocAssumption DEF EditElsewhere
<1>4. CASE \E w \in Calls : Begin(w)
  <2>1. rows' = rows /\ doc' = doc
    BY <1>4 DEF Begin
  <2> QED
    BY <1>1, <1>2, <1>4, <2>1, BeginApart, RowsStep
<1>5. CASE \E w \in Calls : Work(w)
  <2>1. rows' = rows /\ \E w \in Calls : Write(w)
    BY <1>5, WorkIs
  <2> QED
    BY <1>1, <1>2, <1>5, <2>1, WorkApart, RowsStep
<1>6. CASE Reindex \/ UNCHANGED vars
  <2>1. /\ doc' = doc /\ clash' = clash /\ pc' = pc /\ \A c \in Calls : Waits(c)
        /\ rows' = rows \/ rows' = Headings(doc)
    BY <1>6 DEF Reindex, vars, Waits
  <2> QED
    BY <1>1, <1>2, <2>1, StillApart, RowsStep
<1> QED
  BY <1>3, <1>4, <1>5, <1>6 DEF Next, Work

LEMMA ApartInit == Init => SectionsApart
<1> SUFFICES ASSUME Init PROVE SectionsApart
  OBVIOUS
<1>1. /\ doc = Doc0 /\ rows \in {Headings(Doc0), {}} /\ clash = {} /\ pc = [c \in Calls |-> "idle"]
  BY DEF Init, InitDocument
<1>2. \A c \in Calls : ~Working(c)
  BY <1>1 DEF Working, Requests
<1>3. ASSUME NEW b \in rows, NEW o \in ToSet(doc), b.id = o.id PROVE b = o
  <2>1. b \in ToSet(doc)
    BY <1>1, <1>3 DEF Headings
  <2> QED
    BY <1>1, <1>3, <2>1, DocAssumption, BlockAt
<1> QED
  BY <1>1, <1>2, <1>3 DEF SectionsApart, RowsAgree, AllOrNone, ApartInv

LEMMA SectionsApartInvariant == Spec => [](SectionsInv /\ SectionsApart)
<1>1. Init => SectionsInv /\ SectionsApart
  BY SectionsInit, ApartInit
<1>2. SectionsInv /\ SectionsApart /\ [Next]_vars => (SectionsInv /\ SectionsApart)'
  BY SectionsStep, StepKeeps, ApartStep
<1> QED
  BY <1>1, <1>2, PTL DEF Spec

-----------------------------------------------------------------------------
(* What calls return                                                       *)

LEMMA TextSeq ==
    ASSUME NEW n \in Nat, NEW f \in [1..n -> Texts]
    PROVE  f \in Seq(Texts) /\ Len(f) = n
<1>1. f \in Seq(Texts)
  BY SeqDef
<1>2. Len(f) \in Nat /\ DOMAIN f = 1..Len(f)
  BY <1>1, LenProperties
<1>3. DOMAIN f = 1..n
  OBVIOUS
<1> QED
  BY <1>1, <1>2, <1>3

LEMMA TextsJoin ==
    ASSUME NEW s \in Seq(Block), NEW t \in Seq(Block)
    PROVE  TextsOf(s \o t) = TextsOf(s) \o TextsOf(t)
<1> DEFINE u == TextsOf(s)
           v == TextsOf(t)
           w == TextsOf(s \o t)
<1>1. Len(s) \in Nat /\ DOMAIN s = 1..Len(s) /\ Len(t) \in Nat /\ DOMAIN t = 1..Len(t)
  BY DocProperties
<1>2. /\ s \o t \in Seq(Block) /\ Len(s \o t) = Len(s) + Len(t)
      /\ DOMAIN (s \o t) = 1 .. Len(s) + Len(t)
      /\ \A i \in 1 .. Len(s) + Len(t) : (s \o t)[i] = IF i <= Len(s) THEN s[i] ELSE t[i - Len(s)]
  BY ConcatProperties, DocProperties
<1>3. \A i \in 1..Len(s) : s[i].text \in Texts
  <2>1. \A i \in 1..Len(s) : s[i] \in Block
    BY DocProperties
  <2> QED
    BY <2>1 DEF Block
<1>4. \A i \in 1..Len(t) : t[i].text \in Texts
  <2>1. \A i \in 1..Len(t) : t[i] \in Block
    BY DocProperties
  <2> QED
    BY <2>1 DEF Block
<1>5. \A i \in 1 .. Len(s) + Len(t) : (s \o t)[i].text \in Texts
  <2>1. \A i \in 1..Len(s \o t) : (s \o t)[i] \in Block
    BY <1>2, DocProperties
  <2> QED
    BY <1>2, <2>1 DEF Block
<1>6. u \in [1..Len(s) -> Texts] /\ v \in [1..Len(t) -> Texts] /\ w \in [1 .. Len(s) + Len(t) -> Texts]
  BY <1>1, <1>2, <1>3, <1>4, <1>5 DEF TextsOf
<1>7. /\ \A i \in 1..Len(s) : u[i] = s[i].text
      /\ \A i \in 1..Len(t) : v[i] = t[i].text
      /\ \A i \in 1 .. Len(s) + Len(t) : w[i] = (s \o t)[i].text
  BY <1>1, <1>2 DEF TextsOf
<1> HIDE DEF u, v, w
<1>8. /\ u \in Seq(Texts) /\ Len(u) = Len(s) /\ v \in Seq(Texts) /\ Len(v) = Len(t)
      /\ w \in Seq(Texts) /\ Len(w) = Len(s) + Len(t)
  <2>1. u \in Seq(Texts) /\ Len(u) = Len(s)
    BY <1>1, <1>6, TextSeq
  <2>2. v \in Seq(Texts) /\ Len(v) = Len(t)
    BY <1>1, <1>6, TextSeq
  <2>3. w \in Seq(Texts) /\ Len(w) = Len(s) + Len(t)
    <3>1. Len(s) + Len(t) \in Nat
      BY <1>1
    <3> QED
      BY <1>6, <3>1, TextSeq
  <2> QED
    BY <2>1, <2>2, <2>3
<1>9. /\ u \o v \in Seq(Texts) /\ Len(u \o v) = Len(u) + Len(v)
      /\ \A i \in 1 .. Len(u) + Len(v) : (u \o v)[i] = IF i <= Len(u) THEN u[i] ELSE v[i - Len(u)]
  <2>1. u \in Seq(Texts) /\ v \in Seq(Texts)
    BY <1>8
  <2> QED
    BY <2>1, ConcatProperties
<1>10. ASSUME NEW i \in 1 .. Len(s) + Len(t) PROVE w[i] = (u \o v)[i]
  <2>1. CASE i <= Len(s)
    <3>1. i \in 1..Len(s)
      BY <1>1, <2>1
    <3> QED
      BY <1>2, <1>7, <1>8, <1>9, <2>1, <3>1
  <2>2. CASE ~(i <= Len(s))
    <3>1. i - Len(s) \in 1..Len(t)
      BY <1>1, <2>2
    <3>2. w[i] = t[i - Len(s)].text
      BY <1>2, <1>7, <2>2
    <3>3. (u \o v)[i] = v[i - Len(s)]
      BY <1>8, <1>9, <2>2
    <3>4. v[i - Len(s)] = t[i - Len(s)].text
      BY <1>7, <3>1
    <3> QED
      BY <3>2, <3>3, <3>4
  <2> QED
    BY <2>1, <2>2
<1>11. w = u \o v
  BY <1>8, <1>9, <1>10, SeqEqual
<1> QED
  BY <1>11 DEF u, v, w

LEMMA BodyTexts ==
    ASSUME NEW c \in Calls, call[c] \in Args, NEW i \in Nat
    PROVE  TextsOf(Body(c, i)) = Markdown(c)
<1>1. DOMAIN Body(c, i) = 1..call[c].size /\ \A k \in 1..call[c].size : Body(c, i)[k].text = <<c, k>>
  BY DEF Body
<1> QED
  BY <1>1 DEF TextsOf, Markdown

LEMMA NoBody ==
    ASSUME NEW c \in Calls, call[c] \in Args, ~(call[c].size > 0)
    PROVE  TextsOf(<< >>) = Markdown(c)
<1>1. call[c].size = 0
  <2>1. call[c].size \in 0..2
    BY BodyIs
  <2> QED
    BY <2>1
<1>2. 1 .. call[c].size = {} /\ DOMAIN << >> = {}
  BY <1>1
<1>3. Markdown(c) = << >>
  <2>1. Markdown(c) \in [1..0 -> Texts]
    BY <1>1 DEF Markdown
  <2> QED
    BY <2>1, TextSeq, EmptySeq
<1>4. TextsOf(<< >>) = << >>
  <2>1. TextsOf(<< >>) \in [1..0 -> Texts]
    BY <1>2 DEF TextsOf
  <2> QED
    BY <2>1, TextSeq, EmptySeq
<1> QED
  BY <1>3, <1>4

(* Only its own requests end a call.                                       *)
LEMMA ReportBy ==
    ASSUME SectionsInv, [Next]_vars, NEW c \in Calls, result'[c] # result[c]
    PROVE  Work(c)
<1>1. TypeOK
  BY DEF SectionsInv
<1>2. CASE \E w \in Calls : Begin(w)
  BY <1>2 DEF Begin, Goto
<1>3. ASSUME NEW w \in Calls, Work(w) PROVE w = c
  <2>1. \/ \E r \in Requests : Goto(w, r)
        \/ \E r \in Results : End(w, r)
    BY <1>3 DEF Work, QueryHeadings, QueryChildren, Settle, ReadSection, DeleteBlock, Delete,
                InsertBlock, AppendSection, Fail, Requests, Results
  <2> QED
    BY <1>1, <2>1 DEF Goto, End, TypeOK
<1>4. ~(Reindex \/ EditElsewhere \/ UNCHANGED vars)
  BY DEF Reindex, EditElsewhere, vars
<1> QED
  BY <1>2, <1>3, <1>4 DEF Next, Work

(* The last request of a call, with what its section holds then.           *)
LEMMA ReportIs ==
    ASSUME SectionsInv, SectionsApart, [Next]_vars, NEW c \in Calls, NEW r,
           r \in {"replaced", "appended", "created"}, Reports(c, r)
    PROVE  /\ InHand(c) /\ heading'[c] = heading[c] /\ call[c] \in Args /\ c \notin botched'
           /\ \/ /\ r = "replaced" /\ call[c].tool = "upsert"
                 /\ \/ ReadSection(c) /\ Delete(c, Reverse([k \in DOMAIN Mine(c) |-> Mine(c)[k].id]))
                    \/ DeleteBlock(c) /\ Delete(c, Tail(todo[c]))
                 /\ pc'[c] = "done"
              \/ /\ r = "replaced" /\ InsertBlock(c) /\ Insertion(c) /\ call[c].tool = "upsert"
              \/ /\ r = "appended" /\ InsertBlock(c) /\ Insertion(c) /\ call[c].tool = "append"
              \/ /\ r = "created" /\ AppendSection(c)
<1>1. TypeOK
  BY DEF SectionsInv
<1>2. Work(c) /\ result'[c] = r /\ result[c] # r /\ c \notin botched' /\ c \notin clash' /\ edits' = Edits
  BY ReportBy DEF Reports
<1>3. Working(c) /\ clash' = clash
  BY <1>2, WorkIs
<1>4. edits = Edits
  BY <1>2, HeadingsStep
<1>5. InHand(c)
  BY <1>2, <1>3, <1>4 DEF SectionsApart, ApartInv
<1>6. call[c] \in Args
  BY <1>3 DEF SectionsInv, Control, Working, Requests
<1>7. call[c].tool \in {"upsert", "append"}
  BY <1>6 DEF Args
<1>8. ASSUME NEW q \in {"rejected", "failed", "created", "replaced", "appended"}, End(c, q)
      PROVE  q = r /\ pc'[c] = "done"
  BY <1>1, <1>2, <1>8 DEF End, TypeOK
<1>9. \A q : ~Goto(c, q)
  BY <1>2 DEF Goto
<1>10. ~QueryHeadings(c) /\ ~QueryChildren(c) /\ ~Fail(c)
  BY <1>8, <1>9 DEF QueryHeadings, QueryChildren, Settle, Fail
<1>11. CASE ReadSection(c)
  <2>1. call[c].tool = "upsert" /\ Delete(c, Reverse([k \in DOMAIN Mine(c) |-> Mine(c)[k].id]))
    BY <1>9, <1>11 DEF ReadSection, Mine
  <2>2. End(c, "replaced")
    BY <1>9, <2>1 DEF Delete
  <2>3. heading'[c] = heading[c]
    BY <1>11 DEF ReadSection
  <2> QED
    BY <1>2, <1>5, <1>6, <1>8, <1>11, <2>1, <2>2, <2>3
<1>12. CASE DeleteBlock(c)
  <2>1. Delete(c, Tail(todo[c])) /\ heading'[c] = heading[c] /\ pc[c] = "delete"
    BY <1>12 DEF DeleteBlock
  <2>2. End(c, "replaced")
    BY <1>9, <2>1 DEF Delete
  <2>3. call[c].tool = "upsert"
    BY <1>5, <2>1 DEF InHand
  <2> QED
    BY <1>2, <1>5, <1>6, <1>8, <1>12, <2>1, <2>2, <2>3
<1>13. CASE InsertBlock(c)
  <2>1. heading'[c] = heading[c]
    BY <1>13 DEF InsertBlock
  <2>2. ~End(c, "failed")
    BY <1>8
  <2>3. Insertion(c) /\ End(c, IF call[c].tool = "upsert" THEN "replaced" ELSE "appended")
    BY <1>13, <2>2 DEF InsertBlock
  <2>4. r = IF call[c].tool = "upsert" THEN "replaced" ELSE "appended"
    BY <1>8, <2>3
  <2> QED
    BY <1>2, <1>5, <1>6, <1>7, <1>13, <2>1, <2>3, <2>4
<1>14. CASE AppendSection(c)
  <2>1. heading'[c] = heading[c] /\ End(c, "created")
    BY <1>14 DEF AppendSection
  <2> QED
    BY <1>2, <1>5, <1>6, <1>8, <1>14, <2>1
<1> QED
  BY <1>2, <1>10, <1>11, <1>12, <1>13, <1>14 DEF Work

LEMMA ReplacedAtOnce ==
    ASSUME SectionsInv, NEW c \in Calls, InHand(c), call[c] \in Args, c \notin botched',
           heading'[c] = heading[c], pc'[c] = "done",
           \/ ReadSection(c) /\ Delete(c, Reverse([k \in DOMAIN Mine(c) |-> Mine(c)[k].id]))
           \/ DeleteBlock(c) /\ Delete(c, Tail(todo[c]))
    PROVE  TextsOf(Section(doc, heading[c])') = Markdown(c)
<1>1. TypeOK /\ doc \in Seq(Block) /\ Distinct(doc)
  BY DEF SectionsInv, TypeOK
<1>2. ASSUME NEW rest, Delete(c, rest) PROVE rest = << >> /\ ~(call[c].size > 0)
  BY <1>1, <1>2 DEF Delete, Goto, TypeOK
<1>3. Section(doc', heading[c]) = << >>
  <2>1. CASE ReadSection(c) /\ Delete(c, Reverse([k \in DOMAIN Mine(c) |-> Mine(c)[k].id]))
    <3>1. Mine(c) \in Seq(Block) /\ Distinct(Mine(c))
      BY <1>1, SectionDistinct DEF Mine
    <3>2. Reverse([k \in DOMAIN Mine(c) |-> Mine(c)[k].id]) = << >>
      BY <1>2, <2>1
    <3>3. Mine(c) = << >>
      BY <3>1, <3>2, ReverseKids
    <3>4. doc' = doc
      BY <2>1 DEF ReadSection
    <3> QED
      BY <3>3, <3>4 DEF Mine
  <2>2. CASE DeleteBlock(c) /\ Delete(c, Tail(todo[c]))
    <3>1. Tail(todo[c]) = << >>
      BY <1>2, <2>2
    <3>2. Ids(Section(doc', heading[c])) \subseteq ToSet(Tail(todo[c]))
      BY <2>2, DeleteLeaves
    <3>3. ToSet(<< >>) = {}
      BY DEF ToSet
    <3>4. doc' \in Seq(Block) /\ Distinct(doc')
      BY <2>2, DeleteStep DEF StepOK, TypeOK
    <3> QED
      BY <3>1, <3>2, <3>3, <3>4, SectionDistinct, NoIds
  <2> QED
    BY <2>1, <2>2
<1>4. ~(call[c].size > 0)
  BY <1>2
<1>5. Section(doc, heading[c])' = << >>
  BY <1>3
<1> QED
  BY <1>4, <1>5, NoBody

LEMMA AnchorIs ==
    ASSUME TypeOK, NEW c \in Calls, InHand(c), pc[c] = "insert", anchor[c] \in Ids(doc),
           call[c] \in Args, c \notin botched
    PROVE  heading[c] \in Ids(doc) /\ anchor[c] = Tip(doc, heading[c])
<1>1. doc \in Seq(Block) /\ Distinct(doc)
  BY DEF TypeOK
<1>2. call[c].tool \in {"upsert", "append"}
  BY DEF Args
<1>3. anchor[c] = Tip(doc, heading[c])
  BY <1>2 DEF InHand, Mine, Tip
<1>4. CASE Section(doc, heading[c]) = << >>
  BY <1>3, <1>4 DEF Tip
<1>5. CASE Section(doc, heading[c]) # << >>
  BY <1>3, <1>5 DEF Section
<1> QED
  BY <1>4, <1>5

LEMMA InsertedExactly ==
    ASSUME SectionsInv, NEW c \in Calls, InHand(c), call[c] \in Args, c \notin botched',
           heading'[c] = heading[c], InsertBlock(c), Insertion(c)
    PROVE  /\ TextsOf(Section(doc, heading[c])') = TextsOf(Section(doc, heading[c])) \o Markdown(c)
           /\ call[c].tool = "upsert" => TextsOf(Section(doc, heading[c])') = Markdown(c)
<1>1. TypeOK /\ Fresh /\ doc \in Seq(Block) /\ Distinct(doc) /\ next \in Nat
  BY DEF SectionsInv, TypeOK
<1>2. pc[c] = "insert" /\ c \notin botched /\ anchor[c] \in Ids(doc)
  BY DEF InsertBlock, Insertion
<1>3. heading[c] \in Ids(doc) /\ anchor[c] = Tip(doc, heading[c])
  BY <1>1, <1>2, AnchorIs
<1> DEFINE body == Body(c, next)
           s    == Section(doc, heading[c])
<1>4. /\ body \in Seq(Block) /\ Distinct(body)
      /\ \A b \in ToSet(body) : b.level = 0
      /\ Ids(body) = next .. next + call[c].size - 1
  BY <1>1, BodyIs
<1>5. Ids(doc) \cap Ids(body) = {}
  BY <1>1, <1>4 DEF Fresh
<1>6. \A i \in 1..Len(body) : body[i].level = 0
  BY <1>4, DocProperties
<1>7. doc' = InsertAfter(doc, anchor[c], body)
  BY DEF Insertion
<1>8. TextsOf(body) = Markdown(c)
  BY <1>1, BodyTexts
<1> HIDE DEF body
<1>9. Section(InsertAfter(doc, Tip(doc, heading[c]), body), heading[c]) = s \o body
  BY <1>1, <1>3, <1>4, <1>5, <1>6, OwnGain
<1>10. Section(doc, heading[c])' = s \o body
  <2>1. doc' = InsertAfter(doc, Tip(doc, heading[c]), body)
    BY <1>3, <1>7
  <2>2. Section(doc', heading'[c]) = Section(InsertAfter(doc, Tip(doc, heading[c]), body), heading[c])
    BY <2>1
  <2> QED
    BY <1>9, <2>2
<1>11. s \in Seq(Block)
  BY <1>1, SectionDistinct
<1>12. call[c].tool = "upsert" => s = << >>
  BY <1>2 DEF InHand, Mine
<1> HIDE DEF s
<1>13. TextsOf(s \o body) = TextsOf(s) \o Markdown(c)
  BY <1>4, <1>8, <1>11, TextsJoin
<1>14. s = << >> => s \o body = body
  BY <1>4
<1> QED
  BY <1>8, <1>10, <1>12, <1>13, <1>14 DEF s

LEMMA CreatedExactly ==
    ASSUME SectionsInv, NEW c \in Calls, call[c] \in Args, AppendSection(c)
    PROVE  \E h \in Matching(ToSet(doc'), call[c].name) :
              TextsOf(Section(doc', h.id)) = Markdown(c)
<1>1. TypeOK /\ Fresh /\ doc \in Seq(Block) /\ next \in Nat /\ next + 1 \in Nat
  BY DEF SectionsInv, TypeOK
<1>2. Creation(c)
  BY DEF AppendSection
<1> DEFINE h    == [id |-> next, level |-> NewLevel, text |-> call[c].name]
           body == Body(c, next + 1)
<1>3. doc' = (doc \o <<h>>) \o body
  BY <1>2 DEF Creation
<1>4. body \in Seq(Block) /\ \A b \in ToSet(body) : b.level = 0
  BY <1>1, BodyIs
<1>5. \A i \in 1..Len(body) : body[i].level = 0
  BY <1>4, DocProperties
<1>6. doc' \in Seq(Block) /\ Distinct(doc')
  BY WritesStep DEF StepOK, TypeOK
<1>7. h \in ToSet(doc')
  BY <1>1, <1>2, CreationStep
<1>8. h \in Matching(ToSet(doc'), call[c].name)
  BY <1>7, SizesAssumption DEF Matching, IsHeading
<1>9. h \in Block
  BY <1>6, <1>7, DocProperties
<1>10. TextsOf(body) = Markdown(c)
  BY <1>1, BodyTexts
<1> HIDE DEF h, body
<1>11. Section(doc', h.id) = body
  BY <1>1, <1>3, <1>4, <1>5, <1>6, <1>9, OwnCreation
<1> QED
  BY <1>8, <1>10, <1>11

LEMMA Exact ==
    ASSUME SectionsInv, SectionsApart, [Next]_vars, NEW c \in Calls
    PROVE  /\ Reports(c, "replaced") => TextsOf(Section(doc, heading[c])') = Markdown(c)
           /\ Reports(c, "appended") => TextsOf(Section(doc, heading[c])')
                                          = TextsOf(Section(doc, heading[c])) \o Markdown(c)
           /\ Reports(c, "created")  => \E h \in Matching(ToSet(doc'), call[c].name) :
                                          TextsOf(Section(doc', h.id)) = Markdown(c)
<1>1. ASSUME Reports(c, "replaced") PROVE TextsOf(Section(doc, heading[c])') = Markdown(c)
  BY <1>1, ReportIs, ReplacedAtOnce, InsertedExactly
<1>2. ASSUME Reports(c, "appended")
      PROVE  TextsOf(Section(doc, heading[c])') = TextsOf(Section(doc, heading[c])) \o Markdown(c)
  BY <1>2, ReportIs, InsertedExactly
<1>3. ASSUME Reports(c, "created")
      PROVE  \E h \in Matching(ToSet(doc'), call[c].name) :
                TextsOf(Section(doc', h.id)) = Markdown(c)
  BY <1>3, ReportIs, CreatedExactly
<1> QED
  BY <1>1, <1>2, <1>3

(* A call that reports a replaced section left in it exactly the caller's  *)
(* blocks, one that reports an append left the old ones and then the       *)
(* caller's, one that reports a creation made a section of them: for any   *)
(* document, however stale the index, and whatever calls on other sections *)
(* write around it meanwhile.                                              *)
THEOREM SectionsAreExact == Spec => SectionIsExact
<1>1. SectionsInv /\ SectionsApart /\ [Next]_vars =>
        [\A c \in Calls :
          /\ Reports(c, "replaced") => TextsOf(Section(doc, heading[c])') = Markdown(c)
          /\ Reports(c, "appended") => TextsOf(Section(doc, heading[c])')
                                         = TextsOf(Section(doc, heading[c])) \o Markdown(c)
          /\ Reports(c, "created")  => \E h \in Matching(ToSet(doc'), call[c].name) :
                                         TextsOf(Section(doc', h.id)) = Markdown(c)
        ]_vars
  BY Exact
<1> QED
  BY <1>1, SectionsApartInvariant, PTL DEF Spec, SectionIsExact

-----------------------------------------------------------------------------
(* UpdateBlock                                                             *)

(* An inductive invariant of UpdateBlock.                                  *)
UpdateFresh ==
    /\ Ids(doc) \cup Ids(Doc0) \cup wiped \cup moved \subseteq 0 .. next - 1
    /\ \A c \in Calls : ToSet(inserted[c]) \subseteq 0 .. next - 1
    /\ Updated \ {Root} \subseteq 0 .. next - 1

(* Until its first write a call has inserted nothing and had nothing taken;*)
(* then the kernel has the first block of its data and the ones inserted.  *)
InControl(c) ==
    /\ pc[c] = "rest" => /\ Len(inserted[c]) + 2 <= call[c].parts
                         /\ taken[c] = [k \in 1 .. Len(inserted[c]) + 1 |-> k]
    /\ pc[c] \notin {"rest", "done"} => inserted[c] = << >> /\ taken[c] = << >>
    /\ pc[c] = "idle" => call[c] = None
    /\ pc[c] # "idle" => call[c] \in ArgsOn(Nat, {Root})
    /\ pc[c] \in {"dom", "info", "whole", "first", "rest"} => call[c].tool = "update_block"
    /\ pc[c] \in {"dom", "info", "first", "rest"} => call[c].parts > 1 /\ call[c].shape # "dom"
    /\ pc[c] = "dom" => call[c].shape = "list"
    /\ pc[c] = "info" => call[c].shape \in {"blocks", "mixed"}
    /\ pc[c] = "insert" => call[c].tool \in {"insert_block", "append_block"}
    /\ pc[c] = "move" => call[c].tool = "move_block"

(* Which request takes a list is right for as long as its target is there. *)
ListKnown(c) ==
    /\ pc[c] \in {"first", "rest"} => call[c].target # Root
    /\ pc[c] \in {"first", "rest"} /\ call[c].shape = "list" =>
          items \/ ({call[c].target} \cup ToSet(inserted[c])) \cap Ids(doc) = {}
    /\ pc[c] = "whole" /\ call[c].parts > 1 =>
          \/ call[c].target = Root
          \/ call[c].shape = "list" /\ ~items
          \/ call[c].shape = "dom"

UpdateInv ==
    /\ UpdateTypeOK /\ UpdateFresh
    /\ \A c \in Calls : InControl(c) /\ ListKnown(c)
    /\ Ids(doc) \cap wiped = {}
    /\ OrderIsKept /\ RestIsKept

(* What any step does to the document.                                     *)
UpdateStep ==
    /\ doc' \in Seq(Block) /\ Distinct(doc') /\ next' \in Nat /\ next' >= next
    /\ Ids(doc') \subseteq Ids(doc) \cup (next .. next' - 1)
    /\ wiped' = wiped \cup (Ids(doc) \ Ids(doc'))
    /\ moved \subseteq moved' /\ moved' \subseteq moved \cup Ids(doc)
    /\ \A x, y \in Ids(doc') : x \notin moved' /\ y \notin moved' /\ Before(doc, x, y) => Before(doc', x, y)
    /\ \A b \in ToSet(doc') : b.id \in Ids(doc) => b \in ToSet(doc) \/ b.id \in Updated
    /\ items' \in BOOLEAN /\ (items' => items)
    /\ items' \/ ~items \/ Ids(doc') \cap Ids(doc) = {}
    /\ cut' \subseteq Calls

LEMMA Growing ==
    ASSUME UpdateTypeOK, UpdateFresh, NEW new \in Seq(Block), Distinct(new),
           NEW n \in Nat, n >= next, Ids(new) \subseteq next .. n - 1, next' = n,
           NEW k \in 0..Len(doc), doc' = Splice(doc, k, new), UNCHANGED <<items, cut, wiped, moved>>
    PROVE  UpdateStep /\ Ids(doc') = Ids(doc) \cup Ids(new)
<1>1. /\ doc \in Seq(Block) /\ Distinct(doc) /\ next \in Nat /\ items \in BOOLEAN /\ cut \subseteq Calls
  BY DEF UpdateTypeOK
<1>2. Ids(doc) \cap Ids(new) = {}
  BY <1>1 DEF UpdateFresh
<1>3. /\ doc' \in Seq(Block) /\ Distinct(doc') /\ ToSet(doc') = ToSet(doc) \cup ToSet(new)
      /\ Ids(doc') = Ids(doc) \cup Ids(new)
      /\ \A x, y : Before(doc, x, y) => Before(doc', x, y)
  BY <1>1, <1>2, SpliceBlocks
<1>4. \A b \in ToSet(doc') : b.id \in Ids(doc) => b \in ToSet(doc)
  BY <1>2, <1>3 DEF Ids
<1> QED
  BY <1>1, <1>3, <1>4 DEF UpdateStep

LEMMA Losing ==
    ASSUME UpdateTypeOK, NEW id \in Ids(doc), doc' = Without(doc, id),
           wiped' = wiped \cup {id}, UNCHANGED <<items, next, cut, moved>>
    PROVE  UpdateStep
<1>1. /\ doc \in Seq(Block) /\ Distinct(doc) /\ next \in Nat /\ items \in BOOLEAN /\ cut \subseteq Calls
  BY DEF UpdateTypeOK
<1>2. /\ doc' \in Seq(Block) /\ Distinct(doc')
      /\ ToSet(doc') = {b \in ToSet(doc) : b.id # id} /\ Ids(doc') = Ids(doc) \ {id}
      /\ \A x, y : x # id /\ y # id /\ Before(doc, x, y) => Before(doc', x, y)
  BY <1>1, WithoutBlocks
<1> QED
  BY <1>1, <1>2 DEF UpdateStep

LEMMA Staying ==
    ASSUME UpdateTypeOK, UNCHANGED <<doc, items, next, cut, wiped, moved>>
    PROVE  UpdateStep
<1>1. /\ doc \in Seq(Block) /\ Distinct(doc) /\ next \in Nat /\ items \in BOOLEAN /\ cut \subseteq Calls
  BY DEF UpdateTypeOK
<1> QED
  BY <1>1 DEF UpdateStep

(* One new block.                                                          *)
LEMMA One ==
    ASSUME NEW b \in Block
    PROVE  /\ <<b>> \in Seq(Block) /\ Len(<<b>>) = 1 /\ Distinct(<<b>>)
           /\ ToSet(<<b>>) = {b} /\ Ids(<<b>>) = {b.id}
<1>1. <<b>> \in Seq(Block) /\ Len(<<b>>) = 1 /\ <<b>>[1] = b
  OBVIOUS
<1>2. DOMAIN <<b>> = {1}
  BY <1>1, DocProperties
<1> QED
  BY <1>1, <1>2 DEF Distinct, ToSet, Ids

LEMMA OneMore ==
    ASSUME UpdateTypeOK, UpdateFresh, NEW b \in Block, b.id = next, next' = next + 1,
           NEW k \in 0..Len(doc), doc' = Splice(doc, k, <<b>>), UNCHANGED <<items, cut, wiped, moved>>
    PROVE  UpdateStep /\ Ids(doc') = Ids(doc) \cup {next}
<1>1. next \in Nat
  BY DEF UpdateTypeOK
<1>2. <<b>> \in Seq(Block) /\ Distinct(<<b>>) /\ Ids(<<b>>) = {next}
  BY One
<1>3. next + 1 \in Nat /\ next + 1 >= next /\ Ids(<<b>>) \subseteq next .. (next + 1) - 1
  BY <1>1, <1>2
<1> QED
  BY <1>2, <1>3, Growing

LEMMA NewBlockIs ==
    ASSUME NEW c \in Calls \cup {None}, NEW k \in 1..MaxParts, NEW id \in Nat
    PROVE  NewBlock(c, k, id) \in Block /\ NewBlock(c, k, id).id = id
<1>1. <<c, k>> \in Texts
  BY PartsAssumption
<1> QED
  BY <1>1 DEF NewBlock, Block

LEMMA UpdateArgs ==
    ASSUME NEW a \in ArgsOn(Nat, {Root}), a.tool = "update_block"
    PROVE  /\ a.target \in Nat \cup {Root} /\ a.shape \in Shapes /\ a.parts \in 1..MaxParts
           /\ a.shape = "list" => a.parts > 1
BY DEF ArgsOn

LEMMA UpdatesStep ==
    ASSUME UpdateTypeOK, NEW c \in Calls,
           call[c] # None, call[c].tool = "update_block", Updates(c)
    PROVE  UpdateStep /\ next' = next /\ items' = items /\ Ids(doc') = Ids(doc)
<1> DEFINE i == Place(doc, call[c].target)
           t == <<c, 1>>
           e == Retitled(doc, i, t)
<1>1. doc \in Seq(Block) /\ Distinct(doc) /\ next \in Nat /\ items \in BOOLEAN /\ cut \subseteq Calls
  BY DEF UpdateTypeOK
<1>2. call[c].target \in Ids(doc) /\ UNCHANGED <<items, next, wiped, moved>>
  BY DEF Updates, Target
<1>3. doc' = e
  BY DEF Updates, Target, Retitled
<1>4. i \in 1..Len(doc) /\ doc[i].id = call[c].target /\ DOMAIN doc = 1..Len(doc)
  BY <1>1, <1>2, PlaceIs, DocProperties
<1>5. t \in Texts
  BY PartsAssumption
<1> HIDE DEF i, t
<1>6. /\ e \in Seq(Block) /\ Len(e) = Len(doc) /\ Distinct(e) /\ Ids(e) = Ids(doc)
      /\ \A j \in 1..Len(doc) : e[j].id = doc[j].id /\ (j # i => e[j] = doc[j])
      /\ \A x, y : Before(doc, x, y) => Before(e, x, y)
  <2>1. i \in DOMAIN doc
    BY <1>4
  <2>2. /\ e \in Seq(Block) /\ Len(e) = Len(doc) /\ Distinct(e) /\ Ids(e) = Ids(doc)
        /\ \A j \in 1..Len(doc) : /\ e[j].id = doc[j].id /\ e[j].level = doc[j].level
                                  /\ j # i => e[j] = doc[j]
        /\ \A x, y : Before(doc, x, y) => Before(e, x, y)
    BY <1>1, <1>5, <2>1, TextChanged
  <2> QED
    BY <2>2
<1>7. call[c].target \in Updated
  BY DEF Updated
<1> HIDE DEF e
<1>9. cut' \subseteq Calls
  BY <1>1 DEF Updates
<1>8. ASSUME NEW b \in ToSet(e) PROVE b \in ToSet(doc) \/ b.id \in Updated
  <2>1. PICK j \in 1..Len(doc) : b = e[j]
    BY <1>6, DocProperties
  <2>2. CASE j = i
    BY <1>4, <1>6, <1>7, <2>1, <2>2
  <2>3. CASE j # i
    BY <1>4, <1>6, <2>1, <2>3 DEF ToSet
  <2> QED
    BY <2>2, <2>3
<1> QED
  BY <1>1, <1>2, <1>3, <1>6, <1>8, <1>9 DEF UpdateStep

LEMMA ReplacesStep ==
    ASSUME UpdateTypeOK, UpdateFresh, NEW c \in Calls,
           call[c] # None, call[c].tool = "update_block", ReplacesBody(c)
    PROVE  UpdateStep /\ items' = FALSE /\ call[c].target = Root
<1> DEFINE n   == IF call[c].shape = "list" THEN 1 ELSE call[c].parts
           new == [k \in 1..n |-> NewBlock(c, k, next + k - 1)]
<1>1. doc \in Seq(Block) /\ Distinct(doc) /\ next \in Nat /\ cut \subseteq Calls
  BY DEF UpdateTypeOK
<1>2. n \in 1..MaxParts
  <2>1. call[c].parts \in 1..MaxParts
    BY UpdateArgs DEF UpdateTypeOK
  <2> QED
    BY <2>1, PartsAssumption
<1>3. /\ doc' = new /\ next' = next + n /\ items' = FALSE /\ wiped' = wiped \cup Ids(doc)
      /\ UNCHANGED <<cut, moved>> /\ call[c].target = Root
  BY DEF ReplacesBody, Target, Parts
<1> HIDE DEF n
<1>4. MaxParts \in Nat
  BY PartsAssumption
<1>5. \A k \in 1..n : next + k - 1 \in Nat /\ k \in 1..MaxParts
  BY <1>1, <1>2, <1>4
<1>6. \A k \in 1..n : new[k] \in Block /\ new[k].id = next + k - 1
  BY <1>5, NewBlockIs
<1>7. new \in [1..n -> Block] /\ DOMAIN new = 1..n /\ n \in Nat
  BY <1>2, <1>4, <1>6
<1> HIDE DEF new
<1>8. new \in Seq(Block) /\ Len(new) = n
  BY <1>7, SeqDef, LenProperties
<1>9. Distinct(new)
  BY <1>1, <1>6, <1>7 DEF Distinct
<1>10. ASSUME NEW x \in Ids(new) PROVE x \in next .. (next + n) - 1
  <2>1. PICK k \in 1..n : new[k].id = x
    BY <1>8, DocProperties
  <2> QED
    BY <1>1, <1>6, <1>7, <2>1
<1>11. Ids(new) \cap Ids(doc) = {}
  BY <1>1, <1>10 DEF UpdateFresh
<1>12. \A x, y : Before(doc, x, y) => x \in Ids(doc)
  BY <1>1, Order
<1>13. \A b \in ToSet(new) : b.id \in Ids(new)
  BY DEF Ids
<1>14. next + n \in Nat /\ next + n >= next
  BY <1>1, <1>7
<1>15. Ids(doc') \cap Ids(doc) = {} /\ Ids(doc') \subseteq next .. next' - 1
  BY <1>3, <1>10, <1>11
<1>16. /\ \A x, y \in Ids(doc') : x \notin moved' /\ y \notin moved' /\ Before(doc, x, y) => Before(doc', x, y)
       /\ \A b \in ToSet(doc') : b.id \in Ids(doc) => b \in ToSet(doc) \/ b.id \in Updated
  BY <1>3, <1>12, <1>13, <1>15
<1>17. cut' \subseteq Calls /\ moved \subseteq moved' /\ moved' \subseteq moved \cup Ids(doc)
  BY <1>1, <1>3
<1>18. wiped' = wiped \cup (Ids(doc) \ Ids(doc')) /\ Ids(doc') \subseteq Ids(doc) \cup (next .. next' - 1)
  BY <1>3, <1>15
<1> QED
  BY <1>3, <1>8, <1>9, <1>14, <1>15, <1>16, <1>17, <1>18 DEF UpdateStep

LEMMA InsertsStep ==
    ASSUME UpdateTypeOK, UpdateFresh, NEW c \in Calls,
           Len(inserted[c]) + 2 \in 1..MaxParts, Inserts(c)
    PROVE  /\ UpdateStep /\ items' = items /\ next' = next + 1
           /\ Previous(c) \in Ids(doc) /\ Ids(doc') = Ids(doc) \cup {next}
           /\ \A x : x = Previous(c) \/ Before(doc, x, Previous(c)) => Before(doc', x, next)
<1> DEFINE k == Len(inserted[c]) + 2
           b == NewBlock(c, k, next)
           p == Previous(c)
<1>1. doc \in Seq(Block) /\ Distinct(doc) /\ next \in Nat
  BY DEF UpdateTypeOK
<1>2. /\ p \in Ids(doc) /\ doc' = InsertAfter(doc, p, <<b>>) /\ next' = next + 1
      /\ UNCHANGED <<items, cut, wiped, moved>>
  BY DEF Inserts
<1>3. b \in Block /\ b.id = next
  BY <1>1, NewBlockIs
<1> HIDE DEF b, p
<1>4. doc' = Splice(doc, Place(doc, p), <<b>>)
  BY <1>1, <1>2, InsertAfterIs
<1>5. PICK i \in 1..Len(doc) : i = Place(doc, p) /\ doc[i].id = p
  BY <1>1, <1>2, PlaceIs
<1>10. i \in 0..Len(doc) /\ i \in 1..i /\ doc' = Splice(doc, i, <<b>>)
  <2>1. Len(doc) \in Nat /\ i \in 1..Len(doc)
    BY <1>1, <1>5, LenProperties
  <2>2. i \in 0..Len(doc) /\ i \in 1..i
    BY <2>1
  <2> QED
    BY <1>4, <1>5, <2>2
<1>6. UpdateStep /\ Ids(doc') = Ids(doc) \cup {next}
  BY <1>2, <1>3, <1>10, OneMore
<1>7. /\ \A j \in 1..i : Before(doc', doc[j].id, next)
      /\ \A x, y : Before(doc, x, y) => Before(doc', x, y)
  <2>1. /\ <<b>> \in Seq(Block) /\ Distinct(<<b>>) /\ Ids(<<b>>) = {next}
    BY <1>3, One
  <2>2. Ids(doc) \cap Ids(<<b>>) = {}
    BY <1>1, <2>1 DEF UpdateFresh
  <2>3. LET e == Splice(doc, i, <<b>>)
        IN  /\ \A j \in 1..i, y \in Ids(<<b>>) : Before(e, doc[j].id, y)
            /\ \A x, y : Before(doc, x, y) \/ Before(<<b>>, x, y) => Before(e, x, y)
    BY <1>1, <1>10, <2>1, <2>2, SpliceBlocks
  <2> QED
    BY <1>10, <2>1, <2>3
<1>8. Before(doc', p, next)
  BY <1>5, <1>7, <1>10
<1>9. doc' \in Seq(Block) /\ Distinct(doc')
  BY <1>6 DEF UpdateStep
<1> QED
  BY <1>2, <1>6, <1>7, <1>8, <1>9, Order DEF p

LEMMA AddsStep ==
    ASSUME UpdateTypeOK, UpdateFresh, NEW c \in Calls, Adds(c)
    PROVE  UpdateStep /\ items' = items
<1> DEFINE b == NewBlock(c, 1, next)
           t == call[c].target
<1>1. doc \in Seq(Block) /\ Distinct(doc) /\ next \in Nat /\ Len(doc) \in Nat
  BY LenProperties DEF UpdateTypeOK
<1>2. b \in Block /\ b.id = next
  <2>1. 1 \in 1..MaxParts
    BY PartsAssumption
  <2> QED
    BY <1>1, <2>1, NewBlockIs
<1>3. /\ \/ t \in Ids(doc) /\ doc' = InsertAfter(doc, t, <<b>>)
         \/ t \in Ids(doc) /\ doc' = InsertAt(doc, (Place(doc, t) - 1) + 1, b)
         \/ doc' = Append(doc, b)
         \/ doc' = <<b>> \o doc
      /\ next' = next + 1
      /\ UNCHANGED <<items, cut, wiped, moved>>
  BY DEF Adds, Target
<1> HIDE DEF b, t
<1>4. <<b>> \in Seq(Block)
  BY <1>2, One
<1>5. \E k \in 0..Len(doc) : doc' = Splice(doc, k, <<b>>)
  <2>1. CASE t \in Ids(doc) /\ doc' = InsertAfter(doc, t, <<b>>)
    <3>1. Place(doc, t) \in 0..Len(doc)
      BY <1>1, <2>1, PlaceIs
    <3> QED
      BY <1>1, <2>1, <3>1, InsertAfterIs
  <2>2. CASE t \in Ids(doc) /\ doc' = InsertAt(doc, (Place(doc, t) - 1) + 1, b)
    <3> DEFINE k == Place(doc, t) - 1
    <3>1. Place(doc, t) \in 1..Len(doc)
      BY <1>1, <2>2, PlaceIs
    <3>2. k \in 0..Len(doc) /\ (k + 1) - 1 = k
      BY <1>1, <3>1
    <3>3. doc' = InsertAt(doc, k + 1, b)
      BY <2>2
    <3> HIDE DEF k
    <3>4. doc' = Splice(doc, k, <<b>>)
      BY <3>2, <3>3 DEF InsertAt, Splice
    <3> QED
      BY <3>2, <3>4
  <2>3. CASE doc' = Append(doc, b)
    <3>1. Append(doc, b) = doc \o <<b>>
      BY <1>1, <1>2, AppendIsConcat
    <3>2. doc \o <<b>> = Splice(doc, Len(doc), <<b>>)
      BY <1>1, <1>4, Ends
    <3> QED
      BY <1>1, <2>3, <3>1, <3>2
  <2>4. CASE doc' = <<b>> \o doc
    <3>1. <<b>> \o doc = Splice(doc, 0, <<b>>)
      BY <1>1, <1>4, Ends
    <3>2. 0 \in 0..Len(doc)
      BY <1>1
    <3> QED
      BY <2>4, <3>1, <3>2
  <2> QED
    BY <1>3, <2>1, <2>2, <2>3, <2>4
<1> QED
  BY <1>2, <1>3, <1>5, OneMore

LEMMA MovesStep ==
    ASSUME UpdateTypeOK, NEW c \in Calls, Moves(c)
    PROVE  UpdateStep /\ items' = items
<1> DEFINE t    == call[c].target
           rest == Without(doc, t)
           it   == doc[Place(doc, t)]
<1>1. doc \in Seq(Block) /\ Distinct(doc) /\ next \in Nat /\ items \in BOOLEAN /\ cut \subseteq Calls
  BY DEF UpdateTypeOK
<1>2. /\ t \in Ids(doc) /\ moved' = moved \cup {t} /\ UNCHANGED <<items, next, cut, wiped>>
      /\ \/ call[c].anchor \in Ids(rest) /\ doc' = InsertAfter(rest, call[c].anchor, <<it>>)
         \/ doc' = <<it>> \o rest
  BY DEF Moves, Target
<1>3. it \in Block /\ it.id = t /\ it \in ToSet(doc)
  BY <1>1, <1>2, PlaceIs, DocProperties
<1>4. /\ rest \in Seq(Block) /\ Distinct(rest)
      /\ ToSet(rest) = {b \in ToSet(doc) : b.id # t} /\ Ids(rest) = Ids(doc) \ {t}
      /\ \A x, y : x # t /\ y # t /\ Before(doc, x, y) => Before(rest, x, y)
  BY <1>1, WithoutBlocks
<1> HIDE DEF t, rest, it
<1>5. /\ <<it>> \in Seq(Block) /\ Distinct(<<it>>) /\ ToSet(<<it>>) = {it} /\ Ids(<<it>>) = {t}
  BY <1>3, One
<1>6. PICK k \in 0..Len(rest) : doc' = Splice(rest, k, <<it>>)
  <2>1. CASE call[c].anchor \in Ids(rest) /\ doc' = InsertAfter(rest, call[c].anchor, <<it>>)
    <3>1. Place(rest, call[c].anchor) \in 0..Len(rest)
      BY <1>4, <2>1, PlaceIs
    <3> QED
      BY <1>4, <2>1, <3>1, InsertAfterIs
  <2>2. CASE doc' = <<it>> \o rest
    <3>1. <<it>> \o rest = Splice(rest, 0, <<it>>)
      BY <1>4, <1>5, Ends
    <3>2. 0 \in 0..Len(rest)
      BY <1>4, LenProperties
    <3> QED
      BY <2>2, <3>1, <3>2
  <2> QED
    BY <1>2, <2>1, <2>2
<1>7. /\ doc' \in Seq(Block) /\ Distinct(doc') /\ ToSet(doc') = ToSet(rest) \cup {it}
      /\ Ids(doc') = Ids(rest) \cup {t}
      /\ \A x, y : Before(rest, x, y) => Before(doc', x, y)
  <2>1. Ids(rest) \cap Ids(<<it>>) = {}
    BY <1>4, <1>5
  <2> QED
    <3>1. LET e == Splice(rest, k, <<it>>)
          IN  /\ e \in Seq(Block) /\ Distinct(e) /\ ToSet(e) = ToSet(rest) \cup ToSet(<<it>>)
              /\ Ids(e) = Ids(rest) \cup Ids(<<it>>)
              /\ \A x, y : Before(rest, x, y) \/ Before(<<it>>, x, y) => Before(e, x, y)
      BY <1>4, <1>5, <1>6, <2>1, SpliceBlocks
    <3> QED
      BY <1>5, <1>6, <3>1
<1>8. Ids(doc') = Ids(doc) /\ ToSet(doc') \subseteq ToSet(doc)
  BY <1>2, <1>3, <1>4, <1>7
<1> QED
  BY <1>1, <1>2, <1>4, <1>7, <1>8 DEF UpdateStep

LEMMA UpdateEditStep ==
    ASSUME UpdateTypeOK, UpdateFresh, BlockElsewhere
    PROVE  UpdateStep
<1> DEFINE b == NewBlock(None, 1, next)
<1>1. doc \in Seq(Block) /\ Distinct(doc) /\ next \in Nat
  BY DEF UpdateTypeOK
<1>2. b \in Block /\ b.id = next
  <2>1. 1 \in 1..MaxParts
    BY PartsAssumption
  <2> QED
    BY <1>1, <2>1, NewBlockIs
<1>3. PICK id \in Ids(doc) :
          \/ /\ doc' = InsertAfter(doc, id, <<b>>)
             /\ next' = next + 1 /\ UNCHANGED wiped
          \/ doc' = Without(doc, id) /\ wiped' = wiped \cup {id} /\ UNCHANGED next
  BY DEF BlockElsewhere
<1>4. UNCHANGED <<items, cut, moved>>
  BY DEF BlockElsewhere
<1> HIDE DEF b
<1>5. CASE doc' = InsertAfter(doc, id, <<b>>) /\ next' = next + 1 /\ UNCHANGED wiped
  <2>1. doc' = Splice(doc, Place(doc, id), <<b>>) /\ Place(doc, id) \in 0..Len(doc)
    BY <1>1, <1>3, <1>5, InsertAfterIs, PlaceIs
  <2> QED
    BY <1>2, <1>4, <1>5, <2>1, OneMore
<1>6. CASE doc' = Without(doc, id) /\ wiped' = wiped \cup {id} /\ UNCHANGED next
  BY <1>3, <1>4, <1>6, Losing
<1> QED
  BY <1>3, <1>5, <1>6

(* The call c has inserted one more block, behind the ones before.         *)
Extends(c) ==
    /\ inserted'[c] = Append(inserted[c], next) /\ call'[c] = call[c] /\ next' = next + 1
    /\ Previous(c) \in Ids(doc)
    /\ \A x : x = Previous(c) \/ Before(doc, x, Previous(c)) => Before(doc', x, next)

(* What a step does to the calls, as the properties see it.                *)
CallsStep ==
    \A c \in Calls :
        /\ \/ call'[c] = call[c]
           \/ /\ call[c] = None /\ inserted[c] = << >> /\ inserted'[c] = << >>
              /\ call'[c].tool = "update_block" => call'[c].target \in Ids(doc) \cup {Root}
        /\ inserted'[c] = inserted[c] \/ Extends(c)

LEMMA ChainIs ==
    ASSUME NEW S, NEW t \in S, NEW s \in Seq(S)
    PROVE  LET chain == <<t>> \o s
           IN  /\ Len(s) \in Nat /\ Len(chain) = Len(s) + 1 /\ DOMAIN chain = 1 .. Len(s) + 1
               /\ chain[1] = t /\ \A i \in 1..Len(s) : chain[i + 1] = s[i]
               /\ \A i \in 1 .. Len(s) + 1 : chain[i] \in {t} \cup ToSet(s)
               /\ ToSet(chain) = {t} \cup ToSet(s)
               /\ Last(chain) = chain[Len(s) + 1]
<1> DEFINE u == <<t>>
           chain == u \o s
<1>1. u \in Seq(S) /\ Len(u) = 1 /\ u[1] = t
  OBVIOUS
<1>2. Len(s) \in Nat /\ DOMAIN s = 1..Len(s)
  BY LenProperties
<1> HIDE DEF u
<1>3. /\ chain \in Seq(S) /\ Len(chain) = 1 + Len(s)
      /\ \A i \in 1 .. 1 + Len(s) : chain[i] = IF i <= 1 THEN u[i] ELSE s[i - 1]
  <2>1. /\ u \o s \in Seq(S) /\ Len(u \o s) = Len(u) + Len(s)
        /\ \A i \in 1 .. Len(u) + Len(s) : (u \o s)[i] = IF i <= Len(u) THEN u[i] ELSE s[i - Len(u)]
    BY <1>1, ConcatProperties
  <2> QED
    BY <1>1, <2>1
<1> HIDE DEF chain
<1>4. Len(chain) = Len(s) + 1 /\ DOMAIN chain = 1 .. Len(s) + 1
  BY <1>2, <1>3, LenProperties
<1>5. chain[1] = t
  BY <1>1, <1>2, <1>3
<1>6. ASSUME NEW i \in 1..Len(s) PROVE chain[i + 1] = s[i]
  <2>1. i + 1 \in 1 .. 1 + Len(s) /\ ~(i + 1 <= 1) /\ (i + 1) - 1 = i
    BY <1>2
  <2> QED
    BY <1>3, <2>1
<1>7. ASSUME NEW i \in 1 .. Len(s) + 1 PROVE i = 1 \/ \E j \in 1..Len(s) : i = j + 1
  <2>1. i = 1 \/ (i - 1 \in 1..Len(s) /\ i = (i - 1) + 1)
    BY <1>2
  <2> QED
    BY <2>1
<1>8. \A i \in 1 .. Len(s) + 1 : chain[i] \in {t} \cup ToSet(s)
  BY <1>2, <1>5, <1>6, <1>7 DEF ToSet
<1>9. \A x \in {t} \cup ToSet(s) : \E i \in 1 .. Len(s) + 1 : chain[i] = x
  <2>1. 1 \in 1 .. Len(s) + 1 /\ \A j \in 1..Len(s) : j + 1 \in 1 .. Len(s) + 1
    BY <1>2
  <2> QED
    BY <1>2, <1>5, <1>6, <2>1 DEF ToSet
<1>10. \A x : x \in ToSet(chain) <=> x \in {t} \cup ToSet(s)
  BY <1>4, <1>8, <1>9 DEF ToSet
<1>11. ToSet(chain) = {t} \cup ToSet(s)
  BY <1>10
<1>12. Last(chain) = chain[Len(s) + 1]
  BY <1>4 DEF Last
<1> QED
  BY <1>2, <1>4, <1>5, <1>6, <1>8, <1>11, <1>12 DEF u, chain

LEMMA AppendIs ==
    ASSUME NEW S, NEW s \in Seq(S), NEW x \in S
    PROVE  /\ Append(s, x) \in Seq(S) /\ ToSet(Append(s, x)) = ToSet(s) \cup {x}
           /\ Len(Append(s, x)) = Len(s) + 1 /\ Append(s, x)[Len(s) + 1] = x
           /\ \A i \in 1..Len(s) : Append(s, x)[i] = s[i]
<1> DEFINE a == Append(s, x)
<1>1. /\ a \in Seq(S) /\ Len(a) = Len(s) + 1 /\ Len(s) \in Nat
      /\ \A i \in 1..Len(s) : a[i] = s[i]
      /\ a[Len(s) + 1] = x
  BY AppendProperties, LenProperties
<1> HIDE DEF a
<1>2. DOMAIN a = 1 .. Len(s) + 1 /\ DOMAIN s = 1..Len(s)
  BY <1>1, LenProperties
<1>3. \A y : y \in ToSet(a) <=> y \in ToSet(s) \cup {x}
  <2>1. \A i \in 1 .. Len(s) + 1 : i \in 1..Len(s) \/ i = Len(s) + 1
    BY <1>1
  <2>2. 1..Len(s) \subseteq 1 .. Len(s) + 1 /\ Len(s) + 1 \in 1 .. Len(s) + 1
    BY <1>1
  <2> QED
    BY <1>1, <1>2, <2>1, <2>2 DEF ToSet
<1>4. ToSet(a) = ToSet(s) \cup {x}
  BY <1>3
<1> QED
  BY <1>1, <1>4 DEF a

(* The last of what a call has written, and one more behind it.            *)
LEMMA ChainGrows ==
    ASSUME NEW S, NEW t \in S, NEW s \in Seq(S), NEW x \in S
    PROVE  LET chain == <<t>> \o s
               longer == <<t>> \o Append(s, x)
           IN  /\ Append(s, x) \in Seq(S) /\ ToSet(Append(s, x)) = ToSet(s) \cup {x}
               /\ DOMAIN longer = 1 .. Len(s) + 2
               /\ \A i \in 1 .. Len(s) + 1 : longer[i] = chain[i]
               /\ longer[Len(s) + 2] = x
<1> DEFINE a == Append(s, x)
           chain == <<t>> \o s
           longer == <<t>> \o a
<1>1. /\ a \in Seq(S) /\ Len(a) = Len(s) + 1 /\ Len(s) \in Nat
      /\ \A i \in 1..Len(s) : a[i] = s[i]
      /\ a[Len(s) + 1] = x
      /\ ToSet(a) = ToSet(s) \cup {x}
  BY AppendIs, LenProperties
<1> HIDE DEF a
<1>5. /\ chain[1] = t /\ \A i \in 1..Len(s) : chain[i + 1] = s[i]
  BY ChainIs
<1>6. /\ DOMAIN longer = 1 .. Len(a) + 1
      /\ longer[1] = t /\ \A i \in 1..Len(a) : longer[i + 1] = a[i]
  BY <1>1, ChainIs
<1> HIDE DEF chain, longer
<1>7. DOMAIN longer = 1 .. Len(s) + 2
  BY <1>1, <1>6
<1>8. ASSUME NEW i \in 1 .. Len(s) + 1 PROVE longer[i] = chain[i]
  <2>1. i = 1 \/ (i - 1 \in 1..Len(s) /\ i - 1 \in 1..Len(a) /\ i = (i - 1) + 1)
    BY <1>1
  <2> QED
    BY <1>1, <1>5, <1>6, <2>1
<1>9. longer[Len(s) + 2] = x
  <2>1. Len(s) + 1 \in 1..Len(a) /\ (Len(s) + 1) + 1 = Len(s) + 2
    BY <1>1
  <2> QED
    BY <1>1, <1>6, <2>1
<1> QED
  BY <1>1, <1>7, <1>8, <1>9 DEF a, chain, longer

LEMMA FreshStep ==
    ASSUME UpdateInv, UpdateStep, CallsStep
    PROVE  /\ UpdateFresh' /\ Updated \subseteq Updated'
           /\ \A x \in Ids(doc') : x < next => x \in Ids(doc)
<1>1. /\ next \in Nat /\ next' \in Nat /\ next' >= next
      /\ Ids(doc') \subseteq Ids(doc) \cup (next .. next' - 1)
      /\ wiped' \subseteq wiped \cup Ids(doc) /\ moved' \subseteq moved \cup Ids(doc)
      /\ Ids(doc) \cup Ids(Doc0) \cup wiped \cup moved \subseteq 0 .. next - 1
  BY DEF UpdateInv, UpdateTypeOK, UpdateFresh, UpdateStep
<1>2. \A x \in Ids(doc') : x < next => x \in Ids(doc)
  BY <1>1
<1>3. \A x \in 0 .. next - 1 : x \in 0 .. next' - 1
  <2>1. \A m \in Nat : m >= next => \A x \in 0 .. next - 1 : x \in 0 .. m - 1
    BY <1>1
  <2> QED
    BY <1>1, <2>1
<1>4. ASSUME NEW c \in Calls PROVE ToSet(inserted'[c]) \subseteq 0 .. next' - 1
  <2>1. ToSet(inserted[c]) \subseteq 0 .. next - 1 /\ inserted[c] \in Seq(Nat)
    BY DEF UpdateInv, UpdateFresh, UpdateTypeOK
  <2>2. CASE inserted'[c] = inserted[c]
    BY <1>3, <2>1, <2>2
  <2>3. CASE Extends(c)
    <3>1. inserted'[c] = Append(inserted[c], next) /\ next' = next + 1
      BY <2>3 DEF Extends
    <3>2. ToSet(Append(inserted[c], next)) = ToSet(inserted[c]) \cup {next}
      <4>1. next \in Nat /\ inserted[c] \in Seq(Nat)
        BY <1>1, <2>1
      <4> QED
        BY <4>1, AppendIs
    <3>3. next \in 0 .. (next + 1) - 1
      BY <1>1
    <3> QED
      BY <1>3, <2>1, <3>1, <3>2, <3>3
  <2> QED
    BY <2>2, <2>3 DEF CallsStep
<1>5. ASSUME NEW x \in Updated', x # Root PROVE x \in 0 .. next' - 1
  <2>1. PICK c \in Calls : call'[c] # None /\ call'[c].tool = "update_block" /\ x = call'[c].target
    BY DEF Updated
  <2>2. CASE call'[c] = call[c]
    <3>1. x \in Updated
      BY <2>1, <2>2 DEF Updated
    <3> QED
      BY <1>3, <1>5, <3>1 DEF UpdateInv, UpdateFresh
  <2>3. CASE call'[c] # call[c]
    <3>1. x \in Ids(doc)
      BY <1>5, <2>1, <2>3 DEF CallsStep
    <3> QED
      BY <1>1, <1>3, <3>1
  <2> QED
    BY <2>2, <2>3
<1>6. Updated \subseteq Updated'
  <2>1. \A c \in Calls : call[c] # None => call'[c] = call[c]
    BY DEF CallsStep
  <2> QED
    BY <2>1 DEF Updated
<1>7. Ids(doc') \cup Ids(Doc0) \cup wiped' \cup moved' \subseteq 0 .. next' - 1
  BY <1>1, <1>3
<1> QED
  BY <1>2, <1>4, <1>5, <1>6, <1>7 DEF UpdateFresh

LEMMA RestStep ==
    ASSUME UpdateInv, UpdateStep, CallsStep
    PROVE  RestIsKept' /\ Ids(doc') \cap wiped' = {}
<1>1. /\ Updated \subseteq Updated' /\ next \in Nat
      /\ \A x \in Ids(doc') : x < next => x \in Ids(doc)
      /\ \A x \in Ids(Doc0) \cup wiped : x < next
  <2>1. /\ Updated \subseteq Updated'
        /\ \A x \in Ids(doc') : x < next => x \in Ids(doc)
    BY FreshStep
  <2>2. next \in Nat /\ Ids(Doc0) \cup wiped \subseteq 0 .. next - 1
    BY DEF UpdateInv, UpdateFresh, UpdateTypeOK
  <2>3. \A x \in 0 .. next - 1 : x < next
    BY <2>2
  <2> QED
    BY <2>1, <2>2, <2>3
<1>2. /\ Ids(doc) \cap Ids(Doc0) = Ids(Doc0) \ wiped /\ Ids(doc) \cap wiped = {}
      /\ \A i, j \in DOMAIN Doc0 :
            i < j /\ {Doc0[i].id, Doc0[j].id} \subseteq (Ids(Doc0) \ wiped) \ moved
            => Before(doc, Doc0[i].id, Doc0[j].id)
      /\ \A b \in ToSet(doc) : b.id \in (Ids(Doc0) \ wiped) \ Updated => b \in ToSet(Doc0)
  BY DEF UpdateInv, RestIsKept
<1>3. /\ wiped' = wiped \cup (Ids(doc) \ Ids(doc')) /\ moved \subseteq moved'
      /\ \A x, y \in Ids(doc') : x \notin moved' /\ y \notin moved' /\ Before(doc, x, y) => Before(doc', x, y)
      /\ \A b \in ToSet(doc') : b.id \in Ids(doc) => b \in ToSet(doc) \/ b.id \in Updated
  BY DEF UpdateStep
<1>4. Ids(doc') \cap wiped' = {}
  BY <1>1, <1>2, <1>3
<1>5. Ids(doc') \cap Ids(Doc0) = Ids(Doc0) \ wiped'
  BY <1>1, <1>2, <1>3
<1>6. ASSUME NEW i \in DOMAIN Doc0, NEW j \in DOMAIN Doc0, i < j,
             {Doc0[i].id, Doc0[j].id} \subseteq (Ids(Doc0) \ wiped') \ moved'
      PROVE  Before(doc', Doc0[i].id, Doc0[j].id)
  <2> DEFINE x == Doc0[i].id
             y == Doc0[j].id
  <2>1. /\ {x, y} \subseteq (Ids(Doc0) \ wiped) \ moved
        /\ {x, y} \subseteq Ids(doc')
        /\ x \notin moved' /\ y \notin moved'
    BY <1>3, <1>5, <1>6
  <2>2. Before(doc, x, y)
    BY <1>2, <1>6, <2>1
  <2> HIDE DEF x, y
  <2>3. Before(doc', x, y)
    BY <1>3, <2>1, <2>2
  <2> QED
    BY <2>3 DEF x, y
<1>7. ASSUME NEW b \in ToSet(doc'), b.id \in Ids(Doc0), b.id \notin Updated'
      PROVE  b \in ToSet(Doc0)
  <2>1. b.id \in Ids(doc')
    BY DEF Ids
  <2>2. b.id \in Ids(doc)
    BY <1>1, <1>7, <2>1
  <2> QED
    BY <1>1, <1>2, <1>3, <1>7, <2>2
<1>8. RestIsKept'
  <2>1. \A b \in ToSet(doc') : b.id \in (Ids(Doc0) \ wiped') \ Updated' => b \in ToSet(Doc0)
    BY <1>7
  <2> QED
    BY <1>5, <1>6, <2>1 DEF RestIsKept
<1> QED
  BY <1>4, <1>8

LEMMA OrderStep ==
    ASSUME UpdateInv, UpdateStep, CallsStep
    PROVE  OrderIsKept'
<1>1. SUFFICES ASSUME NEW c \in Calls,
                      call'[c] # None, call'[c].tool = "update_block", call'[c].target # Root,
                      LET chain == <<call'[c].target>> \o inserted'[c]
                      IN  ToSet(chain) \cap moved' = {},
                      NEW i \in DOMAIN (<<call'[c].target>> \o inserted'[c]),
                      NEW j \in DOMAIN (<<call'[c].target>> \o inserted'[c]),
                      i < j,
                      (<<call'[c].target>> \o inserted'[c])[i] \in Ids(doc'),
                      (<<call'[c].target>> \o inserted'[c])[j] \in Ids(doc')
               PROVE  Before(doc', (<<call'[c].target>> \o inserted'[c])[i],
                                   (<<call'[c].target>> \o inserted'[c])[j])
  BY DEF OrderIsKept, Target
<1> DEFINE t == call[c].target
           s == inserted[c]
           chain == <<t>> \o s
<1>2. /\ next \in Nat /\ Ids(doc) \subseteq 0 .. next - 1
      /\ s \in Seq(Nat) /\ ToSet(s) \subseteq 0 .. next - 1
      /\ \A x \in Ids(doc') : x < next => x \in Ids(doc)
      /\ moved \subseteq moved'
      /\ \A x, y \in Ids(doc') : x \notin moved' /\ y \notin moved' /\ Before(doc, x, y) => Before(doc', x, y)
  BY FreshStep DEF UpdateInv, UpdateFresh, UpdateTypeOK, UpdateStep
<1>3. call'[c] = call[c]
  <2>1. CASE call'[c] # call[c]
    <3>1. inserted'[c] = << >>
      BY <2>1 DEF CallsStep
    <3>2. \A k \in DOMAIN (<<call'[c].target>> \o << >>) : k = 1
      <4>1. << >> \in Seq({call'[c].target}) /\ Len(<< >>) = 0
        OBVIOUS
      <4>2. DOMAIN (<<call'[c].target>> \o << >>) = 1 .. 0 + 1
        BY <4>1, ChainIs
      <4> QED
        BY <4>2
    <3>3. i = 1 /\ j = 1
      BY <1>1, <3>1, <3>2
    <3> QED
      BY <1>1, <3>3
  <2> QED
    BY <2>1
<1>4. t \in Nat /\ t < next /\ t # Root /\ call[c] # None
  <2>1. t \in Updated
    BY <1>1, <1>3 DEF Updated
  <2>2. t \in 0 .. next - 1 /\ t # Root
    BY <1>1, <1>3, <2>1 DEF UpdateInv, UpdateFresh
  <2> QED
    BY <1>1, <1>2, <1>3, <2>2
<1>5. /\ Len(s) \in Nat /\ DOMAIN chain = 1 .. Len(s) + 1
      /\ \A k \in 1 .. Len(s) + 1 : chain[k] \in {t} \cup ToSet(s)
      /\ ToSet(chain) = {t} \cup ToSet(s)
      /\ Last(chain) = chain[Len(s) + 1]
  <2> DEFINE S == Nat
  <2>1. t \in S /\ s \in Seq(S)
    BY <1>2, <1>4
  <2> HIDE DEF t, s, S
  <2> QED
    BY <2>1, ChainIs
<1>6. \A k \in 1 .. Len(s) + 1 : chain[k] \in Ids(doc') => chain[k] \in Ids(doc)
  <2>1. \A x \in ToSet(s) : x < next
    BY <1>2
  <2> QED
    BY <1>2, <1>4, <1>5, <2>1
<1>7. ToSet(chain) \cap moved' = {} =>
         \A k, l \in 1 .. Len(s) + 1 :
            k < l /\ chain[k] \in Ids(doc) /\ chain[l] \in Ids(doc) => Before(doc, chain[k], chain[l])
  <2>1. ToSet(chain) \cap moved = {} =>
         \A k, l \in DOMAIN chain :
            k < l /\ {chain[k], chain[l]} \subseteq Ids(doc) => Before(doc, chain[k], chain[l])
    BY <1>1, <1>3, <1>4 DEF UpdateInv, OrderIsKept, Target
  <2> HIDE DEF chain
  <2> QED
    BY <1>2, <1>5, <2>1
<1>8. CASE inserted'[c] = s
  <2>1. ToSet(chain) \cap moved' = {}
    BY <1>1, <1>3, <1>8
  <2>2. /\ i \in 1 .. Len(s) + 1 /\ j \in 1 .. Len(s) + 1
        /\ chain[i] \in Ids(doc') /\ chain[j] \in Ids(doc')
    BY <1>1, <1>3, <1>5, <1>8
  <2>3. Before(doc, chain[i], chain[j])
    BY <1>1, <1>6, <1>7, <2>1, <2>2
  <2>4. chain[i] \notin moved' /\ chain[j] \notin moved'
    BY <1>5, <2>1, <2>2
  <2>5. Before(doc', chain[i], chain[j])
    BY <1>2, <2>2, <2>3, <2>4
  <2> QED
    BY <1>3, <1>8, <2>5
<1>9. CASE Extends(c)
  <2> DEFINE longer == <<t>> \o Append(s, next)
             prev   == chain[Len(s) + 1]
  <2>1. /\ inserted'[c] = Append(s, next)
        /\ prev \in Ids(doc)
        /\ \A x : x = prev \/ Before(doc, x, prev) => Before(doc', x, next)
    BY <1>5, <1>9 DEF Extends, Previous, Target
  <2>2. /\ ToSet(Append(s, next)) = ToSet(s) \cup {next} /\ Append(s, next) \in Seq(Nat)
        /\ DOMAIN longer = 1 .. Len(s) + 2
        /\ \A k \in 1 .. Len(s) + 1 : longer[k] = chain[k]
        /\ longer[Len(s) + 2] = next
    <3> DEFINE S == Nat
    <3>1. t \in S /\ s \in Seq(S) /\ next \in S
      BY <1>2, <1>4
    <3>2. Seq(S) = Seq(Nat)
      OBVIOUS
    <3> HIDE DEF t, s, S
    <3>3. LET ch == <<t>> \o s
              lo == <<t>> \o Append(s, next)
          IN  /\ Append(s, next) \in Seq(S) /\ ToSet(Append(s, next)) = ToSet(s) \cup {next}
              /\ DOMAIN lo = 1 .. Len(s) + 2
              /\ \A k \in 1 .. Len(s) + 1 : lo[k] = ch[k]
              /\ lo[Len(s) + 2] = next
      BY <3>1, ChainGrows
    <3> QED
      BY <3>2, <3>3
  <2>3. ToSet(longer) = {t} \cup ToSet(Append(s, next))
    <3> DEFINE S == Nat
    <3>1. t \in S /\ Append(s, next) \in Seq(S)
      BY <1>4, <2>2
    <3> HIDE DEF t, s, S
    <3> QED
      BY <3>1, ChainIs, ZenonT(60)
  <2>4. ToSet(longer) \cap moved' = {} /\ ToSet(chain) \subseteq ToSet(longer)
    BY <1>1, <1>3, <1>5, <2>1, <2>2, <2>3
  <2>5. /\ i \in 1 .. Len(s) + 2 /\ j \in 1 .. Len(s) + 2 /\ i < j
        /\ longer[i] \in Ids(doc') /\ longer[j] \in Ids(doc')
    BY <1>1, <1>3, <2>1, <2>2
  <2>6. SUFFICES Before(doc', longer[i], longer[j])
    BY <1>3, <2>1
  <2> HIDE DEF longer, chain
  <2>7. i \in 1 .. Len(s) + 1 /\ (j \in 1 .. Len(s) + 1 \/ j = Len(s) + 2)
    BY <1>5, <2>5
  <2>8. longer[i] = chain[i] /\ chain[i] \in Ids(doc)
    BY <1>6, <2>2, <2>5, <2>7
  <2>9. CASE j \in 1 .. Len(s) + 1
    <3>1. longer[j] = chain[j] /\ chain[j] \in Ids(doc)
      BY <1>6, <2>2, <2>5, <2>9
    <3>2. Before(doc, chain[i], chain[j])
      BY <1>7, <2>4, <2>5, <2>7, <2>8, <2>9, <3>1
    <3>3. chain[i] \notin moved' /\ chain[j] \notin moved'
      BY <1>5, <2>4, <2>7, <2>9
    <3> QED
      BY <1>2, <2>5, <2>8, <3>1, <3>2, <3>3
  <2>10. CASE j = Len(s) + 2
    <3>1. Len(s) + 1 \in 1 .. Len(s) + 1 /\ (i = Len(s) + 1 \/ i < Len(s) + 1)
      BY <1>5, <2>7
    <3>2. chain[i] = prev \/ Before(doc, chain[i], prev)
      BY <1>7, <2>1, <2>4, <2>7, <2>8, <3>1
    <3> QED
      BY <2>1, <2>2, <2>8, <2>10, <3>2
  <2> QED
    BY <2>7, <2>9, <2>10
<1> QED
  BY <1>8, <1>9 DEF CallsStep

(* The call d does nothing, and what a step does to it otherwise.          *)
Idles(d) ==
    pc'[d] = pc[d] /\ call'[d] = call[d] /\ inserted'[d] = inserted[d] /\ taken'[d] = taken[d]

CallsTyped ==
    /\ pc \in [Calls -> {"idle", "done"} \cup UpdateRequests]
    /\ call \in [Calls -> ArgsOn(Nat, {Root}) \cup {None}]
    /\ inserted \in [Calls -> Seq(Nat)]
    /\ result \in [Calls -> UpdateResults]
    /\ taken \in [Calls -> Seq(1..MaxParts)]

LEMMA NoneIsNoCall ==
    ASSUME NEW a \in ArgsOn(Nat, {Root})
    PROVE  a # None
BY PartsAssumption

(* What a call has written is older than the next id.                      *)
LEMMA ChainKnown ==
    ASSUME UpdateInv, UpdateStep, NEW c \in Calls, pc[c] \in {"first", "rest"}
    PROVE  \A x \in {call[c].target} \cup ToSet(inserted[c]) : x \in Ids(doc') => x \in Ids(doc)
<1>1. /\ next \in Nat /\ Ids(doc') \subseteq Ids(doc) \cup (next .. next' - 1) /\ next' \in Nat
      /\ ToSet(inserted[c]) \subseteq 0 .. next - 1
  BY DEF UpdateInv, UpdateTypeOK, UpdateFresh, UpdateStep
<1>2. call[c].target \in 0 .. next - 1
  <2>1. call[c].tool = "update_block" /\ call[c].target # Root /\ call[c] \in ArgsOn(Nat, {Root})
    BY DEF UpdateInv, InControl, ListKnown
  <2>2. \A a \in ArgsOn(Nat, {Root}) : a.tool = "update_block" => a.target \in Nat \cup {Root}
    BY UpdateArgs
  <2>3. call[c].target \in Updated
    <3>1. call[c] # None
      BY <2>1, NoneIsNoCall
    <3> QED
      BY <2>1, <3>1 DEF Updated
  <2> QED
    BY <2>1, <2>3 DEF UpdateInv, UpdateFresh
<1>3. \A x \in 0 .. next - 1 : x < next
  BY <1>1
<1> QED
  BY <1>1, <1>2, <1>3

LEMMA UpdateKept ==
    ASSUME UpdateInv, UpdateStep, CallsStep, CallsTyped', edits' \in 0..Edits,
           \A c \in Calls : Idles(c) \/ (InControl(c)' /\ ListKnown(c)')
    PROVE  UpdateInv'
<1>1. UpdateFresh' /\ RestIsKept' /\ Ids(doc') \cap wiped' = {} /\ OrderIsKept'
  BY FreshStep, RestStep, OrderStep
<1>2. UpdateTypeOK'
  <2>1. wiped \subseteq Nat /\ moved \subseteq Nat /\ Ids(doc) \subseteq Nat
    BY DocProperties DEF UpdateInv, UpdateTypeOK
  <2>2. wiped' \subseteq Nat /\ moved' \subseteq Nat
    BY <2>1 DEF UpdateStep
  <2>3. /\ doc' \in Seq(Block) /\ Distinct(doc') /\ items' \in BOOLEAN /\ next' \in Nat
        /\ cut' \subseteq Calls
    BY DEF UpdateStep
  <2> QED
    BY <2>2, <2>3 DEF UpdateTypeOK, CallsTyped
<1>3. ASSUME NEW c \in Calls PROVE InControl(c)' /\ ListKnown(c)'
  <2>1. SUFFICES ASSUME Idles(c) PROVE InControl(c)' /\ ListKnown(c)'
    OBVIOUS
  <2>2. InControl(c) /\ ListKnown(c)
    BY DEF UpdateInv
  <2>3. InControl(c)'
    BY <2>1, <2>2 DEF Idles, InControl
  <2>4. ASSUME pc[c] \in {"first", "rest"}, call[c].shape = "list"
        PROVE  items' \/ ({call[c].target} \cup ToSet(inserted[c])) \cap Ids(doc') = {}
    <3>1. items \/ ({call[c].target} \cup ToSet(inserted[c])) \cap Ids(doc) = {}
      BY <2>2, <2>4 DEF ListKnown
    <3>2. items' \/ ~items \/ Ids(doc') \cap Ids(doc) = {}
      BY DEF UpdateStep
    <3>3. \A x \in {call[c].target} \cup ToSet(inserted[c]) : x \in Ids(doc') => x \in Ids(doc)
      BY <2>4, ChainKnown
    <3> QED
      BY <3>1, <3>2, <3>3
  <2>5. items' => items
    BY DEF UpdateStep
  <2> QED
    BY <2>1, <2>2, <2>3, <2>4, <2>5 DEF Idles, ListKnown
<1> QED
  BY <1>1, <1>2, <1>3 DEF UpdateInv

(* The request a call is at, with what it does to the document.            *)
Request(c) ==
    \/ NotWritten
    \/ pc[c] = "whole" /\ (Updates(c) \/ ReplacesBody(c))
    \/ pc[c] = "first" /\ Updates(c)
    \/ pc[c] = "rest" /\ Inserts(c)
    \/ pc[c] = "insert" /\ Adds(c)
    \/ pc[c] = "move" /\ Moves(c)

LEMMA TakesIs ==
    ASSUME UpdateTypeOK, NEW c \in Calls, NEW parts \in Seq(1..MaxParts), Takes(c, parts)
    PROVE  /\ taken' \in [Calls -> Seq(1..MaxParts)] /\ taken'[c] = taken[c] \o parts
           /\ \A d \in Calls : d # c => taken'[d] = taken[d]
<1>1. taken \in [Calls -> Seq(1..MaxParts)]
  BY DEF UpdateTypeOK
<1>2. taken[c] \o parts \in Seq(1..MaxParts)
  BY <1>1, ConcatProperties
<1> QED
  BY <1>1, <1>2 DEF Takes

(* A call that is waiting has arguments, and for update_block its data.    *)
LEMMA Waiting ==
    ASSUME UpdateInv, NEW c \in Calls, pc[c] \in UpdateRequests
    PROVE  /\ call[c] \in ArgsOn(Nat, {Root}) /\ call[c] # None
           /\ pc[c] \in {"dom", "info", "whole", "first", "rest"} =>
                 /\ call[c].tool = "update_block" /\ call[c].target \in Nat \cup {Root}
                 /\ call[c].shape \in Shapes /\ call[c].parts \in 1..MaxParts
           /\ pc[c] = "rest" => Len(inserted[c]) \in Nat /\ Len(inserted[c]) + 2 \in 1..MaxParts
<1>1. InControl(c) /\ pc[c] # "idle" /\ inserted[c] \in Seq(Nat) /\ MaxParts \in Nat
  BY PartsAssumption DEF UpdateInv, UpdateRequests, UpdateTypeOK
<1>2. call[c] \in ArgsOn(Nat, {Root})
  BY <1>1 DEF InControl
<1>3. call[c] # None
  BY <1>2, NoneIsNoCall
<1>4. pc[c] \in {"dom", "info", "whole", "first", "rest"} =>
         /\ call[c].tool = "update_block" /\ call[c].target \in Nat \cup {Root}
         /\ call[c].shape \in Shapes /\ call[c].parts \in 1..MaxParts
  BY <1>1, <1>2, UpdateArgs DEF InControl
<1>5. Len(inserted[c]) \in Nat
  BY <1>1, LenProperties
<1>6. pc[c] = "rest" => Len(inserted[c]) + 2 <= call[c].parts
  BY <1>1 DEF InControl
<1>7. pc[c] = "rest" => Len(inserted[c]) + 2 \in 1..MaxParts
  BY <1>1, <1>4, <1>5, <1>6
<1> QED
  BY <1>2, <1>3, <1>4, <1>5, <1>7

LEMMA OnePart ==
    ASSUME NEW k \in 1..MaxParts
    PROVE  <<k>> \in Seq(1..MaxParts)
OBVIOUS

(* What of its data a request has the kernel take.                         *)
LEMMA RequestTakes ==
    ASSUME UpdateInv, NEW c \in Calls, pc[c] \in UpdateRequests, Request(c)
    PROVE  taken' \in [Calls -> Seq(1..MaxParts)] /\ \A d \in Calls : d # c => taken'[d] = taken[d]
<1>1. UpdateTypeOK /\ 1 \in 1..MaxParts /\ MaxParts \in Nat
  BY PartsAssumption DEF UpdateInv
<1>2. ASSUME NEW parts \in Seq(1..MaxParts), Takes(c, parts)
      PROVE  taken' \in [Calls -> Seq(1..MaxParts)] /\ \A d \in Calls : d # c => taken'[d] = taken[d]
  BY <1>1, <1>2, TakesIs
<1>3. <<1>> \in Seq(1..MaxParts)
  BY <1>1, OnePart
<1>4. CASE Updates(c) \/ Adds(c)
  <2>1. Takes(c, <<1>>)
    BY <1>4 DEF Updates, Adds
  <2> QED
    BY <1>2, <1>3, <2>1
<1>5. CASE pc[c] = "rest" /\ Inserts(c)
  <2>1. Takes(c, <<Len(inserted[c]) + 2>>)
    BY <1>5 DEF Inserts
  <2>2. <<Len(inserted[c]) + 2>> \in Seq(1..MaxParts)
    BY <1>5, Waiting, OnePart
  <2> QED
    BY <1>2, <2>1, <2>2
<1>6. CASE pc[c] = "whole" /\ ReplacesBody(c)
  <2> DEFINE n == IF call[c].shape = "list" THEN 1 ELSE call[c].parts
             p == [k \in 1..n |-> k]
  <2>1. Takes(c, p)
    BY <1>6 DEF ReplacesBody, Parts
  <2>2. call[c].parts \in 1..MaxParts
    BY <1>6, Waiting
  <2>3. n \in Nat /\ n \in 1..MaxParts
    BY <1>1, <2>2
  <2> HIDE DEF n
  <2>4. \A k \in 1..n : k \in 1..MaxParts
    BY <1>1, <2>3
  <2>5. p \in [1..n -> 1..MaxParts]
    BY <2>4
  <2>6. p \in Seq(1..MaxParts)
    BY <2>3, <2>5, SeqDef
  <2> QED
    BY <1>2, <2>1, <2>6
<1>7. CASE NotWritten \/ Moves(c)
  BY <1>1, <1>7 DEF NotWritten, Moves, UpdateTypeOK
<1> QED
  BY <1>4, <1>5, <1>6, <1>7 DEF Request

LEMMA RequestStep ==
    ASSUME UpdateInv, NEW c \in Calls, pc[c] \in UpdateRequests, Request(c)
    PROVE  UpdateStep
<1>1. UpdateTypeOK /\ UpdateFresh
  BY DEF UpdateInv
<1>2. CASE NotWritten
  BY <1>1, <1>2, Staying DEF NotWritten
<1>3. CASE pc[c] \in {"whole", "first"} /\ Updates(c)
  <2>1. call[c] # None /\ call[c].tool = "update_block"
    BY <1>3, Waiting
  <2> QED
    BY <1>1, <1>3, <2>1, UpdatesStep
<1>4. CASE pc[c] = "whole" /\ ReplacesBody(c)
  <2>1. call[c] # None /\ call[c].tool = "update_block"
    BY <1>4, Waiting
  <2> QED
    BY <1>1, <1>4, <2>1, ReplacesStep
<1>5. CASE pc[c] = "rest" /\ Inserts(c)
  <2>1. Len(inserted[c]) + 2 \in 1..MaxParts
    BY <1>5, Waiting
  <2> QED
    BY <1>1, <1>5, <2>1, InsertsStep
<1>6. CASE Adds(c)
  BY <1>1, <1>6, AddsStep
<1>7. CASE Moves(c)
  BY <1>1, <1>7, MovesStep
<1> QED
  BY <1>2, <1>3, <1>4, <1>5, <1>6, <1>7 DEF Request

LEMMA CallGoes ==
    ASSUME UpdateTypeOK, NEW c \in Calls, NEW p \in {"idle", "done"} \cup UpdateRequests,
           pc' = [pc EXCEPT ![c] = p]
    PROVE  /\ pc' \in [Calls -> {"idle", "done"} \cup UpdateRequests] /\ pc'[c] = p
           /\ \A d \in Calls : d # c => pc'[d] = pc[d]
BY DEF UpdateTypeOK

LEMMA CallEnds ==
    ASSUME UpdateTypeOK, NEW c \in Calls, NEW r \in UpdateResults, End(c, r)
    PROVE  /\ pc' \in [Calls -> {"idle", "done"} \cup UpdateRequests] /\ pc'[c] = "done"
           /\ \A d \in Calls : d # c => pc'[d] = pc[d]
           /\ result' \in [Calls -> UpdateResults]
BY DEF UpdateTypeOK, End

(* A call ends with its request.                                           *)
LEMMA EndKeeps ==
    ASSUME UpdateInv, NEW c \in Calls, pc[c] \in UpdateRequests, Request(c),
           NEW r \in UpdateResults, End(c, r), UNCHANGED <<edits, call, inserted>>
    PROVE  UpdateInv'
<1>1. UpdateStep /\ UpdateTypeOK
  BY RequestStep DEF UpdateInv
<1>2. taken' \in [Calls -> Seq(1..MaxParts)] /\ \A d \in Calls : d # c => taken'[d] = taken[d]
  BY RequestTakes
<1>3. /\ pc' \in [Calls -> {"idle", "done"} \cup UpdateRequests] /\ pc'[c] = "done"
      /\ \A d \in Calls : d # c => pc'[d] = pc[d]
      /\ result' \in [Calls -> UpdateResults]
  BY <1>1, CallEnds
<1>4. call[c] \in ArgsOn(Nat, {Root})
  BY Waiting
<1>5. CallsStep
  BY DEF CallsStep
<1>6. CallsTyped' /\ edits' \in 0..Edits
  BY <1>1, <1>2, <1>3 DEF UpdateTypeOK, CallsTyped
<1>7. InControl(c)' /\ ListKnown(c)'
  BY <1>3, <1>4 DEF InControl, ListKnown
<1>8. \A d \in Calls : d # c => Idles(d)
  BY <1>2, <1>3 DEF Idles
<1> QED
  BY <1>1, <1>5, <1>6, <1>7, <1>8, UpdateKept

(* A call goes on, nothing written.                                        *)
LEMMA GoKeeps ==
    ASSUME UpdateInv, NEW c \in Calls, pc[c] \in UpdateRequests,
           NEW p \in UpdateRequests, Goto(c, p), NotWritten, UNCHANGED <<edits, call, inserted>>,
           pc[c] \in {"dom", "info"}, p \in {"whole", "first"},
           p = "first" => /\ call[c].target # Root
                          /\ call[c].shape = "list" => items,
           p = "whole" => call[c].target = Root \/ (call[c].shape = "list" /\ ~items)
    PROVE  UpdateInv'
<1>1. Request(c) /\ UpdateStep /\ UpdateTypeOK
  BY RequestStep DEF UpdateInv, Request
<1>2. /\ pc' \in [Calls -> {"idle", "done"} \cup UpdateRequests] /\ pc'[c] = p
      /\ \A d \in Calls : d # c => pc'[d] = pc[d]
      /\ result' = result
  BY <1>1, CallGoes DEF Goto
<1>3. CallsStep
  BY DEF CallsStep
<1>4. CallsTyped' /\ edits' \in 0..Edits
  BY <1>1, <1>2 DEF UpdateTypeOK, CallsTyped, NotWritten
<1>5. taken' = taken /\ items' = items
  BY DEF NotWritten
<1>6. InControl(c) /\ call[c] \in ArgsOn(Nat, {Root}) /\ call[c].tool = "update_block"
  BY Waiting DEF UpdateInv
<1>7. InControl(c)'
  BY <1>2, <1>5, <1>6 DEF InControl
<1>8. ListKnown(c)'
  BY <1>2, <1>5 DEF ListKnown
<1>9. \A d \in Calls : d # c => Idles(d)
  BY <1>2, <1>5 DEF Idles
<1> QED
  BY <1>1, <1>3, <1>4, <1>7, <1>8, <1>9, UpdateKept

LEMMA BeginKeeps ==
    ASSUME UpdateInv, NEW c \in Calls, BeginUpdate(c)
    PROVE  UpdateInv'
<1>1. /\ pc[c] = "idle" /\ UNCHANGED <<edits, inserted>> /\ NotWritten
  BY DEF BeginUpdate
<1>2. UpdateTypeOK /\ UpdateStep /\ taken' = taken /\ items' = items
  <2>1. UpdateTypeOK
    BY DEF UpdateInv
  <2> QED
    BY <1>1, <2>1, Staying DEF NotWritten
<1>3. call[c] = None /\ inserted[c] = << >> /\ taken[c] = << >>
  BY <1>1 DEF UpdateInv, InControl
<1>4. PICK a \in ArgsOn(Ids(doc), IF items THEN {} ELSE {Root}) :
          /\ call' = [call EXCEPT ![c] = a]
          /\ IF a.tool = "move_block" /\ a.anchor = None THEN End(c, "failed")
             ELSE Goto(c, FirstRequest(a))
  BY DEF BeginUpdate
<1>5. Ids(doc) \subseteq Nat
  BY <1>2, DocProperties DEF UpdateTypeOK
<1>6. a \in ArgsOn(Nat, {Root})
  BY <1>5 DEF ArgsOn
<1>7. a.tool = "update_block" => /\ a.target \in Ids(doc) \cup {Root}
                                 /\ a.shape \in {"blocks", "mixed", "list", "dom"} /\ a.parts \in Nat \ {0}
  <2>1. MaxParts \in Nat
    BY PartsAssumption
  <2>2. 1..MaxParts \subseteq Nat \ {0}
    BY <2>1
  <2> QED
    BY <2>2 DEF ArgsOn, Shapes
<1>8. a.tool \in {"update_block", "insert_block", "append_block", "move_block"}
  BY <1>6 DEF ArgsOn
<1>9. call \in [Calls -> ArgsOn(Nat, {Root}) \cup {None}]
  BY <1>2 DEF UpdateTypeOK
<1>10. /\ call'[c] = a /\ call' \in [Calls -> ArgsOn(Nat, {Root}) \cup {None}]
       /\ \A d \in Calls : d # c => call'[d] = call[d]
  BY <1>4, <1>6, <1>9
<1>11. CallsStep
  <2>1. ASSUME NEW d \in Calls
        PROVE  \/ call'[d] = call[d]
               \/ /\ call[d] = None /\ inserted[d] = << >> /\ inserted'[d] = << >>
                  /\ call'[d].tool = "update_block" => call'[d].target \in Ids(doc) \cup {Root}
    BY <1>1, <1>3, <1>7, <1>10
  <2> QED
    BY <1>1, <2>1 DEF CallsStep
<1>12. ASSUME NEW p \in {"done"} \cup UpdateRequests, pc'[c] = p,
              pc' \in [Calls -> {"idle", "done"} \cup UpdateRequests],
              \A d \in Calls : d # c => pc'[d] = pc[d], result' \in [Calls -> UpdateResults],
              InControl(c)', ListKnown(c)'
       PROVE  UpdateInv'
  <2>1. CallsTyped' /\ edits' \in 0..Edits
    BY <1>1, <1>2, <1>10, <1>12 DEF UpdateTypeOK, CallsTyped
  <2>2. \A d \in Calls : d # c => Idles(d)
    BY <1>1, <1>2, <1>10, <1>12 DEF Idles
  <2> QED
    BY <1>2, <1>11, <1>12, <2>1, <2>2, UpdateKept
<1>13. CASE a.tool = "move_block" /\ a.anchor = None
  <2>1. /\ pc' \in [Calls -> {"idle", "done"} \cup UpdateRequests] /\ pc'[c] = "done"
        /\ \A d \in Calls : d # c => pc'[d] = pc[d]
        /\ result' \in [Calls -> UpdateResults]
    <3>1. End(c, "failed") /\ "failed" \in UpdateResults
      BY <1>4, <1>13 DEF UpdateResults
    <3> QED
      BY <1>2, <3>1, CallEnds
  <2>2. InControl(c)' /\ ListKnown(c)'
    BY <1>6, <1>10, <2>1 DEF InControl, ListKnown
  <2> QED
    BY <1>12, <2>1, <2>2
<1>14. CASE ~(a.tool = "move_block" /\ a.anchor = None)
  <2> DEFINE p == FirstRequest(a)
  <2>1. Goto(c, p)
    BY <1>4, <1>14
  <2>2. /\ a.tool \in {"insert_block", "append_block"} => p = "insert"
        /\ a.tool = "move_block" => p = "move"
        /\ a.tool = "update_block" /\ (a.parts = 1 \/ a.shape = "dom") => p = "whole"
        /\ a.tool = "update_block" /\ ~(a.parts = 1 \/ a.shape = "dom") =>
              p = (IF a.shape = "list" THEN "dom" ELSE "info")
    BY DEF FirstRequest
  <2> HIDE DEF p
  <2>3. p \in {"insert", "move", "whole", "dom", "info"} /\ p \in UpdateRequests
    BY <1>8, <2>2 DEF UpdateRequests
  <2>4. /\ pc' \in [Calls -> {"idle", "done"} \cup UpdateRequests] /\ pc'[c] = p
        /\ \A d \in Calls : d # c => pc'[d] = pc[d]
        /\ result' \in [Calls -> UpdateResults]
    BY <1>2, <2>1, <2>3, CallGoes DEF Goto, UpdateTypeOK
  <2>5. p \in {"dom", "info"} =>
           /\ a.tool = "update_block" /\ a.parts > 1 /\ a.shape # "dom"
           /\ p = "dom" => a.shape = "list"
           /\ p = "info" => a.shape \in {"blocks", "mixed"}
    <3>1. a.tool = "update_block" => (a.parts = 1 \/ a.parts > 1)
      BY <1>7
    <3> QED
      BY <1>7, <1>8, <2>2, <3>1
  <2>6. p = "whole" => a.tool = "update_block" /\ (a.parts = 1 \/ a.shape = "dom")
    BY <1>8, <2>2
  <2>7. /\ p = "insert" => a.tool \in {"insert_block", "append_block"}
        /\ p = "move" => a.tool = "move_block"
    BY <1>8, <2>2
  <2>8. InControl(c)'
    BY <1>1, <1>2, <1>3, <1>6, <1>10, <2>3, <2>4, <2>5, <2>6, <2>7 DEF InControl
  <2>9. ListKnown(c)'
    <3>1. ~(1 > 1)
      OBVIOUS
    <3> QED
      BY <1>10, <2>3, <2>4, <2>6, <3>1 DEF ListKnown
  <2> QED
    BY <1>12, <2>3, <2>4, <2>8, <2>9
<1> QED
  BY <1>13, <1>14

LEMMA QueryKeeps ==
    ASSUME UpdateInv, NEW c \in Calls, IsListItem(c) \/ IsRoot(c)
    PROVE  UpdateInv'
<1>1. /\ pc[c] \in UpdateRequests /\ pc[c] \in {"dom", "info"}
      /\ UNCHANGED <<edits, call, inserted>>
  BY DEF IsListItem, IsRoot, UpdateRequests
<1>2. Root \notin Ids(doc) /\ items \in BOOLEAN
  <2>1. Ids(doc) \subseteq Nat /\ items \in BOOLEAN
    BY DocProperties DEF UpdateInv, UpdateTypeOK
  <2> QED
    BY <2>1, PartsAssumption
<1>3. ASSUME NEW r \in UpdateResults, End(c, r), NotWritten PROVE UpdateInv'
  <2>1. Request(c)
    BY <1>3 DEF Request
  <2> QED
    BY <1>1, <1>3, <2>1, EndKeeps
<1>4. {"unsure", "failed"} \subseteq UpdateResults /\ {"whole", "first"} \subseteq UpdateRequests
  BY DEF UpdateResults, UpdateRequests
<1>5. InControl(c)
  BY DEF UpdateInv
<1>6. CASE IsListItem(c)
  <2>1. /\ pc[c] = "dom" /\ NotWritten
        /\ \/ call[c].target \in Ids(doc) /\ Goto(c, IF items THEN "first" ELSE "whole")
           \/ call[c].target = Root /\ Goto(c, "whole")
           \/ End(c, "unsure")
    BY <1>6 DEF IsListItem, Target
  <2>2. call[c].shape = "list"
    BY <1>5, <2>1 DEF InControl
  <2>3. CASE call[c].target \in Ids(doc) /\ items /\ Goto(c, "first")
    BY <1>1, <1>2, <1>4, <2>1, <2>3, GoKeeps
  <2>4. CASE (~items \/ call[c].target = Root) /\ Goto(c, "whole")
    BY <1>1, <1>2, <1>4, <2>1, <2>2, <2>4, GoKeeps
  <2>5. CASE End(c, "unsure")
    BY <1>3, <1>4, <2>1, <2>5
  <2> QED
    BY <1>2, <2>1, <2>3, <2>4, <2>5
<1>7. CASE IsRoot(c)
  <2>1. /\ pc[c] = "info" /\ NotWritten
        /\ \/ call[c].target = Root /\ Goto(c, "whole")
           \/ call[c].target \in Ids(doc) /\ Goto(c, "first")
           \/ End(c, "failed")
    BY <1>7 DEF IsRoot, Target
  <2>2. call[c].shape \in {"blocks", "mixed"}
    BY <1>5, <2>1 DEF InControl
  <2>3. CASE call[c].target = Root /\ Goto(c, "whole")
    BY <1>1, <1>4, <2>1, <2>3, GoKeeps
  <2>4. CASE call[c].target \in Ids(doc) /\ Goto(c, "first")
    <3>1. call[c].target # Root /\ call[c].shape # "list"
      BY <1>2, <2>2, <2>4
    <3> QED
      BY <1>1, <1>4, <2>1, <2>4, <3>1, GoKeeps
  <2>5. CASE End(c, "failed")
    BY <1>3, <1>4, <2>1, <2>5
  <2> QED
    BY <2>1, <2>3, <2>4, <2>5
<1> QED
  BY <1>6, <1>7

(* The actions that end a call with one request.                           *)
LEMMA LastRequestKeeps ==
    ASSUME UpdateInv, NEW c \in Calls,
           UpdateWhole(c) \/ InsertOne(c) \/ MoveOne(c) \/ FailUpdate(c)
    PROVE  UpdateInv'
<1>1. {"ok", "failed"} \subseteq UpdateResults
  BY DEF UpdateResults
<1>2. /\ pc[c] \in UpdateRequests /\ UNCHANGED <<edits, call, inserted>>
      /\ Request(c) /\ (End(c, "ok") \/ End(c, "failed"))
  <2>1. CASE UpdateWhole(c)
    BY <2>1 DEF UpdateWhole, Request, UpdateRequests
  <2>2. CASE InsertOne(c)
    BY <2>2 DEF InsertOne, Request, UpdateRequests
  <2>3. CASE MoveOne(c)
    BY <2>3 DEF MoveOne, Request, UpdateRequests
  <2>4. CASE FailUpdate(c)
    BY <2>4 DEF FailUpdate, Request
  <2> QED
    BY <2>1, <2>2, <2>3, <2>4
<1> QED
  BY <1>1, <1>2, EndKeeps

(* The parts taken are counted on.                                         *)
LEMMA OneFurther ==
    ASSUME NEW n \in Nat
    PROVE  [k \in 1..n |-> k] \o <<n + 1>> = [k \in 1 .. n + 1 |-> k]
<1> DEFINE s == [k \in 1..n |-> k]
           u == <<n + 1>>
           t == [k \in 1 .. n + 1 |-> k]
           e == s \o u
<1>1. s \in [1..n -> Nat]
  OBVIOUS
<1>2. s \in Seq(Nat) /\ Len(s) = n
  BY <1>1, SeqDef, LenProperties
<1>3. u \in Seq(Nat) /\ Len(u) = 1 /\ u[1] = n + 1
  OBVIOUS
<1> HIDE DEF u
<1>4. \A i \in 1..n : s[i] = i
  OBVIOUS
<1> HIDE DEF s
<1>5. /\ e \in Seq(Nat) /\ Len(e) = Len(s) + Len(u)
      /\ \A i \in 1 .. Len(s) + Len(u) : e[i] = IF i <= Len(s) THEN s[i] ELSE u[i - Len(s)]
  BY <1>2, <1>3, ConcatProperties
<1> HIDE DEF e
<1>6. e = [i \in 1 .. n + 1 |-> e[i]]
  BY <1>2, <1>3, <1>5, LenProperties
<1>7. ASSUME NEW i \in 1 .. n + 1 PROVE e[i] = i
  <2>1. CASE i \in 1..n
    BY <1>2, <1>3, <1>4, <1>5, <2>1
  <2>2. CASE i = n + 1
    <3>1. ~(i <= n) /\ i - n = 1
      BY <2>2
    <3> QED
      BY <1>2, <1>3, <1>5, <2>2, <3>1
  <2> QED
    BY <2>1, <2>2
<1> QED
  BY <1>6, <1>7 DEF s, u, e

LEMMA OnePartTaken == <<1>> = [k \in 1..1 |-> k]
<1>1. <<1>> \in Seq(Nat) /\ Len(<<1>>) = 1 /\ <<1>>[1] = 1
  OBVIOUS
<1> DEFINE u == <<1>>
<1>2. u = [i \in 1..1 |-> u[i]]
  BY <1>1, LenProperties
<1>3. \A i \in 1..1 : u[i] = i
  BY <1>1
<1> HIDE DEF u
<1>4. u = [i \in 1..1 |-> i]
  BY <1>2, <1>3
<1> QED
  BY <1>4 DEF u

LEMMA FirstKeeps ==
    ASSUME UpdateInv, NEW c \in Calls, UpdateFirst(c)
    PROVE  UpdateInv'
<1>1. /\ pc[c] = "first" /\ pc[c] \in UpdateRequests /\ UNCHANGED <<edits, call, inserted>>
      /\ \/ Updates(c) /\ Goto(c, "rest")
         \/ NotWritten /\ End(c, "failed")
  BY DEF UpdateFirst, UpdateRequests
<1>2. Request(c) /\ UpdateStep
  <2>1. Request(c)
    BY <1>1 DEF Request
  <2> QED
    BY <1>1, <2>1, RequestStep
<1>3. CASE End(c, "failed")
  <2>1. "failed" \in UpdateResults
    BY DEF UpdateResults
  <2> QED
    BY <1>1, <1>2, <1>3, <2>1, EndKeeps
<1>4. CASE Updates(c) /\ Goto(c, "rest")
  <2>1. UpdateTypeOK /\ InControl(c) /\ ListKnown(c)
    BY DEF UpdateInv
  <2>2. call[c] # None /\ call[c].tool = "update_block" /\ call[c] \in ArgsOn(Nat, {Root})
    BY <1>1, Waiting
  <2>3. items' = items /\ Ids(doc') = Ids(doc)
    BY <1>4, <2>1, <2>2, UpdatesStep
  <2>4. "rest" \in UpdateRequests
    BY DEF UpdateRequests
  <2>5. /\ pc' \in [Calls -> {"idle", "done"} \cup UpdateRequests] /\ pc'[c] = "rest"
        /\ \A d \in Calls : d # c => pc'[d] = pc[d]
        /\ result' = result
    BY <1>4, <2>1, <2>4, CallGoes DEF Goto
  <2>6. /\ inserted[c] = << >> /\ taken[c] = << >> /\ call[c].parts > 1 /\ call[c].shape # "dom"
    BY <1>1, <2>1 DEF InControl
  <2>7. /\ taken' \in [Calls -> Seq(1..MaxParts)] /\ taken'[c] = << >> \o <<1>>
        /\ \A d \in Calls : d # c => taken'[d] = taken[d]
    <3>1. Takes(c, <<1>>) /\ 1 \in 1..MaxParts
      BY <1>4, PartsAssumption DEF Updates
    <3>2. <<1>> \in Seq(1..MaxParts)
      BY <3>1, OnePart
    <3> QED
      BY <2>1, <2>6, <3>1, <3>2, TakesIs
  <2>8. Len(<< >>) = 0 /\ << >> \o <<1>> = [k \in 1 .. 0 + 1 |-> k]
    <3>1. << >> \o <<1>> = <<1>>
      OBVIOUS
    <3>2. <<1>> = [k \in 1..1 |-> k]
      BY OnePartTaken
    <3> QED
      BY <3>1, <3>2
  <2>9. 0 + 2 <= call[c].parts
    <3>1. call[c].parts \in 1..MaxParts /\ MaxParts \in Nat
      BY <1>1, Waiting, PartsAssumption
    <3> QED
      BY <2>6, <3>1
  <2>10. InControl(c)'
    BY <1>1, <2>2, <2>5, <2>6, <2>7, <2>8, <2>9 DEF InControl
  <2>11. ListKnown(c)'
    BY <1>1, <2>1, <2>3, <2>5 DEF ListKnown
  <2>12. CallsStep
    BY <1>1 DEF CallsStep
  <2>13. CallsTyped' /\ edits' \in 0..Edits
    BY <1>1, <2>1, <2>5, <2>7 DEF UpdateTypeOK, CallsTyped
  <2>14. \A d \in Calls : d # c => Idles(d)
    BY <1>1, <2>5, <2>7 DEF Idles
  <2> QED
    BY <1>2, <2>10, <2>11, <2>12, <2>13, <2>14, UpdateKept
<1> QED
  BY <1>1, <1>3, <1>4

(* The next part is taken at its turn, and an item only into a list.       *)
LEMMA NextTaken ==
    ASSUME UpdateInv, NEW c \in Calls, pc[c] = "rest", Inserts(c)
    PROVE  /\ taken' \in [Calls -> Seq(1..MaxParts)]
           /\ taken'[c] = [k \in 1 .. Len(inserted[c]) + 2 |-> k]
           /\ \A d \in Calls : d # c => taken'[d] = taken[d]
<1> DEFINE n == Len(inserted[c]) + 1
<1>1. /\ UpdateTypeOK /\ Len(inserted[c]) \in Nat /\ Len(inserted[c]) + 2 \in 1..MaxParts
      /\ taken[c] = [k \in 1..n |-> k]
  <2>1. UpdateTypeOK /\ taken[c] = [k \in 1..n |-> k]
    BY DEF UpdateInv, InControl
  <2>2. pc[c] \in UpdateRequests
    BY DEF UpdateRequests
  <2> QED
    BY <2>1, <2>2, Waiting
<1>2. n \in Nat /\ n + 1 = Len(inserted[c]) + 2 /\ n + 1 \in 1..MaxParts
  BY <1>1
<1>3. Takes(c, <<n + 1>>)
  BY <1>2 DEF Inserts
<1> HIDE DEF n
<1>4. <<n + 1>> \in Seq(1..MaxParts)
  BY <1>2, OnePart
<1>5. /\ taken' \in [Calls -> Seq(1..MaxParts)] /\ taken'[c] = taken[c] \o <<n + 1>>
      /\ \A d \in Calls : d # c => taken'[d] = taken[d]
  BY <1>1, <1>3, <1>4, TakesIs
<1>6. taken'[c] = [k \in 1 .. n + 1 |-> k]
  BY <1>1, <1>2, <1>5, OneFurther
<1> QED
  BY <1>2, <1>5, <1>6

LEMMA AnchorInList ==
    ASSUME UpdateInv, NEW c \in Calls, pc[c] = "rest",
           Previous(c) \in Ids(doc), call[c].shape = "list"
    PROVE  items /\ call[c].target # Root
<1>1. ListKnown(c) /\ inserted[c] \in Seq(Nat)
  BY DEF UpdateInv, UpdateTypeOK
<1>2. call[c].target # Root /\ (items \/ ({call[c].target} \cup ToSet(inserted[c])) \cap Ids(doc) = {})
  BY <1>1 DEF ListKnown
<1>3. Previous(c) \in {call[c].target} \cup ToSet(inserted[c])
  <2> DEFINE t == call[c].target
             s == inserted[c]
             S == Nat
  <2>1. t \in S /\ s \in Seq(S)
    <3>1. pc[c] \in UpdateRequests
      BY DEF UpdateRequests
    <3> QED
      BY <1>1, <1>2, <3>1, Waiting
  <2>2. Previous(c) = Last(<<t>> \o s)
    BY DEF Previous, Target
  <2> HIDE DEF t, s, S
  <2>3. /\ Len(s) \in Nat /\ \A i \in 1 .. Len(s) + 1 : (<<t>> \o s)[i] \in {t} \cup ToSet(s)
        /\ Last(<<t>> \o s) = (<<t>> \o s)[Len(s) + 1]
    BY <2>1, ChainIs
  <2>4. Len(s) + 1 \in 1 .. Len(s) + 1
    BY <2>3
  <2> QED
    BY <2>2, <2>3, <2>4 DEF t, s
<1> QED
  BY <1>2, <1>3

LEMMA NextKeeps ==
    ASSUME UpdateInv, NEW c \in Calls, InsertNext(c)
    PROVE  UpdateInv'
<1>1. /\ pc[c] = "rest" /\ pc[c] \in UpdateRequests /\ UNCHANGED <<edits, call>>
      /\ UpdateTypeOK /\ UpdateFresh /\ InControl(c) /\ ListKnown(c)
  BY DEF InsertNext, UpdateRequests, UpdateInv
<1>2. Inserts(c) \/ NotWritten
  BY DEF InsertNext
<1>3. Request(c) /\ UpdateStep
  <2>1. Request(c)
    BY <1>1, <1>2 DEF Request
  <2> QED
    BY <1>1, <2>1, RequestStep
<1>4. CASE UNCHANGED inserted
  <2>1. (End(c, "partial") \/ End(c, "failed")) /\ {"partial", "failed"} \subseteq UpdateResults
    <3>1. inserted' = [inserted EXCEPT ![c] = Append(@, next)] => inserted'[c] # inserted[c]
      <4>1. inserted \in [Calls -> Seq(Nat)] /\ next \in Nat
        BY <1>1 DEF UpdateTypeOK
      <4>2. inserted[c] \in Seq(Nat)
        BY <4>1
      <4>3. Len(Append(inserted[c], next)) = Len(inserted[c]) + 1 /\ Len(inserted[c]) \in Nat
        BY <4>1, <4>2, AppendProperties, LenProperties
      <4>4. Append(inserted[c], next) # inserted[c]
        BY <4>3
      <4> QED
        BY <4>1, <4>4
    <3> QED
      BY <1>4, <3>1 DEF InsertNext, UpdateResults
  <2> QED
    BY <1>1, <1>3, <1>4, <2>1, EndKeeps
<1>5. CASE ~UNCHANGED inserted
  <2>1. /\ Inserts(c) /\ inserted' = [inserted EXCEPT ![c] = Append(@, next)]
        /\ IF Len(inserted[c]) + 2 = call[c].parts THEN End(c, "ok") ELSE Goto(c, "rest")
    BY <1>5 DEF InsertNext, Parts
  <2>2. /\ Len(inserted[c]) \in Nat /\ Len(inserted[c]) + 2 \in 1..MaxParts
        /\ call[c] \in ArgsOn(Nat, {Root}) /\ call[c] # None /\ call[c].tool = "update_block"
        /\ call[c].parts \in 1..MaxParts /\ MaxParts \in Nat
    BY <1>1, Waiting, PartsAssumption
  <2>3. /\ items' = items /\ next' = next + 1
        /\ Previous(c) \in Ids(doc) /\ Ids(doc') = Ids(doc) \cup {next}
        /\ \A x : x = Previous(c) \/ Before(doc, x, Previous(c)) => Before(doc', x, next)
    BY <1>1, <2>1, <2>2, InsertsStep
  <2>4. inserted \in [Calls -> Seq(Nat)] /\ next \in Nat
    BY <1>1 DEF UpdateTypeOK
  <2>5. /\ Append(inserted[c], next) \in Seq(Nat) /\ Len(Append(inserted[c], next)) = Len(inserted[c]) + 1
        /\ ToSet(Append(inserted[c], next)) = ToSet(inserted[c]) \cup {next}
    BY <2>4, AppendIs
  <2>6. /\ inserted' \in [Calls -> Seq(Nat)] /\ inserted'[c] = Append(inserted[c], next)
        /\ \A d \in Calls : d # c => inserted'[d] = inserted[d]
    BY <2>1, <2>4, <2>5
  <2>7. CallsStep
    <3>1. Extends(c)
      BY <1>1, <2>3, <2>6 DEF Extends
    <3> QED
      BY <1>1, <2>6, <3>1 DEF CallsStep
  <2>8. /\ taken' \in [Calls -> Seq(1..MaxParts)]
        /\ taken'[c] = [k \in 1 .. Len(inserted'[c]) + 1 |-> k]
        /\ \A d \in Calls : d # c => taken'[d] = taken[d]
    <3>1. (Len(inserted[c]) + 1) + 1 = Len(inserted[c]) + 2
      BY <2>2
    <3> QED
      BY <1>1, <2>1, <2>5, <2>6, <3>1, NextTaken
  <2>9. ASSUME NEW p \in {"done", "rest"}, pc'[c] = p, pc' \in [Calls -> {"idle", "done"} \cup UpdateRequests],
               \A d \in Calls : d # c => pc'[d] = pc[d], result' \in [Calls -> UpdateResults],
               InControl(c)', ListKnown(c)'
        PROVE  UpdateInv'
    <3>1. CallsTyped' /\ edits' \in 0..Edits
      BY <1>1, <2>6, <2>8, <2>9 DEF UpdateTypeOK, CallsTyped
    <3>2. \A d \in Calls : d # c => Idles(d)
      BY <1>1, <2>6, <2>8, <2>9 DEF Idles
    <3> QED
      BY <1>3, <2>7, <2>9, <3>1, <3>2, UpdateKept
  <2>10. CASE Len(inserted[c]) + 2 = call[c].parts
    <3>1. /\ pc' \in [Calls -> {"idle", "done"} \cup UpdateRequests] /\ pc'[c] = "done"
          /\ \A d \in Calls : d # c => pc'[d] = pc[d]
          /\ result' \in [Calls -> UpdateResults]
      <4>1. End(c, "ok") /\ "ok" \in UpdateResults
        BY <2>1, <2>10 DEF UpdateResults
      <4> QED
        BY <1>1, <4>1, CallEnds
    <3>2. InControl(c)' /\ ListKnown(c)'
      BY <1>1, <2>2, <3>1 DEF InControl, ListKnown
    <3> QED
      BY <2>9, <3>1, <3>2
  <2>11. CASE Len(inserted[c]) + 2 # call[c].parts
    <3>1. /\ pc' \in [Calls -> {"idle", "done"} \cup UpdateRequests] /\ pc'[c] = "rest"
          /\ \A d \in Calls : d # c => pc'[d] = pc[d]
          /\ result' \in [Calls -> UpdateResults]
      <4>1. Goto(c, "rest") /\ "rest" \in UpdateRequests
        BY <2>1, <2>11 DEF UpdateRequests
      <4> QED
        BY <1>1, <4>1, CallGoes DEF Goto, UpdateTypeOK
    <3>2. Len(inserted'[c]) + 2 <= call[c].parts
      <4>1. Len(inserted[c]) + 2 <= call[c].parts
        BY <1>1 DEF InControl
      <4>2. (Len(inserted[c]) + 1) + 2 <= call[c].parts
        BY <2>2, <2>11, <4>1
      <4> QED
        BY <2>5, <2>6, <4>2
    <3>3. call[c].parts > 1 /\ call[c].shape # "dom"
      BY <1>1 DEF InControl
    <3>4. InControl(c)'
      BY <1>1, <2>2, <2>8, <3>1, <3>2, <3>3 DEF InControl
    <3>5. ListKnown(c)'
      <4>1. call[c].target # Root
        BY <1>1 DEF ListKnown
      <4>2. call[c].shape = "list" => items
        BY <1>1, <2>3, AnchorInList
      <4> QED
        BY <1>1, <2>3, <3>1, <4>1, <4>2 DEF ListKnown
    <3> QED
      BY <2>9, <3>1, <3>4, <3>5
  <2> QED
    BY <2>10, <2>11
<1> QED
  BY <1>4, <1>5

LEMMA ElsewhereKeeps ==
    ASSUME UpdateInv, BlockElsewhere \/ UNCHANGED updateVars
    PROVE  UpdateInv'
<1>1. UNCHANGED <<pc, call, inserted, result, taken>> /\ UpdateTypeOK /\ UpdateFresh
  BY DEF BlockElsewhere, updateVars, UpdateInv
<1>2. UpdateStep
  BY <1>1, UpdateEditStep, Staying DEF updateVars
<1>3. edits' \in 0..Edits
  <2>1. edits \in 0..Edits /\ Edits \in Nat /\ (edits' = edits \/ (edits > 0 /\ edits' = edits - 1))
    BY <1>1, DocAssumption DEF UpdateTypeOK, BlockElsewhere, updateVars
  <2> QED
    BY <2>1
<1>4. CallsStep /\ CallsTyped' /\ \A d \in Calls : Idles(d)
  BY <1>1 DEF CallsStep, CallsTyped, Idles, UpdateTypeOK
<1> QED
  BY <1>2, <1>3, <1>4, UpdateKept

LEMMA UpdateStart ==
    ASSUME UpdateInit
    PROVE  UpdateInv
<1>1. /\ Doc0 \in Seq(Block) /\ Distinct(Doc0) /\ Ids(Doc0) \subseteq Nat
      /\ next \in Nat /\ Ids(Doc0) \subseteq 0 .. next - 1
      /\ doc = Doc0 /\ edits \in 0..Edits
      /\ pc = [c \in Calls |-> "idle"] /\ call = [c \in Calls |-> None]
      /\ result = [c \in Calls |-> "none"]
  BY DocumentInit DEF UpdateInit
<1>2. /\ items \in BOOLEAN /\ inserted = [c \in Calls |-> << >>]
      /\ taken = [c \in Calls |-> << >>] /\ cut = {} /\ wiped = {} /\ moved = {}
  BY DEF UpdateInit
<1>3. UpdateTypeOK
  <2>1. << >> \in Seq(Nat) /\ << >> \in Seq(1..MaxParts)
    OBVIOUS
  <2> QED
    BY <1>1, <1>2, <2>1 DEF UpdateTypeOK, UpdateResults
<1>4. UpdateFresh
  <2>1. Updated = {}
    BY <1>1, <1>2 DEF Updated
  <2>2. ToSet(<< >>) = {}
    BY DEF ToSet
  <2> QED
    BY <1>1, <1>2, <2>1, <2>2 DEF UpdateFresh
<1>5. \A c \in Calls : InControl(c) /\ ListKnown(c)
  BY <1>1, <1>2 DEF InControl, ListKnown
<1>6. OrderIsKept /\ RestIsKept
  <2>1. \A i, j \in DOMAIN Doc0 : i < j => Before(Doc0, Doc0[i].id, Doc0[j].id)
    BY DEF Before
  <2> QED
    BY <1>1, <1>2, <2>1 DEF OrderIsKept, RestIsKept
<1> QED
  BY <1>1, <1>2, <1>3, <1>4, <1>5, <1>6 DEF UpdateInv

-----------------------------------------------------------------------------
(* Theorems about update_block                                             *)

LEMMA UpdateInvariant == UpdateSpec => []UpdateInv
<1>1. UpdateInit => UpdateInv
  BY UpdateStart
<1>2. UpdateInv /\ [UpdateNext]_(updateVars) => UpdateInv'
  <2>1. SUFFICES ASSUME UpdateInv, [UpdateNext]_(updateVars) PROVE UpdateInv'
    OBVIOUS
  <2>2. CASE BlockElsewhere \/ UNCHANGED updateVars
    BY <2>1, <2>2, ElsewhereKeeps
  <2>3. ASSUME NEW c \in Calls,
               \/ BeginUpdate(c) \/ IsListItem(c) \/ IsRoot(c) \/ UpdateWhole(c)
               \/ UpdateFirst(c) \/ InsertNext(c) \/ InsertOne(c)
               \/ MoveOne(c) \/ FailUpdate(c)
        PROVE  UpdateInv'
    BY <2>1, <2>3, BeginKeeps, QueryKeeps, LastRequestKeeps, FirstKeeps, NextKeeps
  <2> QED
    BY <2>1, <2>2, <2>3 DEF UpdateNext
<1> QED
  BY <1>1, <1>2, PTL DEF UpdateSpec

(* The variables of update_block, insert_block, append_block and move_block *)
(* have their types: ids stay unique whatever is inserted and moved.       *)
THEOREM UpdateType == UpdateSpec => []UpdateTypeOK
<1>1. UpdateInv => UpdateTypeOK
  BY DEF UpdateInv
<1> QED
  BY <1>1, UpdateInvariant, PTL

(* The blocks one update_block has written stand behind its target in the  *)
(* order of its data, for any number of parts, of calls and of edits in    *)
(* between: each insertion is anchored at the one before.                  *)
THEOREM WrittenInOrder == UpdateSpec => []OrderIsKept
<1>1. UpdateInv => OrderIsKept
  BY DEF UpdateInv
<1> QED
  BY <1>1, UpdateInvariant, PTL

(* No tool costs a block it was not aimed at, changes its text or moves it *)
(* past another, whichever requests fail.                                  *)
THEOREM OthersAreKept == UpdateSpec => []RestIsKept
<1>1. UpdateInv => RestIsKept
  BY DEF UpdateInv
<1> QED
  BY <1>1, UpdateInvariant, PTL

(* Only a list before other blocks is cut.                                 *)
CutKnown == \A c \in cut : call[c] # None /\ call[c].shape = "mixed"

LEMMA CutStep ==
    ASSUME UpdateInv, CutKnown, [UpdateNext]_(updateVars)
    PROVE  CutKnown'
<1>1. UpdateTypeOK
  BY DEF UpdateInv
<1>2. ASSUME NEW c \in Calls, pc[c] \in {"whole", "first"}, Updates(c), UNCHANGED call
      PROVE  CutKnown'
  <2>1. /\ InControl(c) /\ ListKnown(c) /\ call[c] # None
        /\ call[c].shape \in Shapes /\ call[c].parts \in 1..MaxParts /\ MaxParts \in Nat
    <3>1. pc[c] \in UpdateRequests
      BY <1>2 DEF UpdateRequests
    <3> QED
      BY <1>2, <3>1, Waiting, PartsAssumption DEF UpdateInv
  <2>2. call[c].target # Root
    <3>1. Ids(doc) \subseteq Nat /\ call[c].target \in Ids(doc)
      BY <1>1, <1>2, DocProperties DEF UpdateTypeOK, Updates, Target
    <3> QED
      BY <3>1, PartsAssumption
  <2>3. ASSUME IsCut(c) PROVE call[c].shape = "mixed"
    <3>1. SUFFICES ASSUME call[c].shape = "list", pc[c] = "whole", items PROVE FALSE
      BY <2>3 DEF IsCut
    <3>2. call[c].parts > 1
      <4>1. call[c] \in ArgsOn(Nat, {Root}) /\ call[c].tool = "update_block"
        BY <2>1, <3>1 DEF InControl
      <4> QED
        BY <3>1, <4>1, UpdateArgs
    <3> QED
      BY <2>1, <2>2, <3>1, <3>2 DEF ListKnown
  <2>4. \A d \in cut' : d \in cut \/ (d = c /\ IsCut(c))
    BY <1>2 DEF Updates
  <2> QED
    BY <1>2, <2>1, <2>3, <2>4 DEF CutKnown
<1>3. ASSUME UNCHANGED <<call, cut>> PROVE CutKnown'
  BY <1>3 DEF CutKnown
<1>4. ASSUME NEW c \in Calls, pc[c] \in UpdateRequests, Request(c), UNCHANGED call
      PROVE  CutKnown'
  <2>1. CASE pc[c] \in {"whole", "first"} /\ Updates(c)
    BY <1>2, <1>4, <2>1
  <2>2. CASE ~(pc[c] \in {"whole", "first"} /\ Updates(c))
    <3>1. UNCHANGED cut
      BY <1>4, <2>2 DEF Request, NotWritten, ReplacesBody, Inserts, Adds, Moves
    <3> QED
      BY <1>3, <1>4, <3>1
  <2> QED
    BY <2>1, <2>2
<1>5. ASSUME NEW c \in Calls, BeginUpdate(c) PROVE CutKnown'
  <2>1. UNCHANGED cut /\ call[c] = None /\ \A d \in Calls : d # c => call'[d] = call[d]
    <3>1. pc[c] = "idle" /\ UNCHANGED cut /\ \E a : call' = [call EXCEPT ![c] = a]
      BY <1>5 DEF BeginUpdate, NotWritten
    <3> QED
      BY <1>1, <3>1 DEF UpdateInv, InControl, UpdateTypeOK
  <2>2. \A d \in cut : d \in Calls /\ d # c
    BY <1>1, <2>1 DEF UpdateTypeOK, CutKnown
  <2> QED
    BY <2>1, <2>2 DEF CutKnown
<1>6. ASSUME NEW c \in Calls, IsListItem(c) \/ IsRoot(c) PROVE CutKnown'
  BY <1>3, <1>6 DEF IsListItem, IsRoot, NotWritten
<1>7. ASSUME NEW c \in Calls,
             \/ UpdateWhole(c) \/ UpdateFirst(c) \/ InsertNext(c)
             \/ InsertOne(c) \/ MoveOne(c) \/ FailUpdate(c)
      PROVE  CutKnown'
  <2>1. pc[c] \in UpdateRequests /\ Request(c) /\ UNCHANGED call
    BY <1>7 DEF UpdateWhole, UpdateFirst, InsertNext, InsertOne, MoveOne, FailUpdate, Request,
                UpdateRequests
  <2> QED
    BY <1>4, <2>1
<1>8. CASE BlockElsewhere \/ UNCHANGED updateVars
  BY <1>3, <1>8 DEF BlockElsewhere, updateVars
<1> QED
  BY <1>5, <1>6, <1>7, <1>8 DEF UpdateNext

(* A call has its arguments for good.                                      *)
LEMMA GivenOnce ==
    ASSUME UpdateInv, NEW c \in Calls, [UpdateNext]_(updateVars), call[c] # None
    PROVE  call'[c] = call[c]
<1>1. call \in [Calls -> ArgsOn(Nat, {Root}) \cup {None}] /\ pc[c] # "idle"
  BY DEF UpdateInv, UpdateTypeOK, InControl
<1>2. ASSUME NEW d \in Calls, BeginUpdate(d) PROVE call'[c] = call[c]
  <2>1. pc[d] = "idle" /\ \E a : call' = [call EXCEPT ![d] = a]
    BY <1>2 DEF BeginUpdate
  <2> QED
    BY <1>1, <2>1
<1>3. CASE UNCHANGED call
  BY <1>3
<1> QED
  BY <1>2, <1>3 DEF UpdateNext, updateVars, IsListItem, IsRoot, UpdateWhole, UpdateFirst, InsertNext,
                    InsertOne, MoveOne, FailUpdate, BlockElsewhere

LEMMA Answered ==
    ASSUME UpdateInv, NEW c \in Calls, [UpdateNext]_(updateVars),
           result'[c] # result[c], call[c] # None, call[c].tool = "update_block", call[c].shape # "dom"
    PROVE  /\ result'[c] = "ok" => taken'[c] = Whole(c)
           /\ result'[c] = "partial" => Len(taken'[c]) - 1 - Len(inserted'[c]) \in {0, 1}
<1>1. UpdateTypeOK /\ InControl(c) /\ ListKnown(c) /\ result \in [Calls -> UpdateResults]
  BY DEF UpdateInv, UpdateTypeOK
<1>2. pc[c] # "idle" /\ pc[c] \notin {"insert", "move"}
  BY <1>1 DEF InControl
<1>3. ASSUME NEW r, End(c, r) PROVE result'[c] = r
  BY <1>1, <1>3 DEF End
<1>4. ASSUME NEW d \in Calls, d # c, NEW r, End(d, r) PROVE FALSE
  BY <1>1, <1>4 DEF End
<1>5. ASSUME NEW d \in Calls,
             \/ BeginUpdate(d) \/ IsListItem(d) \/ IsRoot(d) \/ UpdateWhole(d)
             \/ UpdateFirst(d) \/ InsertNext(d) \/ InsertOne(d)
             \/ MoveOne(d) \/ FailUpdate(d)
      PROVE  d = c
  <2>1. result' = result \/ \E r : End(d, r)
    BY <1>5 DEF BeginUpdate, IsListItem, IsRoot, UpdateWhole, UpdateFirst, InsertNext, InsertOne,
                MoveOne, FailUpdate, Goto
  <2> QED
    BY <1>4, <2>1
<1>6. \/ IsListItem(c) \/ IsRoot(c) \/ UpdateWhole(c) \/ UpdateFirst(c)
      \/ InsertNext(c) \/ FailUpdate(c)
  <2>1. ~BlockElsewhere /\ ~UNCHANGED updateVars
    BY DEF BlockElsewhere, updateVars
  <2>2. ~BeginUpdate(c) /\ ~InsertOne(c) /\ ~MoveOne(c)
    BY <1>2 DEF BeginUpdate, InsertOne, MoveOne
  <2> QED
    BY <1>5, <2>1, <2>2 DEF UpdateNext
<1>7. CASE IsListItem(c) \/ IsRoot(c) \/ UpdateFirst(c) \/ FailUpdate(c)
  <2>1. End(c, "unsure") \/ End(c, "failed")
    BY <1>7 DEF IsListItem, IsRoot, UpdateFirst, FailUpdate, Goto
  <2> QED
    BY <1>3, <2>1
<1>8. CASE UpdateWhole(c)
  <2>1. /\ pc[c] = "whole" /\ taken[c] = << >> /\ UNCHANGED call
        /\ \/ (Updates(c) \/ ReplacesBody(c)) /\ End(c, "ok")
           \/ End(c, "failed")
    BY <1>1, <1>8 DEF UpdateWhole, InControl
  <2>2. /\ call[c].shape \in {"blocks", "mixed", "list"} /\ call[c].parts \in 1..MaxParts /\ MaxParts \in Nat
    <3>1. pc[c] \in UpdateRequests
      BY <2>1 DEF UpdateRequests
    <3> QED
      BY <2>1, <3>1, Waiting, PartsAssumption DEF Shapes
  <2>3. CASE Updates(c) /\ End(c, "ok")
    <3>1. Takes(c, <<1>>) /\ call[c].target \in Ids(doc)
      BY <2>3 DEF Updates, Target
    <3>2. call[c].target # Root
      <4>1. Ids(doc) \subseteq Nat
        BY <1>1, DocProperties DEF UpdateTypeOK
      <4> QED
        BY <3>1, <4>1, PartsAssumption
    <3>3. taken'[c] = <<1>>
      <4>1. 1 \in 1..MaxParts
        BY <2>2
      <4>2. <<1>> \in Seq(1..MaxParts) /\ << >> \o <<1>> = <<1>>
        BY <4>1, OnePart
      <4> QED
        BY <1>1, <2>1, <3>1, <4>2, TakesIs
    <3>4. call[c].parts = 1 \/ call[c].parts > 1
      BY <2>2
    <3>5. call[c].parts > 1 => call[c].shape = "list" /\ ~items
      BY <1>1, <2>1, <2>2, <3>2 DEF ListKnown
    <3>6. Whole(c) = <<1>>
      <4>1. CASE call[c].parts = 1
        BY <4>1, OnePartTaken DEF Whole, Parts
      <4>2. CASE call[c].shape = "list" /\ ~items
        BY <4>2 DEF Whole
      <4> QED
        BY <3>4, <3>5, <4>1, <4>2
    <3> QED
      BY <1>3, <2>3, <3>3, <3>6
  <2>4. CASE ReplacesBody(c) /\ End(c, "ok")
    <3> DEFINE n == IF call[c].shape = "list" THEN 1 ELSE call[c].parts
               p == [k \in 1..n |-> k]
    <3>1. Takes(c, p) /\ call[c].target = Root
      BY <2>4 DEF ReplacesBody, Parts, Target
    <3>2. Whole(c) = p
      <4>1. CASE call[c].shape = "list"
        BY <3>1, <4>1, OnePartTaken DEF Whole, Target
      <4>2. CASE call[c].shape # "list"
        BY <4>2 DEF Whole, Parts
      <4> QED
        BY <4>1, <4>2
    <3>3. n \in Nat /\ n \in 1..MaxParts
      BY <2>2
    <3> HIDE DEF n
    <3>4. \A k \in 1..n : k \in 1..MaxParts
      BY <2>2, <3>3
    <3>5. p \in [1..n -> 1..MaxParts]
      BY <3>4
    <3>6. p \in Seq(1..MaxParts)
      BY <3>3, <3>5, SeqDef
    <3> HIDE DEF p
    <3>7. << >> \o p = p
      BY <3>6
    <3>8. taken'[c] = p
      BY <1>1, <2>1, <3>1, <3>6, <3>7, TakesIs
    <3> QED
      BY <1>3, <2>4, <3>2, <3>8
  <2>5. CASE End(c, "failed")
    BY <1>3, <2>5
  <2> QED
    BY <2>1, <2>3, <2>4, <2>5
<1>9. CASE InsertNext(c)
  <2>1. pc[c] = "rest" /\ pc[c] \in UpdateRequests
    BY <1>9 DEF InsertNext, UpdateRequests
  <2>2. /\ Len(inserted[c]) \in Nat
        /\ taken[c] = [k \in 1 .. Len(inserted[c]) + 1 |-> k]
    BY <1>1, <2>1, Waiting DEF InControl
  <2>3. CASE Inserts(c) /\ End(c, "ok") /\ Len(inserted[c]) + 2 = call[c].parts
    <3>1. Previous(c) \in Ids(doc)
      BY <2>3 DEF Inserts
    <3>2. call[c].shape = "list" => items /\ call[c].target # Root
      BY <2>1, <3>1, AnchorInList
    <3>3. Whole(c) = [k \in 1..call[c].parts |-> k]
      BY <3>2 DEF Whole, Parts, Target
    <3> QED
      BY <1>3, <2>1, <2>3, <3>3, NextTaken
  <2>4. CASE (Inserts(c) \/ NotWritten) /\ End(c, "partial") /\ UNCHANGED inserted
    <3>1. \A m \in Nat : Len([k \in 1..m |-> k]) = m
      BY LenProperties, SeqDef
    <3>2. Len(taken'[c]) = Len(inserted[c]) + 1 \/ Len(taken'[c]) = Len(inserted[c]) + 2
      <4>1. CASE Inserts(c)
        <5>1. taken'[c] = [k \in 1 .. Len(inserted[c]) + 2 |-> k]
          BY <2>1, <4>1, NextTaken
        <5> QED
          BY <2>2, <3>1, <5>1
      <4>2. CASE NotWritten
        <5>1. taken'[c] = taken[c]
          BY <4>2 DEF NotWritten
        <5> QED
          BY <2>2, <3>1, <5>1
      <4> QED
        BY <2>4, <4>1, <4>2
    <3>3. Len(taken'[c]) - 1 - Len(inserted[c]) \in {0, 1}
      BY <2>2, <3>2
    <3> QED
      BY <1>3, <2>4, <3>3
  <2>5. CASE End(c, "failed")
    BY <1>3, <2>5
  <2>6. \/ Inserts(c) /\ End(c, "ok") /\ Len(inserted[c]) + 2 = call[c].parts
        \/ (Inserts(c) \/ NotWritten) /\ End(c, "partial") /\ UNCHANGED inserted
        \/ End(c, "failed")
    BY <1>9 DEF InsertNext, Parts, Goto
  <2> QED
    BY <2>3, <2>4, <2>5, <2>6
<1> QED
  BY <1>6, <1>7, <1>8, <1>9

(* An update_block that returns ok has had the kernel take every part of   *)
(* its data, once and in order, and whole unless the first of several      *)
(* blocks is a list, however many parts there are; one that gives up has   *)
(* counted right but for the block whose id it did not get.                *)
THEOREM OkTookAll == UpdateSpec => OkIsWhole
<1>1. UpdateInit => CutKnown
  BY DEF UpdateInit, CutKnown
<1>2. UpdateInv /\ CutKnown /\ [UpdateNext]_(updateVars) => CutKnown'
  BY CutStep
<1>3. /\ UpdateInv /\ CutKnown /\ CutKnown' /\ [UpdateNext]_(updateVars)
      => [\A c \in Calls : AnswersRight(c)]_(updateVars)
  <2>1. SUFFICES ASSUME UpdateInv, CutKnown', [UpdateNext]_(updateVars), NEW c \in Calls
                 PROVE  AnswersRight(c)
    OBVIOUS
  <2>2. SUFFICES ASSUME result'[c] # result[c], call[c] # None, call[c].tool = "update_block",
                        call[c].shape # "dom"
                 PROVE  /\ result'[c] = "ok" => taken'[c] = Whole(c) /\ (c \in cut' => call[c].shape = "mixed")
                        /\ result'[c] = "partial" => Len(taken'[c]) - 1 - Len(inserted'[c]) \in {0, 1}
    BY DEF AnswersRight
  <2>3. call'[c] = call[c]
    BY <2>1, <2>2, GivenOnce
  <2>4. c \in cut' => call[c].shape = "mixed"
    BY <2>1, <2>3 DEF CutKnown
  <2> QED
    BY <2>1, <2>2, <2>4, Answered
<1> QED
  BY <1>1, <1>2, <1>3, UpdateInvariant, PTL DEF UpdateSpec, OkIsWhole

=============================================================================

----------------------------- MODULE ReadsProofs -------------------------------
(***************************************************************************)
(* Proofs about Reads, for any document, any kinds of its blocks, any      *)
(* depth, and any number of edits between any two requests of a call.      *)
(***************************************************************************)
EXTENDS Reads, SequenceTheorems, FiniteSetTheorems, WellFoundedInduction, TLAPS

-----------------------------------------------------------------------------
(* Sequences without repetition                                            *)

LEMMA HasMin ==
    ASSUME NEW S \in SUBSET Nat, S # {}
    PROVE  Min(S) \in S /\ \A y \in S : Min(S) <= y
<1> DEFINE R == {ss \in Nat \X Nat : ss[1] < ss[2]}
<1>1. IsWellFoundedOn(R, Nat)
  BY NatLessThanWellFounded DEF OpToRel
<1> HIDE DEF R
<1>2. PICK x \in S : \A y \in S : <<y, x>> \notin R
  BY <1>1, WFMin
<1>3. ASSUME NEW y \in S PROVE x <= y
  <2>1. x \in Nat /\ y \in Nat /\ <<y, x>> \notin R
    BY <1>2
  <2> QED
    BY <2>1 DEF R
<1> QED
  BY <1>2, <1>3 DEF Min

(* A part of a sequence without repetition has none.                       *)
LEMMA SubSeqInjective ==
    ASSUME NEW S, NEW s \in Seq(S), IsInjective(s),
           NEW m \in Nat, NEW n \in Nat, m >= 1, n <= Len(s)
    PROVE  /\ SubSeq(s, m, n) \in Seq(S) /\ IsInjective(SubSeq(s, m, n))
           /\ ToSet(SubSeq(s, m, n)) \subseteq ToSet(s)
<1>1. Len(s) \in Nat /\ DOMAIN s = 1..Len(s) /\ \A i \in m..n : s[i] \in S
  BY LenProperties
<1> DEFINE u == SubSeq(s, m, n)
<1>2. /\ u \in Seq(S) /\ Len(u) = IF m <= n THEN n - m + 1 ELSE 0
      /\ \A i \in 1 .. n - m + 1 : u[i] = s[m + i - 1]
  BY <1>1, SubSeqProperties
<1>3. DOMAIN u = 1..Len(u)
  BY <1>2, LenProperties
<1> HIDE DEF u
<1>4. ASSUME NEW i \in DOMAIN u
      PROVE  i \in 1 .. n - m + 1 /\ m + i - 1 \in DOMAIN s /\ u[i] = s[m + i - 1]
  BY <1>1, <1>2, <1>3
<1>5. IsInjective(u)
  BY <1>1, <1>3, <1>4 DEF IsInjective
<1> QED
  BY <1>2, <1>4, <1>5 DEF u, ToSet

(* A sequence of S lists each member of S once.                            *)
LEMMA Listing ==
    ASSUME NEW S, IsFiniteSet(S), NEW s \in SetToSeqs(S)
    PROVE  s \in Seq(S) /\ Len(s) = Cardinality(S) /\ IsInjective(s) /\ ToSet(s) = S
<1> DEFINE n == Cardinality(S)
<1>1. n \in Nat
  BY FS_CardinalityType
<1>2. s \in [1..n -> S] /\ IsInjective(s)
  BY DEF SetToSeqs, IsInjective
<1>3. IsFiniteSet(1..n) /\ Cardinality(1..n) = n
  BY <1>1, FS_Interval
<1>4. s \in Surjection(1..n, S)
  <2>1. s \in Injection(1..n, S)
    BY <1>2 DEF Injection
  <2> QED
    BY <1>3, <2>1, FS_Injection
<1>5. ToSet(s) = S
  BY <1>2, <1>4 DEF Surjection, ToSet
<1>6. s \in Seq(S)
  BY <1>1, <1>2, SeqDef
<1>7. Len(s) = n
  BY <1>1, <1>2, <1>6, LenProperties
<1> QED
  BY <1>2, <1>5, <1>6, <1>7

LEMMA MinOfTwo ==
    ASSUME NEW m \in Nat, NEW n \in Nat
    PROVE  Min({m, n}) = IF m <= n THEN m ELSE n
BY DEF Min

LEMMA MaxOfTwo ==
    ASSUME NEW m \in Int, NEW n \in Int
    PROVE  Max({m, n}) = IF m >= n THEN m ELSE n
BY DEF Max

(* Two sequences without common members, one behind the other, cut at m.   *)
LEMMA CutConcat ==
    ASSUME NEW S, NEW u \in Seq(S), NEW v \in Seq(S), IsInjective(u), IsInjective(v),
           ToSet(u) \cap ToSet(v) = {}, NEW m \in Nat
    PROVE  LET w == SubSeq(u \o v, 1, Min({m, Len(u \o v)}))
           IN  /\ w \in Seq(S) /\ IsInjective(w) /\ Len(w) <= m
               /\ ToSet(w) \subseteq ToSet(u) \cup ToSet(v)
               /\ \A b \in ToSet(u) \cup ToSet(v) : b \in ToSet(w) \/ Len(w) = m
               /\ \A b \in ToSet(u), c \in ToSet(w) \ ToSet(u) : Precedes(w, b, c)
               /\ \A b, c : Precedes(u, b, c) /\ c \in ToSet(w) => Precedes(w, b, c)
<1> DEFINE uv == u \o v
           k  == Min({m, Len(uv)})
           w  == SubSeq(uv, 1, k)
<1>1. /\ Len(u) \in Nat /\ DOMAIN u = 1..Len(u)
      /\ Len(v) \in Nat /\ DOMAIN v = 1..Len(v)
  BY LenProperties
<1>2. /\ uv \in Seq(S) /\ Len(uv) = Len(u) + Len(v)
      /\ \A i \in 1 .. Len(u) + Len(v) : uv[i] = IF i <= Len(u) THEN u[i] ELSE v[i - Len(u)]
  BY ConcatProperties
<1> HIDE DEF uv
<1>3. k = IF m <= Len(uv) THEN m ELSE Len(uv)
  BY <1>1, <1>2, MinOfTwo
<1> HIDE DEF k
<1>4. k \in Nat /\ k <= m /\ k <= Len(u) + Len(v) /\ (k = m \/ k = Len(u) + Len(v))
  BY <1>1, <1>2, <1>3
<1>5. ASSUME NEW i \in 1 .. Len(u)
      PROVE  i \in 1 .. Len(u) + Len(v) /\ uv[i] = u[i] /\ uv[i] \in ToSet(u)
  BY <1>1, <1>2 DEF ToSet
<1>6. ASSUME NEW i \in 1 .. Len(u) + Len(v), i > Len(u)
      PROVE  i - Len(u) \in 1 .. Len(v) /\ uv[i] = v[i - Len(u)] /\ uv[i] \in ToSet(v)
  BY <1>1, <1>2, <1>6 DEF ToSet
<1>7. IsInjective(uv)
  <2>1. ASSUME NEW i \in 1 .. Len(u) + Len(v), NEW j \in 1 .. Len(u) + Len(v), uv[i] = uv[j]
        PROVE  i = j
    <3>1. CASE i <= Len(u) /\ j <= Len(u)
      <4>1. i \in DOMAIN u /\ j \in DOMAIN u /\ u[i] = u[j]
        BY <1>1, <1>5, <2>1, <3>1
      <4> QED
        BY <4>1 DEF IsInjective
    <3>2. CASE i > Len(u) /\ j > Len(u)
      <4>1. i - Len(u) \in DOMAIN v /\ j - Len(u) \in DOMAIN v /\ v[i - Len(u)] = v[j - Len(u)]
        BY <1>1, <1>6, <2>1, <3>2
      <4>2. i - Len(u) = j - Len(u)
        BY <4>1 DEF IsInjective
      <4> QED
        BY <1>1, <4>2
    <3>3. CASE i <= Len(u) /\ j > Len(u)
      <4>1. uv[i] \in ToSet(u) /\ uv[j] \in ToSet(v)
        BY <1>1, <1>5, <1>6, <3>3
      <4> QED
        BY <2>1, <4>1
    <3>4. CASE i > Len(u) /\ j <= Len(u)
      <4>1. uv[j] \in ToSet(u) /\ uv[i] \in ToSet(v)
        BY <1>1, <1>5, <1>6, <3>4
      <4> QED
        BY <2>1, <4>1
    <3> QED
      BY <1>1, <3>1, <3>2, <3>3, <3>4
  <2>2. DOMAIN uv = 1 .. Len(u) + Len(v)
    BY <1>2, LenProperties
  <2> QED
    BY <2>1, <2>2 DEF IsInjective
<1>8. /\ w \in Seq(S) /\ IsInjective(w) /\ Len(w) = k /\ DOMAIN w = 1..k
      /\ \A i \in 1..k : w[i] = uv[i]
  <2>1. w \in Seq(S) /\ IsInjective(w)
    BY <1>2, <1>4, <1>7, SubSeqInjective
  <2>2. \A i \in 1..k : uv[i] \in S
    BY <1>2, <1>4, ElementOfSeq
  <2>3. Len(w) = (IF 1 <= k THEN k - 1 + 1 ELSE 0) /\ \A i \in 1 .. k - 1 + 1 : w[i] = uv[1 + i - 1]
    BY <1>4, <2>2, SubSeqProperties
  <2> HIDE DEF w
  <2>4. Len(w) = k
    BY <1>4, <2>3
  <2>5. ASSUME NEW i \in 1..k PROVE w[i] = uv[i]
    <3>1. i \in 1 .. k - 1 + 1 /\ 1 + i - 1 = i
      BY <1>4
    <3>2. w[i] = uv[1 + i - 1]
      BY <2>3, <3>1
    <3> QED
      BY <3>1, <3>2
  <2> QED
    BY <2>1, <2>4, <2>5, LenProperties
<1> HIDE DEF w
<1>9. ToSet(w) \subseteq ToSet(u) \cup ToSet(v)
  <2>1. ASSUME NEW i \in 1..k PROVE w[i] \in ToSet(u) \cup ToSet(v)
    <3>1. CASE i <= Len(u)
      BY <1>1, <1>4, <1>5, <1>8, <3>1
    <3>2. CASE i > Len(u)
      BY <1>1, <1>4, <1>6, <1>8, <3>2
    <3> QED
      BY <1>1, <3>1, <3>2
  <2> QED
    BY <1>8, <2>1 DEF ToSet
<1>10. ASSUME NEW b \in ToSet(u) \cup ToSet(v), Len(w) # m PROVE b \in ToSet(w)
  <2>1. k = Len(u) + Len(v)
    BY <1>4, <1>8, <1>10
  <2>2. \E i \in 1..k : uv[i] = b
    <3>1. CASE b \in ToSet(u)
      <4>1. PICK i \in 1..Len(u) : u[i] = b
        BY <1>1, <3>1 DEF ToSet
      <4> QED
        BY <1>5, <2>1, <4>1
    <3>2. CASE b \in ToSet(v)
      <4>1. PICK i \in 1..Len(v) : v[i] = b
        BY <1>1, <3>2 DEF ToSet
      <4>2. Len(u) + i \in 1 .. Len(u) + Len(v) /\ Len(u) + i > Len(u) /\ Len(u) + i - Len(u) = i
        BY <1>1
      <4>3. uv[Len(u) + i] = v[i]
        BY <1>6, <4>2
      <4> QED
        BY <2>1, <4>1, <4>2, <4>3
    <3> QED
      BY <3>1, <3>2
  <2> QED
    BY <1>8, <2>2 DEF ToSet
<1>11. ASSUME NEW b \in ToSet(u), NEW c \in ToSet(w) \ ToSet(u) PROVE Precedes(w, b, c)
  <2>1. PICK i \in 1..Len(u) : u[i] = b
    BY <1>1 DEF ToSet
  <2>2. PICK j \in 1..k : w[j] = c
    BY <1>8 DEF ToSet
  <2>3. j > Len(u)
    <3>1. ASSUME j <= Len(u) PROVE FALSE
      BY <1>1, <1>5, <1>8, <2>2, <3>1
    <3> QED
      BY <1>1, <3>1
  <2>4. i \in 1..k /\ i < j
    BY <1>1, <1>4, <2>3
  <2>5. w[i] = b
    BY <1>5, <1>8, <2>1, <2>4
  <2> QED
    BY <1>8, <2>2, <2>4, <2>5 DEF Precedes
<1>12. ASSUME NEW b, NEW c, Precedes(u, b, c), c \in ToSet(w) PROVE Precedes(w, b, c)
  <2>1. PICK i \in 1..Len(u), j \in 1..Len(u) : i < j /\ u[i] = b /\ u[j] = c
    BY <1>1, <1>12 DEF Precedes
  <2>2. PICK x \in 1..k : w[x] = c
    BY <1>8, <1>12 DEF ToSet
  <2>3. x = j
    <3>1. uv[x] = uv[j] /\ x \in DOMAIN uv /\ j \in DOMAIN uv
      BY <1>1, <1>2, <1>4, <1>5, <1>8, <2>1, <2>2, LenProperties
    <3> QED
      BY <1>7, <3>1 DEF IsInjective
  <2>4. i \in 1..k /\ i < x
    BY <1>1, <1>4, <2>1, <2>3
  <2>5. w[i] = b
    BY <1>5, <1>8, <2>1, <2>4
  <2> QED
    BY <1>8, <2>2, <2>4, <2>5 DEF Precedes
<1>13. /\ w \in Seq(S) /\ IsInjective(w) /\ Len(w) <= m
       /\ ToSet(w) \subseteq ToSet(u) \cup ToSet(v)
  BY <1>4, <1>8, <1>9
<1>14. w = SubSeq(u \o v, 1, Min({m, Len(u \o v)}))
  BY DEF w, k, uv
<1> HIDE DEF uv, k
<1> QED
  BY <1>10, <1>11, <1>12, <1>13, <1>14

(* The part of s within n places of the place i.                           *)
LEMMA WindowIs ==
    ASSUME NEW S, NEW s \in Seq(S), IsInjective(s), NEW i \in 1..Len(s)
    PROVE  LET w == Window(s, i)
           IN  /\ w \in Seq(S) /\ IsInjective(w) /\ ToSet(w) \subseteq ToSet(s)
               /\ \E k \in DOMAIN w :
                     /\ w[k] = s[i] /\ k - 1 <= Around /\ Len(w) - k <= Around
                     /\ Around \in {k - 1, Len(w) - k} \/ ToSet(w) = ToSet(s)
<1> DEFINE lo == Max({1, i - Around})
           hi == Min({Len(s), i + Around})
           w  == SubSeq(s, lo, hi)
<1>1. Around \in Nat /\ Len(s) \in Nat /\ DOMAIN s = 1..Len(s) /\ i \in Nat /\ i >= 1 /\ i <= Len(s)
  BY BoundAssumption, LenProperties
<1>2. lo = IF 1 >= i - Around THEN 1 ELSE i - Around
  BY <1>1, MaxOfTwo
<1>3. hi = IF Len(s) <= i + Around THEN Len(s) ELSE i + Around
  BY <1>1, MinOfTwo
<1>4. w = Window(s, i)
  BY DEF Window
<1> HIDE DEF lo, hi
<1>5. /\ lo \in Nat /\ 1 <= lo /\ lo <= i /\ i - lo <= Around /\ (lo = 1 \/ i - lo = Around)
      /\ hi \in Nat /\ i <= hi /\ hi <= Len(s) /\ hi - i <= Around /\ (hi = Len(s) \/ hi - i = Around)
  <2>1. ASSUME NEW a \in Nat, NEW n \in Nat, NEW x \in 1..n, NEW l, l = IF 1 >= x - a THEN 1 ELSE x - a
        PROVE  l \in Nat /\ 1 <= l /\ l <= x /\ x - l <= a /\ (l = 1 \/ x - l = a)
    BY <2>1
  <2>3. Around \in Nat /\ Len(s) \in Nat
    BY <1>1
  <2>4. lo \in Nat /\ 1 <= lo /\ lo <= i /\ i - lo <= Around /\ (lo = 1 \/ i - lo = Around)
    BY <1>2, <2>1, <2>3
  <2>5. hi \in Nat /\ i <= hi /\ hi <= Len(s) /\ hi - i <= Around /\ (hi = Len(s) \/ hi - i = Around)
    <3>1. CASE Len(s) <= i + Around
      <4>1. hi = Len(s)
        BY <1>3, <3>1
      <4> QED
        BY <1>1, <3>1, <4>1
    <3>2. CASE ~(Len(s) <= i + Around)
      <4>1. hi = i + Around
        BY <1>3, <3>2
      <4> QED
        BY <1>1, <3>2, <4>1
    <3> QED
      BY <3>1, <3>2
  <2> QED
    BY <2>4, <2>5
<1>6. /\ w \in Seq(S) /\ IsInjective(w) /\ ToSet(w) \subseteq ToSet(s)
      /\ Len(w) = hi - lo + 1 /\ DOMAIN w = 1 .. hi - lo + 1
      /\ \A k \in 1 .. hi - lo + 1 : w[k] = s[lo + k - 1]
  <2>1. w \in Seq(S) /\ IsInjective(w) /\ ToSet(w) \subseteq ToSet(s)
    BY <1>1, <1>5, SubSeqInjective
  <2>2. ASSUME NEW k \in lo..hi PROVE s[k] \in S
    <3>1. k \in 1..Len(s)
      <4>1. /\ k \in lo..hi /\ lo \in Nat /\ 1 <= lo
            /\ hi \in Nat /\ hi <= Len(s) /\ Len(s) \in Nat
        <5>1. lo \in Nat /\ 1 <= lo /\ hi \in Nat /\ hi <= Len(s)
          BY <1>5
        <5>2. Len(s) \in Nat
          BY <1>1
        <5> QED
          BY <2>2, <5>1, <5>2
      <4> QED
        BY <4>1
    <3> QED
      BY <3>1, ElementOfSeq
  <2>3. Len(w) = (IF lo <= hi THEN hi - lo + 1 ELSE 0) /\ \A k \in 1 .. hi - lo + 1 : w[k] = s[lo + k - 1]
    BY <1>5, <2>2, SubSeqProperties
  <2> HIDE DEF w
  <2>4. Len(w) = hi - lo + 1
    BY <1>5, <2>3
  <2> QED
    BY <2>1, <2>3, <2>4, LenProperties
<1> HIDE DEF w
<1> DEFINE k == i - lo + 1
<1>7. k \in 1 .. hi - lo + 1 /\ lo + k - 1 = i /\ k - 1 = i - lo /\ Len(w) - k = hi - i
  <2>1. ASSUME NEW l \in Nat, NEW h \in Nat, NEW x \in Nat, l <= x, x <= h, 1 <= l
        PROVE  /\ x - l + 1 \in 1 .. h - l + 1 /\ l + (x - l + 1) - 1 = x
               /\ x - l + 1 - 1 = x - l /\ h - l + 1 - (x - l + 1) = h - x
    BY <2>1
  <2>2. /\ lo \in Nat /\ hi \in Nat /\ i \in Nat /\ lo <= i /\ i <= hi /\ 1 <= lo
        /\ Len(w) = hi - lo + 1
    <3>1. lo \in Nat /\ hi \in Nat /\ lo <= i /\ i <= hi /\ 1 <= lo
      BY <1>5
    <3>2. Len(w) = hi - lo + 1
      BY <1>6
    <3>3. i \in Nat
      BY <1>1
    <3> QED
      BY <3>1, <3>2, <3>3
  <2> QED
    BY <2>1, <2>2
<1>8. w[k] = s[i]
  BY <1>6, <1>7
<1>9. k - 1 <= Around /\ Len(w) - k <= Around
  BY <1>5, <1>7
<1>10. Around \in {k - 1, Len(w) - k} \/ ToSet(w) = ToSet(s)
  <2>1. CASE lo = 1 /\ hi = Len(s)
    <3>1. Len(w) = Len(s) /\ \A x \in 1..Len(s) : w[x] = s[x]
      BY <1>1, <1>6, <2>1
    <3> QED
      BY <1>1, <1>6, <3>1 DEF ToSet
  <2>2. CASE i - lo = Around \/ hi - i = Around
    BY <1>7, <2>2
  <2> QED
    BY <1>5, <2>1, <2>2
<1> HIDE DEF k
<1> QED
  BY <1>4, <1>6, <1>7, <1>8, <1>9, <1>10

(* What is taken out of a sequence without repetition is gone from it.     *)
LEMMA RemoveFirstInjective ==
    ASSUME NEW S, NEW s \in Seq(S), IsInjective(s), NEW e
    PROVE  /\ RemoveFirst(s, e) \in Seq(S) /\ IsInjective(RemoveFirst(s, e))
           /\ e \notin ToSet(RemoveFirst(s, e))
<1>1. Len(s) \in Nat /\ DOMAIN s = 1..Len(s) /\ \A i \in 1..Len(s) : s[i] \in S
  BY LenProperties, ElementOfSeq
<1>2. CASE ~ \E i \in 1..Len(s) : s[i] = e
  BY <1>1, <1>2 DEF RemoveFirst, ToSet
<1>3. CASE \E i \in 1..Len(s) : s[i] = e
  <2>1. PICK k \in 1..Len(s) : s[k] = e
    BY <1>3
  <2>2. {i \in 1..Len(s) : s[i] = e} = {k}
    BY <1>1, <2>1 DEF IsInjective
  <2>3. Min({k}) = k
    BY DEF Min
  <2>4. RemoveFirst(s, e) = SubSeq(s, 1, k - 1) \o SubSeq(s, k + 1, Len(s))
    BY <1>3, <2>1, <2>2, <2>3 DEF RemoveFirst, SelectInSeq, RemoveAt
  <2> DEFINE u == SubSeq(s, 1, k - 1)
             v == SubSeq(s, k + 1, Len(s))
  <2>5. /\ u \in Seq(S) /\ Len(u) = k - 1 /\ \A i \in 1 .. k - 1 : u[i] = s[i]
    BY <1>1, SubSeqProperties
  <2>6. /\ v \in Seq(S) /\ Len(v) = Len(s) - k
        /\ \A i \in 1 .. Len(s) - k : v[i] = s[k + i]
    <3>1. v \in Seq(S) /\ Len(v) = IF k + 1 <= Len(s) THEN Len(s) - (k + 1) + 1 ELSE 0
      BY <1>1, SubSeqProperties
    <3>2. \A i \in 1 .. Len(s) - (k + 1) + 1 : v[i] = s[k + 1 + i - 1]
      BY <1>1, SubSeqProperties
    <3> HIDE DEF v
    <3>3. ASSUME NEW i \in 1 .. Len(s) - k PROVE v[i] = s[k + i]
      <4>1. i \in 1 .. Len(s) - (k + 1) + 1 /\ k + 1 + i - 1 = k + i
        BY <1>1
      <4>2. v[i] = s[k + 1 + i - 1]
        BY <3>2, <4>1
      <4> QED
        BY <4>1, <4>2
    <3>4. Len(v) = Len(s) - k
      <4>1. k \in Nat /\ k <= Len(s) /\ Len(s) \in Nat
        BY <1>1
      <4>2. CASE k + 1 <= Len(s)
        BY <3>1, <4>1, <4>2
      <4>3. CASE ~(k + 1 <= Len(s))
        <5>1. Len(v) = 0 /\ k = Len(s)
          BY <3>1, <4>1, <4>3
        <5> QED
          BY <4>1, <5>1
      <4> QED
        BY <4>2, <4>3
    <3> QED
      BY <3>1, <3>3, <3>4
  <2> HIDE DEF u, v
  <2> DEFINE w == u \o v
  <2>7. /\ w \in Seq(S) /\ Len(w) = Len(s) - 1
        /\ \A i \in 1 .. Len(s) - 1 : w[i] = IF i < k THEN s[i] ELSE s[i + 1]
    <3>1. /\ w \in Seq(S) /\ Len(w) = Len(u) + Len(v)
          /\ \A i \in 1 .. Len(u) + Len(v) :
                w[i] = IF i <= Len(u) THEN u[i] ELSE v[i - Len(u)]
      BY <2>5, <2>6, ConcatProperties
    <3> HIDE DEF w
    <3>2. ASSUME NEW i \in 1 .. Len(s) - 1 PROVE w[i] = IF i < k THEN s[i] ELSE s[i + 1]
      <4>1. w[i] = IF i <= k - 1 THEN u[i] ELSE v[i - (k - 1)]
        BY <1>1, <2>5, <2>6, <3>1
      <4>2. CASE i < k
        BY <2>5, <4>1, <4>2
      <4>3. CASE i >= k
        <5>1. i - (k - 1) \in 1 .. Len(s) - k /\ k + (i - (k - 1)) = i + 1
          BY <1>1, <4>3
        <5> QED
          BY <2>6, <4>1, <4>3, <5>1
      <4> QED
        BY <4>2, <4>3
    <3> QED
      BY <1>1, <2>5, <2>6, <3>1, <3>2
  <2> HIDE DEF w
  <2>8. DOMAIN w = 1 .. Len(s) - 1
    BY <2>7, LenProperties
  <2>9. IsInjective(w)
    <3>1. ASSUME NEW i \in 1 .. Len(s) - 1, NEW j \in 1 .. Len(s) - 1, w[i] = w[j] PROVE i = j
      <4> DEFINE at(x) == IF x < k THEN x ELSE x + 1
      <4>1. at(i) \in DOMAIN s /\ at(j) \in DOMAIN s /\ s[at(i)] = s[at(j)]
        BY <1>1, <2>7, <3>1
      <4>2. at(i) = at(j)
        <5> HIDE DEF at
        <5> QED
          BY <4>1 DEF IsInjective
      <4> QED
        BY <4>2
    <3> QED
      BY <2>8, <3>1 DEF IsInjective
  <2>10. e \notin ToSet(w)
    <3>0. SUFFICES ASSUME NEW i \in 1 .. Len(s) - 1, w[i] = e PROVE FALSE
      BY <2>8 DEF ToSet
    <3> DEFINE j == IF i < k THEN i ELSE i + 1
    <3>1. j \in DOMAIN s /\ j # k /\ s[j] = e
      <4>1. w[i] = s[j] /\ j \in 1..Len(s) /\ j # k
        BY <1>1, <2>7
      <4> QED
        BY <1>1, <3>0, <4>1
    <3> HIDE DEF j
    <3> QED
      BY <1>1, <2>1, <3>1 DEF IsInjective
  <2> QED
    BY <2>4, <2>7, <2>9, <2>10 DEF w, u, v
<1> QED
  BY <1>2, <1>3

(* What is put into a sequence that lacks it is no repetition.             *)
LEMMA InsertAtInjective ==
    ASSUME NEW S, NEW s \in Seq(S), IsInjective(s), NEW e \in S, e \notin ToSet(s),
           NEW i \in 1 .. Len(s) + 1
    PROVE  InsertAt(s, i, e) \in Seq(S) /\ IsInjective(InsertAt(s, i, e))
<1>1. Len(s) \in Nat /\ DOMAIN s = 1..Len(s) /\ \A j \in 1..Len(s) : s[j] \in S
  BY LenProperties, ElementOfSeq
<1> DEFINE u == SubSeq(s, 1, i - 1)
           v == SubSeq(s, i, Len(s))
           ue == u \o <<e>>
<1>2. /\ u \in Seq(S) /\ Len(u) = i - 1 /\ \A j \in 1 .. i - 1 : u[j] = s[j]
  BY <1>1, SubSeqProperties
<1>3. /\ v \in Seq(S) /\ Len(v) = Len(s) - i + 1
      /\ \A j \in 1 .. Len(s) - i + 1 : v[j] = s[i + j - 1]
  BY <1>1, SubSeqProperties
<1>4. <<e>> \in Seq(S) /\ Len(<<e>>) = 1 /\ <<e>>[1] = e
  OBVIOUS
<1> HIDE DEF u, v
<1>5. /\ ue \in Seq(S) /\ Len(ue) = i
      /\ \A j \in 1 .. i : ue[j] = IF j < i THEN s[j] ELSE e
  <2>1. /\ ue \in Seq(S) /\ Len(ue) = Len(u) + Len(<<e>>)
        /\ \A j \in 1 .. Len(u) + Len(<<e>>) :
              ue[j] = IF j <= Len(u) THEN u[j] ELSE <<e>>[j - Len(u)]
    BY <1>2, <1>4, ConcatProperties
  <2> QED
    BY <1>1, <1>2, <1>4, <2>1
<1> HIDE DEF ue
<1> DEFINE w == ue \o v
<1>6. /\ w \in Seq(S) /\ Len(w) = Len(s) + 1
      /\ \A j \in 1 .. Len(s) + 1 :
            w[j] = IF j < i THEN s[j] ELSE IF j = i THEN e ELSE s[j - 1]
  <2>1. /\ w \in Seq(S) /\ Len(w) = Len(ue) + Len(v)
        /\ \A j \in 1 .. Len(ue) + Len(v) :
              w[j] = IF j <= Len(ue) THEN ue[j] ELSE v[j - Len(ue)]
    BY <1>3, <1>5, ConcatProperties
  <2> QED
    BY <1>1, <1>3, <1>5, <2>1
<1>7. DOMAIN w = 1 .. Len(s) + 1
  BY <1>6, LenProperties
<1> HIDE DEF w
<1>8. ASSUME NEW j \in 1 .. Len(s) + 1, NEW k \in 1 .. Len(s) + 1, w[j] = w[k] PROVE j = k
  <2> DEFINE at(x) == IF x < i THEN x ELSE x - 1
  <2>1. ASSUME NEW x \in 1 .. Len(s) + 1, x # i
        PROVE  at(x) \in DOMAIN s /\ w[x] = s[at(x)] /\ w[x] # e
    <3>1. at(x) \in DOMAIN s /\ w[x] = s[at(x)]
      BY <1>1, <1>6, <2>1
    <3> HIDE DEF at
    <3> QED
      BY <3>1 DEF ToSet
  <2>2. w[i] = e
    BY <1>6
  <2>3. CASE j = i \/ k = i
    BY <1>8, <2>1, <2>2, <2>3
  <2>4. CASE j # i /\ k # i
    <3>1. at(j) = at(k)
      <4> HIDE DEF at
      <4> QED
        BY <1>8, <2>1, <2>4 DEF IsInjective
    <3> QED
      BY <2>4, <3>1
  <2> QED
    BY <2>3, <2>4
<1>9. IsInjective(w)
  BY <1>7, <1>8 DEF IsInjective
<1> QED
  BY <1>6, <1>9 DEF w, ue, u, v, InsertAt

-----------------------------------------------------------------------------
(* The kernel's tree                                                       *)

GoodTree(tree) ==
    tree \in [Containers -> Seq(Blocks)] /\ \A x \in Containers : IsInjective(tree[x])

LEMMA ChildrenRegular ==
    ASSUME NEW tree, GoodTree(tree), NEW x
    PROVE  Children(tree, x) \in Seq(Blocks) /\ IsInjective(Children(tree, x))
<1>1. << >> \in Seq(Blocks) /\ IsInjective(<< >>)
  BY DEF IsInjective
<1>2. CASE x \in Containers
  BY <1>2 DEF Children, GoodTree
<1>3. CASE x \notin Containers /\ x \in Headings /\ \E y \in Containers : x \in ToSet(tree[y])
  <2> DEFINE y    == CHOOSE y \in Containers : x \in ToSet(tree[y])
             s    == tree[y]
             at   == CHOOSE i \in DOMAIN s : s[i] = x
             ends == {i \in DOMAIN s : i > at /\ s[i] \in Headings}
             last == IF ends = {} THEN Len(s) ELSE Min(ends) - 1
  <2>1. y \in Containers /\ x \in ToSet(s)
    BY <1>3
  <2>2. Children(tree, x) = SubSeq(s, at + 1, last)
    BY <1>3 DEF Children, Section
  <2> HIDE DEF y
  <2>3. s \in Seq(Blocks) /\ IsInjective(s) /\ Len(s) \in Nat /\ DOMAIN s = 1..Len(s)
    BY <2>1, LenProperties DEF GoodTree
  <2>4. at \in 1..Len(s)
    BY <2>1, <2>3 DEF ToSet
  <2> HIDE DEF s, at
  <2>5. last \in Nat /\ last <= Len(s)
    <3>1. CASE ends = {}
      BY <2>3, <3>1
    <3>2. CASE ends # {}
      <4>1. ends \in SUBSET Nat
        BY <2>3
      <4> DEFINE m == Min(ends)
      <4>2. m \in ends
        BY <3>2, <4>1, HasMin
      <4>3. last = m - 1
        BY <3>2
      <4>4. m \in 1..Len(s) /\ m > at
        BY <2>3, <4>2
      <4> HIDE DEF m, last
      <4> QED
        BY <2>3, <2>4, <4>3, <4>4
    <3> QED
      BY <3>1, <3>2
  <2> HIDE DEF last
  <2> QED
    BY <2>2, <2>3, <2>4, <2>5, SubSeqInjective
<1>4. CASE x \notin Containers /\ ~(x \in Headings /\ \E y \in Containers : x \in ToSet(tree[y]))
  BY <1>1, <1>4 DEF Children
<1> QED
  BY <1>2, <1>3, <1>4

-----------------------------------------------------------------------------
(* The inductive invariant                                                 *)

(* What the kernel is now is among what it has been, and its lists of      *)
(* children never had a repetition.                                        *)
History ==
    /\ GoodTree(kids) /\ \A s \in past : GoodTree(s.kids)
    /\ Reading => Now \in past

Shape ==
    /\ pc \in {"idle", "done"} \cup Requests
    /\ pc # "idle" => /\ call \in [tool : Tools, id : Ids, depth : Depths \cup {None}]
                      /\ call.depth # None <=> call.tool = "get_block_children"
    /\ outcome = "none" <=> pc # "done"
    /\ pc \in {"row", "markdown", "info"} => call.tool \in {"get_block", "get_block_children"}
    /\ pc = "children" => call.tool = "get_block_children"
    /\ pc \in {"direct", "headings"} => call.tool = "get_document_outline"
    /\ pc \in {"header", "count", "first"} => call.tool = "get_doc_summary"
    /\ pc \in {"search", "siblings"} => call.tool = "search_with_context"

(* What get_block has so far was so at some moment.                        *)
BlockSoFar ==
    /\ DOMAIN block = {"row", "markdown"}
    /\ pc = "markdown" => \E s \in past : s.rows[call.id] = block.row
    /\ pc = "info" => \E s \in past : s.text[call.id] = block.markdown

(* A path leads from the block asked for from each node to a child that    *)
(* can have children.                                                      *)
IsPath(q) ==
    /\ q \in Seq(Ids) /\ q # << >>
    /\ Len(q) > 1 => /\ Len(q) <= call.depth /\ Front(q) \in DOMAIN listing
                     /\ Last(q) \in ToSet(listing[Front(q)]) /\ Last(q) \in Containers

(* A node on the list has the children it had at some moment, and those    *)
(* that can have children, not too far down, are on the list or asked for. *)
IsListed(p) ==
    /\ \E s \in past : listing[p] = Children(s.kids, Last(p))
    /\ \A b \in ToSet(listing[p]) \cap Containers :
          Len(p) < call.depth => Append(p, b) \in DOMAIN listing \cup pending

TreeSoFar ==
    /\ <<call.id>> \in DOMAIN listing \cup pending
    /\ DOMAIN listing \cap pending = {}
    /\ \A q \in DOMAIN listing \cup pending : IsPath(q)
    /\ \A p \in DOMAIN listing : IsListed(p)
    /\ outcome = "ok" => pending = {}

IInv ==
    /\ History /\ Shape /\ BlockSoFar /\ BlockIsRegular
    /\ pc \in {"idle", "row", "markdown", "info"} => DOMAIN listing = {}
    /\ pc = "children" \/ Ok("get_block_children") => TreeSoFar

LEMMA InitIInv == Init => IInv
BY TreeAssumption DEF Init, IInv, History, GoodTree, Shape, BlockSoFar, BlockIsRegular, Reading,
       Requests, Ok, NoBlock

-----------------------------------------------------------------------------
(* Steps of the tools                                                      *)

(* A call of another tool goes on or ends.                                 *)
LEMMA OtherStep ==
    ASSUME IInv, call.tool \notin {"get_block", "get_block_children"},
           \/ ListDirect \/ QueryHeadings \/ FindDocument \/ CountChildren \/ FirstBlocks
           \/ Search \/ QuerySiblings
    PROVE  IInv'
<1>1. /\ UNCHANGED <<kids, text, rows, call, past, block>>
      /\ pc \in {"direct", "headings", "header", "count", "first", "search", "siblings"}
      /\ \/ /\ pc = "direct" /\ pc' = "headings" /\ outcome' = outcome
         \/ /\ pc = "header" /\ pc' = "count" /\ outcome' = outcome
         \/ /\ pc = "count" /\ pc' = "first" /\ outcome' = outcome
         \/ /\ pc \in {"search", "siblings"} /\ pc' = "siblings" /\ outcome' = outcome
         \/ pc # "header" /\ pc' = "done" /\ outcome' = "ok"
         \/ pc = "header" /\ pc' = "done" /\ outcome' = "not_found"
  BY DEF ListDirect, QueryHeadings, FindDocument, CountChildren, FirstBlocks, Search, QuerySiblings,
         Ask, Goto, End, kernel, parts
<1>2. History'
  BY <1>1 DEF IInv, History, Reading, Now, Requests
<1>3. Shape'
  BY <1>1 DEF IInv, Shape, Requests
<1>4. BlockSoFar' /\ BlockIsRegular'
  BY <1>1 DEF IInv, Shape, BlockSoFar, BlockIsRegular, Ok
<1> QED
  BY <1>1, <1>2, <1>3, <1>4 DEF IInv, Ok

LEMMA BeginStep ==
    ASSUME IInv, Begin
    PROVE  IInv'
<1>1. PICK tool \in Tools, id \in Ids, depth \in Depths \cup {None} :
        /\ depth # None <=> tool = "get_block_children"
        /\ call' = [tool |-> tool, id |-> id, depth |-> depth]
        /\ pc' = First(tool) /\ outcome' = outcome
  BY DEF Begin, Goto
<1>2. /\ pc = "idle" /\ outcome = "none" /\ past' = {Now} /\ Now' = Now
      /\ UNCHANGED <<kids, listing, block>>
      /\ pc' \in {"row", "direct", "header", "search"}
  BY <1>1 DEF Begin, kernel, parts, Now, IInv, Shape, First, Tools
<1>3. History'
  BY <1>2 DEF IInv, History, Now
<1>4. Shape'
  BY <1>1, <1>2 DEF Shape, First, Tools, Requests
<1>5. BlockSoFar' /\ BlockIsRegular'
  BY <1>1, <1>2 DEF IInv, BlockSoFar, BlockIsRegular, Ok
<1> QED
  BY <1>1, <1>2, <1>3, <1>4, <1>5 DEF IInv, Ok

(* get_block ends, or get_block_children asks for the first children.      *)
LEMMA HasBlockTree ==
    ASSUME call.id \in Ids, DOMAIN listing = {}, UNCHANGED <<call, listing>>,
           pending' = {<<call.id>>}, outcome' = "none"
    PROVE  TreeSoFar'
<1>1. PICK q : q = <<call.id>>
  OBVIOUS
<1>2. q \in Seq(Ids) /\ q # << >> /\ Len(q) = 1
  BY <1>1
<1>3. pending' = {q} /\ DOMAIN listing' = {} /\ <<call'.id>> = q
  BY <1>1
<1>4. IsPath(q)'
  BY <1>2 DEF IsPath
<1> QED
  BY <1>3, <1>4 DEF TreeSoFar

LEMMA BlockStep ==
    ASSUME IInv, GetRow \/ GetMarkdown \/ GetInfo
    PROVE  IInv'
<1>1. /\ UNCHANGED <<kids, text, rows, call, past, listing>> /\ Now' = Now
      /\ pc \in {"row", "markdown", "info"} /\ outcome = "none" /\ DOMAIN listing = {}
      /\ call \in [tool : Tools, id : Ids, depth : Depths \cup {None}]
      /\ call.depth # None <=> call.tool = "get_block_children"
      /\ call.tool \in {"get_block", "get_block_children"}
      /\ Now \in past
  BY DEF GetRow, GetMarkdown, GetInfo, Ask, kernel, Now, IInv, Shape, History, Reading, Requests
<1>2. /\ Now.rows = rows /\ Now.text = text
  BY DEF Now
<1> DEFINE fair ==
      /\ outcome' = "not_found" =>
            /\ broken' \/ \E s \in past : s.text[call.id] \in {None, Blank}
            /\ \E s \in past : s.rows[call.id] = None
      /\ outcome' = "ok" =>
            \/ \E s \in past : s.text[call.id] = block'.markdown
            \/ /\ broken' \/ \E s \in past : s.text[call.id] \in {None, Blank}
               /\ \E s \in past : s.rows[call.id] # None /\ s.rows[call.id].text = block'.markdown
      /\ pc' = "markdown" => \E s \in past : s.rows[call.id] = block'.row
      /\ pc' = "info" => \E s \in past : s.text[call.id] = block'.markdown
<1> DEFINE goes ==
      \/ pc' \in {"markdown", "info"} /\ outcome' = "none"
      \/ pc' = "children" /\ outcome' = "none" /\ call.tool = "get_block_children"
            /\ pending' = {<<call.id>>}
      \/ pc' = "done" /\ outcome' = "ok" /\ call.tool = "get_block"
      \/ pc' = "done" /\ outcome' = "not_found"
<1>3. ASSUME HasBlock
      PROVE  \/ pc' = "children" /\ outcome' = "none" /\ call.tool = "get_block_children"
                   /\ pending' = {<<call.id>>}
             \/ pc' = "done" /\ outcome' = "ok" /\ call.tool = "get_block"
  BY <1>1, <1>3 DEF HasBlock, Goto, End
<1>4. DOMAIN block = {"row", "markdown"} /\ DOMAIN block' = {"row", "markdown"}
  BY DEF IInv, BlockSoFar, GetRow, GetMarkdown, GetInfo, Ask
<1>5. fair /\ goes
  <2>1. CASE GetRow
    BY <1>1, <1>2, <2>1 DEF GetRow, Goto
  <2>2. CASE GetMarkdown
    <3>1. PICK s \in past : s.rows[call.id] = block.row
      BY <2>2 DEF GetMarkdown, Ask, IInv, BlockSoFar
    <3>2. PICK kd \in {text[call.id], None} :
            /\ broken' = (kd # text[call.id])
            /\ IF kd \in {None, Blank} /\ block.row = None
               THEN End("not_found")
               ELSE /\ block' = [block EXCEPT !.markdown =
                                    IF kd \notin {None, Blank} THEN kd ELSE block.row.text]
                    /\ IF block.row # None THEN HasBlock ELSE Goto("info")
      BY <2>2 DEF GetMarkdown
    <3>3. CASE kd \in {None, Blank} /\ block.row = None
      BY <1>1, <1>2, <3>1, <3>2, <3>3 DEF End
    <3>4. CASE ~(kd \in {None, Blank} /\ block.row = None)
      <4>1. block'.markdown = IF kd \notin {None, Blank} THEN kd ELSE block.row.text
        BY <1>4, <3>2, <3>4
      <4>2. goes
        BY <1>1, <1>3, <3>2, <3>4 DEF Goto
      <4>3. fair
        BY <1>1, <1>2, <1>3, <3>1, <3>2, <3>4, <4>1 DEF Goto
      <4> QED
        BY <4>2, <4>3
    <3> QED
      BY <3>3, <3>4
  <2>3. CASE GetInfo
    BY <1>1, <1>2, <1>3, <2>3 DEF GetInfo, Ask, IInv, BlockSoFar
  <2> QED
    BY <2>1, <2>2, <2>3
<1>6. History'
  BY <1>1 DEF IInv, History, Reading, Now, Requests
<1>7. Shape'
  BY <1>1, <1>5 DEF Shape, Requests
<1>8. BlockSoFar' /\ BlockIsRegular'
  BY <1>1, <1>5, <1>4 DEF BlockSoFar, BlockIsRegular, Ok
<1>9. pc' = "children" \/ Ok("get_block_children")' => TreeSoFar'
  BY <1>1, <1>5, HasBlockTree DEF Ok
<1> QED
  BY <1>1, <1>5, <1>6, <1>7, <1>8, <1>9 DEF IInv

(* A task of get_block_children.                                           *)
LEMMA ListStep ==
    ASSUME IInv, ListChildren
    PROVE  IInv'
<1>1. /\ UNCHANGED <<kids, text, rows, call, past, block, broken>> /\ Now' = Now
      /\ pc = "children" /\ outcome = "none" /\ call.tool = "get_block_children"
      /\ call \in [tool : Tools, id : Ids, depth : Depths \cup {None}] /\ call.depth \in 1..5
      /\ Now \in past /\ TreeSoFar /\ GoodTree(kids)
      /\ IF pending' = {} THEN pc' = "done" /\ outcome' = "ok"
                          ELSE pc' = "children" /\ outcome' = "none"
  BY BoundAssumption DEF ListChildren, Ask, Goto, End, kernel, Now, IInv, Shape, History, Reading, Requests
<1> DEFINE found(p) == Children(kids, Last(p))
           below(p) == IF Len(p) < call.depth THEN ToSet(found(p)) \cap Containers ELSE {}
<1>2. PICK p \in pending :
        /\ listing' = [q \in DOMAIN listing \cup {p} |-> IF q = p THEN found(p) ELSE listing[q]]
        /\ pending' = (pending \ {p}) \cup {Append(p, b) : b \in below(p)}
  BY DEF ListChildren
<1> HIDE DEF found, below
<1>3. /\ IsPath(p) /\ p \in Seq(Ids) /\ p \notin DOMAIN listing /\ Len(p) \in Nat \ {0}
  BY <1>1, LenProperties DEF TreeSoFar, IsPath
<1>4. ASSUME NEW b \in Ids
      PROVE  /\ Append(p, b) \in Seq(Ids) /\ Append(p, b) # << >> /\ Append(p, b) # p
             /\ Len(Append(p, b)) = Len(p) + 1
             /\ Last(Append(p, b)) = b /\ Front(Append(p, b)) = p
  <2> DEFINE q == Append(p, b)
  <2>1. /\ q \in Seq(Ids) /\ q # << >> /\ Len(q) = Len(p) + 1
        /\ q[Len(p) + 1] = b /\ \A i \in 1..Len(p) : q[i] = p[i]
    BY <1>3, AppendProperties
  <2> HIDE DEF q
  <2>2. Last(q) = b
    BY <2>1 DEF Last
  <2> DEFINE u == SubSeq(q, 1, Len(p))
  <2>3. u = p
    <3>1. \A i \in 1..Len(p) : q[i] \in Ids
      BY <1>3, <2>1, ElementOfSeq
    <3>2. u \in Seq(Ids) /\ Len(u) = Len(p) - 1 + 1 /\ \A i \in 1 .. Len(p) - 1 + 1 : u[i] = q[1 + i - 1]
      BY <1>3, <3>1, SubSeqProperties
    <3> HIDE DEF u
    <3>3. ASSUME NEW i \in 1..Len(p) PROVE u[i] = p[i]
      BY <1>3, <2>1, <3>2
    <3>4. Len(u) = Len(p)
      BY <1>3, <3>2
    <3> QED
      BY <1>3, <3>2, <3>3, <3>4, SeqEqual
  <2>4. Front(q) = p
    <3>1. Len(q) - 1 = Len(p)
      BY <1>3, <2>1
    <3> QED
      BY <2>3, <3>1 DEF Front
  <2> QED
    BY <1>3, <2>1, <2>2, <2>4 DEF q
<1>5. found(p) \in Seq(Blocks) /\ ToSet(found(p)) \subseteq Blocks
  BY <1>1, ChildrenRegular, LenProperties, ElementOfSeq DEF found, ToSet
<1>6. below(p) \subseteq Ids
  BY <1>5 DEF below, Ids
<1>7. /\ DOMAIN listing' = DOMAIN listing \cup {p}
      /\ listing'[p] = found(p)
      /\ \A q \in DOMAIN listing : listing'[q] = listing[q]
      /\ DOMAIN listing' \cup pending'
            = DOMAIN listing \cup pending \cup {Append(p, b) : b \in below(p)}
  BY <1>2, <1>3
<1>8. DOMAIN listing' \cap pending' = {}
  <2>1. ASSUME NEW b \in below(p) PROVE Append(p, b) \notin DOMAIN listing'
    <3>1. /\ Append(p, b) # p /\ Front(Append(p, b)) = p /\ Len(Append(p, b)) > 1
      BY <1>3, <1>4, <1>6
    <3>2. Append(p, b) \notin DOMAIN listing
      BY <1>1, <1>3, <3>1 DEF TreeSoFar, IsPath
    <3> QED
      BY <1>7, <3>1, <3>2
  <2>2. ASSUME NEW q \in pending' PROVE q \notin DOMAIN listing'
    <3>1. CASE q \in pending \ {p}
      BY <1>1, <1>7, <3>1 DEF TreeSoFar
    <3>2. CASE q \in {Append(p, b) : b \in below(p)}
      BY <2>1, <3>2
    <3> QED
      BY <1>2, <3>1, <3>2
  <2> QED
    BY <2>2
<1>9. ASSUME NEW q \in DOMAIN listing' \cup pending' PROVE IsPath(q)'
  <2>1. CASE q \in DOMAIN listing \cup pending
    <3>1. IsPath(q)
      BY <1>1, <2>1 DEF TreeSoFar
    <3> QED
      BY <1>1, <1>7, <3>1 DEF IsPath
  <2>2. CASE q \in {Append(p, b) : b \in below(p)}
    <3>1. PICK b \in below(p) : q = Append(p, b)
      BY <2>2
    <3>2. Len(p) < call.depth /\ b \in ToSet(found(p)) /\ b \in Containers
      BY <3>1 DEF below
    <3>3. Len(q) <= call.depth
      BY <1>1, <1>3, <1>4, <1>6, <3>1, <3>2
    <3> QED
      BY <1>1, <1>4, <1>6, <1>7, <3>1, <3>2, <3>3 DEF IsPath
  <2> QED
    BY <1>7, <2>1, <2>2
<1>10. ASSUME NEW q \in DOMAIN listing' PROVE IsListed(q)'
  <2>1. CASE q = p
    <3>1. \E s \in past : found(p) = Children(s.kids, Last(p))
      BY <1>1 DEF Now, found
    <3>2. \A b \in ToSet(found(p)) \cap Containers : Len(p) < call.depth => b \in below(p)
      BY DEF below
    <3> QED
      BY <1>1, <1>7, <2>1, <3>1, <3>2 DEF IsListed
  <2>2. CASE q \in DOMAIN listing
    <3>1. IsListed(q)
      BY <1>1, <2>2 DEF TreeSoFar
    <3> QED
      BY <1>1, <1>7, <2>2, <3>1 DEF IsListed
  <2> QED
    BY <1>7, <2>1, <2>2
<1>11. TreeSoFar'
  BY <1>1, <1>7, <1>8, <1>9, <1>10 DEF TreeSoFar
<1>12. History'
  BY <1>1 DEF IInv, History, Reading, Now, Requests
<1>13. Shape'
  BY <1>1 DEF IInv, Shape, Requests
<1>14. BlockSoFar' /\ BlockIsRegular'
  BY <1>1 DEF IInv, BlockSoFar, BlockIsRegular, Ok
<1> QED
  BY <1>1, <1>11, <1>12, <1>13, <1>14 DEF IInv, Ok

LEMMA FailStep ==
    ASSUME IInv, Fail
    PROVE  IInv'
<1>1. /\ pc \in Requests /\ pc' = "done" /\ outcome' = "failed" /\ past' = {}
      /\ DOMAIN block' = {"row", "markdown"} /\ DOMAIN listing' = {}
      /\ UNCHANGED <<kids, call>>
  BY DEF Fail, Reading, End, NoBlock, kernel
<1> QED
  BY <1>1 DEF IInv, History, GoodTree, Reading, Shape, Requests, BlockSoFar, BlockIsRegular, Ok

-----------------------------------------------------------------------------
(* Steps of other clients                                                  *)

LEMMA ChangeStep ==
    ASSUME IInv, GoodTree(kids'), Changes, pc # "done"
    PROVE  IInv'
<1>1. /\ UNCHANGED <<pc, call, block, listing, pending, outcome, broken>>
      /\ past \subseteq past' /\ past' \subseteq past \cup {Now'}
      /\ Reading => Now' \in past'
  BY DEF Changes, parts
<1>2. Now'.kids = kids'
  BY DEF Now
<1>3. History'
  BY <1>1, <1>2 DEF IInv, History, Reading
<1>4. Shape'
  BY <1>1 DEF IInv, Shape
<1>5. BlockSoFar' /\ BlockIsRegular'
  BY <1>1 DEF IInv, Shape, BlockSoFar, BlockIsRegular, Ok
<1>6. TreeSoFar => TreeSoFar'
  BY <1>1 DEF TreeSoFar, IsPath, IsListed
<1> QED
  BY <1>1, <1>3, <1>4, <1>5, <1>6 DEF IInv, Ok

LEMMA MoveStep ==
    ASSUME IInv, NEW b \in Blocks, NEW x \in Containers, NEW i \in 1..Cardinality(Blocks),
           MoveTo(b, x, i)
    PROVE  GoodTree(kids')
<1> DEFINE rest == [y \in Containers |-> RemoveFirst(kids[y], b)]
<1>1. \A y \in Containers : rest[y] \in Seq(Blocks) /\ IsInjective(rest[y]) /\ b \notin ToSet(rest[y])
  BY RemoveFirstInjective DEF IInv, History, GoodTree
<1>2. i \in Nat \ {0}
  BY BlocksAssumption, FS_CardinalityType
<1>3. i <= Len(rest[x]) + 1 /\ kids' = [rest EXCEPT ![x] = InsertAt(@, i, b)]
  BY DEF MoveTo
<1>4. DOMAIN rest = Containers
  OBVIOUS
<1> HIDE DEF rest
<1>5. i \in 1 .. Len(rest[x]) + 1
  BY <1>1, <1>2, <1>3, LenProperties
<1>6. InsertAt(rest[x], i, b) \in Seq(Blocks) /\ IsInjective(InsertAt(rest[x], i, b))
  BY <1>1, <1>5, InsertAtInjective
<1>7. \A y \in Containers : kids'[y] = IF y = x THEN InsertAt(rest[x], i, b) ELSE rest[y]
  BY <1>3, <1>4
<1>8. kids' \in [Containers -> Seq(Blocks)]
  BY <1>1, <1>3, <1>4, <1>6, <1>7
<1> QED
  BY <1>1, <1>6, <1>7, <1>8 DEF GoodTree

LEMMA EditStep ==
    ASSUME IInv,
           \/ \E x \in Ids : Rewrite(x) \/ Discard(x)
           \/ \E b \in Blocks, x \in Containers : \E i \in 1..Cardinality(Blocks) : MoveTo(b, x, i)
           \/ Reindex
    PROVE  IInv'
<1>1. ASSUME NEW x \in Ids, Rewrite(x) PROVE IInv'
  <2>1. kids' = kids /\ Changes /\ pc # "done"
    BY <1>1 DEF Rewrite, Edit
  <2> QED
    BY <2>1, ChangeStep DEF IInv, History
<1>2. ASSUME NEW x \in Ids, Discard(x) PROVE IInv'
  <2>1. PICK gone : kids' = [y \in Containers |-> IF y \in gone THEN << >> ELSE RemoveFirst(kids[y], x)]
    BY <1>2 DEF Discard
  <2>2. Changes /\ pc # "done"
    BY <1>2 DEF Discard, Edit
  <2>3. \A y \in Containers : RemoveFirst(kids[y], x) \in Seq(Blocks) /\ IsInjective(RemoveFirst(kids[y], x))
    BY RemoveFirstInjective DEF IInv, History, GoodTree
  <2>4. << >> \in Seq(Blocks) /\ IsInjective(<< >>)
    BY DEF IsInjective
  <2>5. GoodTree(kids')
    BY <2>1, <2>3, <2>4 DEF GoodTree
  <2> QED
    BY <2>2, <2>5, ChangeStep
<1>3. ASSUME NEW b \in Blocks, NEW x \in Containers, NEW i \in 1..Cardinality(Blocks), MoveTo(b, x, i)
      PROVE  IInv'
  <2>1. Changes /\ pc # "done"
    BY <1>3 DEF MoveTo, Edit
  <2> QED
    BY <1>3, <2>1, MoveStep, ChangeStep
<1>4. CASE Reindex
  <2>1. kids' = kids /\ Changes /\ pc # "done"
    BY <1>4 DEF Reindex
  <2> QED
    BY <2>1, ChangeStep DEF IInv, History
<1> QED
  BY <1>1, <1>2, <1>3, <1>4

LEMMA NextIInv == IInv /\ [Next]_vars => IInv'
<1> SUFFICES ASSUME IInv, [Next]_vars PROVE IInv'
  OBVIOUS
<1>1. CASE \/ ListDirect \/ QueryHeadings \/ FindDocument \/ CountChildren \/ FirstBlocks
           \/ Search \/ QuerySiblings
  <2>1. call.tool \notin {"get_block", "get_block_children"}
    BY <1>1 DEF IInv, Shape, ListDirect, QueryHeadings, FindDocument, CountChildren, FirstBlocks,
                Search, QuerySiblings, Ask
  <2> QED
    BY <1>1, <2>1, OtherStep
<1>2. CASE UNCHANGED vars
  <2> USE <1>2 DEF vars, kernel, parts
  <2>1. History' /\ Shape'
    BY DEF IInv, History, GoodTree, Reading, Now, Shape
  <2>2. BlockSoFar' /\ BlockIsRegular'
    BY DEF IInv, BlockSoFar, BlockIsRegular, Ok
  <2>3. TreeSoFar => TreeSoFar'
    BY DEF TreeSoFar, IsPath, IsListed
  <2> QED
    BY <2>1, <2>2, <2>3 DEF IInv, Ok
<1> QED
  BY <1>1, <1>2, BeginStep, BlockStep, ListStep, FailStep, EditStep DEF Next

LEMMA Invariance == Spec => []IInv
BY InitIInv, NextIInv, PTL DEF Spec

-----------------------------------------------------------------------------
(* The tools that answer about a whole document                            *)

(* They are asked for no other id.                                         *)
RootAsked == pc # "idle" /\ call.tool \notin {"get_block", "get_block_children"} => call.id = Root

(* What the index had below p when the kernel was as t says.               *)
Below(t, p) == {b \in Ids : t.rows[b] # None /\ t.rows[b].parent = p}

OutlineSoFar ==
    /\ pc = "headings" => \E s \in past : outline \in HeadingsIn(s.kids[Root])
    /\ OutlineIsRegular

SummarySoFar ==
    /\ DOMAIN summary = {"count", "first"}
    /\ pc = "first" => \E s \in past : summary.count = Cardinality(Below(s, Root))
    /\ SummaryIsRegular

(* A hit asked about has what ContextIsRegular says, another no context.   *)
InContext(hit) ==
    \/ hit.context = << >> /\ \E t \in past : t.rows[hit.id] = None
    \/ /\ IsSet(hit.context)
       /\ \E i \in DOMAIN hit.context, t \in past :
            LET all == Below(t, t.rows[hit.id].parent)
            IN  /\ hit.context[i] = hit.id /\ t.rows[hit.id] # None
                /\ i - 1 <= Around /\ Len(hit.context) - i <= Around
                /\ ToSet(hit.context) \subseteq all
                /\ Around \in {i - 1, Len(hit.context) - i} \/ ToSet(hit.context) = all

ContextSoFar ==
    pc = "siblings" \/ Ok("search_with_context") =>
        /\ hits \in Seq([id : Ids, asked : BOOLEAN, context : Seq(Ids)])
        /\ \A k \in DOMAIN hits : IF hits[k].asked THEN InContext(hits[k]) ELSE hits[k].context = << >>
        /\ IF pc = "siblings" THEN Unasked # {} ELSE Unasked = {} \/ Around = 0

AnswersInv == RootAsked /\ OutlineSoFar /\ SummarySoFar /\ ContextSoFar

LEMMA AnswersInit == Init => AnswersInv
BY DEF Init, AnswersInv, RootAsked, OutlineSoFar, SummarySoFar, ContextSoFar, OutlineIsRegular,
       SummaryIsRegular, Ok, NoSummary

LEMMA IdsFinite == IsFiniteSet(Ids)
BY BlocksAssumption, FS_AddElement DEF Ids

LEMMA RowsFinite ==
    ASSUME NEW t, NEW p
    PROVE  /\ Below(t, p) \subseteq Ids /\ IsFiniteSet(Below(t, p))
           /\ Cardinality(Below(t, p)) \in Nat
BY IdsFinite, FS_Subset, FS_CardinalityType DEF Below

(* A request of a call, as the history has it.                             *)
LEMMA Asking ==
    ASSUME IInv, AnswersInv, NEW request \in Requests, NEW part, Ask(request, part)
    PROVE  /\ Now \in past /\ Now.rows = rows /\ Now.kids = kids
           /\ \A p : RowsBelow(p) = Below(Now, p)
           /\ UNCHANGED <<call, past>> /\ pc = request /\ outcome = "none"
           /\ Now' = Now /\ GoodTree(kids) /\ \A s \in past : GoodTree(s.kids)
           /\ RootAsked'
<1>1. /\ pc = request /\ UNCHANGED <<kids, text, rows, call, past>>
  BY DEF Ask, kernel
<1>2. /\ Now \in past /\ GoodTree(kids) /\ \A s \in past : GoodTree(s.kids)
  BY <1>1 DEF IInv, History, Reading
<1>3. Now.rows = rows /\ Now.kids = kids /\ Now' = Now
  BY <1>1 DEF Now
<1>4. \A p : RowsBelow(p) = Below(Now, p)
  BY <1>3 DEF RowsBelow, Below, Indexed
<1>5. outcome = "none" /\ pc # "idle"
  BY <1>1 DEF IInv, Shape, Requests
<1>6. RootAsked'
  BY <1>1, <1>5 DEF AnswersInv, RootAsked
<1> QED
  BY <1>1, <1>2, <1>3, <1>4, <1>5, <1>6

(* The other requests, and a request that raises, leave these alone.       *)
LEMMA OtherAnswers ==
    ASSUME IInv, AnswersInv,
           \/ Begin \/ GetRow \/ GetMarkdown \/ GetInfo \/ ListChildren \/ FindDocument \/ Fail
    PROVE  AnswersInv'
<1>1. /\ pc' \notin {"headings", "first", "siblings"}
      /\ ~Ok("get_document_outline")' /\ ~Ok("get_doc_summary")' /\ ~Ok("search_with_context")'
      /\ DOMAIN summary' = {"count", "first"}
      /\ RootAsked'
  <2>0. DOMAIN summary = {"count", "first"} /\ DOMAIN NoSummary = {"count", "first"}
    BY DEF AnswersInv, SummarySoFar, NoSummary
  <2>1. CASE Begin
    <3>1. PICK tool \in Tools, id \in Ids, depth \in Depths \cup {None} :
            /\ tool \notin {"get_block", "get_block_children"} => id = Root
            /\ call' = [tool |-> tool, id |-> id, depth |-> depth]
            /\ pc' = First(tool) /\ outcome' = outcome
      BY <2>1 DEF Begin, Goto
    <3>2. outcome = "none" /\ summary' = summary
      BY <2>1 DEF Begin, parts, IInv, Shape
    <3>3. pc' \in {"row", "direct", "header", "search"}
      BY <3>1 DEF First, Tools
    <3> QED
      BY <2>0, <3>1, <3>2, <3>3 DEF Ok, RootAsked
  <2>2. CASE GetRow \/ GetMarkdown \/ GetInfo \/ ListChildren
    <3>1. /\ pc \in {"row", "markdown", "info", "children"} /\ UNCHANGED <<call, summary>>
          /\ pc' \in {"markdown", "info", "children", "done"}
      BY <2>2 DEF GetRow, GetMarkdown, GetInfo, ListChildren, Ask, HasBlock, Goto, End
    <3>2. call.tool \in {"get_block", "get_block_children"}
      BY <3>1 DEF IInv, Shape
    <3> QED
      BY <2>0, <3>1, <3>2 DEF Ok, RootAsked
  <2>3. CASE FindDocument
    <3>1. /\ pc = "header" /\ UNCHANGED <<call, summary>>
          /\ \/ pc' = "count" /\ outcome' = outcome
             \/ pc' = "done" /\ outcome' = "not_found"
      BY <2>3 DEF FindDocument, Ask, Goto, End, parts
    <3>2. outcome = "none"
      BY <3>1 DEF IInv, Shape
    <3> QED
      BY <2>0, <3>1, <3>2 DEF Ok, RootAsked, AnswersInv
  <2>4. CASE Fail
    <3>1. pc \in Requests /\ pc' = "done" /\ outcome' = "failed" /\ call' = call /\ summary' = NoSummary
      BY <2>4 DEF Fail, Reading, End
    <3> QED
      BY <2>0, <3>1 DEF Ok, RootAsked, AnswersInv, Requests
  <2> QED
    BY <2>1, <2>2, <2>3, <2>4
<1> QED
  BY <1>1 DEF AnswersInv, OutlineSoFar, OutlineIsRegular, SummarySoFar, SummaryIsRegular, ContextSoFar

LEMMA OutlineBegun ==
    ASSUME IInv, AnswersInv, ListDirect
    PROVE  AnswersInv'
<1>0. Ask("direct", <<block, listing, pending, summary, hits, broken>>) /\ "direct" \in Requests
  BY DEF ListDirect, Requests
<1>1. /\ Now \in past /\ Now.kids = kids /\ UNCHANGED <<call, past>> /\ pc = "direct"
      /\ outcome = "none" /\ RootAsked'
  BY <1>0, Asking
<1>2. /\ pc' = "headings" /\ outcome' = "none" /\ summary' = summary
      /\ outline' \in HeadingsIn(Children(kids, call.id))
  BY <1>0, <1>1 DEF ListDirect, Ask, Goto
<1>3. Children(kids, call.id) = kids[Root]
  <2>1. call.id = Root /\ Root \in Containers
    BY <1>1 DEF IInv, Shape, AnswersInv, RootAsked, Containers, Ids
  <2> QED
    BY <2>1 DEF Children
<1> QED
  BY <1>1, <1>2, <1>3 DEF AnswersInv, OutlineSoFar, OutlineIsRegular, SummarySoFar, SummaryIsRegular,
     ContextSoFar, Ok

(* The document's headings of one moment, and then those the index has at  *)
(* another.                                                                *)
LEMMA OutlineEnds ==
    ASSUME IInv, AnswersInv, QueryHeadings
    PROVE  OutlineIsRegular'
<1>0. Ask("headings", <<block, listing, pending, summary, hits, broken>>) /\ "headings" \in Requests
  BY DEF QueryHeadings, Requests
<1>1. /\ Now \in past /\ Now.rows = rows /\ UNCHANGED <<call, past>> /\ pc = "headings"
      /\ \A s \in past : GoodTree(s.kids)
  BY <1>0, Asking
<1>2. call.id = Root /\ Root \in Containers
  BY <1>1 DEF IInv, Shape, AnswersInv, RootAsked, Containers, Ids
<1>3. PICK t \in past : outline \in HeadingsIn(t.kids[Root])
  BY <1>1 DEF AnswersInv, OutlineSoFar
<1>4. t.kids[Root] \in Seq(Blocks) /\ IsInjective(t.kids[Root])
  BY <1>1, <1>2 DEF GoodTree
<1>5. IsFiniteSet(Headings)
  BY BlocksAssumption, FS_Subset DEF Headings
<1>6. /\ outline \in Seq(Headings) /\ IsInjective(outline)
      /\ ToSet(outline) = ToSet(t.kids[Root]) \cap Headings
  <2> DEFINE S == ToSet(t.kids[Root]) \cap Headings
  <2>1. outline \in SetToSeqs(S) /\ IsFiniteSet(S)
    BY <1>3, <1>5, FS_Subset DEF HeadingsIn
  <2> HIDE DEF S
  <2>2. outline \in Seq(S) /\ IsInjective(outline) /\ ToSet(outline) = S
    BY <2>1, Listing
  <2>3. S \subseteq Headings
    BY DEF S
  <2> QED
    BY <2>2, <2>3, SeqMonotonic DEF S
<1> DEFINE extra == (Indexed \cap Headings) \ ToSet(outline)
<1>7. PICK more \in SetToSeqs(extra) :
        outline' = SubSeq(outline \o more, 1, Min({Limit, Len(outline \o more)}))
  BY DEF QueryHeadings
<1>8. more \in Seq(Headings) /\ IsInjective(more) /\ ToSet(more) = extra
  <2>1. IsFiniteSet(extra) /\ extra \subseteq Headings
    BY <1>5, FS_Subset
  <2> HIDE DEF extra
  <2>2. more \in Seq(extra) /\ IsInjective(more) /\ ToSet(more) = extra
    BY <2>1, <1>7, Listing
  <2> QED
    BY <2>1, <2>2, SeqMonotonic
<1> DEFINE w == outline'
<1>9. /\ w \in Seq(Headings) /\ IsInjective(w) /\ Len(w) <= Limit
      /\ ToSet(w) \subseteq ToSet(outline) \cup ToSet(more)
      /\ \A b \in ToSet(outline) \cup ToSet(more) : b \in ToSet(w) \/ Len(w) = Limit
      /\ \A b \in ToSet(outline), c \in ToSet(w) \ ToSet(outline) : Precedes(w, b, c)
      /\ \A b, c : Precedes(outline, b, c) /\ c \in ToSet(w) => Precedes(w, b, c)
  <2>1. ToSet(outline) \cap ToSet(more) = {} /\ Limit \in Nat
    BY <1>8, BoundAssumption
  <2> HIDE DEF extra
  <2> QED
    BY <1>6, <1>7, <1>8, <2>1, CutConcat
<1> HIDE DEF w
<1> DEFINE own(s) == ToSet(s.kids[Root]) \cap Headings
<1>10. ASSUME NEW b \in ToSet(w), \A s \in past : b \notin own(s)
       PROVE  \E s \in past : s.rows[b] # None
  BY <1>1, <1>6, <1>8, <1>9, <1>10 DEF Indexed
<1>11. ASSUME NEW b \in Headings \ ToSet(w),
              (\A s \in past : b \in own(s)) \/ (\A s \in past : s.rows[b] # None)
       PROVE  Len(w) = Limit
  <2>1. CASE \A s \in past : b \in own(s)
    BY <1>6, <1>9, <1>11, <2>1
  <2>2. CASE \A s \in past : s.rows[b] # None
    <3>1. b \in Indexed \cap Headings
      BY <1>1, <2>2 DEF Indexed, Ids, Headings
    <3> QED
      BY <1>8, <1>9, <1>11, <3>1
  <2> QED
    BY <1>11, <2>1, <2>2
<1>12. ASSUME NEW b \in Headings, \A s \in past : b \in own(s),
              NEW c \in ToSet(w), \A s \in past : c \notin own(s)
       PROVE  Precedes(w, b, c)
  BY <1>6, <1>9, <1>12
<1>13. ASSUME NEW b \in Headings, \A s \in past : b \in own(s), NEW c \in ToSet(w),
              \A s \in past : Precedes(s.kids[Root], b, c)
       PROVE  Precedes(w, b, c)
  <2>1. b \in ToSet(outline)
    BY <1>6, <1>13
  <2>2. CASE c \notin ToSet(outline)
    BY <1>9, <2>1, <2>2
  <2>3. CASE c \in ToSet(outline)
    <3>1. Precedes(t.kids[Root], b, c) /\ c \in Headings
      BY <1>6, <1>13, <2>3
    <3>2. PICK i \in DOMAIN outline, j \in DOMAIN outline : outline[i] = b /\ outline[j] = c
      BY <2>1, <2>3 DEF ToSet
    <3>3. i \in Int /\ j \in Int
      BY <1>6, <3>2, LenProperties
    <3>4. CASE i < j
      <4>1. Precedes(outline, b, c)
        BY <3>2, <3>4 DEF Precedes
      <4> QED
        BY <1>9, <4>1
    <3>5. CASE i >= j
      <4>1. b = c \/ Precedes(outline, c, b)
        BY <3>2, <3>3, <3>5 DEF Precedes
      <4>2. b = c \/ Precedes(t.kids[Root], c, b)
        BY <1>3, <3>1, <4>1 DEF HeadingsIn
      <4>3. FALSE
        <5> DEFINE o == t.kids[Root]
        <5>1. PICK k \in DOMAIN o, l \in DOMAIN o : k < l /\ o[k] = b /\ o[l] = c
          BY <3>1 DEF Precedes
        <5>2. k \in Int /\ l \in Int
          BY <1>4, <5>1, LenProperties
        <5>3. CASE b = c
          BY <1>4, <5>1, <5>2, <5>3 DEF IsInjective
        <5>4. CASE Precedes(o, c, b)
          <6>1. PICK m \in DOMAIN o, n \in DOMAIN o : m < n /\ o[m] = c /\ o[n] = b
            BY <5>4 DEF Precedes
          <6>2. m = l /\ n = k
            BY <1>4, <5>1, <6>1 DEF IsInjective
          <6> QED
            BY <5>1, <5>2, <6>1, <6>2
        <5> QED
          BY <4>2, <5>3, <5>4
      <4> QED
        BY <4>3
    <3> QED
      BY <3>3, <3>4, <3>5
  <2> QED
    BY <2>2, <2>3
<1>14. w = outline' /\ call'.id = Root /\ past' = past
  BY <1>1, <1>2 DEF w
<1> QED
  BY <1>9, <1>10, <1>11, <1>12, <1>13, <1>14 DEF OutlineIsRegular, IsSet

LEMMA OutlineStep ==
    ASSUME IInv, AnswersInv, ListDirect \/ QueryHeadings
    PROVE  AnswersInv'
<1>1. CASE ListDirect
  BY <1>1, OutlineBegun
<1>2. CASE QueryHeadings
  <2>0. Ask("headings", <<block, listing, pending, summary, hits, broken>>) /\ "headings" \in Requests
    BY <1>2 DEF QueryHeadings, Requests
  <2>1. pc = "headings" /\ UNCHANGED <<call, past>> /\ RootAsked'
    BY <2>0, Asking
  <2>2. pc' = "done" /\ summary' = summary
    BY <1>2 DEF QueryHeadings, Ask, End
  <2>3. call.tool = "get_document_outline"
    BY <2>1 DEF IInv, Shape
  <2>4. OutlineIsRegular'
    BY <1>2, OutlineEnds
  <2> QED
    BY <2>1, <2>2, <2>3, <2>4 DEF AnswersInv, OutlineSoFar, SummarySoFar, SummaryIsRegular, ContextSoFar, Ok
<1> QED
  BY <1>1, <1>2

LEMMA CountStep ==
    ASSUME IInv, AnswersInv, CountChildren
    PROVE  AnswersInv'
<1>0. Ask("count", <<block, listing, pending, outline, hits, broken>>) /\ "count" \in Requests
  BY DEF CountChildren, Requests
<1>1. /\ Now \in past /\ UNCHANGED <<call, past>> /\ pc = "count" /\ outcome = "none"
      /\ RootAsked' /\ \A p : RowsBelow(p) = Below(Now, p)
  BY <1>0, Asking
<1>2. /\ pc' = "first" /\ outcome' = "none"
      /\ summary' = [summary EXCEPT !.count = Cardinality(RowsBelow(call.id))]
  BY <1>1 DEF CountChildren, Goto
<1>3. call.id = Root
  BY <1>1 DEF IInv, Shape, AnswersInv, RootAsked
<1>4. DOMAIN summary = {"count", "first"}
  BY DEF AnswersInv, SummarySoFar
<1>5. DOMAIN summary' = {"count", "first"} /\ summary'.count = Cardinality(Below(Now, Root))
  BY <1>1, <1>2, <1>3, <1>4
<1> QED
  BY <1>1, <1>2, <1>5 DEF AnswersInv, OutlineSoFar, OutlineIsRegular, SummarySoFar, SummaryIsRegular,
     ContextSoFar, Ok

(* The first blocks of one moment beside the count of another.             *)
LEMMA SummaryEnds ==
    ASSUME IInv, AnswersInv, FirstBlocks
    PROVE  SummaryIsRegular' /\ DOMAIN summary' = {"count", "first"}
<1>0. Ask("first", <<block, listing, pending, outline, hits, broken>>) /\ "first" \in Requests
  BY DEF FirstBlocks, Requests
<1>1. /\ Now \in past /\ Now.rows = rows /\ UNCHANGED <<call, past>> /\ pc = "first"
      /\ \A p : RowsBelow(p) = Below(Now, p)
  BY <1>0, Asking
<1>2. call.id = Root
  BY <1>1 DEF IInv, Shape, AnswersInv, RootAsked
<1> DEFINE seen == Below(Now, Root)
<1>3. PICK s \in SetToSeqs(seen) :
        summary' = [summary EXCEPT !.first = SubSeq(s, 1, Min({FirstN, Len(s)}))]
  BY <1>1, <1>2 DEF FirstBlocks, Sorted
<1>4. PICK t \in past : summary.count = Cardinality(Below(t, Root))
  BY <1>1 DEF AnswersInv, SummarySoFar
<1> DEFINE k == Min({FirstN, Len(s)})
           first == SubSeq(s, 1, k)
<1>5. /\ DOMAIN summary' = {"count", "first"} /\ summary'.first = first
      /\ summary'.count = Cardinality(Below(t, Root))
  BY <1>3, <1>4 DEF AnswersInv, SummarySoFar
<1>6. s \in Seq(seen) /\ Len(s) = Cardinality(seen) /\ IsInjective(s) /\ ToSet(s) = seen
  BY <1>3, RowsFinite, Listing
<1>7. Len(s) \in Nat /\ FirstN \in Nat /\ k = IF FirstN <= Len(s) THEN FirstN ELSE Len(s)
  BY <1>6, LenProperties, BoundAssumption, MinOfTwo
<1> HIDE DEF seen, k
<1>8. first \in Seq(seen) /\ IsInjective(first) /\ ToSet(first) \subseteq seen /\ Len(first) = k
  <2>1. k \in Nat /\ k <= Len(s)
    BY <1>7
  <2>2. first \in Seq(seen) /\ IsInjective(first) /\ ToSet(first) \subseteq seen
    BY <1>6, <2>1, SubSeqInjective
  <2>3. ASSUME NEW i \in 1..k PROVE s[i] \in seen
    <3>1. i \in 1..Len(s)
      BY <1>7, <2>1
    <3> QED
      BY <1>6, <3>1, ElementOfSeq
  <2>4. Len(first) = IF 1 <= k THEN k - 1 + 1 ELSE 0
    BY <2>1, <2>3, SubSeqProperties
  <2> HIDE DEF first
  <2> QED
    BY <2>1, <2>2, <2>4
<1>9. Len(first) < FirstN => ToSet(first) = seen
  <2>1. SUFFICES ASSUME Len(first) < FirstN PROVE first = s
    BY <1>6
  <2>2. k = Len(s)
    BY <1>7, <1>8, <2>1
  <2> QED
    BY <1>6, <2>2, SubSeqFull
<1> HIDE DEF first
<1>10. /\ StayedBelow(Root) \subseteq seen /\ seen \subseteq WasBelow(Root)
       /\ StayedBelow(Root) \subseteq Below(t, Root) /\ Below(t, Root) \subseteq WasBelow(Root)
       /\ WasBelow(Root) \subseteq Ids
  BY <1>1, <1>4 DEF StayedBelow, WasBelow, Below, seen
<1>11. Cardinality(Below(t, Root)) \in Cardinality(StayedBelow(Root)) .. Cardinality(WasBelow(Root))
  <2>1. /\ IsFiniteSet(WasBelow(Root)) /\ IsFiniteSet(Below(t, Root)) /\ IsFiniteSet(StayedBelow(Root))
        /\ Cardinality(StayedBelow(Root)) <= Cardinality(Below(t, Root))
        /\ Cardinality(Below(t, Root)) <= Cardinality(WasBelow(Root))
    BY <1>10, IdsFinite, FS_Subset
  <2>2. /\ Cardinality(WasBelow(Root)) \in Nat /\ Cardinality(Below(t, Root)) \in Nat
        /\ Cardinality(StayedBelow(Root)) \in Nat
    BY <2>1, FS_CardinalityType
  <2> QED
    BY <2>1, <2>2
<1>12. IndexIsStill => Len(first) = Min({FirstN, summary'.count})
  <2>1. SUFFICES ASSUME IndexIsStill PROVE Len(first) = Min({FirstN, summary'.count})
    OBVIOUS
  <2>2. Below(t, Root) = seen
    <3>1. t.rows = Now.rows
      BY <1>1, <1>4, <2>1 DEF IndexIsStill
    <3> QED
      BY <3>1 DEF Below, seen
  <2>3. summary'.count = Len(s)
    BY <1>5, <1>6, <2>2
  <2> QED
    BY <1>8, <2>3 DEF k
<1>13. /\ StayedBelow(call.id)' = StayedBelow(Root) /\ WasBelow(call.id)' = WasBelow(Root)
       /\ IndexIsStill' = IndexIsStill
  BY <1>1, <1>2 DEF StayedBelow, WasBelow, IndexIsStill
<1>14. /\ summary'.count \in Cardinality(StayedBelow(Root)) .. Cardinality(WasBelow(Root))
       /\ IsSet(first) /\ ToSet(first) \subseteq WasBelow(Root)
       /\ Len(first) < FirstN => StayedBelow(Root) \subseteq ToSet(first)
  BY <1>5, <1>8, <1>9, <1>10, <1>11 DEF IsSet
<1> QED
  BY <1>5, <1>12, <1>13, <1>14 DEF SummaryIsRegular

LEMMA SummaryStep ==
    ASSUME IInv, AnswersInv, CountChildren \/ FirstBlocks
    PROVE  AnswersInv'
<1>1. CASE CountChildren
  BY <1>1, CountStep
<1>2. CASE FirstBlocks
  <2>0. Ask("first", <<block, listing, pending, outline, hits, broken>>) /\ "first" \in Requests
    BY <1>2 DEF FirstBlocks, Requests
  <2>1. pc = "first" /\ UNCHANGED <<call, past>> /\ RootAsked'
    BY <2>0, Asking
  <2>2. pc' = "done"
    BY <1>2 DEF FirstBlocks, End
  <2>3. call.tool = "get_doc_summary"
    BY <2>1 DEF IInv, Shape
  <2>4. SummaryIsRegular' /\ DOMAIN summary' = {"count", "first"}
    BY <1>2, SummaryEnds
  <2> QED
    BY <2>1, <2>2, <2>3, <2>4 DEF AnswersInv, OutlineSoFar, OutlineIsRegular, SummarySoFar, ContextSoFar, Ok
<1> QED
  BY <1>1, <1>2

LEMMA SearchStep ==
    ASSUME IInv, AnswersInv, Search
    PROVE  AnswersInv'
<1>0. Ask("search", <<block, listing, pending, outline, summary, broken>>) /\ "search" \in Requests
  BY DEF Search, Requests
<1>1. pc = "search" /\ outcome = "none" /\ UNCHANGED <<call, past>> /\ RootAsked'
  BY <1>0, Asking
<1>2. call.tool = "search_with_context"
  BY <1>1 DEF IInv, Shape
<1>3. PICK s \in SeqOf(Indexed, MaxHits) :
        hits' = [k \in DOMAIN s |-> [id |-> s[k], asked |-> FALSE, context |-> << >>]]
  BY DEF Search
<1>4. summary' = summary
  BY DEF Search, Ask
<1>5. /\ IF hits' = << >> \/ Around = 0 THEN pc' = "done" ELSE pc' = "siblings"
      /\ hits' = << >> \/ Around = 0 \/ outcome' = "none"
  BY <1>1 DEF Search, End, Goto
<1>6. PICK n \in Nat : s \in [1..n -> Indexed]
  BY <1>3, BoundAssumption DEF SeqOf
<1> DEFINE Hit == [id : Ids, asked : BOOLEAN, context : Seq(Ids)]
<1>7. /\ hits' \in Seq(Hit) /\ DOMAIN hits' = 1..n
      /\ \A k \in 1..n : hits'[k].asked = FALSE /\ hits'[k].context = << >>
  <2>1. \A k \in 1..n : s[k] \in Ids
    BY <1>6 DEF Indexed
  <2>2. << >> \in Seq(Ids)
    BY EmptySeq
  <2>3. \A k \in 1..n : [id |-> s[k], asked |-> FALSE, context |-> << >>] \in Hit
    BY <2>1, <2>2
  <2>4. hits' \in [1..n -> Hit] /\ DOMAIN hits' = 1..n
    BY <1>3, <1>6, <2>3
  <2>5. hits' \in Seq(Hit)
    <3> HIDE DEF Hit
    <3>1. PICK h : h = hits'
      OBVIOUS
    <3>2. h \in [1..n -> Hit]
      BY <2>4, <3>1
    <3>3. h \in Seq(Hit)
      BY <1>6, <3>2, SeqDef
    <3> QED
      BY <3>1, <3>3
  <2> QED
    BY <1>3, <1>6, <2>4, <2>5
<1> HIDE DEF Hit
<1>8. hits' # << >> => Unasked' # {}
  <2>1. SUFFICES ASSUME hits' # << >> PROVE Unasked' # {}
    OBVIOUS
  <2>2. Len(hits') \in Nat \ {0} /\ DOMAIN hits' = 1..Len(hits')
    BY <1>7, <2>1, EmptySeq, LenProperties
  <2>3. 1 \in DOMAIN hits'
    BY <2>2
  <2> QED
    BY <1>7, <2>3 DEF Unasked
<1>9. hits' = << >> => Unasked' = {}
  <2>1. SUFFICES ASSUME hits' = << >> PROVE Unasked' = {}
    OBVIOUS
  <2>2. DOMAIN hits' = 1..0 /\ 1..0 = {}
    BY <1>7, <2>1, EmptySeq, LenProperties
  <2> QED
    BY <2>2 DEF Unasked
<1>10. ContextSoFar'
  BY <1>5, <1>7, <1>8, <1>9 DEF ContextSoFar, Hit
<1> QED
  BY <1>1, <1>2, <1>4, <1>5, <1>10 DEF AnswersInv, OutlineSoFar, OutlineIsRegular, SummarySoFar,
     SummaryIsRegular, Ok

(* A hit that the index still has stands among its siblings there.         *)
LEMMA SiblingsContext ==
    ASSUME Now \in past, Now.rows = rows, NEW id \in Ids, rows[id] # None,
           NEW s \in SetToSeqs(Below(Now, rows[id].parent)),
           NEW i \in DOMAIN s, s[i] = id
    PROVE  /\ Window(s, i) \in Seq(Ids)
           /\ InContext([id |-> id, asked |-> TRUE, context |-> Window(s, i)])
<1> DEFINE all == Below(Now, rows[id].parent)
<1>1. s \in Seq(all) /\ IsInjective(s) /\ ToSet(s) = all /\ all \subseteq Ids
  BY RowsFinite, Listing
<1> HIDE DEF all
<1>3. DOMAIN s = 1..Len(s)
  BY <1>1, LenProperties
<1>4. i \in 1..Len(s) /\ s[i] = id
  BY <1>3
<1> DEFINE w == Window(s, i)
<1>5. /\ w \in Seq(all) /\ IsInjective(w) /\ ToSet(w) \subseteq all
      /\ \E k \in DOMAIN w :
            /\ w[k] = s[i] /\ k - 1 <= Around /\ Len(w) - k <= Around
            /\ Around \in {k - 1, Len(w) - k} \/ ToSet(w) = all
  <2>1. /\ w \in Seq(all) /\ IsInjective(w) /\ ToSet(w) \subseteq ToSet(s)
        /\ \E k \in DOMAIN w :
              /\ w[k] = s[i] /\ k - 1 <= Around /\ Len(w) - k <= Around
              /\ Around \in {k - 1, Len(w) - k} \/ ToSet(w) = ToSet(s)
    <3>1. s \in Seq(all) /\ IsInjective(s) /\ i \in 1..Len(s)
      BY <1>1, <1>4
    <3> QED
      BY <3>1, WindowIs
  <2> HIDE DEF w
  <2> QED
    BY <1>1, <2>1
<1>6. w \in Seq(Ids)
  BY <1>1, <1>5, SeqMonotonic
<1> HIDE DEF w
<1>7. Below(Now, Now.rows[id].parent) = all
  BY DEF all
<1> DEFINE hit == [id |-> id, asked |-> TRUE, context |-> w]
<1>8. hit.id = id /\ hit.context = w
  OBVIOUS
<1> HIDE DEF hit
<1>9. PICK k \in DOMAIN w :
            /\ w[k] = id /\ k - 1 <= Around /\ Len(w) - k <= Around
            /\ Around \in {k - 1, Len(w) - k} \/ ToSet(w) = all
  BY <1>4, <1>5
<1>10. InContext(hit)
  <2>1. /\ hit.context[k] = hit.id /\ Now.rows[hit.id] # None
        /\ k - 1 <= Around /\ Len(hit.context) - k <= Around
        /\ ToSet(hit.context) \subseteq Below(Now, Now.rows[hit.id].parent)
        /\ \/ Around \in {k - 1, Len(hit.context) - k}
           \/ ToSet(hit.context) = Below(Now, Now.rows[hit.id].parent)
    BY <1>5, <1>7, <1>8, <1>9
  <2>2. k \in DOMAIN hit.context /\ IsSet(hit.context)
    BY <1>5, <1>8, <1>9 DEF IsSet
  <2> QED
    BY <2>1, <2>2 DEF InContext
<1> QED
  BY <1>6, <1>10 DEF w, hit

LEMMA SiblingsStep ==
    ASSUME IInv, AnswersInv, QuerySiblings
    PROVE  AnswersInv'
<1>0. Ask("siblings", <<block, listing, pending, outline, summary, broken>>) /\ "siblings" \in Requests
  BY DEF QuerySiblings, Requests
<1>1. /\ Now \in past /\ Now.rows = rows /\ pc = "siblings" /\ outcome = "none"
      /\ UNCHANGED <<call, past>> /\ RootAsked' /\ \A p : RowsBelow(p) = Below(Now, p)
  BY <1>0, Asking
<1>2. call.tool = "search_with_context"
  BY <1>1 DEF IInv, Shape
<1> DEFINE Hit == [id : Ids, asked : BOOLEAN, context : Seq(Ids)]
           k   == Min(Unasked)
<1>3. /\ hits \in Seq(Hit) /\ Unasked # {}
      /\ \A x \in DOMAIN hits : IF hits[x].asked THEN InContext(hits[x]) ELSE hits[x].context = << >>
  BY <1>1 DEF AnswersInv, ContextSoFar
<1>4. DOMAIN hits = 1..Len(hits) /\ Len(hits) \in Nat
  BY <1>3, LenProperties
<1>5. k \in Unasked /\ k \in 1..Len(hits)
  <2>1. Unasked \in SUBSET Nat
    BY <1>4 DEF Unasked
  <2>2. k \in Unasked
    BY <1>3, <2>1, HasMin
  <2> QED
    BY <1>4, <2>2 DEF Unasked
<1>6. hits[k] \in Hit
  BY <1>3, <1>5, ElementOfSeq
<1> DEFINE id == hits[k].id
<1>7. id \in Ids /\ ~hits[k].asked /\ hits[k].context = << >>
  BY <1>3, <1>5, <1>6 DEF Unasked
<1> DEFINE asked(h) == hits' = [hits EXCEPT ![k] = h] /\ h \in Hit /\ h.asked /\ InContext(h)
<1>8. \E h : asked(h)
  <2>1. CASE id \in Indexed
    <3>1. rows[id] # None
      BY <2>1 DEF Indexed
    <3>2. PICK s \in SetToSeqs(Below(Now, rows[id].parent)) :
             LET i == CHOOSE i \in DOMAIN s : s[i] = id
             IN  hits' = [hits EXCEPT ![k] = [id |-> id, asked |-> TRUE, context |-> Window(s, i)]]
      BY <1>1, <2>1 DEF QuerySiblings, Sorted
    <3> DEFINE i == CHOOSE i \in DOMAIN s : s[i] = id
               h == [id |-> id, asked |-> TRUE, context |-> Window(s, i)]
    <3>3. hits' = [hits EXCEPT ![k] = h]
      BY <3>2
    <3>4. Window(s, i) \in Seq(Ids) /\ InContext(h)
      <4> DEFINE x == id
      <4>1. x \in Ids /\ rows[x] # None /\ s \in SetToSeqs(Below(Now, rows[x].parent))
        BY <1>7, <3>1, <3>2
      <4> HIDE DEF x
      <4>2. \E y \in DOMAIN s : s[y] = x
        <5>1. ToSet(s) = Below(Now, rows[x].parent)
          BY <4>1, RowsFinite, Listing
        <5>2. x \in Below(Now, rows[x].parent)
          BY <1>1, <4>1 DEF Below
        <5> QED
          BY <5>1, <5>2 DEF ToSet
      <4>3. PICK j : j = CHOOSE y \in DOMAIN s : s[y] = x
        OBVIOUS
      <4>4. j \in DOMAIN s /\ s[j] = x
        BY <4>2, <4>3
      <4>5. /\ Window(s, j) \in Seq(Ids)
            /\ InContext([id |-> x, asked |-> TRUE, context |-> Window(s, j)])
        BY <1>1, <4>1, <4>4, SiblingsContext
      <4> QED
        BY <4>3, <4>5 DEF x
    <3>5. h \in Hit /\ h.asked
      BY <1>7, <3>4
    <3> HIDE DEF h
    <3> QED
      BY <3>3, <3>4, <3>5
  <2>2. CASE id \notin Indexed
    <3> DEFINE h == [hits[k] EXCEPT !.asked = TRUE]
    <3>1. hits' = [hits EXCEPT ![k] = h]
      BY <2>2 DEF QuerySiblings
    <3>2. h \in Hit /\ h.asked /\ h.id = id /\ h.context = << >>
      BY <1>6, <1>7
    <3>3. rows[id] = None
      BY <1>7, <2>2 DEF Indexed
    <3> HIDE DEF h
    <3>4. InContext(h)
      BY <1>1, <3>2, <3>3 DEF InContext
    <3> QED
      BY <3>1, <3>2, <3>4
  <2> QED
    BY <2>1, <2>2
<1>9. PICK h : asked(h)
  BY <1>8
<1>10. IF Cardinality(Unasked) = 1 THEN pc' = "done" ELSE pc' = "siblings" /\ outcome' = "none"
  BY <1>1 DEF QuerySiblings, End, Goto
<1>11. summary' = summary
  BY DEF QuerySiblings, Ask
<1> HIDE DEF k
<1>12. /\ hits' \in Seq(Hit) /\ DOMAIN hits' = 1..Len(hits)
       /\ \A x \in 1..Len(hits) : hits'[x] = IF x = k THEN h ELSE hits[x]
  <2>1. hits' = [hits EXCEPT ![k] = h] /\ h \in Hit
    BY <1>9
  <2> HIDE DEF Hit
  <2>2. hits' \in Seq(Hit) /\ Len(hits') = Len(hits)
    BY <1>3, <1>5, <2>1, ExceptSeq
  <2> QED
    BY <1>4, <2>1, <2>2
<1> HIDE DEF Hit
<1>13. (\A x \in DOMAIN hits : IF hits[x].asked THEN InContext(hits[x]) ELSE hits[x].context = << >>)'
  <2>1. SUFFICES ASSUME NEW x \in 1..Len(hits)
                 PROVE  (IF hits[x].asked THEN InContext(hits[x]) ELSE hits[x].context = << >>)'
    BY <1>12
  <2>2. CASE x = k
    <3>1. hits'[x] = h /\ h.asked /\ InContext(h)
      BY <1>9, <1>12, <2>2
    <3> QED
      BY <1>1, <3>1 DEF InContext
  <2>3. CASE x # k
    <3>1. hits'[x] = hits[x] /\ IF hits[x].asked THEN InContext(hits[x]) ELSE hits[x].context = << >>
      BY <1>3, <1>4, <1>12, <2>3
    <3> QED
      BY <1>1, <3>1 DEF InContext
  <2> QED
    BY <2>2, <2>3
<1>15. Unasked' = Unasked \ {k}
  BY <1>4, <1>9, <1>12 DEF Unasked
<1>16. IF pc' = "siblings" THEN Unasked' # {} ELSE Unasked' = {}
  <2>1. IsFiniteSet(Unasked)
    <3>1. Unasked \subseteq 1..Len(hits)
      BY <1>4 DEF Unasked
    <3>2. IsFiniteSet(1..Len(hits))
      <4>1. 1 \in Int /\ Len(hits) \in Int
        BY <1>4
      <4> QED
        BY <4>1, FS_Interval
    <3> QED
      BY <3>1, <3>2, FS_Subset
  <2>2. Cardinality(Unasked) = 1 <=> Unasked = {k}
    BY <1>5, <2>1, FS_Singleton
  <2> QED
    BY <1>5, <1>10, <1>15, <2>2
<1>17. ContextSoFar'
  <2>1. /\ hits' \in Seq([id : Ids, asked : BOOLEAN, context : Seq(Ids)])
        /\ IF pc' = "siblings" THEN Unasked' # {} ELSE Unasked' = {} \/ Around = 0
    BY <1>12, <1>16 DEF Hit
  <2> QED
    BY <1>13, <2>1 DEF ContextSoFar
<1> QED
  BY <1>1, <1>2, <1>11, <1>10, <1>17 DEF AnswersInv, OutlineSoFar, OutlineIsRegular, SummarySoFar,
     SummaryIsRegular, Ok

LEMMA ChangeAnswers ==
    ASSUME IInv, AnswersInv, Changes, pc # "done"
    PROVE  AnswersInv'
<1>1. /\ UNCHANGED <<pc, call, outline, summary, hits, outcome>> /\ past \subseteq past'
      /\ outcome = "none"
  BY DEF Changes, parts, IInv, Shape
<1>2. RootAsked' /\ OutlineSoFar' /\ SummarySoFar'
  BY <1>1 DEF AnswersInv, RootAsked, OutlineSoFar, OutlineIsRegular, SummarySoFar, SummaryIsRegular, Ok
<1>3. \A g : InContext(g) => InContext(g)'
  BY <1>1 DEF InContext
<1>4. Unasked' = Unasked
  BY <1>1 DEF Unasked
<1>5. ContextSoFar'
  BY <1>1, <1>3, <1>4 DEF AnswersInv, ContextSoFar, Ok
<1> QED
  BY <1>2, <1>5 DEF AnswersInv

LEMMA AnswersStep == IInv /\ AnswersInv /\ [Next]_vars => AnswersInv'
<1> SUFFICES ASSUME IInv, AnswersInv, [Next]_vars PROVE AnswersInv'
  OBVIOUS
<1>1. CASE \/ \E x \in Ids : Rewrite(x) \/ Discard(x)
           \/ \E b \in Blocks, x \in Containers : \E i \in 1..Cardinality(Blocks) : MoveTo(b, x, i)
           \/ Reindex
  <2>1. Changes /\ pc # "done"
    BY <1>1 DEF Rewrite, Discard, MoveTo, Reindex, Edit
  <2> QED
    BY <2>1, ChangeAnswers
<1>2. CASE UNCHANGED vars
  <2>1. UNCHANGED <<pc, call, outline, summary, hits, outcome, past>>
    BY <1>2 DEF vars, parts
  <2>2. Unasked' = Unasked /\ \A g : InContext(g)' = InContext(g)
    BY <2>1 DEF Unasked, InContext
  <2>3. RootAsked' /\ OutlineSoFar' /\ SummarySoFar'
    BY <2>1 DEF AnswersInv, RootAsked, OutlineSoFar, OutlineIsRegular, SummarySoFar, SummaryIsRegular,
       StayedBelow, WasBelow, IndexIsStill, Ok
  <2>4. ContextSoFar'
    BY <2>1, <2>2 DEF AnswersInv, ContextSoFar, Ok
  <2> QED
    BY <2>3, <2>4 DEF AnswersInv
<1> QED
  BY <1>1, <1>2, OtherAnswers, OutlineStep, SummaryStep, SearchStep, SiblingsStep DEF Next

LEMMA AnswersInvariance == Spec => []AnswersInv
<1>1. Init => IInv /\ AnswersInv
  BY InitIInv, AnswersInit
<1>2. IInv /\ AnswersInv /\ [Next]_vars => (IInv /\ AnswersInv)'
  BY NextIInv, AnswersStep
<1> QED
  BY <1>1, <1>2, PTL DEF Spec

-----------------------------------------------------------------------------
(* Theorems                                                                *)

(* get_block says "not found" only of a block without a row and without    *)
(* text at some moment, and gives no text the kernel never had, except     *)
(* the row's where the kernel gave none.                                   *)
THEOREM BlockCorrect == Spec => []BlockIsRegular
BY Invariance, PTL DEF IInv

(* Whatever other clients do while the tasks of get_block_children run,    *)
(* no child is twice in its tree, none that stayed is missing or out of    *)
(* order, and exactly the nodes within the depth are expanded.             *)
THEOREM TreeCorrect == Spec => []TreeIsRegular
<1>1. IInv => TreeIsRegular
  <2> SUFFICES ASSUME IInv, Ok("get_block_children") PROVE TreeIsRegular
    BY DEF TreeIsRegular
  <2>1. TreeSoFar /\ pending = {} /\ \A s \in past : GoodTree(s.kids)
    BY DEF IInv, Ok, TreeSoFar, History
  <2>2. <<call.id>> \in DOMAIN listing
    BY <2>1 DEF TreeSoFar
  <2>3. /\ call \in [tool : Tools, id : Ids, depth : Depths \cup {None}]
        /\ call.depth \in 1..5
    <3>1. pc # "idle"
      BY DEF Ok, IInv, Shape
    <3> QED
      BY <3>1, BoundAssumption DEF IInv, Shape, Ok
  <2>4. ASSUME NEW p \in DOMAIN listing
        PROVE  LET In(s) == ToSet(Children(s.kids, Last(p)))
               IN  /\ Len(p) = 1 \/ Last(p) \in ToSet(listing[Front(p)])
                   /\ IsSet(listing[p])
                   /\ \A b \in Blocks :
                         /\ (\A s \in past : b \in In(s)) => b \in ToSet(listing[p])
                         /\ b \in ToSet(listing[p]) =>
                               /\ \E s \in past : b \in In(s)
                               /\ Append(p, b) \in DOMAIN listing <=> b \in Containers /\ Len(p) < call.depth
                   /\ \A b, c \in Blocks :
                         (\A s \in past : Precedes(Children(s.kids, Last(p)), b, c))
                             => Precedes(listing[p], b, c)
    <3>1. IsPath(p) /\ IsListed(p)
      BY <2>1, <2>4 DEF TreeSoFar
    <3>2. PICK t \in past : listing[p] = Children(t.kids, Last(p))
      BY <3>1 DEF IsListed
    <3>3. listing[p] \in Seq(Blocks) /\ IsInjective(listing[p])
      BY <2>1, <3>2, ChildrenRegular
    <3>4. Len(p) \in Nat /\ Len(p) >= 1
      BY <3>1, LenProperties DEF IsPath
    <3>5. ASSUME NEW b \in ToSet(listing[p])
          PROVE  Append(p, b) \in DOMAIN listing <=> b \in Containers /\ Len(p) < call.depth
      <4>1. b \in Ids
        BY <3>3, LenProperties, ElementOfSeq DEF ToSet, Ids
      <4>2. CASE b \in Containers /\ Len(p) < call.depth
        BY <2>1, <3>1, <4>2 DEF IsListed
      <4>3. CASE Append(p, b) \in DOMAIN listing
        <5> DEFINE q == Append(p, b)
        <5>1. Len(q) = Len(p) + 1 /\ q[Len(p) + 1] = b
          BY <3>1, <4>1, AppendProperties DEF IsPath
        <5>2. IsPath(q)
          BY <2>1, <4>3 DEF TreeSoFar
        <5> HIDE DEF q
        <5>3. Last(q) = b
          BY <5>1 DEF Last
        <5>4. Len(p) < call.depth
          BY <2>3, <3>4, <5>1, <5>2 DEF IsPath
        <5>5. b \in Containers
          BY <3>4, <5>1, <5>2, <5>3 DEF IsPath
        <5> QED
          BY <4>3, <5>4, <5>5
      <4> QED
        BY <4>2, <4>3
    <3>6. Len(p) = 1 \/ Last(p) \in ToSet(listing[Front(p)])
      <4>1. ASSUME NEW n \in Nat, n >= 1 PROVE n = 1 \/ n > 1
        BY <4>1
      <4>2. Len(p) > 1 => Last(p) \in ToSet(listing[Front(p)])
        BY <3>1 DEF IsPath
      <4> QED
        BY <3>4, <4>1, <4>2
    <3>7. \A b, c \in Blocks :
             (\A s \in past : Precedes(Children(s.kids, Last(p)), b, c)) => Precedes(listing[p], b, c)
      BY <3>2
    <3> QED
      BY <3>2, <3>3, <3>5, <3>6, <3>7 DEF IsSet
  <2> QED
    BY <2>2, <2>4 DEF TreeIsRegular
<1> QED
  BY <1>1, Invariance, PTL

(* get_document_outline lists no heading twice, every heading that stayed  *)
(* unless the limit cuts it off, and the document's own in order and first,*)
(* though the tree and the index are of different moments.                 *)
THEOREM OutlineCorrect == Spec => []OutlineIsRegular
<1>1. AnswersInv => OutlineIsRegular
  BY DEF AnswersInv, OutlineSoFar
<1> QED
  BY <1>1, AnswersInvariance, PTL

(* The count and the first blocks of get_doc_summary are about the same    *)
(* children, and agree if the index did not change in between.             *)
THEOREM SummaryCorrect == Spec => []SummaryIsRegular
<1>1. AnswersInv => SummaryIsRegular
  BY DEF AnswersInv, SummarySoFar
<1> QED
  BY <1>1, AnswersInvariance, PTL

(* Every hit of search_with_context stands among blocks below one parent,  *)
(* at most Around of them on either side, unless the index lost the hit.   *)
THEOREM ContextCorrect == Spec => []ContextIsRegular
<1>1. IInv /\ AnswersInv => ContextIsRegular
  <2>1. SUFFICES ASSUME IInv, AnswersInv, Ok("search_with_context"), NEW k \in DOMAIN hits
                 PROVE  \/ hits[k].context = << >> /\ Around = 0
                        \/ InContext(hits[k])
    BY DEF ContextIsRegular, InContext, Below
  <2>2. pc # "siblings"
    BY <2>1 DEF IInv, Shape, Ok
  <2>3. Unasked = {} \/ Around = 0
    BY <2>1, <2>2 DEF AnswersInv, ContextSoFar
  <2>4. IF hits[k].asked THEN InContext(hits[k]) ELSE hits[k].context = << >>
    BY <2>1 DEF AnswersInv, ContextSoFar
  <2>5. Unasked = {} => hits[k].asked
    BY <2>1 DEF Unasked
  <2> QED
    BY <2>3, <2>4, <2>5
<1> QED
  BY <1>1, Invariance, AnswersInvariance, PTL


=============================================================================

------------------------- MODULE IsolateFetchProofs -------------------------
(***************************************************************************)
(* Whatever the tree, the cache, the number of threads and the retries: the *)
(* thread pool is closed when nothing is left for it to do, the cache drops *)
(* what is in use last, and what is read from it is whole.                 *)
(*                                                                         *)
(* Storage.close() looks at a count.  The proof is that the count is that  *)
(* of the tasks, which needs that no digest ever has two: FetchQueue asks  *)
(* for one again only after its answer has been taken from the channel.    *)
(*                                                                         *)
(* What is in use is dropped last because it is at the new end of the LRU  *)
(* list: every step that trims leaves the used digests there, in a block.  *)
(*                                                                         *)
(* What is read is whole because a digest is used only once its file was   *)
(* looked at or written, and a file is asked for by the digest and the size *)
(* that the tree gives it.  The walk of the tree needs its order (Walk), a *)
(* recursive function, which exists because the includes have no cycle.    *)
(***************************************************************************)
EXTENDS IsolateFetch, FiniteSetTheorems, SequenceTheorems, TLAPS

-----------------------------------------------------------------------------
(* Numbers and recursion.                                                  *)

\* A set of numbers has a least one.
LEMMA NatMin ==
  ASSUME NEW S, S \subseteq Nat, S # {}
  PROVE \E m \in S : \A n \in S : m <= n
<1> DEFINE T == {0 .. n : n \in S}
           F == FiniteSubsetsOf(Nat)
           R == StrictSubsetOrdering(Nat)
<1>1. IsWellFoundedOn(R, F)
  BY FS_StrictSubsetOrderingWellFounded
<1>2. T \subseteq F /\ T # {}
  <2>1. ASSUME NEW n \in S PROVE 0 .. n \in F
    <3>1. n \in Nat /\ n \in Int /\ 0 \in Int OBVIOUS
    <3>2. IsFiniteSet(0 .. n) BY <3>1, FS_Interval
    <3>3. 0 .. n \subseteq Nat BY <3>1
    <3> QED BY <3>2, <3>3 DEF FiniteSubsetsOf
  <2> QED BY <2>1
<1>3. PICK x \in T : \A y \in T : ~(<<y, x>> \in R)
  <2> HIDE DEF T, F, R
  <2> QED BY <1>1, <1>2, WFMin
<1>4. PICK m \in S : x = 0 .. m
  OBVIOUS
<1>5. ASSUME NEW n \in S, n < m PROVE FALSE
  <2>1. 0 .. n \in T
    OBVIOUS
  <2>2. n \in Nat /\ m \in Nat OBVIOUS
  <2>3. 0 .. n \in FiniteSubsetsOf(Nat) /\ 0 .. m \in FiniteSubsetsOf(Nat)
    BY <1>2, <1>4, <2>1
  <2>4. 0 .. n \subseteq 0 .. m /\ 0 .. n # 0 .. m
    BY <2>2, <1>5
  <2>5. <<0 .. n, 0 .. m>> \in R
    BY <2>3, <2>4 DEF StrictSubsetOrdering
  <2> QED BY <2>1, <2>5, <1>3, <1>4
<1> QED BY <1>5

\* The least of some numbers is one of them.
LEMMA MinIs ==
    ASSUME NEW S, S \subseteq Nat, S # {}
    PROVE  Min(S) \in S
<1>1. \E m \in S : \A n \in S : m <= n
  BY NatMin
<1> QED
  BY <1>1 DEF Min

\* What is applied at each step of a recursion over 1 .. n, and its values.
StepsOf(n, S) == [(1 .. n) \X S -> S]
Follows(f, n, S, a, G) ==
    /\ f \in [0 .. n -> S] /\ f[0] = a
    /\ \A i \in 1 .. n : f[i] = G[<<i, f[i - 1]>>]

\* What is recursive over 1 .. n has a value.
LEMMA Recursion ==
    ASSUME NEW n \in Nat, NEW S, NEW a \in S, NEW G \in StepsOf(n, S)
    PROVE  \E f : Follows(f, n, S, a, G)
<1> DEFINE Bad == {m \in 0 .. n : ~\E f : Follows(f, m, S, a, G)}
<1>1. ASSUME Bad # {} PROVE FALSE
  <2>1. PICK m \in Bad : \A k \in Bad : m <= k
    <3>1. Bad \subseteq Nat
      OBVIOUS
    <3> HIDE DEF Bad
    <3>2. QED
      BY <1>1, <3>1, NatMin
  <2>2. m \in 0 .. n /\ m \in Nat
    OBVIOUS
  <2>3. m # 0
    <3>1. Follows([i \in 0 .. 0 |-> a], 0, S, a, G)
      BY DEF Follows
    <3>2. QED
      BY <3>1
  <2>4. m - 1 \in 0 .. n /\ m - 1 \notin Bad
    <3>1. m - 1 \in 0 .. n /\ ~(m <= m - 1)
      BY <2>2, <2>3
    <3> HIDE DEF Bad
    <3>2. QED
      BY <2>1, <3>1
  <2>5. PICK f : Follows(f, m - 1, S, a, G)
    BY <2>4
  <2> DEFINE g == [i \in 0 .. m |-> IF i = m THEN G[<<m, f[m - 1]>>] ELSE f[i]]
  <2>6. f \in [0 .. (m - 1) -> S] /\ m - 1 \in 0 .. (m - 1) /\ f[m - 1] \in S /\ m \in 1 .. n
    BY <2>2, <2>3, <2>5 DEF Follows
  <2>7. g \in [0 .. m -> S]
    BY <2>2, <2>6 DEF StepsOf
  <2>8. g[m] = G[<<m, f[m - 1]>>] /\ \A i \in 0 .. (m - 1) : g[i] = f[i]
    BY <2>2
  <2>9. Follows(g, m, S, a, G)
    <3> HIDE DEF g
    <3>1. g[0] = a
      BY <2>2, <2>3, <2>5, <2>8 DEF Follows
    <3>2. ASSUME NEW i \in 1 .. m PROVE g[i] = G[<<i, g[i - 1]>>]
      <4>1. i - 1 \in 0 .. (m - 1) /\ (i # m => i \in 1 .. (m - 1) /\ i \in 0 .. (m - 1))
        BY <2>2
      <4>2. QED
        BY <2>5, <2>8, <4>1 DEF Follows
    <3>3. QED
      BY <2>7, <3>1, <3>2 DEF Follows
  <2>10. QED
    BY <2>1, <2>9
<1>2. n \in 0 .. n
  OBVIOUS
<1>3. QED
  BY <1>1, <1>2

-----------------------------------------------------------------------------
(* The tree.                                                               *)

\* Two sequences, one after the other, have the items of both.
LEMMA JoinedHas ==
    ASSUME NEW S, NEW r \in Seq(S), NEW s \in Seq(S)
    PROVE  r \o s \in Seq(S) /\ ToSet(r \o s) = ToSet(r) \cup ToSet(s)
<1>1. /\ r \o s \in Seq(S) /\ Len(r \o s) = Len(r) + Len(s) /\ Len(r) \in Nat /\ Len(s) \in Nat
      /\ \A i \in 1 .. Len(r) + Len(s) :
            (r \o s)[i] = IF i <= Len(r) THEN r[i] ELSE s[i - Len(r)]
  BY ConcatProperties, LenProperties
<1>9. DOMAIN (r \o s) = 1 .. Len(r) + Len(s) /\ DOMAIN r = 1 .. Len(r) /\ DOMAIN s = 1 .. Len(s)
  BY <1>1, LenProperties
<1>2. ASSUME NEW x \in ToSet(r \o s) PROVE x \in ToSet(r) \cup ToSet(s)
  <2>1. PICK i \in 1 .. Len(r) + Len(s) : x = (r \o s)[i]
    BY <1>9 DEF ToSet
  <2>2. i \in 1 .. Len(r) \/ i - Len(r) \in 1 .. Len(s)
    BY <1>1
  <2> QED
    BY <1>1, <2>1, <2>2 DEF ToSet
<1>3. ASSUME NEW x \in ToSet(r) PROVE x \in ToSet(r \o s)
  <2>1. PICK i \in 1 .. Len(r) : x = r[i]
    BY <1>9 DEF ToSet
  <2>2. i \in 1 .. Len(r) + Len(s) /\ i <= Len(r)
    BY <1>1
  <2>3. x = (r \o s)[i]
    BY <1>1, <2>1, <2>2
  <2> QED
    BY <1>9, <2>2, <2>3 DEF ToSet
<1>4. ASSUME NEW x \in ToSet(s) PROVE x \in ToSet(r \o s)
  <2>1. PICK i \in 1 .. Len(s) : x = s[i]
    BY <1>9 DEF ToSet
  <2>2. i + Len(r) \in 1 .. Len(r) + Len(s) /\ ~(i + Len(r) <= Len(r)) /\ (i + Len(r)) - Len(r) = i
    BY <1>1
  <2>3. x = (r \o s)[i + Len(r)]
    BY <1>1, <2>1, <2>2
  <2> QED
    BY <1>9, <2>2, <2>3 DEF ToSet
<1> QED
  BY <1>1, <1>2, <1>3, <1>4

\* Sequences put one after the other have the items of all of them.
LEMMA FlattenIs ==
    ASSUME NEW S, NEW n \in Nat, NEW ss \in [1 .. n -> Seq(S)]
    PROVE  /\ FlattenSeq(ss) \in Seq(S)
           /\ \A k \in 1 .. n : ToSet(ss[k]) \subseteq ToSet(FlattenSeq(ss))
           /\ \A x \in ToSet(FlattenSeq(ss)) : \E k \in 1 .. n : x \in ToSet(ss[k])
<1> DEFINE G == [p \in (1 .. n) \X Seq(S) |-> p[2] \o ss[p[1]]]
           Is(f) == f = [i \in 1 .. n |-> IF i = 1 THEN ss[i] ELSE f[i - 1] \o ss[i]]
           flat == CHOOSE f : Is(f)
           Good(k) == /\ flat[k] \in Seq(S)
                      /\ \A j \in 1 .. k : ToSet(ss[j]) \subseteq ToSet(flat[k])
                      /\ \A x \in ToSet(flat[k]) : \E j \in 1 .. k : x \in ToSet(ss[j])
           Bad == {k \in 1 .. n : ~Good(k)}
<1>1. Len(ss) = n /\ \A k \in 1 .. n : ss[k] \in Seq(S)
  OBVIOUS
<1>2. FlattenSeq(ss) = IF n = 0 THEN ss ELSE flat[n]
  BY <1>1 DEF FlattenSeq
<1>3. Is(flat)
  <2>1. <<>> \in Seq(S) /\ G \in [(1 .. n) \X Seq(S) -> Seq(S)]
    <3>1. \A p \in (1 .. n) \X Seq(S) : p[2] \o ss[p[1]] \in Seq(S)
      <4> SUFFICES ASSUME NEW p \in (1 .. n) \X Seq(S) PROVE p[2] \o ss[p[1]] \in Seq(S)
        OBVIOUS
      <4>1. p[2] \in Seq(S) /\ ss[p[1]] \in Seq(S)
        BY <1>1
      <4> QED
        BY <4>1
    <3> QED
      BY <3>1
  <2>2. \A k \in 1 .. n, s \in Seq(S) : G[<<k, s>>] = s \o ss[k]
    OBVIOUS
  <2> HIDE DEF G
  <2>3. G \in StepsOf(n, Seq(S))
    BY <2>1 DEF StepsOf
  <2>4. PICK f : Follows(f, n, Seq(S), <<>>, G)
    BY <2>1, <2>3, Recursion
  <2>5. /\ f \in [0 .. n -> Seq(S)] /\ f[0] = <<>>
        /\ \A k \in 1 .. n : f[k] = G[<<k, f[k - 1]>>]
    BY <2>4 DEF Follows
  <2>6. ASSUME NEW k \in 1 .. n PROVE f[k] = f[k - 1] \o ss[k] /\ f[k - 1] \in Seq(S)
    <3>1. k - 1 \in 0 .. n
      OBVIOUS
    <3>2. f[k - 1] \in Seq(S)
      BY <2>5, <3>1
    <3> QED
      BY <2>2, <2>5, <3>2
  <2> DEFINE g == [k \in 1 .. n |-> f[k]]
  <2>7. ASSUME NEW k \in 1 .. n
        PROVE  g[k] = IF k = 1 THEN ss[k] ELSE g[k - 1] \o ss[k]
    <3>1. CASE k = 1
      <4>1. f[k] = <<>> \o ss[k]
        <5>1. k - 1 = 0
          BY <3>1
        <5> QED
          BY <2>5, <2>6, <5>1
      <4>2. <<>> \o ss[k] = ss[k]
        BY <1>1, ConcatEmptySeq
      <4> QED
        BY <3>1, <4>1, <4>2
    <3>2. CASE k # 1
      <4>1. k - 1 \in 1 .. n
        BY <3>2
      <4> QED
        BY <2>6, <3>2, <4>1
    <3> QED
      BY <3>1, <3>2
  <2>8. Is(g)
    <3> HIDE DEF g
    <3>1. g = [k \in 1 .. n |-> g[k]]
      BY DEF g
    <3> QED
      BY <2>7, <3>1
  <2> HIDE DEF Is
  <2> QED
    BY <2>8
<1>4. \A k \in 1 .. n : flat[k] = IF k = 1 THEN ss[k] ELSE flat[k - 1] \o ss[k]
  <2> HIDE DEF flat
  <2> QED
    BY <1>3
<1> HIDE DEF flat
<1>5. ASSUME NEW k \in 1 .. n, k # 1 => Good(k - 1) PROVE Good(k)
  <2>1. CASE k = 1
    BY <1>1, <1>4, <2>1
  <2>2. CASE k # 1
    <3> DEFINE r == flat[k - 1]
    <3>1. /\ r \in Seq(S)
          /\ \A j \in 1 .. (k - 1) : ToSet(ss[j]) \subseteq ToSet(r)
          /\ \A x \in ToSet(r) : \E j \in 1 .. (k - 1) : x \in ToSet(ss[j])
      BY <1>5, <2>2
    <3>2. flat[k] = r \o ss[k] /\ ss[k] \in Seq(S)
      BY <1>1, <1>4, <2>2
    <3> HIDE DEF r
    <3>3. flat[k] \in Seq(S) /\ ToSet(flat[k]) = ToSet(r) \cup ToSet(ss[k])
      BY <3>1, <3>2, JoinedHas
    <3>4. \A j \in 1 .. k : j \in 1 .. (k - 1) \/ j = k
      OBVIOUS
    <3>5. k \in 1 .. k /\ \A j \in 1 .. (k - 1) : j \in 1 .. k
      OBVIOUS
    <3> QED
      BY <3>1, <3>3, <3>4, <3>5
  <2> QED
    BY <2>1, <2>2
<1>6. CASE n = 0
  <2>1. ss = <<>> /\ FlattenSeq(ss) = <<>>
    BY <1>1, <1>2, <1>6
  <2>2. <<>> \in Seq(S) /\ ToSet(<<>>) = {}
    BY DEF ToSet
  <2>3. FlattenSeq(ss) \in Seq(S) /\ ToSet(FlattenSeq(ss)) = {}
    BY <2>1, <2>2
  <2>4. \A k \in 1 .. n : FALSE
    BY <1>6
  <2> QED
    BY <2>3, <2>4
<1>7. CASE n # 0
  <2>1. Bad \subseteq 1 .. n /\ (\A k \in Bad : ~Good(k)) /\ \A k \in 1 .. n : k \notin Bad => Good(k)
    OBVIOUS
  <2>2. Bad \subseteq Nat
    OBVIOUS
  <2> HIDE DEF Bad, Good
  <2>3. ASSUME Bad # {} PROVE FALSE
    <3>1. PICK k \in Bad : \A m \in Bad : k <= m
      BY <2>2, <2>3, NatMin
    <3>2. k \in 1 .. n /\ ~(k <= k - 1) /\ (k # 1 => k - 1 \in 1 .. n)
      BY <2>1
    <3>3. k # 1 => Good(k - 1)
      BY <2>1, <3>1, <3>2
    <3> QED
      BY <1>5, <2>1, <3>2, <3>3
  <2>4. n \in 1 .. n
    BY <1>7
  <2>5. Good(n)
    BY <2>1, <2>3, <2>4
  <2> QED
    BY <1>2, <1>7, <2>5 DEF Good
<1> QED
  BY <1>6, <1>7

\* The walk of the tree below i, when w is that below each of its includes.
Visit(w, i) == <<i>> \o FlattenSeq([k \in DOMAIN Includes[i] |-> w[Includes[i][k]]])

\* Includes are .isolated files, and end.
Descends(height) ==
    \A i \in Isolateds : \A k \in 1 .. Len(Includes[i]) : height[Includes[i][k]] < height[i]

\* There are heights, with a bound, that includes are below.
LEMMA Heights ==
    /\ \A i \in Isolateds : /\ Includes[i] \in Seq(Isolateds) /\ Len(Includes[i]) \in Nat
                            /\ DOMAIN Includes[i] = 1 .. Len(Includes[i])
                            /\ \A k \in 1 .. Len(Includes[i]) : Includes[i][k] \in Isolateds
    /\ \E n \in Nat : \E height \in [Isolateds -> 0 .. n] : Descends(height)
<1>1. ASSUME NEW i \in Isolateds
      PROVE  /\ Includes[i] \in Seq(Isolateds) /\ Len(Includes[i]) \in Nat
             /\ DOMAIN Includes[i] = 1 .. Len(Includes[i])
             /\ \A k \in 1 .. Len(Includes[i]) : Includes[i][k] \in Isolateds
  <2>1. Includes[i] \in Seq(Isolateds)
    BY FetchAssumption
  <2> QED
    BY <2>1
<1>2. Cardinality(Isolateds) \in Nat
  <2>1. IsFiniteSet(Isolateds)
    BY FetchAssumption, FS_Subset DEF Digests
  <2> QED
    BY <2>1, FS_CardinalityType
<1>3. PICK height \in [Isolateds -> 0 .. Cardinality(Isolateds)] :
         \A i \in Isolateds : \A k \in DOMAIN Includes[i] : height[Includes[i][k]] < height[i]
  BY TreeAssumption
<1>4. Descends(height)
  BY <1>1, <1>3 DEF Descends
<1> QED
  BY <1>1, <1>2, <1>4

\* What holds of an .isolated file if it does of what it includes holds of all.
LEMMA TreeInduction ==
    ASSUME NEW P,
           \A i \in Isolateds :
              (\A k \in 1 .. Len(Includes[i]) : Includes[i][k] \in P) => i \in P
    PROVE  Isolateds \subseteq P
<1>1. PICK n \in Nat : \E height \in [Isolateds -> 0 .. n] : Descends(height)
  BY Heights
<1>2. PICK height \in [Isolateds -> 0 .. n] : Descends(height)
  BY <1>1
<1> DEFINE H == {height[i] : i \in Isolateds \ P}
<1>3. ASSUME Isolateds \ P # {} PROVE FALSE
  <2>1. H \subseteq Nat /\ H # {}
    BY <1>2, <1>3
  <2>2. PICK m \in H : \A k \in H : m <= k
    <3> HIDE DEF H
    <3> QED
      BY <2>1, NatMin
  <2>3. PICK i \in Isolateds \ P : m = height[i]
    OBVIOUS
  <2>4. ASSUME NEW k \in 1 .. Len(Includes[i]), Includes[i][k] \notin P PROVE FALSE
    <3>1. Includes[i][k] \in Isolateds
      BY Heights
    <3>2. height[Includes[i][k]] < height[i]
      BY <1>2 DEF Descends
    <3>3. height[i] <= height[Includes[i][k]]
      BY <2>2, <2>3, <2>4, <3>1
    <3>4. height[i] \in Nat /\ height[Includes[i][k]] \in Nat
      BY <1>2, <3>1
    <3> QED
      BY <3>2, <3>3, <3>4
  <2> QED
    BY <2>4
<1> QED
  BY <1>3

\* What is visited once the includes are walked.
LEMMA VisitIs ==
    ASSUME NEW w \in [Isolateds -> Seq(Isolateds)], NEW i \in Isolateds
    PROVE  /\ Visit(w, i) \in Seq(Isolateds) /\ i \in ToSet(Visit(w, i))
           /\ \A k \in 1 .. Len(Includes[i]) :
                 ToSet(w[Includes[i][k]]) \subseteq ToSet(Visit(w, i))
           /\ \A j \in ToSet(Visit(w, i)) :
                 j = i \/ \E k \in 1 .. Len(Includes[i]) : j \in ToSet(w[Includes[i][k]])
<1> DEFINE n == Len(Includes[i])
           ss == [k \in DOMAIN Includes[i] |-> w[Includes[i][k]]]
           flat == FlattenSeq(ss)
<1>1. /\ n \in Nat /\ DOMAIN Includes[i] = 1 .. n
      /\ \A k \in 1 .. n : Includes[i][k] \in Isolateds
  BY Heights
<1>2. ss \in [1 .. n -> Seq(Isolateds)] /\ \A k \in 1 .. n : ss[k] = w[Includes[i][k]]
  BY <1>1
<1>3. Visit(w, i) = <<i>> \o flat
  BY DEF Visit
<1> HIDE DEF ss, n
<1>4. /\ flat \in Seq(Isolateds)
      /\ \A k \in 1 .. n : ToSet(ss[k]) \subseteq ToSet(flat)
      /\ \A x \in ToSet(flat) : \E k \in 1 .. n : x \in ToSet(ss[k])
  BY <1>1, <1>2, FlattenIs
<1> HIDE DEF flat
<1> DEFINE one == <<i>>
<1>5. one \in Seq(Isolateds) /\ ToSet(one) = {i} /\ Visit(w, i) = one \o flat
  BY <1>3 DEF ToSet
<1> HIDE DEF one
<1>6. Visit(w, i) \in Seq(Isolateds) /\ ToSet(Visit(w, i)) = {i} \cup ToSet(flat)
  <2>1. one \o flat \in Seq(Isolateds) /\ ToSet(one \o flat) = ToSet(one) \cup ToSet(flat)
    BY <1>4, <1>5, JoinedHas
  <2> QED
    BY <1>5, <2>1
<1> QED
  BY <1>2, <1>4, <1>6 DEF n

\* The walk is that of the root and of its includes.
LEMMA WalkIs ==
    /\ Walk \in [Isolateds -> Seq(Isolateds)]
    /\ \A i \in Isolateds : Walk[i] = Visit(Walk, i)
<1>1. PICK n \in Nat : \E height \in [Isolateds -> 0 .. n] : Descends(height)
  BY Heights
<1>2. PICK height \in [Isolateds -> 0 .. n] : Descends(height)
  BY <1>1
<1> DEFINE Walks(w, m) == /\ w \in [Isolateds -> Seq(Isolateds)]
                          /\ \A i \in Isolateds : height[i] < m => w[i] = Visit(w, i)
           Bad == {m \in Nat : ~\E w : Walks(w, m)}
<1>3. \A i \in Isolateds : height[i] \in Nat /\ height[i] < n + 1
  BY <1>2
<1>4. \E w : Walks(w, 0)
  <2> DEFINE w == [i \in Isolateds |-> <<>>]
  <2>1. w \in [Isolateds -> Seq(Isolateds)]
    OBVIOUS
  <2>2. \A i \in Isolateds : ~(height[i] < 0)
    BY <1>3
  <2> HIDE DEF w
  <2> QED
    BY <2>1, <2>2
<1>5. ASSUME NEW m \in Nat, NEW w, Walks(w, m) PROVE \E v : Walks(v, m + 1)
  <2> DEFINE v == [i \in Isolateds |-> IF height[i] < m THEN w[i] ELSE Visit(w, i)]
  <2>1. \A i \in Isolateds : v[i] = Visit(w, i) \/ height[i] > m
    BY <1>3, <1>5
  <2>2. \A i \in Isolateds : height[i] < m => v[i] = w[i]
    OBVIOUS
  <2>3. v \in [Isolateds -> Seq(Isolateds)]
    BY <1>5, VisitIs
  <2> HIDE DEF v
  <2>4. ASSUME NEW i \in Isolateds, height[i] < m + 1 PROVE v[i] = Visit(v, i)
    <3>1. ASSUME NEW k \in DOMAIN Includes[i] PROVE v[Includes[i][k]] = w[Includes[i][k]]
      <4>1. k \in 1 .. Len(Includes[i]) /\ Includes[i][k] \in Isolateds
        BY Heights
      <4>2. height[Includes[i][k]] < height[i]
        BY <1>2, <4>1 DEF Descends
      <4>3. height[Includes[i][k]] < m
        BY <1>3, <2>4, <4>1, <4>2
      <4> QED
        BY <2>2, <4>1, <4>3
    <3>2. [k \in DOMAIN Includes[i] |-> v[Includes[i][k]]] = [k \in DOMAIN Includes[i] |-> w[Includes[i][k]]]
      BY <3>1
    <3>3. Visit(v, i) = Visit(w, i)
      BY <3>2 DEF Visit
    <3>4. ~(height[i] > m)
      BY <1>3, <2>4
    <3> QED
      BY <2>1, <3>3, <3>4
  <2>5. Walks(v, m + 1)
    BY <2>3, <2>4
  <2> QED
    BY <2>5
<1>6. Bad = {}
  <2> SUFFICES ASSUME Bad # {} PROVE FALSE
    OBVIOUS
  <2>1. Bad \subseteq Nat /\ (\A m \in Bad : ~\E w : Walks(w, m))
        /\ \A m \in Nat : m \notin Bad => \E w : Walks(w, m)
    OBVIOUS
  <2> HIDE DEF Bad, Walks
  <2>2. PICK m \in Bad : \A k \in Bad : m <= k
    BY <2>1, NatMin
  <2>3. m # 0 /\ m \in Nat
    BY <1>4, <2>1
  <2>4. m - 1 \in Nat /\ ~(m <= m - 1) /\ (m - 1) + 1 = m
    BY <2>3
  <2>5. PICK w : Walks(w, m - 1)
    BY <2>1, <2>2, <2>4
  <2>6. \E v : Walks(v, (m - 1) + 1)
    BY <1>5, <2>4, <2>5
  <2> QED
    BY <2>1, <2>4, <2>6
<1>7. PICK w : Walks(w, n + 1)
  <2>1. \A m \in Nat : m \notin Bad => \E w : Walks(w, m)
    OBVIOUS
  <2> HIDE DEF Bad, Walks
  <2> QED
    BY <1>6, <2>1
<1> DEFINE Is(f) == f = [i \in Isolateds |-> Visit(f, i)]
<1>8. Is(w)
  <2>1. w \in [Isolateds -> Seq(Isolateds)] /\ \A i \in Isolateds : w[i] = Visit(w, i)
    BY <1>3, <1>7
  <2> QED
    BY <2>1
<1>9. Walk = CHOOSE f : Is(f)
  BY DEF Walk, Visit
<1> HIDE DEF Is
<1>10. Is(Walk)
  BY <1>8, <1>9
<1>11. \A i \in Isolateds : Walk[i] = Visit(Walk, i)
  <2> HIDE DEF Walks
  <2> QED
    BY <1>10 DEF Is
<1> HIDE DEF Is, Walks, Bad
<1> DEFINE P == {i \in Isolateds : Walk[i] \in Seq(Isolateds)}
           typed == [i \in Isolateds |-> IF i \in P THEN Walk[i] ELSE <<>>]
<1>12. typed \in [Isolateds -> Seq(Isolateds)]
  OBVIOUS
<1>13. ASSUME NEW i \in Isolateds, \A k \in 1 .. Len(Includes[i]) : Includes[i][k] \in P
       PROVE  i \in P
  <2>1. \A k \in DOMAIN Includes[i] : k \in 1 .. Len(Includes[i]) /\ Includes[i][k] \in Isolateds
    BY Heights
  <2>2. \A j \in P : j \in Isolateds /\ typed[j] = Walk[j]
    OBVIOUS
  <2> HIDE DEF typed, P
  <2>3. \A k \in DOMAIN Includes[i] : typed[Includes[i][k]] = Walk[Includes[i][k]]
    BY <1>13, <2>1, <2>2
  <2>4. [k \in DOMAIN Includes[i] |-> typed[Includes[i][k]]] = [k \in DOMAIN Includes[i] |-> Walk[Includes[i][k]]]
    BY <2>3
  <2>5. Visit(typed, i) = Visit(Walk, i)
    BY <2>4 DEF Visit
  <2>6. Visit(typed, i) \in Seq(Isolateds)
    BY <1>12, VisitIs
  <2> QED
    BY <1>11, <2>5, <2>6 DEF P
<1>14. Isolateds \subseteq P
  <2> HIDE DEF P
  <2> QED
    BY <1>13, TreeInduction
<1>15. Walk = [i \in Isolateds |-> Visit(Walk, i)]
  BY <1>10 DEF Is
<1>16. Walk \in [Isolateds -> Seq(Isolateds)]
  <2>1. \A i \in Isolateds : Visit(Walk, i) \in Seq(Isolateds)
    BY <1>11, <1>14
  <2> DEFINE v == [i \in Isolateds |-> Visit(Walk, i)]
  <2>2. v \in [Isolateds -> Seq(Isolateds)]
    BY <2>1
  <2> HIDE DEF v
  <2>3. Walk = v
    BY <1>15 DEF v
  <2> QED
    BY <2>2, <2>3
<1> QED
  BY <1>11, <1>16

\* The walk has the root; what it has, it has with what that includes, among which the
\* root never is; and nothing else is in it.
LEMMA OrderIs ==
    /\ Order \in Seq(Isolateds) /\ Root \in ToSet(Order)
    /\ \A j \in ToSet(Order) : /\ j \in Isolateds /\ ToSet(Includes[j]) \subseteq ToSet(Order)
                               /\ Root \notin ToSet(Includes[j])
    /\ \A S : Root \in S /\ (\A j \in S : ToSet(Includes[j]) \subseteq S) => ToSet(Order) \subseteq S
<1>1. PICK n \in Nat : \E height \in [Isolateds -> 0 .. n] : Descends(height)
  BY Heights
<1>2. PICK height \in [Isolateds -> 0 .. n] : Descends(height)
  BY <1>1
<1>3. /\ Walk \in [Isolateds -> Seq(Isolateds)] /\ Root \in Isolateds
      /\ \A i \in Isolateds : Walk[i] = Visit(Walk, i)
  BY WalkIs, FetchAssumption
<1>4. \A i \in Isolateds :
          /\ Walk[i] \in Seq(Isolateds) /\ i \in ToSet(Walk[i])
          /\ \A k \in 1 .. Len(Includes[i]) :
                ToSet(Walk[Includes[i][k]]) \subseteq ToSet(Walk[i])
          /\ \A j \in ToSet(Walk[i]) :
                j = i \/ \E k \in 1 .. Len(Includes[i]) : j \in ToSet(Walk[Includes[i][k]])
  BY <1>3, VisitIs
<1>5. \A i \in Isolateds :
          /\ \A k \in 1 .. Len(Includes[i]) : Includes[i][k] \in ToSet(Includes[i])
          /\ \A c \in ToSet(Includes[i]) : \E k \in 1 .. Len(Includes[i]) : c = Includes[i][k]
          /\ ToSet(Includes[i]) \subseteq Isolateds
          /\ \A c \in ToSet(Includes[i]) : height[c] < height[i]
  <2> SUFFICES ASSUME NEW i \in Isolateds
               PROVE  /\ \A k \in 1 .. Len(Includes[i]) : Includes[i][k] \in ToSet(Includes[i])
                      /\ \A c \in ToSet(Includes[i]) : \E k \in 1 .. Len(Includes[i]) : c = Includes[i][k]
                      /\ ToSet(Includes[i]) \subseteq Isolateds
                      /\ \A c \in ToSet(Includes[i]) : height[c] < height[i]
    OBVIOUS
  <2>1. ToSet(Includes[i]) = {Includes[i][k] : k \in 1 .. Len(Includes[i])}
    BY Heights DEF ToSet
  <2> QED
    BY <1>2, <2>1, Heights DEF Descends
<1>6. \A i \in Isolateds :
          /\ \A c \in ToSet(Includes[i]) : ToSet(Walk[c]) \subseteq ToSet(Walk[i])
          /\ \A j \in ToSet(Walk[i]) : j = i \/ \E c \in ToSet(Includes[i]) : j \in ToSet(Walk[c])
  <2> SUFFICES ASSUME NEW i \in Isolateds
               PROVE  /\ \A c \in ToSet(Includes[i]) : ToSet(Walk[c]) \subseteq ToSet(Walk[i])
                      /\ \A j \in ToSet(Walk[i]) :
                            j = i \/ \E c \in ToSet(Includes[i]) : j \in ToSet(Walk[c])
    OBVIOUS
  <2>1. ASSUME NEW c \in ToSet(Includes[i]) PROVE ToSet(Walk[c]) \subseteq ToSet(Walk[i])
    <3>1. PICK k \in 1 .. Len(Includes[i]) : c = Includes[i][k]
      BY <1>5
    <3> QED
      BY <1>4, <3>1
  <2>2. ASSUME NEW j \in ToSet(Walk[i]), j # i
        PROVE  \E c \in ToSet(Includes[i]) : j \in ToSet(Walk[c])
    <3>1. PICK k \in 1 .. Len(Includes[i]) : j \in ToSet(Walk[Includes[i][k]])
      BY <1>4, <2>2
    <3> QED
      BY <1>5, <3>1
  <2> QED
    BY <2>1, <2>2
<1> DEFINE P == {i \in Isolateds : \A j \in ToSet(Walk[i]) :
                    /\ j \in Isolateds /\ height[j] <= height[i]
                    /\ ToSet(Includes[j]) \subseteq ToSet(Walk[i])}
<1>7. \A i \in Isolateds : height[i] \in Nat
  BY <1>2
<1>8. ASSUME NEW i \in Isolateds, \A k \in 1 .. Len(Includes[i]) : Includes[i][k] \in P
      PROVE  i \in P
  <2>1. ASSUME NEW c \in ToSet(Includes[i]) PROVE c \in P
    <3>1. PICK k \in 1 .. Len(Includes[i]) : c = Includes[i][k]
      BY <1>5
    <3> QED
      BY <1>8, <3>1
  <2>2. ASSUME NEW j \in ToSet(Walk[i])
        PROVE  /\ j \in Isolateds /\ height[j] <= height[i]
               /\ ToSet(Includes[j]) \subseteq ToSet(Walk[i])
    <3>1. CASE j = i
      <4>1. \A c \in ToSet(Includes[i]) : c \in ToSet(Walk[c])
        BY <1>4, <1>5
      <4>2. ToSet(Includes[i]) \subseteq ToSet(Walk[i])
        BY <1>6, <4>1
      <4>3. height[i] <= height[i]
        BY <1>7
      <4> QED
        BY <3>1, <4>2, <4>3
    <3>2. CASE j # i
      <4>1. PICK c \in ToSet(Includes[i]) : j \in ToSet(Walk[c])
        BY <1>6, <3>2
      <4>2. /\ j \in Isolateds /\ c \in Isolateds /\ height[j] <= height[c]
            /\ ToSet(Includes[j]) \subseteq ToSet(Walk[c])
        BY <2>1, <4>1
      <4>3. height[c] < height[i] /\ ToSet(Walk[c]) \subseteq ToSet(Walk[i])
        BY <1>5, <1>6
      <4>4. height[j] <= height[i]
        BY <1>7, <4>2, <4>3
      <4> QED
        BY <4>2, <4>3, <4>4
    <3> QED
      BY <3>1, <3>2
  <2> QED
    BY <2>2
<1>9. Root \in P
  <2> HIDE DEF P
  <2> QED
    BY <1>3, <1>8, TreeInduction
<1>10. /\ Order \in Seq(Isolateds) /\ Root \in ToSet(Order)
       /\ \A j \in ToSet(Order) : /\ j \in Isolateds /\ height[j] <= height[Root]
                                  /\ ToSet(Includes[j]) \subseteq ToSet(Order)
  BY <1>3, <1>4, <1>9 DEF Order
<1>11. \A j \in ToSet(Order) : Root \notin ToSet(Includes[j])
  <2> SUFFICES ASSUME NEW j \in ToSet(Order), Root \in ToSet(Includes[j]) PROVE FALSE
    OBVIOUS
  <2>1. j \in Isolateds /\ height[j] <= height[Root] /\ height[Root] < height[j]
    BY <1>5, <1>10
  <2> QED
    BY <1>3, <1>7, <2>1
<1>12. ASSUME NEW S, Root \in S, \A j \in S : ToSet(Includes[j]) \subseteq S
       PROVE  ToSet(Order) \subseteq S
  <2> DEFINE Q == {i \in Isolateds : i \in S => ToSet(Walk[i]) \subseteq S}
  <2>1. ASSUME NEW i \in Isolateds, \A k \in 1 .. Len(Includes[i]) : Includes[i][k] \in Q
        PROVE  i \in Q
    <3>1. ASSUME NEW c \in ToSet(Includes[i]) PROVE c \in Q
      <4>1. PICK k \in 1 .. Len(Includes[i]) : c = Includes[i][k]
        BY <1>5
      <4> QED
        BY <2>1, <4>1
    <3>2. ASSUME i \in S, NEW j \in ToSet(Walk[i]) PROVE j \in S
      <4>1. CASE j # i
        <5>1. PICK c \in ToSet(Includes[i]) : j \in ToSet(Walk[c])
          BY <1>6, <4>1
        <5>2. c \in S
          BY <1>12, <3>2
        <5> QED
          BY <3>1, <5>1, <5>2
      <4> QED
        BY <3>2, <4>1
    <3> QED
      BY <3>2
  <2>2. Root \in Q
    <3> HIDE DEF Q
    <3> QED
      BY <1>3, <2>1, TreeInduction
  <2> QED
    BY <1>12, <2>2 DEF Order
<1> QED
  BY <1>10, <1>11, <1>12

-----------------------------------------------------------------------------
(* Lists of digests.                                                       *)

\* g says where the items of r are in l.
Picks(g, r, l) ==
    /\ g \in [1 .. Len(r) -> 1 .. Len(l)]
    /\ \A i, j \in 1 .. Len(r) : i < j => g[i] < g[j]
    /\ \A i \in 1 .. Len(r) : r[i] = l[g[i]]

\* What is filtered has the items of the list that are wanted, in their order.
LEMMA FilteredIs ==
    ASSUME NEW S, NEW l \in Seq(S), NEW ds
    PROVE  /\ Filtered(l, ds) \in Seq(S)
           /\ \E g : Picks(g, Filtered(l, ds), l)
           /\ \A i \in 1 .. Len(Filtered(l, ds)) : Filtered(l, ds)[i] \in ds
<1> DEFINE n == Len(l)
           G == [p \in (1 .. n) \X Seq(S) |->
                    IF l[p[1]] \in ds THEN Append(p[2], l[p[1]]) ELSE p[2]]
           Is(f) == f = [k \in 0 .. n |->
                            IF k = 0 THEN <<>>
                            ELSE IF l[k] \in ds THEN Append(f[k - 1], l[k]) ELSE f[k - 1]]
           first == CHOOSE f : Is(f)
           Good(k) == /\ first[k] \in Seq(S)
                      /\ \E g : /\ g \in [1 .. Len(first[k]) -> 1 .. k]
                                /\ \A i, j \in 1 .. Len(first[k]) : i < j => g[i] < g[j]
                                /\ \A i \in 1 .. Len(first[k]) : first[k][i] = l[g[i]]
                      /\ \A i \in 1 .. Len(first[k]) : first[k][i] \in ds
           Bad == {k \in 0 .. n : ~Good(k)}
<1>1. n \in Nat /\ \A k \in 1 .. n : l[k] \in S
  OBVIOUS
<1>2. Is(first)
  <2>1. <<>> \in Seq(S) /\ G \in [(1 .. n) \X Seq(S) -> Seq(S)]
    BY <1>1
  <2> HIDE DEF G, n
  <2>6. G \in StepsOf(n, Seq(S))
    BY <2>1 DEF StepsOf
  <2>2. PICK f : Follows(f, n, Seq(S), <<>>, G)
    BY <1>1, <2>1, <2>6, Recursion
  <2> USE DEF n
  <2>7. /\ f \in [0 .. n -> Seq(S)] /\ f[0] = <<>>
        /\ \A k \in 1 .. n : f[k] = G[<<k, f[k - 1]>>]
    BY <2>2 DEF Follows
  <2>3. ASSUME NEW k \in 0 .. n
        PROVE  f[k] = IF k = 0 THEN <<>>
                      ELSE IF l[k] \in ds THEN Append(f[k - 1], l[k]) ELSE f[k - 1]
    <3>1. CASE k = 0
      BY <2>7, <3>1
    <3>2. CASE k # 0
      <4>1. k \in 1 .. n /\ k - 1 \in 0 .. n
        BY <1>1, <3>2
      <4>2. f[k - 1] \in Seq(S)
        BY <2>7, <4>1
      <4>3. G[<<k, f[k - 1]>>] = IF l[k] \in ds THEN Append(f[k - 1], l[k]) ELSE f[k - 1]
        BY <4>1, <4>2 DEF G
      <4>4. QED
        BY <2>7, <3>2, <4>1, <4>3
    <3>3. QED
      BY <3>1, <3>2
  <2>4. Is(f)
    BY <2>3, <2>7
  <2> HIDE DEF Is
  <2>5. QED
    BY <2>4
<1>3. /\ first[0] = <<>>
      /\ \A k \in 1 .. n :
            first[k] = IF l[k] \in ds THEN Append(first[k - 1], l[k]) ELSE first[k - 1]
  <2>1. \A k \in 1 .. n : k \in 0 .. n /\ k # 0
    BY <1>1
  <2>2. 0 \in 0 .. n
    BY <1>1
  <2> HIDE DEF first, n
  <2>3. QED
    BY <1>2, <2>1, <2>2
<1>4. Filtered(l, ds) = first[n]
  BY DEF Filtered
<1> HIDE DEF first
<1>5. ASSUME NEW k \in 1 .. n, Good(k - 1) PROVE Good(k)
  <2> DEFINE r == first[k - 1]
  <2>1. PICK g : /\ g \in [1 .. Len(r) -> 1 .. (k - 1)]
                 /\ \A i, j \in 1 .. Len(r) : i < j => g[i] < g[j]
                 /\ \A i \in 1 .. Len(r) : r[i] = l[g[i]]
    BY <1>5
  <2>2. r \in Seq(S) /\ (\A i \in 1 .. Len(r) : r[i] \in ds) /\ Len(r) \in Nat
    BY <1>5
  <2>3. first[k] = IF l[k] \in ds THEN Append(r, l[k]) ELSE r
    BY <1>3
  <2> HIDE DEF r
  <2>4. \A i \in 1 .. Len(r) : g[i] \in 1 .. k /\ g[i] < k
    BY <1>1, <2>1
  <2>5. CASE l[k] \notin ds
    <3>1. g \in [1 .. Len(r) -> 1 .. k]
      BY <2>1, <2>4
    <3>2. QED
      BY <2>1, <2>2, <2>3, <2>5, <3>1
  <2>6. CASE l[k] \in ds
    <3> DEFINE h == [i \in 1 .. (Len(r) + 1) |-> IF i = Len(r) + 1 THEN k ELSE g[i]]
    <3>1. /\ first[k] \in Seq(S) /\ Len(first[k]) = Len(r) + 1
          /\ first[k][Len(r) + 1] = l[k]
          /\ \A i \in 1 .. Len(r) : first[k][i] = r[i]
      BY <1>1, <2>2, <2>3, <2>6
    <3>2. \A i \in 1 .. (Len(r) + 1) : i # Len(r) + 1 => i \in 1 .. Len(r)
      BY <2>2
    <3>3. /\ h \in [1 .. (Len(r) + 1) -> 1 .. k] /\ h[Len(r) + 1] = k
          /\ \A i \in 1 .. Len(r) : h[i] = g[i]
      BY <2>2, <2>4, <3>2
    <3> HIDE DEF h
    <3>4. \A i, j \in 1 .. (Len(r) + 1) : i < j => h[i] < h[j]
      <4> SUFFICES ASSUME NEW i \in 1 .. (Len(r) + 1), NEW j \in 1 .. (Len(r) + 1), i < j
                   PROVE  h[i] < h[j]
        OBVIOUS
      <4>1. i \in 1 .. Len(r) /\ (j \in 1 .. Len(r) \/ j = Len(r) + 1)
        BY <2>2
      <4>2. QED
        BY <2>1, <2>4, <3>3, <4>1
    <3>5. \A i \in 1 .. (Len(r) + 1) : first[k][i] = l[h[i]] /\ first[k][i] \in ds
      BY <2>1, <2>2, <2>6, <3>1, <3>2, <3>3
    <3>6. QED
      BY <3>1, <3>3, <3>4, <3>5
  <2>7. QED
    BY <2>5, <2>6
<1>6. Good(0)
  <2> DEFINE none == [i \in 1 .. 0 |-> 0]
  <2>1. first[0] \in Seq(S) /\ Len(first[0]) = 0
    BY <1>3
  <2>2. /\ none \in [1 .. Len(first[0]) -> 1 .. 0]
        /\ \A i \in 1 .. Len(first[0]) : FALSE
    BY <2>1
  <2> HIDE DEF none
  <2>3. QED
    BY <2>1, <2>2
<1>7. Bad = {}
  <2> SUFFICES ASSUME Bad # {} PROVE FALSE
    OBVIOUS
  <2>1. Bad \subseteq 0 .. n /\ \A k \in Bad : ~Good(k)
    OBVIOUS
  <2>2. \A k \in 0 .. n : k \notin Bad => Good(k)
    OBVIOUS
  <2> HIDE DEF Bad, Good
  <2>7. Bad \subseteq Nat
    BY <1>1, <2>1
  <2>3. PICK k \in Bad : \A m \in Bad : k <= m
    BY <2>7, NatMin
  <2>4. k \in 1 .. n /\ k - 1 \in 0 .. n /\ ~(k <= k - 1)
    BY <1>1, <1>6, <2>1
  <2>5. Good(k - 1)
    BY <2>2, <2>3, <2>4
  <2>6. QED
    BY <1>5, <2>1, <2>4, <2>5
<1>8. Good(n)
  <2> HIDE DEF Good
  <2>1. QED
    BY <1>1, <1>7
<1>9. QED
  BY <1>4, <1>8 DEF Picks

\* No item is there twice, and what is used comes last.
Once(l) == \A i, j \in 1 .. Len(l) : l[i] = l[j] => i = j
UsedLast(l, u) == \A i, j \in 1 .. Len(l) : i < j /\ l[i] \in u => l[j] \in u

\* What is picked from a list keeps both.
LEMMA PicksKeep ==
    ASSUME NEW S, NEW l \in Seq(S), NEW r \in Seq(S), NEW g, Picks(g, r, l), NEW u
    PROVE  /\ Once(l) => Once(r)
           /\ UsedLast(l, u) => UsedLast(r, u)
           /\ ToSet(r) \subseteq ToSet(l)
<1>1. \A i \in 1 .. Len(r) : g[i] \in 1 .. Len(l) /\ g[i] \in Nat /\ r[i] = l[g[i]]
  BY DEF Picks
<1>2. \A i, j \in 1 .. Len(r) : i # j => g[i] # g[j]
  <2> SUFFICES ASSUME NEW i \in 1 .. Len(r), NEW j \in 1 .. Len(r), i # j
               PROVE  g[i] # g[j]
    OBVIOUS
  <2>1. i < j \/ j < i
    OBVIOUS
  <2> QED
    BY <1>1, <2>1 DEF Picks
<1>3. Once(l) => Once(r)
  BY <1>1, <1>2 DEF Once
<1>4. UsedLast(l, u) => UsedLast(r, u)
  BY <1>1 DEF UsedLast, Picks
<1>5. ToSet(r) \subseteq ToSet(l)
  BY <1>1 DEF ToSet
<1> QED
  BY <1>3, <1>4, <1>5

\* A list without some items.
LEMMA FilteredKeeps ==
    ASSUME NEW S, NEW l \in Seq(S), NEW ds, NEW u
    PROVE  LET r == Filtered(l, ds)
           IN  /\ r \in Seq(S)
               /\ Once(l) => Once(r)
               /\ UsedLast(l, u) => UsedLast(r, u)
               /\ ToSet(r) \subseteq ToSet(l) /\ ToSet(r) \subseteq ds
<1> DEFINE r == Filtered(l, ds)
<1>1. /\ r \in Seq(S) /\ \A i \in 1 .. Len(r) : r[i] \in ds
      /\ \E g : Picks(g, r, l)
  BY FilteredIs
<1> HIDE DEF r
<1>2. PICK g : Picks(g, r, l)
  BY <1>1
<1>3. ToSet(r) \subseteq ds
  BY <1>1 DEF ToSet
<1> QED
  BY <1>1, <1>2, <1>3, PicksKeep DEF r

\* An item that is used goes to the end.
LEMMA MoveToEndKeeps ==
    ASSUME NEW l \in Seq(Digests), NEW d \in Digests, NEW u, Once(l), UsedLast(l, u)
    PROVE  LET r == MoveToEnd(l, d)
           IN  /\ r \in Seq(Digests) /\ Once(r) /\ UsedLast(r, u \cup {d})
               /\ ToSet(r) \subseteq ToSet(l) \cup {d}
<1> DEFINE m == Filtered(l, Digests \ {d})
           r == MoveToEnd(l, d)
<1>1. /\ m \in Seq(Digests) /\ Once(m) /\ UsedLast(m, u)
      /\ ToSet(m) \subseteq ToSet(l) /\ ToSet(m) \subseteq Digests \ {d}
  BY FilteredKeeps
<1>2. r = Append(m, d)
  BY DEF MoveToEnd
<1> HIDE DEF m, r
<1>8. \A i \in 1 .. Len(m) : m[i] \in ToSet(m)
  BY <1>1 DEF ToSet
<1>9. /\ r \in Seq(Digests) /\ Len(r) = Len(m) + 1 /\ r[Len(r)] = d
      /\ \A i \in 1 .. Len(m) : r[i] = m[i]
      /\ Len(m) \in Nat
  BY <1>1, <1>2
<1>3. /\ r \in Seq(Digests) /\ Len(r) = Len(m) + 1 /\ r[Len(r)] = d
      /\ \A i \in 1 .. Len(m) : r[i] = m[i] /\ r[i] # d /\ r[i] \in ToSet(l)
      /\ Len(m) \in Nat
  BY <1>1, <1>8, <1>9
<1>4. \A i \in 1 .. Len(r) : i \in 1 .. Len(m) \/ i = Len(r)
  BY <1>3
<1>5. Once(r)
  BY <1>1, <1>3, <1>4 DEF Once
<1>6. UsedLast(r, u \cup {d})
  <2> SUFFICES ASSUME NEW i \in 1 .. Len(r), NEW j \in 1 .. Len(r), i < j, r[i] \in u \cup {d}
               PROVE  r[j] \in u \cup {d}
    BY DEF UsedLast
  <2>1. i \in 1 .. Len(m)
    BY <1>3, <1>4
  <2> QED
    BY <1>1, <1>3, <1>4, <2>1 DEF UsedLast
<1>7. ToSet(r) \subseteq ToSet(l) \cup {d}
  BY <1>3, <1>4 DEF ToSet
<1> QED
  BY <1>3, <1>5, <1>6, <1>7 DEF r

\* The oldest items are cut off.
LEMMA CutKeeps ==
    ASSUME NEW l \in Seq(Digests), NEW k \in 0 .. Len(l), NEW u, Once(l), UsedLast(l, u)
    PROVE  LET r == Newest(l, k)
               gone == ToSet(Oldest(l, k))
           IN  /\ r \in Seq(Digests) /\ Once(r) /\ UsedLast(r, u) /\ ToSet(r) \subseteq ToSet(l)
               /\ gone \subseteq ToSet(l) /\ gone \cap ToSet(r) = {}
               /\ gone \cap u # {} => ToSet(r) \subseteq u
<1> DEFINE r == Newest(l, k)
           o == Oldest(l, k)
           g == [i \in 1 .. Len(r) |-> i + k]
<1>1. /\ r \in Seq(Digests) /\ o \in Seq(Digests) /\ Len(r) = Len(l) - k /\ Len(o) = k
      /\ \A i \in 1 .. Len(r) : r[i] = l[i + k]
      /\ \A i \in 1 .. Len(o) : o[i] = l[i]
  BY DEF Newest, Oldest
<1> HIDE DEF r, o
<1>2. k \in Nat /\ Len(l) \in Nat /\ \A i \in 1 .. Len(r) : i + k \in 1 .. Len(l) /\ i \in Nat
  BY <1>1
<1>3. Picks(g, r, l)
  BY <1>1, <1>2 DEF Picks
<1>4. Once(r) /\ UsedLast(r, u) /\ ToSet(r) \subseteq ToSet(l)
  BY <1>1, <1>3, PicksKeep
<1>5. \A x \in ToSet(o) : \E i \in 1 .. Len(l) : i <= k /\ x = l[i]
  BY <1>1, <1>2 DEF ToSet
<1>6. \A x \in ToSet(r) : \E j \in 1 .. Len(l) : k < j /\ x = l[j]
  <2> SUFFICES ASSUME NEW i \in 1 .. Len(r) PROVE i + k \in 1 .. Len(l) /\ k < i + k
    BY <1>1 DEF ToSet
  <2> QED
    BY <1>2
<1>7. ToSet(o) \subseteq ToSet(l)
  BY <1>5 DEF ToSet
<1>8. ToSet(o) \cap ToSet(r) = {}
  <2> SUFFICES ASSUME NEW i \in 1 .. Len(l), NEW j \in 1 .. Len(l), i <= k, k < j, l[i] = l[j]
               PROVE  FALSE
    BY <1>5, <1>6
  <2> QED
    BY <1>2 DEF Once
<1>9. ASSUME NEW x \in ToSet(o) \cap u, NEW y \in ToSet(r) PROVE y \in u
  <2>1. PICK i \in 1 .. Len(l) : i <= k /\ x = l[i]
    BY <1>5
  <2>2. PICK j \in 1 .. Len(l) : k < j /\ y = l[j]
    BY <1>6
  <2>3. i < j
    BY <1>2, <2>1, <2>2
  <2> QED
    BY <2>1, <2>2, <2>3 DEF UsedLast
<1> QED
  BY <1>1, <1>4, <1>7, <1>8, <1>9 DEF r, o

\* An empty list has no size.
LEMMA NoSize == Total(<<>>) = 0
<1> DEFINE Is(f) == f = [k \in 0 .. Len(<<>>) |-> IF k = 0 THEN 0 ELSE f[k - 1] + Size[<<>>[k]]]
           sum == CHOOSE f : Is(f)
           zero == [k \in {0} |-> 0]
<1>1. Len(<<>>) = 0 /\ 0 .. Len(<<>>) = {0}
  OBVIOUS
<1>2. Is(zero)
  BY <1>1
<1>3. Is(sum)
  <2> HIDE DEF Is
  <2> QED
    BY <1>2
<1>4. Total(<<>>) = sum[Len(<<>>)]
  BY DEF Total
<1> HIDE DEF sum
<1>5. sum[0] = 0
  BY <1>1, <1>3
<1> QED
  BY <1>1, <1>4, <1>5

\* How many are dropped.
LEMMA DropsIs ==
    ASSUME NEW l \in Seq(Digests), NEW k \in 0 .. Len(l), NEW left
    PROVE  Drops(l, k, left) \in 0 .. Len(l)
<1> DEFINE N == {n \in k .. Len(l) : n = Len(l) \/ left + Total(SubSeq(l, k + 1, n)) >= MinFree}
<1>1. N \subseteq 0 .. Len(l) /\ N \subseteq Nat /\ N # {}
  <2>1. Len(l) \in k .. Len(l) /\ Len(l) \in Nat
    OBVIOUS
  <2>2. \A n \in k .. Len(l) : n \in 0 .. Len(l) /\ n \in Nat
    OBVIOUS
  <2> QED
    BY <2>1, <2>2
<1>2. Drops(l, k, left) = Min(N)
  BY DEF Drops
<1> HIDE DEF N
<1> QED
  BY <1>1, <1>2, MinIs

\* What is trimmed is the oldest.
LEMMA TrimmedIs ==
    ASSUME NEW l \in Seq(Digests), NEW files
    PROVE  \E k \in 0 .. Len(l) : /\ Trimmed(l, files).lru = Newest(l, k)
                                  /\ Trimmed(l, files).gone = ToSet(Oldest(l, k))
<1> DEFINE N == {n \in 0 .. Len(l) : Total(Newest(l, n)) =< MaxSize}
           small == Min(N)
           left == RealFree(Without(files, ToSet(Oldest(l, small))))
           k == Drops(l, small, left)
<1>1. N \subseteq 0 .. Len(l) /\ N \subseteq Nat /\ N # {}
  <2>1. Newest(l, Len(l)) = <<>>
    BY DEF Newest
  <2>2. Total(Newest(l, Len(l))) =< MaxSize
    BY <2>1, NoSize, FetchAssumption
  <2>3. Len(l) \in 0 .. Len(l) /\ \A n \in 0 .. Len(l) : n \in Nat
    OBVIOUS
  <2> QED
    BY <2>2, <2>3
<1>2. small \in 0 .. Len(l)
  <2> HIDE DEF N
  <2> QED
    BY <1>1, MinIs
<1>3. /\ Trimmed(l, files).lru = Newest(l, k)
      /\ Trimmed(l, files).gone = ToSet(Oldest(l, k))
  BY DEF Trimmed
<1> HIDE DEF small, left
<1>4. k \in 0 .. Len(l)
  BY <1>2, DropsIs
<1> QED
  BY <1>3, <1>4

-----------------------------------------------------------------------------
(* The fetch queue and the pool.                                           *)

TaskType == [Digests -> [at : {"none", "queued", "fetching", "writing", "written"}, tries : Nat]]

Active(t) == {d \in Digests : t[d].at # "none"}

TypeInv ==
    /\ task \in TaskType /\ unfinished \in Nat /\ ending \in Nat
    /\ children \in Seq(Isolateds) /\ seen \subseteq Isolateds
    /\ \A p \in paths : DigestOf[p] \in Files
    /\ channel \in Seq([digest : Digests, ok : BOOLEAN])

PlaceInv ==
    /\ at \in {"add", "touch", "evict"} => on \in Digests
    /\ at \in {"touch", "evict"} => on \notin pending
    /\ at = "load" => on \in Isolateds

PendingInv ==
    /\ \A d \in Digests : task[d].at # "none" => d \in pending
    /\ \A i \in 1 .. Len(channel) :
          channel[i].digest \in pending /\ task[channel[i].digest].at = "none"
    /\ \A i, j \in 1 .. Len(channel) : channel[i].digest = channel[j].digest => i = j

CountInv == unfinished = Cardinality(Active(task)) + ending

ClosedInv == at = "closed" => unfinished = 0

Inv == TypeInv /\ PlaceInv /\ PendingInv /\ CountInv /\ ClosedInv

-----------------------------------------------------------------------------
(* Counting.                                                               *)

\* The tasks are finitely many.
LEMMA ActiveIsFinite ==
    ASSUME NEW t PROVE IsFiniteSet(Active(t)) /\ Cardinality(Active(t)) \in Nat
<1>1. Active(t) \subseteq Digests
  BY DEF Active
<1>2. IsFiniteSet(Active(t))
  BY <1>1, FetchAssumption, FS_Subset
<1> QED
  BY <1>2, FS_CardinalityType

\* A digest without a task gets one.
LEMMA OneMore ==
    ASSUME NEW t \in TaskType, NEW d \in Digests, NEW x, t[d].at = "none", x.at # "none"
    PROVE  Cardinality(Active([t EXCEPT ![d] = x])) = Cardinality(Active(t)) + 1
<1>1. Active([t EXCEPT ![d] = x]) = Active(t) \cup {d} /\ d \notin Active(t)
  BY DEF Active, TaskType
<1> QED
  BY <1>1, ActiveIsFinite, FS_AddElement

\* A task ends.
LEMMA OneLess ==
    ASSUME NEW t \in TaskType, NEW d \in Digests, t[d].at # "none"
    PROVE  Cardinality(Active([t EXCEPT ![d] = NoTask])) = Cardinality(Active(t)) - 1
<1>1. Active([t EXCEPT ![d] = NoTask]) = Active(t) \ {d} /\ d \in Active(t)
  BY DEF Active, TaskType, NoTask
<1> QED
  BY <1>1, ActiveIsFinite, FS_RemoveElement

\* A task goes on.
LEMMA AsMany ==
    ASSUME NEW t \in TaskType, NEW u \in TaskType,
           \A d \in Digests : t[d].at = "none" <=> u[d].at = "none"
    PROVE  Active(u) = Active(t)
  BY DEF Active

-----------------------------------------------------------------------------
(* The beginning of a process.                                             *)

\* A process starts with an idle pool (Start, Init).
LEMMA StartsIdle ==
    ASSUME NEW t, t = [d \in Digests |-> NoTask]
    PROVE  t \in TaskType /\ Cardinality(Active(t)) = 0
<1>1. t \in TaskType
  BY DEF TaskType, NoTask
<1>2. Active(t) = {}
  BY DEF Active, NoTask
<1> QED
  BY <1>1, <1>2, FS_EmptySet

LEMMA RootIsTree == <<Root>> \in Seq(Isolateds)
  BY FetchAssumption

LEMMA InvInit == Init => Inv
<1> SUFFICES ASSUME Init PROVE Inv
  OBVIOUS
<1>1. /\ task = [d \in Digests |-> NoTask] /\ unfinished = 0 /\ ending = 0 /\ channel = <<>>
      /\ children = <<Root>> /\ seen = {} /\ paths = {} /\ at = "next"
  BY DEF Init
<1>2. TypeInv
  BY <1>1, StartsIdle, RootIsTree DEF TypeInv
<1>3. PlaceInv /\ ClosedInv
  BY <1>1 DEF PlaceInv, ClosedInv
<1>4. PendingInv
  BY <1>1 DEF PendingInv, NoTask
<1>5. CountInv
  BY <1>1, StartsIdle DEF CountInv
<1> QED
  BY <1>2, <1>3, <1>4, <1>5 DEF Inv

\* Whatever the former process left.
LEMMA InvRestart == Restart => Inv'
<1> SUFFICES ASSUME Restart PROVE Inv'
  OBVIOUS
<1>1. /\ task' = [d \in Digests |-> NoTask] /\ unfinished' = 0 /\ ending' = 0 /\ channel' = <<>>
      /\ children' = <<Root>> /\ seen' = {} /\ paths' = {} /\ at' = "next"
  BY DEF Restart, Start
<1>2. TypeInv'
  BY <1>1, StartsIdle, RootIsTree DEF TypeInv
<1>3. PlaceInv' /\ ClosedInv'
  BY <1>1 DEF PlaceInv, ClosedInv
<1>4. PendingInv'
  BY <1>1 DEF PendingInv, NoTask
<1>5. CountInv'
  BY <1>1, StartsIdle DEF CountInv
<1> QED
  BY <1>2, <1>3, <1>4, <1>5 DEF Inv

-----------------------------------------------------------------------------
(* The threads of the pool.                                                *)

LEMMA ElementType == ASSUME NEW S, NEW s \in Seq(S), NEW i \in 1 .. Len(s) PROVE s[i] \in S
  OBVIOUS

LEMMA AnsweredAreDigests ==
    ASSUME Inv PROVE \A i \in 1 .. Len(channel) : channel[i].digest \in Digests
<1>1. \A i \in 1 .. Len(channel) : channel[i] \in [digest : Digests, ok : BOOLEAN]
  BY ElementType DEF Inv, TypeInv
<1> QED
  BY <1>1

\* A task goes on, and nothing else that the invariant is about changes (Begin,
\* StartWriting, FinishWriting).
LEMMA TaskGoesOn ==
    ASSUME Inv, NEW d \in Digests, task[d].at # "none",
           NEW where \in {"fetching", "writing", "written"}, Goes(d, where),
           UNCHANGED <<unfinished, ending, children, seen, paths, channel, at, on, pending>>
    PROVE  Inv'
<1>1. task' \in TaskType /\ \A e \in Digests : task[e].at = "none" <=> task'[e].at = "none"
  BY DEF Inv, TypeInv, TaskType, Goes
<1>2. Active(task') = Active(task)
  BY <1>1, AsMany DEF Inv, TypeInv
<1>3. TypeInv'
  BY <1>1 DEF Inv, TypeInv
<1>4. PlaceInv' /\ ClosedInv'
  BY DEF Inv, PlaceInv, ClosedInv
<1>5. PendingInv'
  <2>1. \A e \in Digests : task'[e].at # "none" => e \in pending
    BY <1>1 DEF Inv, PendingInv
  <2>2. ASSUME NEW i \in 1 .. Len(channel)
        PROVE  channel[i].digest \in pending /\ task'[channel[i].digest].at = "none"
    BY <1>1, AnsweredAreDigests DEF Inv, PendingInv
  <2>3. \A i, j \in 1 .. Len(channel) : channel[i].digest = channel[j].digest => i = j
    BY DEF Inv, PendingInv
  <2> QED
    BY <2>1, <2>2, <2>3 DEF PendingInv
<1>6. CountInv'
  BY <1>2 DEF Inv, CountInv
<1> QED
  BY <1>3, <1>4, <1>5, <1>6 DEF Inv

LEMMA InvGoesOn ==
    ASSUME Inv, NEW d \in Digests, Begin(d) \/ StartWriting(d) \/ FinishWriting(d)
    PROVE  Inv'
<1>1. CASE Begin(d)
  BY <1>1, TaskGoesOn DEF Begin, mainVars, queueVars
<1>2. CASE StartWriting(d)
  BY <1>2, TaskGoesOn DEF StartWriting, mainVars, queueVars
<1>3. CASE FinishWriting(d)
  BY <1>3, TaskGoesOn DEF FinishWriting, mainVars, queueVars
<1> QED
  BY <1>1, <1>2, <1>3

\* While a task runs, or its thread is not done with it, the pool is not closed.
LEMMA NotClosed ==
    ASSUME Inv, (\E d \in Digests : task[d].at # "none") \/ ending > 0
    PROVE  at # "closed"
<1>1. CASE \E d \in Digests : task[d].at # "none"
  <2>1. Active(task) # {}
    BY <1>1 DEF Active
  <2>2. Cardinality(Active(task)) # 0
    BY <2>1, ActiveIsFinite, FS_EmptySet
  <2> QED
    BY <2>2, ActiveIsFinite DEF Inv, TypeInv, CountInv, ClosedInv
<1>2. CASE ending > 0
  BY <1>2, ActiveIsFinite DEF Inv, TypeInv, CountInv, ClosedInv
<1> QED
  BY <1>1, <1>2

\* A task ends with an answer (AddToCache, TaskFails).
LEMMA TaskAnswers ==
    ASSUME Inv, NEW d \in Digests, task[d].at # "none", NEW ok \in BOOLEAN, Answers(d, ok),
           UNCHANGED <<children, seen, paths, at, on, pending>>
    PROVE  Inv'
<1> DEFINE answer == [digest |-> d, ok |-> ok]
<1>1. /\ task' = [task EXCEPT ![d] = NoTask] /\ channel' = Append(channel, answer)
      /\ ending' = ending + 1 /\ unfinished' = unfinished
  BY DEF Answers
<1>2. /\ task' \in TaskType /\ task'[d].at = "none"
      /\ \A e \in Digests \ {d} : task'[e] = task[e]
  BY <1>1 DEF Inv, TypeInv, TaskType, NoTask
<1>3. TypeInv'
  BY <1>1, <1>2 DEF Inv, TypeInv
<1>4. PlaceInv' /\ ClosedInv'
  BY <1>1 DEF Inv, PlaceInv, ClosedInv
<1>5. PendingInv'
  <2>1. /\ Len(channel') = Len(channel) + 1 /\ Len(channel) \in Nat
        /\ \A i \in 1 .. Len(channel) : channel'[i] = channel[i]
        /\ channel'[Len(channel')] = answer
    BY <1>1 DEF Inv, TypeInv
  <2>2. \A i \in 1 .. Len(channel) : channel[i].digest \in Digests \ {d}
    BY AnsweredAreDigests DEF Inv, PendingInv
  <2> QED
    BY <1>2, <2>1, <2>2 DEF Inv, PendingInv
<1>6. CountInv'
  <2>1. Cardinality(Active(task')) = Cardinality(Active(task)) - 1
    BY <1>1, OneLess DEF Inv, TypeInv
  <2> QED
    BY <1>1, <2>1, ActiveIsFinite DEF Inv, TypeInv, CountInv
<1> QED
  BY <1>3, <1>4, <1>5, <1>6 DEF Inv

LEMMA InvAddToCache ==
    ASSUME Inv, NEW d \in Digests, AddToCache(d)
    PROVE  Inv'
<1>1. PICK ok \in BOOLEAN : Answers(d, ok)
  BY DEF AddToCache
<1>2. task[d].at # "none" /\ UNCHANGED <<children, seen, paths, at, on, pending>>
  BY DEF AddToCache, mainVars, queueVars
<1> QED
  BY <1>1, <1>2, TaskAnswers

\* The thread adds the task again before it is done with it, so that the pool is
\* not idle in between.
LEMMA InvTaskFails ==
    ASSUME Inv, NEW d \in Digests, NEW again \in BOOLEAN, TaskFails(d, again)
    PROVE  Inv'
<1>1. task[d].at # "none" /\ UNCHANGED <<children, seen, paths, at, on, pending>>
  BY DEF TaskFails, mainVars, queueVars
<1>2. CASE again /\ task[d].tries < Retries
  <2>1. /\ task' = [task EXCEPT ![d] = [at |-> "queued", tries |-> task[d].tries + 1]]
        /\ unfinished' = unfinished + 1 /\ ending' = ending + 1 /\ channel' = channel
    BY <1>2 DEF TaskFails
  <2>2. task' \in TaskType /\ \A e \in Digests : task[e].at = "none" <=> task'[e].at = "none"
    BY <1>1, <2>1 DEF Inv, TypeInv, TaskType
  <2>3. Active(task') = Active(task)
    BY <2>2, AsMany DEF Inv, TypeInv
  <2>4. TypeInv'
    BY <1>1, <2>1, <2>2 DEF Inv, TypeInv
  <2>5. PlaceInv' /\ ClosedInv'
    BY <1>1, NotClosed DEF Inv, PlaceInv, ClosedInv
  <2>6. PendingInv'
    BY <1>1, <2>1, <2>2 DEF Inv, TypeInv, PendingInv
  <2>7. CountInv'
    BY <2>1, <2>3, ActiveIsFinite DEF Inv, TypeInv, CountInv
  <2> QED
    BY <2>4, <2>5, <2>6, <2>7 DEF Inv
<1>3. CASE ~(again /\ task[d].tries < Retries)
  <2>1. Answers(d, FALSE)
    BY <1>3 DEF TaskFails
  <2> QED
    BY <1>1, <2>1, TaskAnswers
<1> QED
  BY <1>2, <1>3

LEMMA InvTaskDone == ASSUME Inv, TaskDone PROVE Inv'
<1>1. /\ ending > 0 /\ ending' = ending - 1 /\ unfinished' = unfinished - 1
      /\ UNCHANGED <<task, channel, children, seen, paths, at, on, pending>>
  BY DEF TaskDone, mainVars, queueVars
<1>2. Cardinality(Active(task)) \in Nat
  BY ActiveIsFinite
<1>3. TypeInv'
  BY <1>1, <1>2 DEF Inv, TypeInv, CountInv
<1>4. PlaceInv' /\ ClosedInv'
  BY <1>1, NotClosed DEF Inv, PlaceInv, ClosedInv
<1>5. PendingInv' /\ CountInv'
  BY <1>1, <1>2 DEF Inv, TypeInv, PendingInv, CountInv
<1> QED
  BY <1>3, <1>4, <1>5 DEF Inv

-----------------------------------------------------------------------------
(* The main thread.                                                        *)

\* A step that leaves the tasks alone and does not close the pool.
LEMMA PoolIsLeftAlone ==
    ASSUME Inv, UNCHANGED <<task, unfinished, ending, channel, pending>>, at' # "closed",
           children' \in Seq(Isolateds), seen' \subseteq Isolateds,
           \A p \in paths' : DigestOf[p] \in Files, PlaceInv'
    PROVE  Inv'
<1>1. TypeInv'
  BY DEF Inv, TypeInv
<1>2. PendingInv' /\ CountInv' /\ ClosedInv'
  BY DEF Inv, PendingInv, CountInv, ClosedInv
<1> QED
  BY <1>1, <1>2 DEF Inv

\* A digest that has no task is asked for (Add, Evict).
LEMMA InvFetch ==
    ASSUME Inv, NEW d \in Digests, d \notin pending, Fetch(d), at' = "next",
           UNCHANGED <<children, seen, paths>>
    PROVE  Inv'
<1> DEFINE x == [at |-> "queued", tries |-> 0]
<1>1. /\ pending' = pending \cup {d} /\ task' = [task EXCEPT ![d] = x]
      /\ unfinished' = unfinished + 1 /\ UNCHANGED <<channel, ending>>
  BY DEF Fetch
<1>2. task[d].at = "none"
  BY DEF Inv, PendingInv
<1>3. /\ task' \in TaskType
      /\ \A e \in Digests \ {d} : task'[e] = task[e]
  BY <1>1 DEF Inv, TypeInv, TaskType
<1>4. TypeInv'
  BY <1>1, <1>3 DEF Inv, TypeInv
<1>5. PlaceInv' /\ ClosedInv'
  BY DEF PlaceInv, ClosedInv
<1>6. PendingInv'
  <2>1. \A i \in 1 .. Len(channel) : channel[i].digest \in Digests \ {d}
    BY AnsweredAreDigests DEF Inv, PendingInv
  <2> QED
    BY <1>1, <1>3, <2>1 DEF Inv, PendingInv
<1>7. CountInv'
  <2>1. Cardinality(Active(task')) = Cardinality(Active(task)) + 1
    BY <1>1, <1>2, OneMore DEF Inv, TypeInv
  <2> QED
    BY <1>1, <2>1, ActiveIsFinite DEF Inv, TypeInv, CountInv
<1> QED
  BY <1>4, <1>5, <1>6, <1>7 DEF Inv

LEMMA InvRetrieve == ASSUME Inv, Retrieve PROVE Inv'
<1>1. /\ children \in Seq(Isolateds) /\ children # <<>> /\ seen \subseteq Isolateds
      /\ UNCHANGED <<task, unfinished, ending, channel, pending, paths>>
  BY DEF Inv, TypeInv, Retrieve, queueVars, poolVars
<1>2. Head(children) \in Isolateds /\ Tail(children) \in Seq(Isolateds)
  BY <1>1
<1>3. CASE Head(children) \in seen
  <2>1. at' = "exit" /\ UNCHANGED <<seen, children>>
    BY <1>3 DEF Retrieve, Fails, MoveTo
  <2> QED
    BY <1>1, <2>1, PoolIsLeftAlone DEF Inv, TypeInv, PlaceInv
<1>4. CASE Head(children) \notin seen
  <2>1. /\ at' = "add" /\ on' = Head(children)
        /\ seen' = seen \cup {Head(children)} /\ children' = Tail(children)
    BY <1>4 DEF Retrieve, MoveTo
  <2>2. PlaceInv'
    BY <1>2, <2>1 DEF PlaceInv, Digests
  <2> QED
    BY <1>1, <1>2, <2>1, <2>2, PoolIsLeftAlone DEF Inv, TypeInv
<1> QED
  BY <1>3, <1>4

LEMMA InvPickPath == ASSUME Inv, PickPath PROVE Inv'
<1>1. /\ at' = "add" /\ on' \in Files /\ paths' \subseteq paths
      /\ UNCHANGED <<task, unfinished, ending, channel, pending, children, seen>>
  BY DEF Inv, TypeInv, PickPath, MoveTo, queueVars, poolVars
<1>2. PlaceInv'
  BY <1>1 DEF PlaceInv, Digests
<1> QED
  BY <1>1, <1>2, PoolIsLeftAlone DEF Inv, TypeInv

LEMMA InvAdd == ASSUME Inv, Add PROVE Inv'
<1>1. on \in Digests /\ UNCHANGED <<children, seen, paths>>
  BY DEF Inv, PlaceInv, Add
<1>2. CASE on \in pending \cup fetched
  <2>1. /\ UNCHANGED <<task, unfinished, ending, channel, pending>>
        /\ \/ at' = "next"
           \/ on \notin pending /\ at' \in {"touch", "evict"} /\ on' = on
    BY <1>2 DEF Add, MoveTo, poolVars
  <2>2. PlaceInv' /\ at' # "closed"
    BY <1>1, <2>1 DEF PlaceInv
  <2> QED
    BY <1>1, <2>1, <2>2, PoolIsLeftAlone DEF Inv, TypeInv
<1>3. CASE on \notin pending \cup fetched
  <2>1. Fetch(on) /\ at' = "next"
    BY <1>3 DEF Add, MoveTo
  <2> QED
    BY <1>1, <1>3, <2>1, InvFetch
<1> QED
  BY <1>2, <1>3

LEMMA InvTouch == ASSUME Inv, Touch PROVE Inv'
<1>1. /\ on \in Digests /\ on \notin pending
      /\ UNCHANGED <<task, unfinished, ending, channel, pending, children, seen, paths>>
  BY DEF Inv, PlaceInv, Touch, queueVars, poolVars
<1>2. at' = "next" \/ (at' = "evict" /\ on' = on)
  BY DEF Touch, MoveTo
<1>3. PlaceInv' /\ at' # "closed"
  BY <1>1, <1>2 DEF PlaceInv
<1> QED
  BY <1>1, <1>3, PoolIsLeftAlone DEF Inv, TypeInv

LEMMA InvEvict == ASSUME Inv, Evict PROVE Inv'
<1>1. on \in Digests /\ on \notin pending /\ UNCHANGED <<children, seen, paths>>
  BY DEF Inv, PlaceInv, Evict
<1>2. CASE on \in ToSet(lru)
  <2>1. Fetch(on) /\ at' = "next"
    BY <1>2 DEF Evict, MoveTo
  <2> QED
    BY <1>1, <2>1, InvFetch
<1>3. CASE on \notin ToSet(lru)
  <2>1. at' = "exit" /\ UNCHANGED <<task, unfinished, ending, channel, pending>>
    BY <1>3 DEF Evict, Fails, MoveTo, poolVars
  <2> QED
    BY <1>1, <2>1, PoolIsLeftAlone DEF Inv, TypeInv, PlaceInv
<1> QED
  BY <1>2, <1>3

LEMMA InvWait == ASSUME Inv, Wait PROVE Inv'
<1>1. UNCHANGED <<task, unfinished, ending, channel, pending, children, seen, paths>>
  BY DEF Wait, queueVars, poolVars
<1>2. PlaceInv' /\ at' # "closed"
  BY DEF Wait, Waited, MoveTo, PlaceInv, Inv, TypeInv
<1> QED
  BY <1>1, <1>2, PoolIsLeftAlone DEF Inv, TypeInv

\* What is answered is pending no more, and has no task.
LEMMA InvPull == ASSUME Inv, Pull PROVE Inv'
<1> DEFINE answer == Head(channel)
<1>1. /\ channel # <<>> /\ channel' = Tail(channel) /\ at = "next"
      /\ UNCHANGED <<task, unfinished, ending, children, seen, paths>>
      /\ \/ at' = at /\ pending' = pending \ {answer.digest}
         \/ at' = "exit" /\ pending' = pending
  BY DEF Pull, Settled, Fails, MoveTo
<1>2. /\ channel = <<answer>> \o channel' /\ Len(channel) \in Nat /\ Len(channel) > 0
      /\ Len(channel') = Len(channel) - 1 /\ channel[1] = answer
      /\ \A i \in 1 .. Len(channel') : i + 1 \in 1 .. Len(channel) /\ channel'[i] = channel[i + 1]
      /\ channel' \in Seq([digest : Digests, ok : BOOLEAN])
  BY <1>1 DEF Inv, TypeInv
<1>3. TypeInv'
  BY <1>1, <1>2 DEF Inv, TypeInv
<1>4. PlaceInv' /\ ClosedInv'
  BY <1>1 DEF PlaceInv, ClosedInv
<1>5. PendingInv'
  <2>1. task[answer.digest].at = "none"
    BY <1>2 DEF Inv, PendingInv
  <2>2. \A i \in 1 .. Len(channel') : channel'[i].digest \in pending \ {answer.digest}
    BY <1>2 DEF Inv, PendingInv
  <2>3. \A i \in 1 .. Len(channel') : task[channel'[i].digest].at = "none"
    BY <1>2 DEF Inv, PendingInv
  <2>4. \A i, j \in 1 .. Len(channel') : channel'[i].digest = channel'[j].digest => i = j
    BY <1>2 DEF Inv, PendingInv
  <2> QED
    BY <1>1, <2>1, <2>2, <2>3, <2>4 DEF Inv, PendingInv
<1>6. CountInv'
  BY <1>1 DEF Inv, CountInv
<1> QED
  BY <1>3, <1>4, <1>5, <1>6 DEF Inv

LEMMA InvLoad == ASSUME Inv, Load PROVE Inv'
<1>1. /\ on \in Isolateds
      /\ UNCHANGED <<task, unfinished, ending, channel, pending, seen>>
  BY DEF Inv, PlaceInv, Load, queueVars, poolVars
<1>2. at' \in {"next", "exit"}
  BY DEF Load, Fails, MoveTo
<1>3. children' \in Seq(Isolateds)
  BY <1>1, FetchAssumption DEF Inv, TypeInv, Load
<1>4. \A p \in paths' : DigestOf[p] \in Files
  <2>1. \A p \in PathsOf(Processed(loaded')) : DigestOf[p] \in Files
    BY TreeAssumption DEF PathsOf, Processed
  <2> QED
    BY <2>1 DEF Inv, TypeInv, Load
<1>5. PlaceInv'
  BY <1>2 DEF PlaceInv
<1> QED
  BY <1>1, <1>2, <1>3, <1>4, <1>5, PoolIsLeftAlone DEF Inv, TypeInv

LEMMA InvMap == ASSUME Inv, Map PROVE Inv'
<1>1. /\ at' \in {"next", "exit", "map"}
      /\ UNCHANGED <<task, unfinished, ending, channel, pending, children, seen, paths>>
  BY DEF Map, Fails, MoveTo, queueVars, poolVars
<1>2. PlaceInv'
  BY <1>1 DEF PlaceInv
<1> QED
  BY <1>1, <1>2, PoolIsLeftAlone DEF Inv, TypeInv

LEMMA InvExit == ASSUME Inv, Exit PROVE Inv'
<1>1. /\ at' = "close"
      /\ UNCHANGED <<task, unfinished, ending, channel, pending, children, seen, paths>>
  BY DEF Exit, MoveTo, queueVars, poolVars
<1>2. PlaceInv'
  BY <1>1 DEF PlaceInv
<1> QED
  BY <1>1, <1>2, PoolIsLeftAlone DEF Inv, TypeInv

LEMMA InvClose == ASSUME Inv, Close PROVE Inv'
<1>1. /\ unfinished = 0 /\ at' = "closed"
      /\ UNCHANGED <<task, unfinished, ending, channel, pending, children, seen, paths>>
  BY DEF Close, Joined, MoveTo, queueVars, poolVars
<1>2. TypeInv' /\ PendingInv' /\ CountInv'
  BY <1>1 DEF Inv, TypeInv, PendingInv, CountInv
<1>3. PlaceInv' /\ ClosedInv'
  BY <1>1 DEF PlaceInv, ClosedInv
<1> QED
  BY <1>2, <1>3 DEF Inv

LEMMA InvUnchanged ==
    ASSUME Inv, UNCHANGED <<task, unfinished, ending, channel, pending, children, seen, paths, at, on>>
    PROVE  Inv'
<1>1. TypeInv' /\ PlaceInv'
  BY DEF Inv, TypeInv, PlaceInv
<1>2. PendingInv' /\ CountInv' /\ ClosedInv'
  BY DEF Inv, PendingInv, CountInv, ClosedInv
<1> QED
  BY <1>1, <1>2 DEF Inv

-----------------------------------------------------------------------------
(* What is used is dropped last.                                           *)

\* The main thread asks for nothing any more.
Ends == {"exit", "close", "closed"}

\* What was in the cache when the process started, and is not used.
Unused == (ToSet(lru) \cup dropped) \ used

UseInv ==
    /\ lru \in Seq(Digests) /\ saved \in Seq(Digests) /\ Once(lru) /\ Once(saved)
    /\ used \subseteq Digests /\ dropped \subseteq Digests
    /\ UsedLast(lru, used)
    /\ UsedGoLast
    /\ dropped \cap ToSet(lru) \subseteq used
    /\ \A d \in Unused : task[d].at = "none" /\ (at \in Ends \/ d \in fetched)

LEMMA UseInit == Init => UseInv
<1> SUFFICES ASSUME Init PROVE UseInv
  OBVIOUS
<1>1. PICK l \in UNION {[1 .. n -> Digests] : n \in 0 .. Cardinality(Digests)} :
         /\ IsInjective(l) /\ lru = l /\ saved = l /\ fetched = ToSet(l)
  BY DEF Init
<1>2. Cardinality(Digests) \in Nat
  BY FetchAssumption, FS_CardinalityType
<1>3. l \in Seq(Digests) /\ Once(l)
  BY <1>1, <1>2 DEF IsInjective, Once
<1>4. used = {} /\ dropped = {} /\ task = [d \in Digests |-> NoTask]
  BY DEF Init
<1>5. ToSet(l) \subseteq Digests
  BY <1>3 DEF ToSet
<1> QED
  BY <1>1, <1>3, <1>4, <1>5 DEF UseInv, UsedLast, UsedGoLast, Unused, NoTask

\* Nothing of what the cache has changes, and nothing that is unused is asked for.
LEMMA UseStays ==
    ASSUME UseInv, UNCHANGED <<lru, saved, used, dropped>>,
           \A d \in Unused : task'[d].at = "none" /\ (at' \in Ends \/ d \in fetched')
    PROVE  UseInv'
  BY DEF UseInv, UsedLast, UsedGoLast, Unused

\* What is unused is a digest.
LEMMA UnusedIs == ASSUME UseInv PROVE Unused \subseteq Digests /\ ToSet(lru) \subseteq Digests
  BY DEF UseInv, Unused, ToSet

\* The threads of the pool, but for what they add to the cache.
LEMMA UseTask ==
    ASSUME Inv, UseInv, NEW d \in Digests,
           Begin(d) \/ StartWriting(d) \/ FinishWriting(d)
             \/ \E again \in BOOLEAN : TaskFails(d, again)
    PROVE  UseInv'
<1>1. /\ UNCHANGED <<lru, saved, used, dropped, fetched, at>> /\ task[d].at # "none"
      /\ \E x : task' = [task EXCEPT ![d] = x]
  BY DEF Begin, StartWriting, FinishWriting, TaskFails, Goes, Answers, cacheVars, queueVars, mainVars
<1>2. \A e \in Digests \ {d} : task'[e] = task[e]
  BY <1>1 DEF Inv, TypeInv, TaskType
<1>3. \A e \in Unused : task'[e].at = "none" /\ (at' \in Ends \/ e \in fetched')
  BY <1>1, <1>2, UnusedIs DEF UseInv
<1> QED
  BY <1>1, <1>3, UseStays

\* The main thread, where it does not change the cache.  What is not fetched is
\* not in the cache but for what is used, and a digest that was dropped is not
\* asked for again: the queue still has it for fetched.
LEMMA UseMain ==
    ASSUME Inv, UseInv,
           Retrieve \/ PickPath \/ Add \/ Wait \/ Pull \/ Load \/ Map \/ Close \/ TaskDone
    PROVE  UseInv'
<1>1. UNCHANGED <<lru, saved, used, dropped>>
  BY DEF Retrieve, PickPath, Add, Wait, Pull, Load, Map, Close, TaskDone, cacheVars
<1>2. at \in Ends => at' \in Ends
  BY DEF Retrieve, PickPath, Add, Wait, Settled, Pull, Load, Map, Close, TaskDone, MoveTo, Ends, mainVars
<1>3. fetched \subseteq fetched'
  BY DEF Retrieve, PickPath, Add, Wait, Pull, Load, Map, Close, TaskDone, queueVars
<1>4. CASE Add /\ on \notin pending \cup fetched
  <2>1. on \notin Unused
    BY <1>4 DEF Add, UseInv, Ends
  <2>2. task' = [task EXCEPT ![on] = [at |-> "queued", tries |-> 0]]
    BY <1>4 DEF Add, Fetch
  <2>3. \A d \in Digests \ {on} : task'[d] = task[d]
    BY <2>2 DEF Inv, TypeInv, TaskType
  <2>4. \A d \in Unused : task'[d].at = "none" /\ (at' \in Ends \/ d \in fetched')
    BY <1>2, <1>3, <2>1, <2>3, UnusedIs DEF UseInv
  <2> QED
    BY <1>1, <2>4, UseStays
<1>5. CASE UNCHANGED task
  BY <1>1, <1>2, <1>3, <1>5, UseStays DEF UseInv
<1>6. UNCHANGED task \/ (Add /\ on \notin pending \cup fetched)
  BY DEF Retrieve, PickPath, Add, Wait, Pull, Load, Map, Close, TaskDone, poolVars
<1> QED
  BY <1>4, <1>5, <1>6

\* The main thread uses what is in the cache.
LEMMA UseTouch == ASSUME Inv, UseInv, Touch PROVE UseInv'
<1>1. UNCHANGED <<saved, dropped, fetched, task>> /\ on \in Digests /\ at \notin Ends
  BY DEF Touch, queueVars, poolVars, Inv, PlaceInv, Ends
<1>2. CASE on \in ToSet(lru)
  <2>1. lru' = MoveToEnd(lru, on) /\ used' = used \cup {on}
    BY <1>2 DEF Touch
  <2>2. /\ lru' \in Seq(Digests) /\ Once(lru') /\ UsedLast(lru', used')
        /\ ToSet(lru') \subseteq ToSet(lru) \cup {on}
    BY <1>1, <2>1, MoveToEndKeeps DEF UseInv
  <2>3. UsedGoLast' /\ dropped' \cap ToSet(lru') \subseteq used'
    BY <1>1, <1>2, <2>1, <2>2 DEF UseInv, UsedGoLast
  <2>4. Unused' \subseteq Unused
    BY <1>1, <1>2, <2>1, <2>2 DEF Unused
  <2>5. /\ saved' \in Seq(Digests) /\ Once(saved')
        /\ used' \subseteq Digests /\ dropped' \subseteq Digests
    BY <1>1, <2>1 DEF UseInv, Once
  <2>6. \A d \in Unused' : task'[d].at = "none" /\ (at' \in Ends \/ d \in fetched')
    BY <1>1, <2>4 DEF UseInv
  <2> HIDE DEF Once, UsedLast
  <2> QED
    BY <2>2, <2>3, <2>5, <2>6 DEF UseInv
<1>3. CASE on \notin ToSet(lru)
  <2>1. UNCHANGED <<lru, used>>
    BY <1>3 DEF Touch
  <2> QED
    BY <1>1, <2>1, UseStays DEF UseInv
<1> QED
  BY <1>2, <1>3

\* What is evicted was in the cache, and leaves it; or the main thread gives up.
LEMMA UseEvict == ASSUME Inv, UseInv, Evict PROVE UseInv'
<1>1. /\ UNCHANGED <<saved, used, dropped>> /\ on \in Digests /\ at \notin Ends
      /\ fetched' = fetched \ {on}
  BY DEF Evict, Inv, PlaceInv, Ends
<1>2. CASE on \in ToSet(lru)
  <2>1. lru' = Filtered(lru, Digests \ {on})
        /\ task' = [task EXCEPT ![on] = [at |-> "queued", tries |-> 0]]
    BY <1>2 DEF Evict, Fetch
  <2>2. /\ lru' \in Seq(Digests) /\ Once(lru') /\ UsedLast(lru', used)
        /\ ToSet(lru') \subseteq ToSet(lru) \ {on}
    <3> DEFINE r == Filtered(lru, Digests \ {on})
    <3>1. lru \in Seq(Digests) /\ Once(lru) /\ UsedLast(lru, used)
      BY DEF UseInv
    <3>2. /\ r \in Seq(Digests)
          /\ Once(lru) => Once(r)
          /\ UsedLast(lru, used) => UsedLast(r, used)
          /\ ToSet(r) \subseteq ToSet(lru) /\ ToSet(r) \subseteq Digests \ {on}
      BY <3>1, FilteredKeeps
    <3>3. lru' = r
      BY <2>1
    <3> HIDE DEF r
    <3> SUFFICES /\ r \in Seq(Digests) /\ Once(r) /\ UsedLast(r, used)
                 /\ ToSet(r) \subseteq ToSet(lru) \ {on}
      BY <3>3
    <3> QED
      BY <3>1, <3>2
  <2>3. UsedGoLast' /\ dropped' \cap ToSet(lru') \subseteq used'
    BY <1>1, <2>2 DEF UseInv, UsedGoLast
  <2>4. Unused' \subseteq Unused \ {on}
    BY <1>1, <1>2, <2>2 DEF Unused, UseInv
  <2>5. \A d \in Digests \ {on} : task'[d] = task[d]
    BY <2>1 DEF Inv, TypeInv, TaskType
  <2>6. \A d \in Unused' : task'[d].at = "none" /\ (at' \in Ends \/ d \in fetched')
    BY <1>1, <2>4, <2>5, UnusedIs DEF UseInv
  <2>7. saved' \in Seq(Digests) /\ Once(saved') /\ used' \subseteq Digests /\ dropped' \subseteq Digests
    BY <1>1 DEF UseInv, Once
  <2>8. UsedLast(lru', used')
    BY <1>1, <2>2
  <2> QED
    BY <2>2, <2>3, <2>6, <2>7, <2>8 DEF UseInv
<1>3. CASE on \notin ToSet(lru)
  <2>1. UNCHANGED <<lru, task>> /\ at' \in Ends
    BY <1>3 DEF Evict, Fails, MoveTo, poolVars, Ends
  <2> QED
    BY <1>1, <2>1, UseStays DEF UseInv
<1> QED
  BY <1>2, <1>3

\* A thread adds what it has fetched at the end of the cache, and drops the oldest.
LEMMA AddedIs ==
    ASSUME Inv, UseInv, NEW d \in Digests, AddToCache(d)
    PROVE  /\ task[d].at = "written" /\ task' = [task EXCEPT ![d] = NoTask]
           /\ UNCHANGED <<saved, queueVars, mainVars>> /\ used' = used \cup {d}
           /\ lru' \in Seq(Digests) /\ Once(lru') /\ UsedLast(lru', used')
           /\ ToSet(lru') \subseteq ToSet(lru) \cup {d}
           /\ \E old \in SUBSET (ToSet(lru) \cup {d}) :
                /\ file' = Without(file, old) /\ dropped' = dropped \cup old
                /\ old \cap ToSet(lru') = {}
                /\ old \cap used' # {} => ToSet(lru') \subseteq used'
<1> DEFINE l == MoveToEnd(lru, d)
           wanted == Drops(l, 0, free - Size[d])
           kept == SelectInSeq(l, LAMBDA o : o = protected)
           gone == IF kept = 0 THEN wanted ELSE Min({wanted, kept - 1})
           old == ToSet(Oldest(l, gone))
           u == used \cup {d}
<1>1. /\ task[d].at = "written" /\ used' = u
      /\ UNCHANGED <<saved, queueVars, mainVars>>
      /\ lru' = Newest(l, gone) /\ dropped' = dropped \cup old
      /\ file' = Without(file, old) /\ task' = [task EXCEPT ![d] = NoTask]
  BY DEF AddToCache, Answers
<1>2. /\ l \in Seq(Digests) /\ Once(l) /\ UsedLast(l, u)
      /\ ToSet(l) \subseteq ToSet(lru) \cup {d}
  BY MoveToEndKeeps DEF UseInv
<1> HIDE DEF l
<1>3. wanted \in 0 .. Len(l)
  BY <1>2, DropsIs
<1> HIDE DEF wanted
<1>4. kept \in 0 .. Len(l)
  <2> DEFINE I == {i \in 1 .. Len(l) : l[i] = protected}
  <2>1. kept = IF I # {} THEN Min(I) ELSE 0
    BY DEF SelectInSeq
  <2>2. I \subseteq Nat /\ I \subseteq 1 .. Len(l)
    OBVIOUS
  <2> HIDE DEF I
  <2>3. I # {} => Min(I) \in I
    BY <2>2, MinIs
  <2> HIDE DEF kept
  <2>4. Len(l) \in Nat
    BY <1>2
  <2>5. 0 \in 0 .. Len(l) /\ 1 .. Len(l) \subseteq 0 .. Len(l)
    BY <2>4
  <2>6. CASE I = {}
    BY <2>1, <2>5, <2>6
  <2>7. CASE I # {}
    BY <2>1, <2>2, <2>3, <2>5, <2>7
  <2> QED
    BY <2>6, <2>7
<1> HIDE DEF kept
<1>5. gone \in 0 .. Len(l)
  <2>1. CASE kept = 0
    BY <1>3, <2>1
  <2>2. CASE kept # 0
    <3>1. kept - 1 \in 0 .. Len(l) /\ {wanted, kept - 1} \subseteq Nat
      BY <1>2, <1>3, <1>4, <2>2
    <3>2. Min({wanted, kept - 1}) \in {wanted, kept - 1}
      BY <3>1, MinIs
    <3> QED
      BY <1>3, <2>2, <3>1, <3>2
  <2> QED
    BY <2>1, <2>2
<1> HIDE DEF gone
<1>6. /\ lru' \in Seq(Digests) /\ Once(lru') /\ UsedLast(lru', u) /\ ToSet(lru') \subseteq ToSet(l)
      /\ old \subseteq ToSet(l) /\ old \cap ToSet(lru') = {}
      /\ old \cap u # {} => ToSet(lru') \subseteq u
  BY <1>1, <1>2, <1>5, CutKeeps
<1> HIDE DEF old
<1> HIDE DEF u
<1>7. /\ ToSet(lru') \subseteq ToSet(lru) \cup {d} /\ old \in SUBSET (ToSet(lru) \cup {d})
      /\ UsedLast(lru', used') /\ (old \cap used' # {} => ToSet(lru') \subseteq used')
  BY <1>1, <1>2, <1>6
<1>8. used' = used \cup {d}
  BY <1>1 DEF u
<1> QED
  BY <1>1, <1>6, <1>7, <1>8

\* A thread adds what it has fetched, which was not unused, and drops the oldest.
LEMMA UseAddToCache == ASSUME Inv, UseInv, NEW d \in Digests, AddToCache(d) PROVE UseInv'
<1>1. /\ task[d].at # "none" /\ task' = [task EXCEPT ![d] = NoTask]
      /\ used' = used \cup {d} /\ UNCHANGED <<saved, fetched, at>>
      /\ lru' \in Seq(Digests) /\ Once(lru') /\ UsedLast(lru', used')
      /\ ToSet(lru') \subseteq ToSet(lru) \cup {d}
  BY AddedIs DEF queueVars, mainVars
<1>2. PICK old \in SUBSET (ToSet(lru) \cup {d}) :
         /\ dropped' = dropped \cup old /\ old \cap ToSet(lru') = {}
         /\ old \cap used' # {} => ToSet(lru') \subseteq used'
  BY AddedIs
<1>3. d \notin Unused
  BY <1>1 DEF UseInv
<1>4. UsedGoLast'
  BY <1>1, <1>2, <1>3 DEF UseInv, UsedGoLast, Unused
<1>5. dropped' \cap ToSet(lru') \subseteq used'
  BY <1>1, <1>2 DEF UseInv
<1>6. Unused' \subseteq Unused \ {d}
  BY <1>1, <1>2 DEF Unused
<1>7. \A e \in Digests \ {d} : task'[e] = task[e]
  BY <1>1 DEF Inv, TypeInv, TaskType
<1>8. \A e \in Unused' : task'[e].at = "none" /\ (at' \in Ends \/ e \in fetched')
  BY <1>1, <1>6, <1>7, UnusedIs DEF UseInv
<1>9. /\ used' \subseteq Digests /\ dropped' \subseteq Digests
      /\ saved' \in Seq(Digests) /\ Once(saved')
  BY <1>1, <1>2, UnusedIs DEF UseInv, Once
<1> QED
  BY <1>1, <1>4, <1>5, <1>8, <1>9 DEF UseInv

\* At the end the cache is trimmed and saved.
LEMMA UseExit == ASSUME Inv, UseInv, Exit PROVE UseInv'
<1>1. PICK k \in 0 .. Len(lru) : /\ Trimmed(lru, file).lru = Newest(lru, k)
                                 /\ Trimmed(lru, file).gone = ToSet(Oldest(lru, k))
  BY TrimmedIs DEF UseInv
<1> DEFINE old == ToSet(Oldest(lru, k))
<1>2. /\ lru' = Newest(lru, k) /\ saved' = lru' /\ dropped' = dropped \cup old
      /\ at' \in Ends /\ UNCHANGED <<used, task, fetched>>
  BY <1>1 DEF Exit, MoveTo, Ends, queueVars, poolVars
<1>3. /\ lru' \in Seq(Digests) /\ Once(lru') /\ UsedLast(lru', used)
      /\ ToSet(lru') \subseteq ToSet(lru)
      /\ old \subseteq ToSet(lru) /\ old \cap ToSet(lru') = {}
      /\ old \cap used # {} => ToSet(lru') \subseteq used
  BY <1>2, CutKeeps DEF UseInv
<1> HIDE DEF old
<1>4. UsedGoLast' /\ dropped' \cap ToSet(lru') \subseteq used'
  BY <1>2, <1>3 DEF UseInv, UsedGoLast
<1>5. Unused' \subseteq Unused
  BY <1>2, <1>3 DEF Unused
<1>6. \A d \in Unused' : task'[d].at = "none" /\ (at' \in Ends \/ d \in fetched')
  BY <1>2, <1>5 DEF UseInv
<1>7. used' \subseteq Digests /\ dropped' \subseteq Digests
  BY <1>2, <1>3, UnusedIs DEF UseInv
<1>8. saved' \in Seq(Digests) /\ Once(saved') /\ UsedLast(lru', used')
  BY <1>2, <1>3 DEF Once
<1> QED
  BY <1>3, <1>4, <1>6, <1>7, <1>8 DEF UseInv

\* The next process uses nothing yet.
LEMMA UseRestart == ASSUME UseInv, Restart PROVE UseInv'
<1> DEFINE trimmed == Trimmed(saved, file)
           files == Without(file, trimmed.gone)
           here == {d \in Digests : files[d] # "none"}
<1>1. PICK k \in 0 .. Len(saved) : trimmed.lru = Newest(saved, k)
  BY TrimmedIs DEF UseInv
<1>2. /\ lru' = Filtered(trimmed.lru, here) /\ saved' = lru'
      /\ used' = {} /\ dropped' = {} /\ fetched' = ToSet(lru')
      /\ task' = [d \in Digests |-> NoTask]
  BY DEF Restart, Start
<1> HIDE DEF trimmed, here
<1>3. UsedLast(saved, {})
  BY DEF UsedLast
<1>4. trimmed.lru \in Seq(Digests) /\ Once(trimmed.lru)
  BY <1>1, <1>3, CutKeeps DEF UseInv
<1>5. lru' \in Seq(Digests) /\ Once(lru')
  BY <1>2, <1>4, FilteredKeeps
<1>6. saved' \in Seq(Digests) /\ Once(saved')
  BY <1>2, <1>5 DEF Once
<1>7. UsedLast(lru', used') /\ UsedGoLast' /\ dropped' \cap ToSet(lru') \subseteq used'
      /\ used' \subseteq Digests /\ dropped' \subseteq Digests
  BY <1>2 DEF UsedLast, UsedGoLast
<1>8. ToSet(lru') \subseteq Digests
  BY <1>5 DEF ToSet
<1>9. \A d \in Unused' : task'[d].at = "none" /\ (at' \in Ends \/ d \in fetched')
  BY <1>2, <1>8 DEF Unused, NoTask
<1> QED
  BY <1>5, <1>6, <1>7, <1>9 DEF UseInv

-----------------------------------------------------------------------------
(* The files of the cache.                                                 *)

\* No .isolated file is a data file of a tree too, that a task may write to.
KindsApart == Isolateds \cap Files = {}

\* What is in the cache has no task, nor have the .isolated files that were.
Kept == ToSet(lru) \cup (ToSet(saved) \cap Isolateds)

\* What the cache has is there, and whole if it is an .isolated file or was used: one
\* that was left broken is not in the cache before it is fetched again, and a data
\* file is looked at before it is used.
FileInv ==
    /\ file \in [Digests -> {"none", "broken", "whole"}]
    /\ \A d \in Digests : task[d].at = "written" => file[d] = "whole"
    /\ \A d \in Kept : task[d].at = "none" /\ (at \in Ends \/ d \in pending \cup fetched)
    /\ \A d \in ToSet(saved) \cap Isolateds : file[d] # "broken"
    /\ \A d \in ToSet(lru) : file[d] # "none" /\ (d \in Isolateds \cup used => file[d] = "whole")
    /\ at = "touch" /\ on \in ToSet(lru) => file[on] = "whole"
    /\ at = "evict" /\ on \in ToSet(lru) => on \notin Isolateds

\* What is left in the cache is left alone.
LEMMA FileKeeps ==
    ASSUME FileInv, saved' = saved, used' = used, ToSet(lru') \subseteq ToSet(lru),
           file' \in [Digests -> {"none", "broken", "whole"}],
           \A d \in Digests : task'[d].at = "written" => file'[d] = "whole",
           \A d \in ToSet(lru') : file'[d] = file[d],
           \A d \in ToSet(saved) \cap Isolateds : file'[d] \in {file[d], "none"},
           \A d \in Kept' : task'[d].at = "none" /\ (at' \in Ends \/ d \in pending' \cup fetched'),
           at' \in {"touch", "evict"} => at' = at /\ on' = on
    PROVE  FileInv'
<1>1. \A d \in ToSet(saved') \cap Isolateds : file'[d] # "broken"
  BY DEF FileInv
<1>2. \A d \in ToSet(lru') : file'[d] # "none" /\ (d \in Isolateds \cup used' => file'[d] = "whole")
  BY DEF FileInv
<1>3. /\ at' = "touch" /\ on' \in ToSet(lru') => file'[on'] = "whole"
      /\ at' = "evict" /\ on' \in ToSet(lru') => on' \notin Isolateds
  BY DEF FileInv
<1> QED
  BY <1>1, <1>2, <1>3 DEF FileInv

\* What is kept are digests, and a thread has none of them.
LEMMA KeptIs ==
    ASSUME Inv, UseInv, FileInv
    PROVE  /\ Kept \subseteq Digests /\ ToSet(lru) \subseteq Digests /\ ToSet(saved) \subseteq Digests
           /\ \A d \in Digests : task[d].at # "none" => d \notin Kept /\ d \in pending
<1>1. ToSet(lru) \subseteq Digests /\ ToSet(saved) \subseteq Digests
  BY DEF UseInv, ToSet
<1> QED
  BY <1>1 DEF FileInv, Kept, Inv, PendingInv

\* A thread writes to a file that is not in the cache.
LEMMA FileTask ==
    ASSUME Inv, UseInv, FileInv, NEW d \in Digests,
           Begin(d) \/ StartWriting(d) \/ FinishWriting(d)
             \/ \E again \in BOOLEAN : TaskFails(d, again)
    PROVE  FileInv'
<1>1. /\ UNCHANGED <<lru, saved, used, pending, fetched, at, on>> /\ task[d].at # "none"
      /\ \E x : task' = [task EXCEPT ![d] = x]
      /\ \E y \in {"none", "broken", "whole"} : file' = [file EXCEPT ![d] = y] \/ file' = file
      /\ task'[d].at = "written" => file'[d] = "whole"
  <2>1. task \in TaskType /\ file \in [Digests -> {"none", "broken", "whole"}]
    BY DEF Inv, TypeInv, FileInv
  <2>2. CASE Begin(d)
    BY <2>1, <2>2 DEF Begin, Goes, TaskType, cacheVars, queueVars, mainVars
  <2>3. CASE StartWriting(d)
    BY <2>1, <2>3 DEF StartWriting, Goes, TaskType, queueVars, mainVars
  <2>4. CASE FinishWriting(d)
    BY <2>1, <2>4 DEF FinishWriting, Goes, TaskType, queueVars, mainVars
  <2>5. ASSUME NEW again \in BOOLEAN, TaskFails(d, again)
        PROVE  /\ UNCHANGED <<lru, saved, used, pending, fetched, at, on>> /\ task[d].at # "none"
               /\ \E x : task' = [task EXCEPT ![d] = x]
               /\ \E y \in {"none", "broken", "whole"} : file' = [file EXCEPT ![d] = y] \/ file' = file
               /\ task'[d].at # "written"
    BY <2>1, <2>5 DEF TaskFails, Answers, NoTask, TaskType, queueVars, mainVars
  <2> QED
    BY <2>2, <2>3, <2>4, <2>5
<1>2. d \notin Kept /\ Kept' = Kept /\ Kept \subseteq Digests
  BY <1>1, KeptIs DEF Kept
<1>3. \A e \in Digests \ {d} : task'[e] = task[e] /\ file'[e] = file[e]
  BY <1>1 DEF Inv, TypeInv, TaskType, FileInv
<1>4. file' \in [Digests -> {"none", "broken", "whole"}]
  BY <1>1 DEF FileInv
<1>5. \A e \in Digests : task'[e].at = "written" => file'[e] = "whole"
  BY <1>1, <1>3 DEF FileInv
<1>6. \A e \in Kept' : /\ file'[e] = file[e] /\ task'[e].at = "none"
                       /\ at' \in Ends \/ e \in pending' \cup fetched'
  BY <1>1, <1>2, <1>3 DEF FileInv
<1>7. ToSet(lru') \subseteq Kept' /\ ToSet(saved) \cap Isolateds \subseteq Kept'
  BY <1>1 DEF Kept
<1> QED
  BY <1>1, <1>4, <1>5, <1>6, <1>7, FileKeeps

\* A file that is whole comes to the cache, and those that are dropped are removed.
LEMMA FileAddToCache ==
    ASSUME Inv, UseInv, FileInv, NEW d \in Digests, AddToCache(d)
    PROVE  FileInv'
<1>1. /\ task[d].at = "written" /\ task' = [task EXCEPT ![d] = NoTask] /\ used' = used \cup {d}
      /\ UNCHANGED <<saved, pending, fetched, at, on>>
      /\ ToSet(lru') \subseteq ToSet(lru) \cup {d}
  BY AddedIs DEF queueVars, mainVars
<1>2. PICK old \in SUBSET (ToSet(lru) \cup {d}) :
         file' = Without(file, old) /\ old \cap ToSet(lru') = {}
  BY AddedIs
<1>3. /\ \A e \in Digests : file'[e] = IF e \in old THEN "none" ELSE file[e]
      /\ file' \in [Digests -> {"none", "broken", "whole"}]
  BY <1>2 DEF Without, FileInv
<1>4. \A e \in Digests : task'[e] = IF e = d THEN NoTask ELSE task[e]
  BY <1>1 DEF Inv, TypeInv, TaskType
<1>5. /\ Kept \subseteq Digests /\ ToSet(lru) \subseteq Digests /\ ToSet(saved) \subseteq Digests
      /\ d \in pending /\ file[d] = "whole"
      /\ \A e \in Digests : task[e].at # "none" => e \notin ToSet(lru)
  BY <1>1, KeptIs DEF FileInv, Kept
<1>6. \A e \in Digests : task'[e].at = "written" => file'[e] = "whole"
  BY <1>3, <1>4, <1>5 DEF FileInv, NoTask
<1>7. Kept' \subseteq Kept \cup {d}
  BY <1>1 DEF Kept
<1>8. \A e \in Kept' : task'[e].at = "none" /\ (at' \in Ends \/ e \in pending' \cup fetched')
  BY <1>1, <1>4, <1>5, <1>7 DEF FileInv, NoTask
<1>9. \A e \in ToSet(saved') \cap Isolateds : file'[e] # "broken"
  BY <1>1, <1>3, <1>5 DEF FileInv
<1>10. ASSUME NEW e \in ToSet(lru')
       PROVE  file'[e] # "none" /\ (e \in Isolateds \cup used' => file'[e] = "whole")
  <2>1. e \in Digests /\ file'[e] = file[e] /\ (e = d \/ e \in ToSet(lru))
    BY <1>1, <1>2, <1>3, <1>5
  <2> QED
    BY <1>1, <1>5, <2>1 DEF FileInv
<1>11. at \in {"touch", "evict"} => on # d
  BY <1>5 DEF Inv, PlaceInv
<1>12. /\ at' = "touch" /\ on' \in ToSet(lru') => file'[on'] = "whole"
       /\ at' = "evict" /\ on' \in ToSet(lru') => on' \notin Isolateds
  <2>1. at' \in {"touch", "evict"} /\ on' \in ToSet(lru') => on \in ToSet(lru) /\ file'[on] = file[on]
    BY <1>1, <1>2, <1>3, <1>5, <1>11
  <2> QED
    BY <1>1, <2>1 DEF FileInv
<1> QED
  BY <1>3, <1>6, <1>8, <1>9, <1>10, <1>12 DEF FileInv

\* The main thread, where it touches neither the cache nor its files.
LEMMA FileMain ==
    ASSUME Inv, UseInv, FileInv,
           Retrieve \/ PickPath \/ Wait \/ Pull \/ Load \/ Map \/ Close \/ TaskDone
    PROVE  FileInv'
<1>1. UNCHANGED <<file, lru, saved, used, task>>
  BY DEF Retrieve, PickPath, Wait, Pull, Load, Map, Close, TaskDone, cacheVars, poolVars
<1>2. at \in Ends => at' \in Ends
  BY DEF Retrieve, PickPath, Wait, Settled, Pull, Load, Map, Close, TaskDone, MoveTo, Ends, mainVars
<1>3. pending \cup fetched \subseteq pending' \cup fetched' \/ at' \in Ends
  <2>1. CASE Pull
    BY <2>1 DEF Pull, Fails, MoveTo, Ends
  <2>2. CASE ~Pull
    BY <2>2 DEF Retrieve, PickPath, Wait, Load, Map, Close, TaskDone, queueVars
  <2> QED
    BY <2>1, <2>2
<1>4. at' \in {"touch", "evict"} => at' = at /\ on' = on
  BY DEF Retrieve, PickPath, Wait, Pull, Settled, Load, Map, Close, TaskDone, MoveTo, Fails, mainVars
<1>5. Kept' = Kept /\ \A d \in ToSet(lru') : file'[d] = file[d]
  BY <1>1 DEF Kept
<1>6. \A d \in Kept' : task'[d].at = "none" /\ (at' \in Ends \/ d \in pending' \cup fetched')
  BY <1>1, <1>2, <1>3, <1>5 DEF FileInv
<1>7. \A d \in Digests : task'[d].at = "written" => file'[d] = "whole"
  BY <1>1 DEF FileInv
<1>8. file' \in [Digests -> {"none", "broken", "whole"}]
  BY <1>1 DEF FileInv
<1>9. \A d \in ToSet(saved) \cap Isolateds : file'[d] \in {file[d], "none"}
  BY <1>1
<1> QED
  BY <1>1, <1>4, <1>5, <1>6, <1>7, <1>8, <1>9, FileKeeps

\* What is asked for and is not fetched gets a task; what is fetched is looked at.
LEMMA FileAdd == ASSUME Inv, UseInv, FileInv, Add PROVE FileInv'
<1>1. /\ UNCHANGED <<file, lru, saved, used, fetched>> /\ at = "add" /\ on \in Digests
      /\ at \notin Ends /\ pending \subseteq pending'
  BY DEF Add, Fetch, Inv, PlaceInv, Ends, cacheVars
<1>2. Kept' = Kept /\ Kept \subseteq Digests /\ ToSet(lru) \subseteq Digests
      /\ ToSet(lru) \subseteq Kept
  BY <1>1, KeptIs DEF Kept
<1>3. \A d \in Digests : task'[d] = task[d] \/ (d = on /\ on \notin Kept /\ task'[d].at = "queued")
  <2>1. CASE on \in pending \cup fetched
    BY <2>1 DEF Add, poolVars
  <2>2. CASE on \notin pending \cup fetched
    <3>1. task' = [task EXCEPT ![on] = [at |-> "queued", tries |-> 0]]
      BY <2>2 DEF Add, Fetch
    <3>2. on \notin Kept
      BY <1>1, <2>2 DEF FileInv
    <3> QED
      BY <1>1, <3>1, <3>2 DEF Inv, TypeInv, TaskType
  <2> QED
    BY <2>1, <2>2
<1>4. \A d \in Kept' : task'[d].at = "none" /\ (at' \in Ends \/ d \in pending' \cup fetched')
  BY <1>1, <1>2, <1>3 DEF FileInv
<1>5. \A d \in Digests : task'[d].at = "written" => file'[d] = "whole"
  BY <1>1, <1>3 DEF FileInv
<1>6. /\ at' = "touch" => on' = on /\ IsValidFile(on)
      /\ at' = "evict" => on' = on /\ ~IsValidFile(on)
  BY DEF Add, MoveTo
<1>7. /\ at' = "touch" /\ on' \in ToSet(lru') => file'[on'] = "whole"
      /\ at' = "evict" /\ on' \in ToSet(lru') => on' \notin Isolateds
  BY <1>1, <1>6 DEF FileInv, IsValidFile
<1>8. /\ file' \in [Digests -> {"none", "broken", "whole"}]
      /\ \A d \in ToSet(saved') \cap Isolateds : file'[d] # "broken"
      /\ \A d \in ToSet(lru') : file'[d] # "none" /\ (d \in Isolateds \cup used' => file'[d] = "whole")
  BY <1>1 DEF FileInv
<1> QED
  BY <1>4, <1>5, <1>7, <1>8 DEF FileInv

\* What is touched is whole.
LEMMA FileTouch == ASSUME Inv, UseInv, FileInv, Touch PROVE FileInv'
<1>1. /\ UNCHANGED <<file, saved, task, pending, fetched>> /\ at = "touch" /\ on \in Digests
  BY DEF Touch, Inv, PlaceInv, queueVars, poolVars
<1>2. CASE on \in ToSet(lru)
  <2>1. lru' = MoveToEnd(lru, on) /\ used' = used \cup {on} /\ at' = "next"
    BY <1>2 DEF Touch, MoveTo
  <2>2. ToSet(lru') \subseteq ToSet(lru)
    <3>1. ToSet(MoveToEnd(lru, on)) \subseteq ToSet(lru) \cup {on}
      BY <1>1, MoveToEndKeeps DEF UseInv
    <3> QED
      BY <1>2, <2>1, <3>1
  <2>3. Kept' \subseteq Kept /\ file[on] = "whole"
    BY <1>1, <1>2, <2>2 DEF Kept, FileInv
  <2>4. \A d \in Kept' : task'[d].at = "none" /\ (at' \in Ends \/ d \in pending' \cup fetched')
    BY <1>1, <2>3 DEF FileInv, Ends
  <2>5. \A d \in ToSet(lru') : file'[d] # "none" /\ (d \in Isolateds \cup used' => file'[d] = "whole")
    BY <1>1, <2>1, <2>2, <2>3 DEF FileInv
  <2>6. /\ file' \in [Digests -> {"none", "broken", "whole"}]
        /\ \A d \in Digests : task'[d].at = "written" => file'[d] = "whole"
        /\ \A d \in ToSet(saved') \cap Isolateds : file'[d] # "broken"
    BY <1>1 DEF FileInv
  <2> QED
    BY <2>1, <2>4, <2>5, <2>6 DEF FileInv
<1>3. CASE on \notin ToSet(lru)
  <2>1. UNCHANGED <<lru, used>> /\ at' = "evict" /\ on' = on
    BY <1>3 DEF Touch, MoveTo
  <2>2. /\ file' \in [Digests -> {"none", "broken", "whole"}]
        /\ \A d \in Digests : task'[d].at = "written" => file'[d] = "whole"
        /\ \A d \in ToSet(saved') \cap Isolateds : file'[d] # "broken"
        /\ \A d \in ToSet(lru') : file'[d] # "none" /\ (d \in Isolateds \cup used' => file'[d] = "whole")
    BY <1>1, <2>1 DEF FileInv
  <2>3. \A d \in Kept' : task'[d].at = "none" /\ (at' \in Ends \/ d \in pending' \cup fetched')
    BY <1>1, <2>1 DEF FileInv, Kept, Ends
  <2> QED
    BY <1>3, <2>1, <2>2, <2>3 DEF FileInv
<1> QED
  BY <1>2, <1>3

\* Only a data file is evicted.
LEMMA FileEvict == ASSUME Inv, UseInv, FileInv, Evict PROVE FileInv'
<1>1. /\ UNCHANGED <<saved, used>> /\ at = "evict" /\ on \in Digests /\ fetched' = fetched \ {on}
  BY DEF Evict, Inv, PlaceInv
<1>2. CASE on \in ToSet(lru)
  <2>1. /\ lru' = Filtered(lru, Digests \ {on}) /\ file' = [file EXCEPT ![on] = "none"]
        /\ task' = [task EXCEPT ![on] = [at |-> "queued", tries |-> 0]]
        /\ pending' = pending \cup {on} /\ at' = "next"
    BY <1>2 DEF Evict, Fetch, MoveTo
  <2>2. ToSet(lru') \subseteq ToSet(lru) \ {on}
    <3>1. lru \in Seq(Digests)
      BY DEF UseInv
    <3>2. /\ ToSet(Filtered(lru, Digests \ {on})) \subseteq ToSet(lru)
          /\ ToSet(Filtered(lru, Digests \ {on})) \subseteq Digests \ {on}
      BY <3>1, FilteredKeeps
    <3> QED
      BY <2>1, <3>2
  <2>3. on \notin Isolateds
    BY <1>1, <1>2 DEF FileInv
  <2>4. \A d \in Digests : /\ file'[d] = IF d = on THEN "none" ELSE file[d]
                           /\ d # on => task'[d] = task[d]
                           /\ d = on => task'[d].at = "queued"
    BY <2>1 DEF FileInv, Inv, TypeInv, TaskType
  <2>5. Kept' \subseteq Kept \ {on} /\ Kept \subseteq Digests /\ ToSet(saved) \subseteq Digests
        /\ ToSet(lru) \subseteq Digests
    BY <1>1, <2>2, <2>3, KeptIs DEF Kept
  <2>6. \A d \in Kept' : task'[d].at = "none" /\ (at' \in Ends \/ d \in pending' \cup fetched')
    <3> SUFFICES ASSUME NEW d \in Kept'
                 PROVE  task'[d].at = "none" /\ d \in pending' \cup fetched'
      OBVIOUS
    <3>1. d \in Kept /\ d # on /\ d \in Digests
      BY <2>5
    <3>2. task[d].at = "none" /\ d \in pending \cup fetched
      BY <1>1, <3>1 DEF FileInv, Ends
    <3> QED
      BY <1>1, <2>1, <2>4, <3>1, <3>2
  <2>7. \A d \in ToSet(lru') : file'[d] = file[d]
    BY <2>2, <2>4, <2>5
  <2>8. \A d \in Digests : task'[d].at = "written" => file'[d] = "whole"
    BY <2>4 DEF FileInv
  <2>9. file' \in [Digests -> {"none", "broken", "whole"}]
    BY <2>1 DEF FileInv
  <2>10. \A d \in ToSet(saved) \cap Isolateds : file'[d] \in {file[d], "none"}
    BY <2>4, <2>5
  <2> QED
    BY <1>1, <2>1, <2>2, <2>6, <2>7, <2>8, <2>9, <2>10, FileKeeps
<1>3. CASE on \notin ToSet(lru)
  <2>1. UNCHANGED <<lru, file, task>> /\ at' = "exit"
    BY <1>3 DEF Evict, Fails, MoveTo, poolVars
  <2>2. Kept' = Kept
    BY <1>1, <2>1 DEF Kept
  <2>3. \A d \in Kept' : task'[d].at = "none" /\ (at' \in Ends \/ d \in pending' \cup fetched')
    BY <2>1, <2>2 DEF FileInv, Ends
  <2> QED
    BY <1>1, <2>1, <2>3 DEF FileInv
<1> QED
  BY <1>2, <1>3

\* What is trimmed is removed; what is saved is what is left.
LEMMA FileExit == ASSUME Inv, UseInv, FileInv, Exit PROVE FileInv'
<1>1. PICK k \in 0 .. Len(lru) : /\ Trimmed(lru, file).lru = Newest(lru, k)
                                 /\ Trimmed(lru, file).gone = ToSet(Oldest(lru, k))
  BY TrimmedIs DEF UseInv
<1> DEFINE old == ToSet(Oldest(lru, k))
<1>2. /\ lru' = Newest(lru, k) /\ saved' = lru' /\ file' = Without(file, old)
      /\ at' = "close" /\ UNCHANGED <<used, task, pending, fetched>>
  BY <1>1 DEF Exit, MoveTo, queueVars, poolVars
<1>3. ToSet(lru') \subseteq ToSet(lru) /\ old \subseteq ToSet(lru) /\ old \cap ToSet(lru') = {}
  BY <1>2, CutKeeps DEF UseInv
<1> HIDE DEF old
<1>4. /\ \A e \in Digests : file'[e] = IF e \in old THEN "none" ELSE file[e]
      /\ file' \in [Digests -> {"none", "broken", "whole"}]
  BY <1>2 DEF Without, FileInv
<1>5. Kept' \subseteq Kept /\ ToSet(lru) \subseteq Digests
      /\ \A d \in Digests : task[d].at # "none" => d \notin ToSet(lru)
  BY <1>2, <1>3, KeptIs DEF Kept
<1>6. \A d \in ToSet(lru') : /\ file'[d] = file[d]
                             /\ file'[d] # "none" /\ (d \in Isolateds \cup used' => file'[d] = "whole")
  BY <1>2, <1>3, <1>4, <1>5 DEF FileInv
<1>7. \A d \in ToSet(saved') \cap Isolateds : file'[d] # "broken"
  BY <1>2, <1>6
<1>8. \A d \in Kept' : task'[d].at = "none" /\ (at' \in Ends \/ d \in pending' \cup fetched')
  BY <1>2, <1>5 DEF FileInv, Ends
<1>9. \A d \in Digests : task'[d].at = "written" => file'[d] = "whole"
  BY <1>2, <1>3, <1>4, <1>5 DEF FileInv
<1> QED
  BY <1>2, <1>4, <1>6, <1>7, <1>8, <1>9 DEF FileInv

\* Of the .isolated files, the next process finds those that are whole.
LEMMA FileRestart == ASSUME UseInv, FileInv, Restart PROVE FileInv'
<1> DEFINE trimmed == Trimmed(saved, file)
           files == Without(file, trimmed.gone)
           here == {d \in Digests : files[d] # "none"}
<1>1. PICK k \in 0 .. Len(saved) : trimmed.lru = Newest(saved, k)
  BY TrimmedIs DEF UseInv
<1>2. /\ lru' = Filtered(trimmed.lru, here) /\ saved' = lru' /\ used' = {} /\ fetched' = ToSet(lru')
      /\ file' = [d \in Digests |-> IF d \in ToSet(lru') THEN files[d] ELSE "none"]
      /\ task' = [d \in Digests |-> NoTask] /\ at' = "next"
  BY DEF Restart, Start
<1>3. /\ files \in [Digests -> {"none", "broken", "whole"}]
      /\ \A d \in here : d \in Digests /\ files[d] # "none" /\ files[d] = file[d]
  BY DEF Without, FileInv
<1> HIDE DEF trimmed, files, here
<1>4. trimmed.lru \in Seq(Digests) /\ ToSet(trimmed.lru) \subseteq ToSet(saved)
  <2>1. UsedLast(saved, {})
    BY DEF UsedLast
  <2> QED
    BY <1>1, <2>1, CutKeeps DEF UseInv
<1>5. ToSet(lru') \subseteq here /\ ToSet(lru') \subseteq ToSet(saved)
  <2>1. /\ ToSet(Filtered(trimmed.lru, here)) \subseteq ToSet(trimmed.lru)
        /\ ToSet(Filtered(trimmed.lru, here)) \subseteq here
    BY <1>4, FilteredKeeps
  <2> QED
    BY <1>2, <1>4, <2>1
<1>6. file' \in [Digests -> {"none", "broken", "whole"}]
  BY <1>2, <1>3
<1>7. \A d \in ToSet(lru') : /\ d \in Digests /\ file'[d] = file[d] /\ file'[d] # "none"
                             /\ d \in Isolateds => file'[d] = "whole"
  <2> SUFFICES ASSUME NEW d \in ToSet(lru')
               PROVE  /\ d \in Digests /\ file'[d] = file[d] /\ file'[d] # "none"
                      /\ d \in Isolateds => file'[d] = "whole"
    OBVIOUS
  <2>1. d \in Digests /\ file'[d] = file[d] /\ file'[d] # "none" /\ d \in ToSet(saved)
    BY <1>2, <1>3, <1>5
  <2> QED
    BY <1>6, <2>1 DEF FileInv
<1>8. Kept' = ToSet(lru') \/ Kept' \subseteq ToSet(lru')
  BY <1>2 DEF Kept
<1>9. \A d \in Kept' : task'[d].at = "none" /\ d \in fetched'
  BY <1>2, <1>7, <1>8 DEF NoTask
<1>10. \A d \in Digests : task'[d].at = "written" => file'[d] = "whole"
  BY <1>2 DEF NoTask
<1>11. /\ \A d \in ToSet(saved') \cap Isolateds : file'[d] # "broken"
       /\ \A d \in ToSet(lru') : file'[d] # "none" /\ (d \in Isolateds \cup used' => file'[d] = "whole")
  BY <1>2, <1>7
<1> QED
  BY <1>2, <1>6, <1>9, <1>10, <1>11 DEF FileInv

\* A process finds what another one left whole.
LEMMA FileInit == Init => FileInv
<1> SUFFICES ASSUME Init PROVE FileInv
  OBVIOUS
<1>1. /\ saved = lru /\ fetched = ToSet(lru) /\ used = {} /\ at = "next"
      /\ file = [d \in Digests |-> IF d \in ToSet(lru) THEN "whole" ELSE "none"]
      /\ task = [d \in Digests |-> NoTask]
  BY DEF Init
<1>2. ToSet(lru) \subseteq Digests
  BY UseInit DEF UseInv, ToSet
<1> QED
  BY <1>1, <1>2 DEF FileInv, Kept, NoTask

-----------------------------------------------------------------------------
(* What is asked for.                                                      *)

\* What was asked for and is in the cache is used, or is just about to be.
AskedInv ==
    /\ pending \subseteq accessed
    /\ at \in {"touch", "evict"} => on \in accessed
    /\ \A d \in accessed \cap ToSet(lru) :
          d \in used \/ at \in Ends \/ (at \in {"touch", "evict"} /\ on = d)

\* Where nothing is asked for.
LEMMA AskedStays ==
    ASSUME AskedInv, UNCHANGED accessed, pending' \subseteq pending, used \subseteq used',
           ToSet(lru') \subseteq ToSet(lru) \cup used',
           at' \in Ends \/ (UNCHANGED <<at, on>>) \/ (at \notin {"touch", "evict"} \cup Ends /\ at' \notin {"touch", "evict"})
    PROVE  AskedInv'
<1>1. pending' \subseteq accessed'
  BY DEF AskedInv
<1>2. at' \in {"touch", "evict"} => on' \in accessed'
  BY DEF AskedInv, Ends
<1>3. ASSUME NEW d \in accessed', d \in ToSet(lru')
      PROVE  d \in used' \/ at' \in Ends \/ (at' \in {"touch", "evict"} /\ on' = d)
  BY <1>3 DEF AskedInv
<1> QED
  BY <1>1, <1>2, <1>3 DEF AskedInv

\* The main thread and the threads of the pool, where nothing is asked for.
LEMMA AskedMain ==
    ASSUME AskedInv, Retrieve \/ PickPath \/ Wait \/ Pull \/ Load \/ Map \/ Close \/ TaskDone
    PROVE  AskedInv'
<1>1. UNCHANGED <<accessed, lru, used>>
  BY DEF Retrieve, PickPath, Wait, Pull, Load, Map, Close, TaskDone, cacheVars, queueVars
<1>2. pending' \subseteq pending
  BY DEF Retrieve, PickPath, Wait, Pull, Load, Map, Close, TaskDone, queueVars
<1>3. \/ at' \in Ends \/ UNCHANGED <<at, on>>
      \/ at \notin {"touch", "evict"} \cup Ends /\ at' \notin {"touch", "evict"}
  BY DEF Retrieve, PickPath, Wait, Pull, Settled, Load, Map, Close, TaskDone, MoveTo, Fails, Ends, mainVars
<1> QED
  BY <1>1, <1>2, <1>3, AskedStays

\* What is asked for is fetched, and used, or is touched.
LEMMA AskedAdd == ASSUME FileInv, AskedInv, Add PROVE AskedInv'
<1>1. /\ UNCHANGED <<lru, used>> /\ at = "add"
      /\ accessed' = (IF on \in pending THEN accessed ELSE accessed \cup {on})
      /\ pending' = (IF on \in pending \cup fetched THEN pending ELSE pending \cup {on})
      /\ on \in pending \/ on \notin fetched => at' = "next"
      /\ at' \in {"touch", "evict"} => on' = on /\ on \notin pending
      /\ on \in fetched /\ on \notin pending => at' \in {"touch", "evict"} /\ on' = on
  BY DEF Add, Fetch, MoveTo, cacheVars
<1>2. on \in accessed' /\ accessed' \subseteq accessed \cup {on} /\ pending' \subseteq accessed'
  BY <1>1 DEF AskedInv
<1>3. on \notin pending \cup fetched => on \notin ToSet(lru)
  BY <1>1 DEF FileInv, Kept, Ends
<1>4. \A d \in accessed \cap ToSet(lru) : d \in used
  BY <1>1 DEF AskedInv, Ends
<1>5. ASSUME NEW d \in accessed' \cap ToSet(lru'), d \notin used'
      PROVE  at' \in {"touch", "evict"} /\ on' = d
  <2>1. d = on /\ d \notin accessed /\ on \notin pending
    BY <1>1, <1>2, <1>4, <1>5 DEF AskedInv
  <2> QED
    BY <1>1, <1>3, <2>1
<1> QED
  BY <1>1, <1>2, <1>5 DEF AskedInv

\* What is touched is used; what is evicted is not in the cache any more.
LEMMA AskedLook == ASSUME Inv, UseInv, AskedInv, Touch \/ Evict PROVE AskedInv'
<1>1. accessed' = accessed /\ on \in accessed /\ on \in Digests /\ at \notin Ends /\ at \in {"touch", "evict"}
  BY DEF Touch, Evict, AskedInv, Inv, PlaceInv, Ends, queueVars
<1>2. \A d \in accessed \cap ToSet(lru) : d \in used \/ d = on
  BY <1>1 DEF AskedInv
<1>3. CASE Touch /\ on \in ToSet(lru)
  <2>1. lru' = MoveToEnd(lru, on) /\ used' = used \cup {on} /\ at' = "next" /\ pending' = pending
    BY <1>3 DEF Touch, MoveTo, queueVars
  <2>2. ToSet(lru') \subseteq ToSet(lru)
    <3>1. ToSet(MoveToEnd(lru, on)) \subseteq ToSet(lru) \cup {on}
      BY <1>1, MoveToEndKeeps DEF UseInv
    <3> QED
      BY <1>3, <2>1, <3>1
  <2> QED
    BY <1>1, <1>2, <2>1, <2>2 DEF AskedInv
<1>4. CASE Touch /\ on \notin ToSet(lru)
  <2>1. UNCHANGED <<lru, used, pending>> /\ at' = "evict" /\ on' = on
    BY <1>4 DEF Touch, MoveTo, queueVars
  <2> QED
    BY <1>1, <1>2, <2>1 DEF AskedInv
<1>5. CASE Evict /\ on \in ToSet(lru)
  <2>1. /\ lru' = Filtered(lru, Digests \ {on}) /\ used' = used /\ at' = "next"
        /\ pending' = pending \cup {on}
    BY <1>5 DEF Evict, Fetch, MoveTo
  <2>2. ToSet(lru') \subseteq ToSet(lru) \ {on}
    <3>1. lru \in Seq(Digests)
      BY DEF UseInv
    <3>2. /\ ToSet(Filtered(lru, Digests \ {on})) \subseteq ToSet(lru)
          /\ ToSet(Filtered(lru, Digests \ {on})) \subseteq Digests \ {on}
      BY <3>1, FilteredKeeps
    <3> QED
      BY <2>1, <3>2
  <2> QED
    BY <1>1, <1>2, <2>1, <2>2 DEF AskedInv
<1>6. CASE Evict /\ on \notin ToSet(lru)
  <2>1. UNCHANGED <<lru, used, pending>> /\ at' \in Ends
    BY <1>6 DEF Evict, Fails, MoveTo, Ends
  <2> QED
    BY <1>1, <2>1, AskedStays
<1> QED
  BY <1>3, <1>4, <1>5, <1>6

\* What a thread adds is used.
LEMMA AskedTask ==
    ASSUME Inv, UseInv, AskedInv, NEW d \in Digests,
           TaskStep(d) \/ \E again \in BOOLEAN : TaskFails(d, again)
    PROVE  AskedInv'
<1>1. CASE AddToCache(d)
  <2>1. /\ used' = used \cup {d} /\ ToSet(lru') \subseteq ToSet(lru) \cup {d}
        /\ UNCHANGED <<queueVars, mainVars>>
    BY <1>1, AddedIs
  <2>2. UNCHANGED <<pending, accessed, at, on>>
    BY <2>1 DEF queueVars, mainVars
  <2>3. pending' \subseteq pending /\ used \subseteq used' /\ ToSet(lru') \subseteq ToSet(lru) \cup used'
    BY <2>1, <2>2
  <2> QED
    BY <2>2, <2>3, AskedStays
<1>2. CASE ~AddToCache(d)
  <2>1. UNCHANGED <<lru, used, pending, accessed, at, on>>
    BY <1>2 DEF TaskStep, Begin, StartWriting, FinishWriting, TaskFails, cacheVars, queueVars, mainVars
  <2> QED
    BY <2>1 DEF AskedInv
<1> QED
  BY <1>1, <1>2

-----------------------------------------------------------------------------
(* How far the walk is.                                                    *)

\* Unless the process is about to end: what was asked for and what is about to be has
\* the root, and what the files that were parsed include; nothing happened before
\* the root is asked for; and the files of what was walked were asked for, or are
\* about to be.
Walking ==
    /\ loaded \subseteq seen /\ seen \subseteq ToSet(Order) /\ ToSet(children) \subseteq ToSet(Order)
    /\ Root \in seen \cup ToSet(children)
    /\ \A i \in loaded : ToSet(Includes[i]) \subseteq seen \cup ToSet(children)
    /\ Root \in ToSet(children) =>
          children = <<Root>> /\ seen = {} /\ pending = {} /\ used = {} /\ at = "next"
    /\ \A p \in PathsOf(Processed(loaded)) :
          p \in paths \/ DigestOf[p] \in accessed \/ (at = "add" /\ on = DigestOf[p])
    /\ at \in {"load", "map"} => children = <<>> /\ paths = {}
    /\ at = "load" => on \in seen
    /\ at = "map" => seen = loaded /\ \E p \in PathsOf(loaded) : on = DigestOf[p]

WalkInv == at \notin Ends => Walking

\* Nothing is walked yet: before the first file, the walk has only its root.
LEMMA NothingIsWalked ==
    ToSet(<<Root>>) = {Root} /\ Processed({}) = {} /\ PathsOf({}) = {} /\ Root \in ToSet(Order)
<1>1. ToSet(<<Root>>) = {Root}
  BY DEF ToSet
<1>2. Processed({}) = {}
  <2>1. DOMAIN Order = 1 .. Len(Order) /\ Len(Order) \in Nat
    BY OrderIs
  <2>2. \A n \in DOMAIN Order : 1 \in 1 .. n
    BY <2>1
  <2> QED
    BY <2>2 DEF Processed
<1>3. PathsOf({}) = {}
  BY DEF PathsOf
<1> QED
  BY <1>1, <1>2, <1>3, OrderIs

\* The walk of a process that has just started.
LEMMA WalkStarts ==
    ASSUME children = <<Root>>, seen = {}, loaded = {}, pending = {}, used = {}, at = "next"
    PROVE  WalkInv
BY NothingIsWalked DEF WalkInv, Walking

\* Where the walk does not go on.
LEMMA WalkStays ==
    ASSUME WalkInv, UNCHANGED <<at, on, children, paths, seen, loaded, accessed, pending>>,
           used' = used \/ pending # {}
    PROVE  WalkInv'
BY DEF WalkInv, Walking

\* Once the root was asked for, it is not again.
LEMMA WalkGoes ==
    ASSUME Walking, at \notin Ends, at # "next" \/ children = <<>>
    PROVE  Root \notin ToSet(children)
BY DEF Walking, ToSet

\* The next .isolated file is asked for.
LEMMA WalkRetrieve == ASSUME Inv, WalkInv, Retrieve PROVE WalkInv'
<1> DEFINE h == Head(children)
<1>1. CASE h \in seen
  BY <1>1 DEF Retrieve, Fails, MoveTo, WalkInv, Ends
<1>2. CASE h \notin seen
  <2>1. /\ at = "next" /\ children # <<>> /\ seen' = seen \cup {h} /\ children' = Tail(children)
        /\ at' = "add" /\ on' = h
        /\ UNCHANGED <<paths, loaded, accessed, pending, used>>
    BY <1>2 DEF Retrieve, MoveTo, cacheVars, queueVars
  <2>2. Walking
    BY <2>1 DEF WalkInv, Ends
  <2>3. children \in Seq(Isolateds)
    BY DEF Inv, TypeInv
  <2>4. ToSet(children) = {h} \cup ToSet(Tail(children))
    <3>1. /\ Len(children) \in Nat /\ Len(children) > 0 /\ h = children[1]
          /\ Len(Tail(children)) = Len(children) - 1
          /\ \A i \in 1 .. Len(Tail(children)) : Tail(children)[i] = children[i + 1]
      BY <2>1, <2>3, HeadTailProperties, EmptySeq
    <3>2. DOMAIN children = 1 .. Len(children) /\ DOMAIN Tail(children) = 1 .. Len(Tail(children))
      BY <2>1, <2>3
    <3>3. ASSUME NEW x \in ToSet(children) PROVE x \in {h} \cup ToSet(Tail(children))
      <4>1. PICK i \in 1 .. Len(children) : x = children[i]
        BY <3>2 DEF ToSet
      <4>2. CASE i = 1
        BY <3>1, <4>1, <4>2
      <4>3. CASE i # 1
        <5>1. i - 1 \in 1 .. Len(Tail(children)) /\ (i - 1) + 1 = i
          BY <3>1, <4>3
        <5>2. Tail(children)[i - 1] = x
          BY <3>1, <4>1, <5>1
        <5> QED
          BY <3>2, <5>1, <5>2 DEF ToSet
      <4> QED
        BY <4>2, <4>3
    <3>4. ASSUME NEW x \in ToSet(Tail(children)) PROVE x \in ToSet(children)
      <4>1. PICK i \in 1 .. Len(Tail(children)) : x = Tail(children)[i]
        BY <3>2 DEF ToSet
      <4>2. i + 1 \in 1 .. Len(children) /\ x = children[i + 1]
        BY <3>1, <4>1
      <4> QED
        BY <3>2, <4>2 DEF ToSet
    <3>5. h \in ToSet(children)
      <4>1. 1 \in 1 .. Len(children)
        BY <3>1
      <4> QED
        BY <3>1, <3>2, <4>1 DEF ToSet
    <3> HIDE DEF h
    <3> QED
      BY <3>3, <3>4, <3>5
  <2>5. Root \notin ToSet(children')
    <3> SUFFICES ASSUME Root \in ToSet(Tail(children)) PROVE FALSE
      BY <2>1
    <3>1. children = <<Root>>
      BY <2>2, <2>4 DEF Walking
    <3>2. ToSet(Tail(children)) = {}
      BY <3>1 DEF ToSet
    <3> QED
      BY <3>2
  <2> HIDE DEF h
  <2>6. seen' \cup ToSet(children') = seen \cup ToSet(children)
    BY <2>1, <2>4
  <2> QED
    BY <2>1, <2>2, <2>4, <2>5, <2>6 DEF WalkInv, Walking
<1> QED
  BY <1>1, <1>2

\* A path's file is asked for.
LEMMA WalkPickPath == ASSUME WalkInv, PickPath PROVE WalkInv'
<1>1. /\ at = "next" /\ children = <<>> /\ at' = "add"
      /\ \E p \in paths : paths' = paths \ {p} /\ on' = DigestOf[p]
      /\ UNCHANGED <<children, seen, loaded, accessed, pending, used>>
  BY DEF PickPath, MoveTo, cacheVars, queueVars
<1>2. Walking /\ Root \notin ToSet(children)
  BY <1>1, WalkGoes DEF WalkInv, Ends
<1> QED
  BY <1>1, <1>2 DEF WalkInv, Walking

\* What is asked for, and looked at.
LEMMA WalkAdd == ASSUME AskedInv, WalkInv, Add \/ Touch \/ Evict PROVE WalkInv'
<1>1. /\ at \in {"add", "touch", "evict"} /\ at' \in {"next", "touch", "evict"} \cup Ends
      /\ UNCHANGED <<children, paths, seen, loaded>> /\ accessed \subseteq accessed'
      /\ at = "add" => on \in accessed'
  <2>1. CASE Add
    BY <2>1 DEF Add, MoveTo, AskedInv
  <2>2. CASE Touch
    BY <2>2 DEF Touch, MoveTo, queueVars
  <2>3. CASE Evict
    BY <2>3 DEF Evict, MoveTo, Fails, Ends
  <2> QED
    BY <2>1, <2>2, <2>3
<1>2. Walking /\ Root \notin ToSet(children)
  BY <1>1, WalkGoes DEF WalkInv, Ends
<1>3. \A p \in PathsOf(Processed(loaded)) : p \in paths \/ DigestOf[p] \in accessed'
  BY <1>1, <1>2 DEF Walking
<1> QED
  BY <1>1, <1>2, <1>3 DEF WalkInv, Walking, Ends

\* The main thread waits for an .isolated file, or for a data file.
LEMMA WalkWait == ASSUME WalkInv, Wait \/ Pull PROVE WalkInv'
<1>1. /\ at = "next" /\ children = <<>> /\ paths = {}
      /\ UNCHANGED <<children, paths, seen, loaded, accessed, used>>
  BY DEF Wait, Pull, Settled, cacheVars, queueVars
<1>2. Walking /\ Root \notin ToSet(children)
  BY <1>1, WalkGoes DEF WalkInv, Ends
<1>3. CASE Wait
  <2>1. PICK d \in Waited : at' = (IF seen # loaded THEN "load" ELSE "map") /\ on' = d
    BY <1>3 DEF Wait, MoveTo
  <2>2. CASE seen # loaded
    <3>1. d \in seen /\ at' = "load"
      BY <2>1, <2>2 DEF Waited
    <3> QED
      BY <1>1, <1>2, <2>1, <3>1 DEF WalkInv, Walking, Ends
  <2>3. CASE seen = loaded
    <3>1. at' = "map" /\ \E p \in PathsOf(loaded) : on' = DigestOf[p]
      BY <2>1, <2>3 DEF Waited
    <3> QED
      BY <1>1, <1>2, <2>3, <3>1 DEF WalkInv, Walking, Ends
  <2> QED
    BY <2>2, <2>3
<1>4. CASE Pull
  <2>1. at' \in Ends \/ UNCHANGED <<at, on>>
    BY <1>4 DEF Pull, Fails, MoveTo, Ends
  <2> QED
    BY <1>1, <1>2, <2>1 DEF WalkInv, Walking, Ends
<1> QED
  BY <1>3, <1>4

\* The includes of what was parsed are asked for next.
LEMMA WalkLoad == ASSUME WalkInv, Load PROVE WalkInv'
<1>1. at = "load" /\ UNCHANGED <<seen, accessed, pending, used>>
  BY DEF Load, cacheVars, queueVars
<1>2. Walking /\ children = <<>> /\ paths = {} /\ on \in seen /\ on \in ToSet(Order)
  BY <1>1 DEF WalkInv, Walking, Ends
<1>3. CASE IsCached(on) /\ file[on] = "whole"
  <2>1. /\ loaded' = loaded \cup {on} /\ children' = Includes[on] /\ at' = "next"
        /\ paths' = PathsOf(Processed(loaded')) \ PathsOf(Processed(loaded))
    BY <1>3 DEF Load, MoveTo
  <2>2. ToSet(Includes[on]) \subseteq ToSet(Order) /\ Root \notin ToSet(Includes[on])
    BY <1>2, OrderIs
  <2>3. Root \in seen
    BY <1>2 DEF Walking, ToSet
  <2>4. \A i \in loaded : ToSet(Includes[i]) \subseteq seen
    BY <1>2 DEF Walking, ToSet
  <2>5. \A p \in PathsOf(Processed(loaded)) : DigestOf[p] \in accessed
    BY <1>1, <1>2 DEF Walking
  <2> QED
    BY <1>1, <1>2, <2>1, <2>2, <2>3, <2>4, <2>5 DEF WalkInv, Walking
<1>4. CASE ~(IsCached(on) /\ file[on] = "whole")
  BY <1>4 DEF Load, Fails, MoveTo, WalkInv, Ends
<1> QED
  BY <1>3, <1>4

\* A path is mapped.
LEMMA WalkMap == ASSUME WalkInv, Map PROVE WalkInv'
<1>1. at = "map" /\ UNCHANGED <<children, paths, seen, loaded, accessed, pending, used>>
      /\ (at' \in {"next"} \cup Ends \/ UNCHANGED <<at, on>>)
  BY DEF Map, Fails, MoveTo, Ends, cacheVars, queueVars
<1>2. Walking /\ Root \notin ToSet(children)
  BY <1>1, WalkGoes DEF WalkInv, Ends
<1> QED
  BY <1>1, <1>2 DEF WalkInv, Walking, Ends

\* When every .isolated file that was asked for is parsed, they are those of the tree,
\* and the files they hold were all asked for.
LEMMA WalkIsOver ==
    ASSUME Walking, seen = loaded, children = <<>>, paths = {}, at # "add"
    PROVE  \A p \in PathsOf(loaded) : DigestOf[p] \in accessed
<1>1. Root \in loaded /\ loaded \subseteq ToSet(Order) /\ \A i \in loaded : ToSet(Includes[i]) \subseteq loaded
  BY DEF Walking, ToSet
<1>2. ToSet(Order) \subseteq loaded
  BY <1>1, OrderIs
<1>3. loaded \subseteq Processed(loaded)
  <2> SUFFICES ASSUME NEW i \in loaded PROVE i \in Processed(loaded)
    OBVIOUS
  <2>1. Order \in Seq(Isolateds)
    BY OrderIs
  <2>2. DOMAIN Order = 1 .. Len(Order) /\ Len(Order) \in Nat
    BY <2>1
  <2>3. PICK k \in DOMAIN Order : i = Order[k]
    BY <1>1 DEF ToSet
  <2>4. \A m \in 1 .. k : m \in DOMAIN Order
    BY <2>2
  <2>5. \A m \in 1 .. k : Order[m] \in loaded
    BY <1>2, <2>4 DEF ToSet
  <2> QED
    BY <2>3, <2>5 DEF Processed
<1>4. PathsOf(loaded) \subseteq PathsOf(Processed(loaded))
  BY <1>3 DEF PathsOf
<1> QED
  BY <1>4 DEF Walking

-----------------------------------------------------------------------------
(* What is read.                                                           *)

\* An .isolated file of the cache is whole, and so is a data file that was asked for.
LEMMA ReadStep ==
    ASSUME Inv, UseInv, FileInv, AskedInv, WalkInv, WhatIsReadIsWhole, Load \/ Map
    PROVE  WhatIsReadIsWhole'
<1>1. CASE Load
  <2>1. on \in Isolateds
    BY <1>1 DEF Load, Inv, PlaceInv
  <2>2. read' = read \/ (on \in ToSet(lru) /\ read' = read \cup {file[on]})
    BY <1>1 DEF Load, IsCached, Reads
  <2> QED
    BY <2>1, <2>2 DEF FileInv, WhatIsReadIsWhole
<1>2. CASE Map
  <2>1. at = "map" /\ at \notin Ends
    BY <1>2 DEF Map, Ends
  <2>2. /\ Walking /\ seen = loaded /\ children = <<>> /\ paths = {}
        /\ \E p \in PathsOf(loaded) : on = DigestOf[p]
    BY <2>1 DEF WalkInv, Walking
  <2>3. on \in accessed
    BY <2>1, <2>2, WalkIsOver
  <2>4. read' = read \/ (on \in ToSet(lru) /\ read' = read \cup {file[on]})
    BY <1>2 DEF Map, IsCached, Reads
  <2>5. on \in ToSet(lru) => on \in used
    BY <2>1, <2>3 DEF AskedInv
  <2> QED
    BY <2>4, <2>5 DEF FileInv, WhatIsReadIsWhole
<1> QED
  BY <1>1, <1>2

\* A task that writes to a data file does it before the process uses it.
LEMMA DamageKeeps ==
    ASSUME KindsApart, UseInv, FileInv, WalkInv, NEW d \in Digests, Damage(d)
    PROVE  FileInv'
<1>1. /\ d \in Files /\ d \in ToSet(lru) /\ at = "next" /\ children = <<Root>>
      /\ file' = [file EXCEPT ![d] = "broken"]
      /\ UNCHANGED <<lru, saved, used, task, pending, fetched, at, on>>
  BY DEF Damage, queueVars, poolVars, mainVars
<1>2. d \notin Isolateds /\ used = {}
  BY <1>1 DEF KindsApart, WalkInv, Walking, Ends, ToSet
<1>3. Kept' = Kept /\ ToSet(saved) \subseteq Digests /\ ToSet(lru) \subseteq Digests
  BY <1>1 DEF Kept, UseInv, ToSet
<1>4. \A e \in Digests : file'[e] = IF e = d THEN "broken" ELSE file[e]
  BY <1>1 DEF FileInv
<1>5. task[d].at = "none"
  BY <1>1 DEF FileInv, Kept
<1>6. file' \in [Digests -> {"none", "broken", "whole"}]
  BY <1>1 DEF FileInv
<1>7. \A e \in Digests : task'[e].at = "written" => file'[e] = "whole"
  BY <1>1, <1>4, <1>5 DEF FileInv
<1>8. \A e \in ToSet(lru') : file'[e] # "none" /\ (e \in Isolateds \cup used' => file'[e] = "whole")
  BY <1>1, <1>2, <1>3, <1>4 DEF FileInv
<1>9. \A e \in ToSet(saved') \cap Isolateds : file'[e] # "broken"
  BY <1>1, <1>2, <1>3, <1>4 DEF FileInv
<1> QED
  BY <1>1, <1>3, <1>6, <1>7, <1>8, <1>9 DEF FileInv

\* What the process finds in the cache, asks for, walks and reads.
ReadInv == FileInv /\ AskedInv /\ WalkInv /\ WhatIsReadIsWhole

\* A process starts on the cache the last one left.
LEMMA ReadStarts ==
    ASSUME FileInv', Restart
    PROVE  ReadInv'
<1>1. /\ children' = <<Root>> /\ seen' = {} /\ loaded' = {} /\ pending' = {} /\ used' = {}
      /\ at' = "next" /\ accessed' = {} /\ read' = {}
  BY DEF Restart, Start
<1>2. WalkInv'
  BY <1>1, NothingIsWalked DEF WalkInv, Walking
<1>3. AskedInv' /\ WhatIsReadIsWhole'
  BY <1>1 DEF AskedInv, WhatIsReadIsWhole
<1> QED
  BY <1>2, <1>3 DEF ReadInv

\* A step of the main thread.
LEMMA ReadMain == ASSUME Inv, UseInv, ReadInv, MainStep \/ TaskDone PROVE ReadInv'
<1>1. FileInv'
  BY FileMain, FileAdd, FileTouch, FileEvict, FileExit DEF ReadInv, MainStep
<1>2. CASE Exit
  <2>1. at' \in Ends /\ pending' = pending /\ accessed' = accessed /\ read' = read
    BY <1>2 DEF Exit, MoveTo, Ends, queueVars
  <2> QED
    BY <1>1, <2>1 DEF ReadInv, AskedInv, WalkInv, WhatIsReadIsWhole, Ends
<1>3. CASE Close \/ TaskDone
  <2>1. /\ UNCHANGED <<children, paths, seen, loaded, pending, accessed, used, read>>
        /\ UNCHANGED <<at, on>> \/ at' \in Ends
    BY <1>3 DEF Close, TaskDone, MoveTo, Ends, cacheVars, queueVars, mainVars
  <2>2. WalkInv'
    BY <2>1, WalkStays DEF ReadInv, WalkInv
  <2>3. AskedInv'
    BY <1>3, AskedMain DEF ReadInv
  <2> QED
    BY <1>1, <2>1, <2>2, <2>3 DEF ReadInv, WhatIsReadIsWhole
<1>4. CASE Retrieve \/ PickPath \/ Add \/ Touch \/ Evict \/ Wait \/ Pull \/ Load \/ Map
  <2>1. AskedInv'
    BY <1>4, AskedMain, AskedAdd, AskedLook DEF ReadInv
  <2>2. WalkInv'
    BY <1>4, WalkRetrieve, WalkPickPath, WalkAdd, WalkWait, WalkLoad, WalkMap DEF ReadInv
  <2>3. WhatIsReadIsWhole'
    <3>1. CASE Load \/ Map
      BY <3>1, ReadStep DEF ReadInv
    <3>2. CASE ~(Load \/ Map)
      <4>1. read' = read
        BY <1>4, <3>2 DEF Retrieve, PickPath, Add, Touch, Evict, Wait, Pull
      <4> QED
        BY <4>1 DEF ReadInv, WhatIsReadIsWhole
    <3> QED
      BY <3>1, <3>2
  <2> QED
    BY <1>1, <2>1, <2>2, <2>3 DEF ReadInv
<1> QED
  BY <1>2, <1>3, <1>4 DEF MainStep

\* A step of a thread of the pool.
LEMMA ReadTask ==
    ASSUME Inv, UseInv, ReadInv, NEW d \in Digests,
           TaskStep(d) \/ \E again \in BOOLEAN : TaskFails(d, again)
    PROVE  ReadInv'
<1>1. FileInv'
  BY FileTask, FileAddToCache DEF ReadInv, TaskStep
<1>2. AskedInv'
  BY AskedTask DEF ReadInv
<1>3. /\ UNCHANGED <<at, on, children, paths, seen, loaded, accessed, pending, read>>
      /\ used' = used \/ pending # {}
  <2>1. CASE AddToCache(d)
    <3>1. task[d].at # "none" /\ UNCHANGED <<queueVars, mainVars>>
      BY <2>1, AddedIs
    <3>2. d \in pending
      BY <3>1 DEF Inv, PendingInv
    <3> QED
      BY <3>1, <3>2 DEF queueVars, mainVars
  <2>2. CASE ~AddToCache(d)
    BY <2>2 DEF TaskStep, Begin, StartWriting, FinishWriting, TaskFails, cacheVars, queueVars, mainVars
  <2> QED
    BY <2>1, <2>2
<1>4. WalkInv' /\ WhatIsReadIsWhole'
  BY <1>3, WalkStays DEF ReadInv, WhatIsReadIsWhole
<1> QED
  BY <1>1, <1>2, <1>4 DEF ReadInv

-----------------------------------------------------------------------------
(* Theorems.                                                               *)

\* For any tree, cache, disk, number of threads, retries and processes, each digest
\* has a task or an answer at most, and the count that Queue.join() looks at is
\* that of the tasks.
THEOREM InvHolds == Spec => []Inv
<1>1. Inv /\ [Next]_vars => Inv'
  <2> SUFFICES ASSUME Inv, [Next]_vars PROVE Inv'
    OBVIOUS
  <2>1. CASE MainStep
    BY <2>1, InvRetrieve, InvPickPath, InvAdd, InvTouch, InvEvict, InvWait, InvPull, InvLoad, InvMap,
       InvExit, InvClose DEF MainStep
  <2>2. CASE TaskDone
    BY <2>2, InvTaskDone
  <2>3. ASSUME NEW d \in Digests, TaskStep(d) PROVE Inv'
    BY <2>3, InvGoesOn, InvAddToCache DEF TaskStep
  <2>4. CASE Restart
    BY <2>4, InvRestart
  <2>5. ASSUME NEW d \in Digests, Damage(d) PROVE Inv'
    BY <2>5, InvUnchanged DEF Damage, queueVars, poolVars, mainVars
  <2>6. ASSUME NEW d \in Digests, NEW again \in BOOLEAN, TaskFails(d, again) PROVE Inv'
    BY <2>6, InvTaskFails
  <2>7. CASE UNCHANGED vars
    BY <2>7, InvUnchanged DEF vars, queueVars, poolVars, mainVars
  <2> QED
    BY <2>1, <2>2, <2>3, <2>4, <2>5, <2>6, <2>7 DEF Next, Process
<1> QED
  BY InvInit, <1>1, PTL DEF Spec

\* The thread pool is closed when nothing is left for it to do: no retry is put
\* behind the back of Storage.close(), which would leave it unanswered.
THEOREM ClosedIsOverHolds == Spec => []ClosedIsOver
<1>1. Inv => ClosedIsOver
  BY NotClosed DEF ClosedIsOver
<1> QED
  BY InvHolds, <1>1, PTL

\* At any time a digest is fetched once: a second thread never writes the file of
\* the cache that another one writes (FetchQueue.add).
OneFetch ==
    /\ \A i, j \in 1 .. Len(channel) : channel[i].digest = channel[j].digest => i = j
    /\ \A i \in 1 .. Len(channel) : task[channel[i].digest].at = "none"

\* A digest has one fetch or one answer at a time, for any tree and any failures
\* (FetchQueue.add, FetchQueue.wait).
THEOREM OneFetchHolds == Spec => []OneFetch
<1>1. Inv => OneFetch
  BY DEF Inv, PendingInv, OneFetch
<1> QED
  BY InvHolds, <1>1, PTL

\* For any tree, cache, disk and number of threads: what was used comes last in the
\* cache, and what was dropped before it was used is not asked for again.
THEOREM UseInvHolds == Spec => []UseInv
<1>1. Inv /\ UseInv /\ [Next]_vars => UseInv'
  <2> SUFFICES ASSUME Inv, UseInv, [Next]_vars PROVE UseInv'
    OBVIOUS
  <2>1. CASE MainStep \/ TaskDone
    BY <2>1, UseMain, UseTouch, UseEvict, UseExit DEF MainStep
  <2>2. ASSUME NEW d \in Digests, TaskStep(d) PROVE UseInv'
    BY <2>2, UseTask, UseAddToCache DEF TaskStep
  <2>3. CASE Restart
    BY <2>3, UseRestart
  <2>4. ASSUME NEW d \in Digests, NEW again \in BOOLEAN, TaskFails(d, again) PROVE UseInv'
    BY <2>4, UseTask
  <2>5. CASE (\E d \in Digests : Damage(d)) \/ UNCHANGED vars
    <3>1. UNCHANGED <<lru, saved, used, dropped, task, at, fetched>>
      BY <2>5 DEF Damage, vars, cacheVars, queueVars, poolVars, mainVars
    <3> QED
      BY <3>1, UseStays DEF UseInv
  <2> QED
    BY <2>1, <2>2, <2>3, <2>4, <2>5 DEF Next, Process
<1> QED
  BY UseInit, <1>1, InvHolds, PTL DEF Spec

\* What a process uses is dropped from its cache, if at all, after everything it
\* does not use, whichever process left the cache and whatever fails.
THEOREM UsedGoLastHolds == Spec => []UsedGoLast
<1>1. UseInv => UsedGoLast
  BY DEF UseInv
<1> QED
  BY UseInvHolds, <1>1, PTL

\* For any tree whose .isolated files are not data files too, any cache, disk and number
\* of threads: what the cache has is whole as far as it matters, and what is asked for
\* is what the tree has.
THEOREM ReadInvHolds == ASSUME KindsApart PROVE Spec => []ReadInv
<1>1. Init => ReadInv
  <2> SUFFICES ASSUME Init PROVE ReadInv
    OBVIOUS
  <2>1. /\ children = <<Root>> /\ seen = {} /\ loaded = {} /\ pending = {} /\ used = {}
        /\ at = "next" /\ accessed = {} /\ read = {}
    BY DEF Init
  <2>2. WalkInv
    BY <2>1, WalkStarts
  <2>3. AskedInv /\ WhatIsReadIsWhole
    BY <2>1 DEF AskedInv, WhatIsReadIsWhole
  <2> QED
    BY <2>2, <2>3, FileInit DEF ReadInv
<1>2. Inv /\ UseInv /\ ReadInv /\ [Next]_vars => ReadInv'
  <2> SUFFICES ASSUME Inv, UseInv, ReadInv, [Next]_vars PROVE ReadInv'
    OBVIOUS
  <2>1. CASE MainStep \/ TaskDone
    BY <2>1, ReadMain
  <2>2. ASSUME NEW d \in Digests, TaskStep(d) \/ \E again \in BOOLEAN : TaskFails(d, again)
        PROVE  ReadInv'
    BY <2>2, ReadTask
  <2>3. CASE Restart
    BY <2>3, FileRestart, ReadStarts DEF ReadInv
  <2>4. ASSUME NEW d \in Digests, Damage(d) PROVE ReadInv'
    <3>1. UNCHANGED <<lru, used, at, on, children, paths, seen, loaded, accessed, pending, read>>
      BY <2>4 DEF Damage, queueVars, mainVars
    <3>2. FileInv'
      BY <2>4, DamageKeeps DEF ReadInv
    <3>3. WalkInv' /\ AskedInv' /\ WhatIsReadIsWhole'
      BY <3>1, WalkStays DEF ReadInv, AskedInv, WhatIsReadIsWhole
    <3> QED
      BY <3>2, <3>3 DEF ReadInv
  <2>5. CASE UNCHANGED vars
    <3>1. FileInv'
      BY <2>5 DEF ReadInv, FileInv, Kept, vars, cacheVars, queueVars, poolVars, mainVars
    <3>2. UNCHANGED <<lru, used, at, on, children, paths, seen, loaded, accessed, pending, read>>
      BY <2>5 DEF vars, cacheVars, queueVars, mainVars
    <3>3. WalkInv' /\ AskedInv' /\ WhatIsReadIsWhole'
      BY <3>2, WalkStays DEF ReadInv, AskedInv, WhatIsReadIsWhole
    <3> QED
      BY <3>1, <3>3 DEF ReadInv
  <2> QED
    BY <2>1, <2>2, <2>3, <2>4, <2>5 DEF Next, Process
<1> QED
  BY <1>1, <1>2, InvHolds, UseInvHolds, PTL DEF Spec

\* What is parsed or mapped is what the server sent, for any tree whose .isolated files
\* are not data files too, whichever process died while it wrote to the cache, and
\* whatever was done to the data files since.
THEOREM WhatIsReadIsWholeHolds == ASSUME KindsApart PROVE Spec => []WhatIsReadIsWhole
<1>1. ReadInv => WhatIsReadIsWhole
  BY DEF ReadInv
<1> QED
  BY ReadInvHolds, <1>1, PTL
=============================================================================

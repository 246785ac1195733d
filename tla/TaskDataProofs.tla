---------------------------- MODULE TaskDataProofs ----------------------------
(***************************************************************************)
(* Theorems about what the Swarming server keeps of tasks next to their    *)
(* entities: their output, in chunks, and the queues that bots look at     *)
(* for work, in caches.                                                    *)
(*                                                                         *)
(* 1. The output.  What _output_append() does to a chunk, that the gaps    *)
(*    are what is missing, and that what is read of a stream is its        *)
(*    beginning, for chunks and packets of any size and number.  That the  *)
(*    chunks get_output_async() joins have a value, and which one, is      *)
(*    shown with the least number for which it would not be so.            *)
(* 2. The queues.  For any bots and kinds of tasks, and any number of      *)
(*    tasks of the queue that overlap: a kind somebody waits for is        *)
(*    known, and so are the bots that can run it.  The invariant says of   *)
(*    each task of the queue, and of each poll, what it has yet to write.  *)
(***************************************************************************)
EXTENDS OutputStream, TaskQueues, SequenceTheorems, FiniteSetTheorems, TLAPS

\* A gap is a nonempty interval of offsets.
Gap == {g \in Nat \X Nat : g[1] < g[2]}

\* Is offset i in one of the gaps of gs?
InGaps(i, gs) == \E g \in gs : g[1] <= i /\ i < g[2]

\* What is left of a gap are gaps, and none when the write covers it.
LEMMA StripGivesGaps ==
    ASSUME NEW g \in Gap, NEW start \in Nat, NEW end \in Nat, start < end
    PROVE  Strip(g, start, end) \subseteq Gap
BY DEF Strip, Gap

\* An offset is in one of two gaps.
LEMMA InTwoGaps ==
    ASSUME NEW i, NEW a, NEW b, NEW c, NEW d
    PROVE  InGaps(i, {<<a, b>>, <<c, d>>}) <=> (a <= i /\ i < b) \/ (c <= i /\ i < d)
BY DEF InGaps

\* What is left of a gap after a write are the offsets of the gap that were not
\* written: the four cases of _output_append() miss none and keep no other.
LEMMA StripKeepsTheRest ==
    ASSUME NEW g \in Gap, NEW start \in Nat, NEW end \in Nat, start < end,
           NEW i \in Nat
    PROVE  InGaps(i, Strip(g, start, end))
              <=> g[1] <= i /\ i < g[2] /\ ~(start <= i /\ i < end)
<1> DEFINE s == IF start <= g[1] /\ g[1] <= end /\ end <= g[2] THEN end ELSE g[1]
           e == IF s <= start /\ start <= g[2] /\ g[2] <= end THEN start ELSE g[2]
           rest == g[1] <= i /\ i < g[2] /\ ~(start <= i /\ i < end)
<1>1. g[1] \in Nat /\ g[2] \in Nat /\ g[1] < g[2]
  BY DEF Gap
<1>2. CASE start <= s /\ s <= end /\ start <= e /\ e <= end
  <2>1. Strip(g, start, end) = {}
    BY <1>2 DEF Strip
  <2>2. ~rest
    BY <1>1, <1>2
  <2>3. QED
    BY <2>1, <2>2 DEF InGaps
<1>3. CASE /\ ~(start <= s /\ s <= end /\ start <= e /\ e <= end)
           /\ s < start /\ start < e /\ s <= end /\ end <= e
  <2>1. Strip(g, start, end) = {<<s, start>>, <<end, e>>}
    BY <1>3 DEF Strip
  <2>2. rest <=> (s <= i /\ i < start) \/ (end <= i /\ i < e)
    BY <1>1, <1>3
  <2>3. InGaps(i, {<<s, start>>, <<end, e>>})
           <=> (s <= i /\ i < start) \/ (end <= i /\ i < e)
    <3> HIDE DEF s, e
    <3>1. QED
      BY InTwoGaps
  <2>4. QED
    <3> HIDE DEF s, e
    <3>1. QED
      BY <2>1, <2>2, <2>3
<1>4. CASE /\ ~(start <= s /\ s <= end /\ start <= e /\ e <= end)
           /\ ~(s < start /\ start < e /\ s <= end /\ end <= e)
  <2>1. Strip(g, start, end) = {<<s, e>>}
    BY <1>4 DEF Strip
  <2>2. rest <=> s <= i /\ i < e
    BY <1>1, <1>4
  <2>3. QED
    BY <2>1, <2>2 DEF InGaps
<1>5. QED
  BY <1>2, <1>3, <1>4

\* After a write the gaps of a chunk are the offsets that were in a gap, or were
\* skipped between its end and the write, and were not written now: the bytes
\* that _output_append() says are missing.
THEOREM GapsAfterAreTheRest ==
    ASSUME NEW old \in Seq(Nat), NEW gs \in SUBSET Gap,
           NEW start \in Nat, NEW end \in Nat, start < end
    PROVE  /\ GapsAfter(old, gs, start, end) \subseteq Gap
           /\ \A i \in Nat :
                 InGaps(i, GapsAfter(old, gs, start, end))
                    <=> /\ InGaps(i, gs) \/ (Len(old) <= i /\ i < start)
                        /\ ~(start <= i /\ i < end)
<1> DEFINE opened == IF Len(old) < start THEN {<<Len(old), start>>} ELSE {}
           all == gs \cup opened
<1>1. Len(old) \in Nat
  OBVIOUS
<1>2. all \subseteq Gap
  BY <1>1 DEF Gap
<1>3. \A i \in Nat : InGaps(i, all) <=> InGaps(i, gs) \/ (Len(old) <= i /\ i < start)
  <2>1. CASE Len(old) < start
    <3> DEFINE p == <<Len(old), start>>
    <3>1. all = gs \cup {p}
      BY <2>1
    <3>2. p[1] = Len(old) /\ p[2] = start
      OBVIOUS
    <3> HIDE DEF all, p
    <3>3. \A i : InGaps(i, all) <=> InGaps(i, gs) \/ (p[1] <= i /\ i < p[2])
      BY <3>1, Zenon DEF InGaps
    <3>4. QED
      BY <3>2, <3>3
  <2>2. CASE ~(Len(old) < start)
    <3>1. all = gs
      BY <2>2
    <3>2. \A i \in Nat : ~(Len(old) <= i /\ i < start)
      BY <1>1, <2>2
    <3> HIDE DEF all
    <3>3. QED
      BY <3>1, <3>2
  <2>3. QED
    BY <2>1, <2>2
<1>4. GapsAfter(old, gs, start, end) = UNION {Strip(g, start, end) : g \in all}
  BY DEF GapsAfter
<1> HIDE DEF all
<1>5. GapsAfter(old, gs, start, end) \subseteq Gap
  BY <1>2, <1>4, StripGivesGaps
<1>6. ASSUME NEW i \in Nat
      PROVE  InGaps(i, UNION {Strip(g, start, end) : g \in all})
                <=> \E g \in all : InGaps(i, Strip(g, start, end))
  BY DEF InGaps
<1>7. ASSUME NEW i \in Nat
      PROVE  InGaps(i, GapsAfter(old, gs, start, end))
                <=> InGaps(i, all) /\ ~(start <= i /\ i < end)
  <2>1. \A g \in all : InGaps(i, Strip(g, start, end))
            <=> g[1] <= i /\ i < g[2] /\ ~(start <= i /\ i < end)
    BY <1>2, StripKeepsTheRest
  <2>2. InGaps(i, all) <=> \E g \in all : g[1] <= i /\ i < g[2]
    BY DEF InGaps
  <2>3. QED
    BY <1>4, <1>6, <2>1, <2>2
<1>8. QED
  BY <1>3, <1>5, <1>7

-----------------------------------------------------------------------------
(* 1. The output.  Gaps do not overlap                                     *)

\* Two gaps do not overlap.
Apart(g, h) == g = h \/ g[2] <= h[1] \/ h[2] <= g[1]

\* What is left of a gap lies in it, in pieces that do not overlap.
LEMMA StripIsInside ==
    ASSUME NEW g \in Gap, NEW start \in Nat, NEW end \in Nat, start < end,
           NEW x \in Strip(g, start, end)
    PROVE  /\ g[1] <= x[1] /\ x[2] <= g[2]
           /\ \A y \in Strip(g, start, end) : Apart(x, y)
<1> DEFINE s == IF start <= g[1] /\ g[1] <= end /\ end <= g[2] THEN end ELSE g[1]
           e == IF s <= start /\ start <= g[2] /\ g[2] <= end THEN start ELSE g[2]
<1>1. g[1] \in Nat /\ g[2] \in Nat /\ g[1] < g[2]
  BY DEF Gap
<1>2. /\ s \in Nat /\ e \in Nat /\ g[1] <= s /\ e <= g[2]
      /\ Strip(g, start, end) = IF start <= s /\ s <= end /\ start <= e /\ e <= end THEN {}
           ELSE IF s < start /\ start < e /\ s <= end /\ end <= e
                THEN {<<s, start>>, <<end, e>>} ELSE {<<s, e>>}
  BY <1>1 DEF Strip
<1> HIDE DEF s, e
<1>3. CASE s < start /\ start < e /\ s <= end /\ end <= e
  <2>1. Strip(g, start, end) = {<<s, start>>, <<end, e>>}
    BY <1>2, <1>3
  <2> QED
    BY <1>1, <1>2, <1>3, <2>1 DEF Apart
<1>4. CASE ~(s < start /\ start < e /\ s <= end /\ end <= e)
  <2>1. x = <<s, e>> /\ \A y \in Strip(g, start, end) : y = <<s, e>>
    BY <1>2, <1>4
  <2> QED
    BY <1>1, <1>2, <2>1 DEF Apart
<1> QED
  BY <1>3, <1>4

\* Gaps that lie in gaps that do not overlap do not overlap.
LEMMA InsideIsApart ==
    ASSUME NEW g \in Gap, NEW h \in Gap, NEW x \in Gap, NEW y \in Gap, g # h, Apart(g, h),
           g[1] <= x[1], x[2] <= g[2], h[1] <= y[1], y[2] <= h[2]
    PROVE  Apart(x, y)
  BY DEF Gap, Apart

\* A write leaves gaps that do not overlap and that end before the end of the chunk.
LEMMA GapsStayApart ==
    ASSUME NEW old \in Seq(Nat), NEW gs \in SUBSET Gap,
           NEW start \in Nat, NEW end \in Nat, start < end,
           \A g, h \in gs : Apart(g, h), \A g \in gs : g[2] <= Len(old)
    PROVE  /\ \A x, y \in GapsAfter(old, gs, start, end) : Apart(x, y)
           /\ \A x \in GapsAfter(old, gs, start, end) : x[2] <= Len(old) \/ x[2] <= end
<1> DEFINE opened == IF Len(old) < start THEN {<<Len(old), start>>} ELSE {}
           all == gs \cup opened
<1>1. Len(old) \in Nat
  OBVIOUS
<1>2. all \subseteq Gap
  BY <1>1 DEF Gap
<1>3. \A g, h \in all : Apart(g, h)
  BY <1>1 DEF Apart, Gap
<1>4. \A g \in all : g[2] <= Len(old) \/ g[2] <= end
  BY <1>1
<1>5. GapsAfter(old, gs, start, end) = UNION {Strip(g, start, end) : g \in all}
  BY DEF GapsAfter
<1> HIDE DEF all
<1>6. ASSUME NEW x \in GapsAfter(old, gs, start, end), NEW y \in GapsAfter(old, gs, start, end)
      PROVE  Apart(x, y) /\ (x[2] <= Len(old) \/ x[2] <= end)
  <2>1. PICK g \in all : x \in Strip(g, start, end)
    BY <1>5, <1>6
  <2>2. PICK h \in all : y \in Strip(h, start, end)
    BY <1>5, <1>6
  <2>3. g \in Gap /\ h \in Gap /\ x \in Gap /\ y \in Gap
    BY <1>2, <2>1, <2>2, StripGivesGaps
  <2>4. g[1] <= x[1] /\ x[2] <= g[2] /\ h[1] <= y[1] /\ y[2] <= h[2]
    BY <2>1, <2>2, <2>3, StripIsInside
  <2>5. Apart(x, y)
    <3>1. CASE g = h
      BY <2>1, <2>2, <2>3, <3>1, StripIsInside
    <3>2. CASE g # h
      BY <1>3, <2>3, <2>4, <3>2, InsideIsApart
    <3> QED
      BY <3>1, <3>2
  <2>6. x[2] <= Len(old) \/ x[2] <= end
    <3>1. x[2] \in Nat /\ g[2] \in Nat
      BY <2>3 DEF Gap
    <3>2. g[2] <= Len(old) \/ g[2] <= end
      BY <1>4
    <3> QED
      BY <1>1, <2>4, <3>1, <3>2
  <2> QED
    BY <2>5, <2>6
<1> QED
  BY <1>6

-----------------------------------------------------------------------------
(* The content of a chunk                                                  *)

\* The beginning of a chunk.
LEMMA PrefixIs ==
    ASSUME NEW s \in Seq(Nat), NEW n \in Nat, n <= Len(s)
    PROVE  /\ SubSeq(s, 1, n) \in Seq(Nat) /\ Len(SubSeq(s, 1, n)) = n
           /\ \A i \in 1 .. n : SubSeq(s, 1, n)[i] = s[i]
<1>1. Len(s) \in Nat
  BY LenProperties
<1>2. \A i \in 1 .. n : s[i] \in Nat
  BY <1>1, ElementOfSeq
<1>3. /\ SubSeq(s, 1, n) \in Seq(Nat)
      /\ Len(SubSeq(s, 1, n)) = IF 1 <= n THEN n - 1 + 1 ELSE 0
      /\ \A i \in 1 .. n - 1 + 1 : SubSeq(s, 1, n)[i] = s[1 + i - 1]
  BY <1>2, SubSeqProperties
<1> DEFINE p == SubSeq(s, 1, n)
<1> HIDE DEF p
<1>4. Len(p) = n /\ \A i \in 1 .. n : p[i] = s[i]
  <2>1. n - 1 + 1 = n /\ \A i \in 1 .. n : 1 + i - 1 = i
    OBVIOUS
  <2> QED
    BY <1>3, <2>1 DEF p
<1> QED
  BY <1>3, <1>4 DEF p

\* The end of a chunk.
LEMMA SuffixIs ==
    ASSUME NEW s \in Seq(Nat), NEW n \in Nat
    PROVE  LET q == SubSeq(s, n + 1, Len(s))
           IN  /\ q \in Seq(Nat)
               /\ Len(q) = IF n < Len(s) THEN Len(s) - n ELSE 0
               /\ \A i \in 1 .. Len(s) - n : q[i] = s[n + i]
<1> DEFINE q == SubSeq(s, n + 1, Len(s))
<1>1. Len(s) \in Nat
  BY LenProperties
<1>2. \A i \in (n + 1) .. Len(s) : s[i] \in Nat
  BY <1>1, ElementOfSeq
<1>3. /\ q \in Seq(Nat)
      /\ Len(q) = IF n + 1 <= Len(s) THEN Len(s) - (n + 1) + 1 ELSE 0
      /\ \A i \in 1 .. Len(s) - (n + 1) + 1 : q[i] = s[n + 1 + i - 1]
  BY <1>1, <1>2, SubSeqProperties
<1> HIDE DEF q
<1>5. ASSUME NEW i \in 1 .. Len(s) - n PROVE q[i] = s[n + i]
  <2>1. i \in 1 .. Len(s) - (n + 1) + 1 /\ n + 1 + i - 1 = n + i
    BY <1>1
  <2> QED
    BY <1>3, <2>1
<1>6. Len(q) = IF n < Len(s) THEN Len(s) - n ELSE 0
  BY <1>1, <1>3
<1> QED
  BY <1>3, <1>5, <1>6 DEF q

\* Three parts in a row.
LEMMA ThreePartsAre ==
    ASSUME NEW a \in Seq(Nat), NEW b \in Seq(Nat), NEW c \in Seq(Nat)
    PROVE  LET f == a \o b \o c
           IN  /\ f \in Seq(Nat) /\ Len(f) = Len(a) + Len(b) + Len(c)
               /\ \A i \in 1 .. Len(f) :
                     f[i] = IF i <= Len(a) THEN a[i]
                            ELSE IF i <= Len(a) + Len(b) THEN b[i - Len(a)]
                            ELSE c[i - (Len(a) + Len(b))]
<1> DEFINE g == a \o b
           f == g \o c
<1>1. Len(a) \in Nat /\ Len(b) \in Nat /\ Len(c) \in Nat
  BY LenProperties
<1>2. /\ g \in Seq(Nat) /\ Len(g) = Len(a) + Len(b)
      /\ \A i \in 1 .. Len(a) + Len(b) : g[i] = IF i <= Len(a) THEN a[i] ELSE b[i - Len(a)]
  BY ConcatProperties
<1> HIDE DEF g
<1>g. g \in Seq(Nat)
  BY <1>2
<1>3. /\ f \in Seq(Nat) /\ Len(f) = Len(g) + Len(c)
      /\ \A i \in 1 .. Len(g) + Len(c) : f[i] = IF i <= Len(g) THEN g[i] ELSE c[i - Len(g)]
  BY <1>g, ConcatProperties
<1> HIDE DEF f
<1>4. ASSUME NEW i \in 1 .. Len(f)
      PROVE  f[i] = IF i <= Len(a) THEN a[i]
                    ELSE IF i <= Len(a) + Len(b) THEN b[i - Len(a)]
                    ELSE c[i - (Len(a) + Len(b))]
  <2>1. /\ i \in 1 .. Len(g) + Len(c) /\ Len(g) = Len(a) + Len(b)
        /\ i \in Nat /\ 1 <= i
    BY <1>1, <1>2, <1>3
  <2>2. f[i] = IF i <= Len(g) THEN g[i] ELSE c[i - Len(g)]
    BY <1>3, <2>1
  <2>3. CASE i <= Len(g)
    <3>1. i \in 1 .. Len(a) + Len(b)
      BY <1>1, <2>1, <2>3
    <3>2. g[i] = IF i <= Len(a) THEN a[i] ELSE b[i - Len(a)]
      BY <1>2, <3>1
    <3> QED
      BY <1>1, <2>1, <2>2, <2>3, <3>2
  <2>4. CASE ~(i <= Len(g))
    BY <1>1, <2>1, <2>2, <2>4
  <2> QED
    BY <2>3, <2>4
<1> QED
  BY <1>2, <1>3, <1>4 DEF f, g

\* What is skipped is blank.
LEMMA PaddedIs ==
    ASSUME NEW old \in Seq(Nat), NEW start \in Nat, Len(old) < start
    PROVE  LET padded == old \o Blank(start - Len(old))
           IN  /\ padded \in Seq(Nat) /\ Len(padded) = start
               /\ \A i \in 1 .. start : padded[i] = IF i <= Len(old) THEN old[i] ELSE 0
<1> DEFINE n == start - Len(old)
           padded == old \o Blank(n)
<1>1. Len(old) \in Nat /\ n \in Nat /\ Len(old) + n = start
  BY LenProperties
<1> HIDE DEF n
<1>2. Blank(n) \in Seq(Nat) /\ Len(Blank(n)) = n /\ \A i \in 1 .. n : Blank(n)[i] = 0
  BY <1>1 DEF Blank
<1>3. /\ padded \in Seq(Nat) /\ Len(padded) = Len(old) + Len(Blank(n))
      /\ \A i \in 1 .. Len(old) + Len(Blank(n)) :
            padded[i] = IF i <= Len(old) THEN old[i] ELSE Blank(n)[i - Len(old)]
  BY <1>2, ConcatProperties
<1> HIDE DEF padded
<1>4. ASSUME NEW i \in 1 .. start, ~(i <= Len(old)) PROVE padded[i] = 0
  <2>1. i - Len(old) \in 1 .. n
    BY <1>1, <1>4
  <2> QED
    BY <1>1, <1>2, <1>3, <1>4, <2>1
<1> QED
  BY <1>1, <1>2, <1>3, <1>4 DEF padded, n

\* f is old with new written over it from start to end, blank where that skips.
Overwritten(f, old, start, end, new) ==
    /\ f \in Seq(Nat)
    /\ Len(f) = IF end < Len(old) THEN Len(old) ELSE end
    /\ \A i \in 1 .. Len(f) :
          f[i] = IF start < i /\ i <= end THEN new[i - start]
                 ELSE IF i <= Len(old) THEN old[i] ELSE 0

\* The bytes before and after a write stay, and what it skips is blank.
LEMMA ContentAfterIs ==
    ASSUME NEW old \in Seq(Nat), NEW start \in Nat, NEW new \in Seq(Nat), Len(new) > 0
    PROVE  Overwritten(ContentAfter(old, start, new), old, start, start + Len(new), new)
<1> DEFINE padded == IF Len(old) < start THEN old \o Blank(start - Len(old)) ELSE old
           end == start + Len(new)
           before == SubSeq(padded, 1, start)
           after == SubSeq(padded, end + 1, Len(padded))
           f == ContentAfter(old, start, new)
<1>1. Len(old) \in Nat /\ Len(new) \in Nat /\ end \in Nat /\ start < end
  BY LenProperties
<1>2. /\ padded \in Seq(Nat)
      /\ Len(padded) = IF Len(old) < start THEN start ELSE Len(old)
      /\ \A i \in 1 .. Len(padded) : padded[i] = IF i <= Len(old) THEN old[i] ELSE 0
  <2>1. CASE Len(old) < start
    BY <2>1, PaddedIs
  <2>2. CASE ~(Len(old) < start)
    BY <1>1, <2>2
  <2> QED
    BY <2>1, <2>2
<1>3. f = before \o new \o after
  BY DEF ContentAfter
<1>4. end = start + Len(new)
  OBVIOUS
<1> HIDE DEF padded, end, f
<1>5. Len(padded) \in Nat /\ start <= Len(padded)
  BY <1>1, <1>2
<1>6. /\ before \in Seq(Nat) /\ Len(before) = start
      /\ \A i \in 1 .. start : before[i] = padded[i]
  BY <1>2, <1>5, PrefixIs
<1>7. /\ after \in Seq(Nat)
      /\ Len(after) = IF end < Len(padded) THEN Len(padded) - end ELSE 0
      /\ \A i \in 1 .. Len(padded) - end : after[i] = padded[end + i]
  BY <1>1, <1>2, SuffixIs
<1> HIDE DEF before, after
<1>p. before \in Seq(Nat) /\ after \in Seq(Nat)
  BY <1>6, <1>7
<1>f. /\ f \in Seq(Nat) /\ Len(f) = Len(before) + Len(new) + Len(after)
      /\ \A i \in 1 .. Len(f) :
            f[i] = IF i <= Len(before) THEN before[i]
                   ELSE IF i <= Len(before) + Len(new) THEN new[i - Len(before)]
                   ELSE after[i - (Len(before) + Len(new))]
  BY <1>3, <1>p, ThreePartsAre
<1>8. /\ f \in Seq(Nat) /\ Len(f) = start + Len(new) + Len(after)
      /\ \A i \in 1 .. Len(f) :
            f[i] = IF i <= start THEN before[i]
                   ELSE IF i <= start + Len(new) THEN new[i - start]
                   ELSE after[i - (start + Len(new))]
  BY <1>6, <1>f
<1>9. Len(f) = IF end < Len(old) THEN Len(old) ELSE end
  <2>1. Len(f) = end + Len(after)
    BY <1>4, <1>8
  <2> QED
    BY <1>1, <1>2, <1>7, <2>1
<1>10. ASSUME NEW i \in 1 .. Len(f)
       PROVE  f[i] = IF start < i /\ i <= end THEN new[i - start]
                     ELSE IF i <= Len(old) THEN old[i] ELSE 0
  <2>0. i \in Nat /\ 1 <= i /\ i <= Len(f) /\ Len(f) \in Nat
    BY <1>1, <1>9
  <2>1. CASE i <= start
    <3>1. i \in 1 .. start
      BY <2>0, <2>1
    <3>2. f[i] = before[i]
      BY <1>8, <2>1
    <3>3. before[i] = padded[i]
      BY <1>6, <3>1
    <3>4. f[i] = padded[i]
      BY <3>2, <3>3
    <3> QED
      BY <1>2, <1>5, <2>0, <2>1, <3>4
  <2>2. CASE start < i /\ i <= end
    BY <1>4, <1>8, <2>0, <2>2
  <2>3. CASE end < i
    <3>1. i - end \in 1 .. Len(padded) - end /\ i \in 1 .. Len(padded) /\ end + (i - end) = i
      BY <1>1, <1>2, <1>5, <1>9, <2>0, <2>3
    <3>2. f[i] = after[i - end]
      BY <1>1, <1>4, <1>8, <2>0, <2>3
    <3>3. f[i] = padded[i]
      BY <1>7, <3>1, <3>2
    <3> QED
      BY <1>1, <1>2, <2>3, <3>1, <3>3
  <2> QED
    BY <1>1, <2>0, <2>1, <2>2, <2>3
<1> QED
  BY <1>8, <1>9, <1>10 DEF f, end, Overwritten

-----------------------------------------------------------------------------
(* One chunk                                                               *)

\* A chunk whose first byte has index base, once the indices of w are written:
\* its gaps do not overlap and are what is missing, the rest is what was printed, and
\* its last byte was written.
Faithful(ck, gs, base, w) ==
    /\ ck \in Seq(Nat) /\ Len(ck) <= ChunkSize
    /\ gs \subseteq Gap
    /\ \A g \in gs : g[2] <= Len(ck)
    /\ \A g, h \in gs : Apart(g, h)
    /\ \A i \in 0 .. (ChunkSize - 1) : base + i \in w <=> i < Len(ck) /\ ~InGaps(i, gs)
    /\ Len(ck) > 0 => base + (Len(ck) - 1) \in w
    /\ \A i \in 1 .. Len(ck) : ck[i] = IF InGaps(i - 1, gs) THEN 0 ELSE base + i

\* The bytes of a packet that go to a chunk.
LEMMA PrintedIs ==
    ASSUME NEW base \in Nat, NEW start \in Nat, NEW end \in Nat, start < end
    PROVE  LET new == Printed(base + start, base + end)
           IN  /\ new \in Seq(Nat) /\ Len(new) = end - start
               /\ \A i \in 1 .. end - start : new[i] = base + start + i
<1> DEFINE n == (base + end) - (base + start)
           m == end - start
<1>1. n = m /\ m \in Nat
  OBVIOUS
<1> HIDE DEF n, m
<1>2. [i \in 1 .. m |-> base + start + i] \in Seq(Nat)
  BY <1>1
<1>3. Printed(base + start, base + end) = [i \in 1 .. m |-> base + start + i]
  BY <1>1 DEF Printed, n
<1>4. Len([i \in 1 .. m |-> base + start + i]) = m
  BY <1>1
<1> QED
  BY <1>2, <1>3, <1>4 DEF m

\* A write leaves a faithful chunk faithful.
LEMMA WriteKeepsFaithful ==
    ASSUME NEW base \in Nat, NEW old, NEW gs, NEW w, NEW w2,
           NEW start \in Nat, NEW end \in Nat, start < end, end <= ChunkSize,
           Faithful(old, gs, base, w),
           \A i \in 0 .. (ChunkSize - 1) :
              base + i \in w2 <=> base + i \in w \/ (start <= i /\ i < end)
    PROVE  Faithful(ContentAfter(old, start, Printed(base + start, base + end)),
                    GapsAfter(old, gs, start, end), base, w2)
<1> DEFINE new == Printed(base + start, base + end)
           f == ContentAfter(old, start, new)
           left == GapsAfter(old, gs, start, end)
<1>0. ChunkSize \in Nat
  BY SizesAssumption
<1>1. /\ old \in Seq(Nat) /\ Len(old) \in Nat /\ Len(old) <= ChunkSize
      /\ gs \in SUBSET Gap
      /\ \A g \in gs : g[2] <= Len(old)
      /\ \A g, h \in gs : Apart(g, h)
  BY LenProperties DEF Faithful
<1>2. /\ new \in Seq(Nat) /\ Len(new) = end - start
      /\ \A i \in 1 .. end - start : new[i] = base + start + i
  BY PrintedIs
<1>3. /\ left \subseteq Gap
      /\ \A i \in Nat : InGaps(i, left) <=> /\ InGaps(i, gs) \/ (Len(old) <= i /\ i < start)
                                            /\ ~(start <= i /\ i < end)
  BY <1>1, GapsAfterAreTheRest
<1>4. /\ \A x, y \in left : Apart(x, y)
      /\ \A x \in left : x[2] <= Len(old) \/ x[2] <= end
  BY <1>1, GapsStayApart
<1> HIDE DEF new
<1>5. Len(new) > 0 /\ start + Len(new) = end
  BY <1>2
<1>6. /\ f \in Seq(Nat)
      /\ Len(f) = IF end < Len(old) THEN Len(old) ELSE end
      /\ \A i \in 1 .. Len(f) :
            f[i] = IF start < i /\ i <= end THEN new[i - start]
                   ELSE IF i <= Len(old) THEN old[i] ELSE 0
  <2>1. Overwritten(f, old, start, start + Len(new), new)
    BY <1>1, <1>2, <1>5, ContentAfterIs
  <2> HIDE DEF f, left
  <2> QED
    BY <1>5, <2>1 DEF Overwritten
<1> HIDE DEF f, left
<1>7. Len(f) \in Nat /\ Len(f) <= ChunkSize /\ Len(old) <= Len(f) /\ end <= Len(f)
  BY <1>0, <1>1, <1>6
<1>8. \A x \in left : x[2] <= Len(f)
  BY <1>1, <1>3, <1>4, <1>7 DEF Gap
<1>9. \A i \in Nat : InGaps(i, gs) => i < Len(old)
  BY <1>1 DEF InGaps, Gap
<1>10. ASSUME NEW i \in 0 .. (ChunkSize - 1)
       PROVE  base + i \in w2 <=> i < Len(f) /\ ~InGaps(i, left)
  <2>1. base + i \in w <=> i < Len(old) /\ ~InGaps(i, gs)
    BY DEF Faithful
  <2>2. base + i \in w2 <=> base + i \in w \/ (start <= i /\ i < end)
    OBVIOUS
  <2>3. InGaps(i, left) <=> /\ InGaps(i, gs) \/ (Len(old) <= i /\ i < start)
                            /\ ~(start <= i /\ i < end)
    BY <1>0, <1>3
  <2>4. i \in Nat /\ (InGaps(i, gs) => i < Len(old))
    BY <1>0, <1>9
  <2> QED
    BY <1>1, <1>6, <2>1, <2>2, <2>3, <2>4
<1>11. ASSUME NEW i \in 1 .. Len(f)
       PROVE  f[i] = IF InGaps(i - 1, left) THEN 0 ELSE base + i
  <2>1. i \in Nat /\ 1 <= i /\ i - 1 \in Nat /\ i <= Len(f)
    BY <1>7
  <2>2. InGaps(i - 1, left) <=> /\ InGaps(i - 1, gs) \/ (Len(old) <= i - 1 /\ i - 1 < start)
                                /\ ~(start <= i - 1 /\ i - 1 < end)
    BY <1>3, <2>1
  <2>3. InGaps(i - 1, gs) => i - 1 < Len(old)
    BY <1>9, <2>1
  <2>4. CASE start < i /\ i <= end
    <3>1. f[i] = new[i - start] /\ i - start \in 1 .. end - start
      BY <1>6, <2>1, <2>4
    <3>2. f[i] = base + start + (i - start)
      BY <1>2, <3>1
    <3>3. ~InGaps(i - 1, left)
      BY <2>1, <2>2, <2>4
    <3> QED
      BY <2>1, <3>2, <3>3
  <2>5. CASE ~(start < i /\ i <= end) /\ i <= Len(old)
    <3>1. f[i] = old[i]
      BY <1>6, <2>5
    <3>2. old[i] = IF InGaps(i - 1, gs) THEN 0 ELSE base + i
      BY <1>1, <2>1, <2>5 DEF Faithful
    <3>3. InGaps(i - 1, left) <=> InGaps(i - 1, gs)
      BY <1>1, <2>1, <2>2, <2>5
    <3> QED
      BY <3>1, <3>2, <3>3
  <2>6. CASE ~(start < i /\ i <= end) /\ ~(i <= Len(old))
    <3>1. f[i] = 0
      BY <1>6, <2>6
    <3>2. i <= start
      BY <1>1, <1>6, <2>1, <2>6
    <3>3. InGaps(i - 1, left)
      BY <1>1, <2>1, <2>2, <2>6, <3>2
    <3> QED
      BY <3>1, <3>3
  <2> QED
    BY <2>4, <2>5, <2>6
<1>12. left \subseteq Gap /\ f \in Seq(Nat) /\ Len(f) <= ChunkSize
  BY <1>3, <1>6, <1>7
<1>13. base + (Len(f) - 1) \in w2
  <2> DEFINE m == Len(f) - 1
  <2>1. m \in 0 .. (ChunkSize - 1)
    BY <1>0, <1>7
  <2>2. CASE end < Len(old)
    <3>1. m = Len(old) - 1 /\ Len(old) > 0
      BY <1>1, <1>6, <2>2
    <3>2. base + m \in w
      BY <3>1 DEF Faithful
    <3> QED
      BY <2>1, <3>2
  <2>3. CASE ~(end < Len(old))
    <3>1. start <= m /\ m < end
      BY <1>1, <1>6, <2>3
    <3> QED
      BY <2>1, <3>1
  <2> QED
    BY <2>2, <2>3
<1>14. Faithful(f, left, base, w2)
  BY <1>4, <1>8, <1>10, <1>11, <1>12, <1>13 DEF Faithful
<1> QED
  BY <1>14 DEF f, left, new

-----------------------------------------------------------------------------
(* The whole output                                                        *)

\* The chunks of a try hold what was written, and say what was not.
AllFaithful == \A c \in Chunks : Faithful(chunk[c], gaps[c], c * ChunkSize, written)

\* Where chunk c lies in the output.
LEMMA ChunkLies ==
    ASSUME NEW c \in Chunks
    PROVE  /\ c * ChunkSize \in Nat /\ ChunkSize \in Nat /\ 0 < ChunkSize
           /\ (c + 1) * ChunkSize = c * ChunkSize + ChunkSize
           /\ PutMaxChunks * ChunkSize \in Nat
           /\ c * ChunkSize + ChunkSize <= PutMaxChunks * ChunkSize
<1>1. /\ ChunkSize \in Nat /\ 0 < ChunkSize /\ PutMaxChunks \in Nat
      /\ c \in Nat /\ c + 1 <= PutMaxChunks
  BY SizesAssumption DEF Chunks
<1>2. (c + 1) * ChunkSize = c * ChunkSize + ChunkSize
  BY <1>1
<1>3. (c + 1) * ChunkSize <= PutMaxChunks * ChunkSize
  BY <1>1
<1> QED
  BY <1>1, <1>2, <1>3

\* A packet leaves every chunk faithful, those it reaches and the others.
LEMMA AppendKeepsFaithful ==
    ASSUME NEW a \in Nat, NEW b \in Nat, a < b, AllFaithful, AppendOutput(a, b)
    PROVE  AllFaithful'
<1> SUFFICES ASSUME NEW c \in Chunks
             PROVE  Faithful(chunk'[c], gaps'[c], c * ChunkSize, written')
  BY DEF AllFaithful
<1> DEFINE base == c * ChunkSize
           start == PartStart(a, c)
           end == PartEnd(b, c)
           reached == c \in PartsOf(a, b)
<1>1. /\ base \in Nat /\ ChunkSize \in Nat /\ 0 < ChunkSize
      /\ (c + 1) * ChunkSize = base + ChunkSize
      /\ PutMaxChunks * ChunkSize \in Nat
      /\ base + ChunkSize <= PutMaxChunks * ChunkSize
  BY ChunkLies
<1>2. Faithful(chunk[c], gaps[c], base, written)
  BY DEF AllFaithful
<1>3. reached <=> a < base + ChunkSize /\ base < b
  BY <1>1 DEF PartsOf
<1>4. /\ chunk'[c] = IF reached
                     THEN ContentAfter(chunk[c], start, Printed(base + start, base + end))
                     ELSE chunk[c]
      /\ gaps'[c] = IF reached THEN GapsAfter(chunk[c], gaps[c], start, end) ELSE gaps[c]
  BY DEF AppendOutput
<1>5. start = (IF a <= base THEN 0 ELSE a - base)
      /\ end = (IF ChunkSize < b - base THEN ChunkSize ELSE b - base)
  BY DEF PartStart, PartEnd, Least
<1>6. written' = written \cup {i \in a .. (b - 1) : i < PutMaxChunks * ChunkSize}
  BY DEF AppendOutput
<1> DEFINE limit == PutMaxChunks * ChunkSize
<1>7. limit \in Nat /\ base + ChunkSize <= limit
      /\ written' = written \cup {i \in a .. (b - 1) : i < limit}
  BY <1>1, <1>6
<1> HIDE DEF base, start, end, reached, limit
<1>8. ASSUME NEW i \in 0 .. (ChunkSize - 1)
      PROVE  base + i \in written' <=> base + i \in written \/ (a <= base + i /\ base + i < b)
  <2>1. base + i \in Nat /\ base + i < limit
    BY <1>1, <1>7
  <2>2. base + i \in a .. (b - 1) <=> a <= base + i /\ base + i < b
    BY <2>1
  <2> QED
    BY <1>7, <2>1, <2>2
<1>9. CASE reached
  <2>1. start \in Nat /\ end \in Nat /\ start < end /\ end <= ChunkSize
    BY <1>1, <1>3, <1>5, <1>9
  <2>2. ASSUME NEW i \in 0 .. (ChunkSize - 1)
        PROVE  (a <= base + i /\ base + i < b) <=> (start <= i /\ i < end)
    BY <1>1, <1>3, <1>5, <1>9
  <2>3. \A i \in 0 .. (ChunkSize - 1) :
           base + i \in written' <=> base + i \in written \/ (start <= i /\ i < end)
    BY <1>8, <2>2
  <2>4. Faithful(ContentAfter(chunk[c], start, Printed(base + start, base + end)),
                 GapsAfter(chunk[c], gaps[c], start, end), base, written')
    BY <1>1, <1>2, <2>1, <2>3, WriteKeepsFaithful
  <2> QED
    BY <1>4, <1>9, <2>4 DEF base
<1>10. CASE ~reached
  <2>1. ASSUME NEW i \in 0 .. (ChunkSize - 1)
        PROVE  ~(a <= base + i /\ base + i < b)
    BY <1>1, <1>3, <1>10
  <2>2. \A i \in 0 .. (ChunkSize - 1) : base + i \in written' <=> base + i \in written
    BY <1>8, <2>1
  <2>3. Len(chunk[c]) > 0 => Len(chunk[c]) - 1 \in 0 .. (ChunkSize - 1)
    BY <1>1, <1>2, LenProperties DEF Faithful
  <2>4. Faithful(chunk[c], gaps[c], base, written')
    BY <1>2, <2>2, <2>3 DEF Faithful
  <2> QED
    BY <1>4, <1>10, <2>4 DEF base
<1> QED
  BY <1>9, <1>10

\* What is posted is a piece of what the command prints.
StreamIInv ==
    /\ packets \subseteq {p \in (0 .. OutputSize) \X (0 .. OutputSize) : p[1] < p[2]}
    /\ output_chunk_start \in 0 .. packet_end
    /\ packet_end \in 0 .. OutputSize
    /\ AllFaithful

\* Nothing is written yet.
LEMMA StreamInit == InitStream => StreamIInv
<1> SUFFICES ASSUME InitStream PROVE StreamIInv
  OBVIOUS
<1>1. ASSUME NEW c \in Chunks PROVE Faithful(chunk[c], gaps[c], c * ChunkSize, written)
  <2>1. chunk[c] = <<>> /\ gaps[c] = {} /\ written = {}
    BY DEF InitStream, InitOutput
  <2>2. ChunkSize \in Nat
    BY SizesAssumption
  <2>3. /\ <<>> \in Seq(Nat) /\ Len(<<>>) = 0
        /\ \A i : ~InGaps(i, {})
    BY DEF InGaps
  <2>4. Faithful(<<>>, {}, c * ChunkSize, {})
    BY <2>2, <2>3 DEF Faithful
  <2> QED
    BY <2>1, <2>4
<1> QED
  BY <1>1, SizesAssumption DEF InitStream, StreamIInv, AllFaithful

\* A packet that is answered, repeated or of any client keeps every chunk faithful.
LEMMA StreamStep == StreamIInv /\ [NextStream]_streamVars => StreamIInv'
<1> SUFFICES ASSUME StreamIInv, [NextStream]_streamVars PROVE StreamIInv'
  OBVIOUS
<1>1. OutputSize \in Nat
  BY SizesAssumption
<1>2. CASE PacketIsAnswered
  <2>1. output_chunk_start \in Nat /\ packet_end \in Nat /\ output_chunk_start < packet_end
    BY <1>1, <1>2 DEF StreamIInv, PacketIsAnswered
  <2>2. AllFaithful'
    BY <1>2, <2>1, AppendKeepsFaithful DEF StreamIInv, PacketIsAnswered, NextStart
  <2> QED
    BY <1>1, <1>2, <2>1, <2>2 DEF StreamIInv, PacketIsAnswered
<1>3. CASE PacketIsRepeated
  <2>1. PICK p \in packets : AppendOutput(p[1], p[2])
    BY <1>3 DEF PacketIsRepeated
  <2>2. p[1] \in Nat /\ p[2] \in Nat /\ p[1] < p[2]
    BY <1>1 DEF StreamIInv
  <2>3. AllFaithful'
    BY <2>1, <2>2, AppendKeepsFaithful DEF StreamIInv
  <2> QED
    BY <1>3, <2>3 DEF StreamIInv, PacketIsRepeated
<1>4. ASSUME NEW b \in 1 .. OutputSize, PostPacket(b) PROVE StreamIInv'
  <2>1. /\ output_chunk_start \in 0 .. OutputSize /\ b \in 0 .. OutputSize
        /\ output_chunk_start < b
    BY <1>1, <1>4 DEF StreamIInv, PostPacket
  <2>2. packets' \subseteq {p \in (0 .. OutputSize) \X (0 .. OutputSize) : p[1] < p[2]}
    BY <1>4, <2>1 DEF StreamIInv, PostPacket
  <2>3. AllFaithful'
    BY <1>4 DEF StreamIInv, PostPacket, AllFaithful, outputVars
  <2> QED
    BY <1>1, <1>4, <2>1, <2>2, <2>3 DEF PostPacket, StreamIInv
<1>5. CASE NextOutput /\ UNCHANGED <<output_chunk_start, packet_end, packets>>
  <2>0. PICK a \in Indices : \E b \in (a + 1) .. OutputSize : AppendOutput(a, b)
    BY <1>5 DEF NextOutput
  <2>1. PICK b \in (a + 1) .. OutputSize : AppendOutput(a, b)
    BY <2>0
  <2>2. a \in Nat /\ b \in Nat /\ a < b
    BY <1>1 DEF Indices
  <2>3. AllFaithful'
    BY <2>1, <2>2, AppendKeepsFaithful DEF StreamIInv
  <2> QED
    BY <1>5, <2>3 DEF StreamIInv
<1>6. CASE UNCHANGED streamVars
  BY <1>6 DEF StreamIInv, AllFaithful, streamVars, outputVars
<1> QED
  BY <1>2, <1>3, <1>4, <1>5, <1>6 DEF NextStream

\* Faithful chunks have the gaps _output_append() promises.
LEMMA FaithfulIsWhatIsMissing == StreamIInv => GapsAreWhatIsMissing
<1> SUFFICES ASSUME AllFaithful, NEW c \in Chunks
             PROVE  /\ Covered(c) = {i \in 0 .. (Len(chunk[c]) - 1) :
                                       c * ChunkSize + i \notin written}
                    /\ \A i \in 1 .. Len(chunk[c]) :
                          chunk[c][i] = IF i - 1 \in Covered(c) THEN 0 ELSE c * ChunkSize + i
                    /\ \A g, h \in gaps[c] : g = h \/ g[2] <= h[1] \/ h[2] <= g[1]
  BY DEF StreamIInv, GapsAreWhatIsMissing
<1> DEFINE base == c * ChunkSize
<1>1. Faithful(chunk[c], gaps[c], base, written)
  BY DEF AllFaithful
<1>2. ChunkSize \in Nat /\ Len(chunk[c]) \in Nat /\ Len(chunk[c]) <= ChunkSize
  BY <1>1, SizesAssumption, LenProperties DEF Faithful
<1>3. ASSUME NEW i \in 0 .. (ChunkSize - 1)
      PROVE  i \in Covered(c) <=> InGaps(i, gaps[c])
  BY DEF Covered, InGaps
<1> HIDE DEF base
<1>4. \A i \in Nat : InGaps(i, gaps[c]) => i < Len(chunk[c])
  BY <1>1, <1>2 DEF Faithful, InGaps, Gap
<1>5. ASSUME NEW i PROVE i \in Covered(c) <=> i \in 0 .. (Len(chunk[c]) - 1) /\ base + i \notin written
  <2>1. CASE i \in 0 .. (ChunkSize - 1)
    <3>1. base + i \in written <=> i < Len(chunk[c]) /\ ~InGaps(i, gaps[c])
      BY <1>1, <2>1 DEF Faithful
    <3>2. i \in Nat /\ (InGaps(i, gaps[c]) => i < Len(chunk[c]))
      BY <1>2, <1>4, <2>1
    <3> QED
      BY <1>2, <1>3, <2>1, <3>1, <3>2
  <2>2. CASE i \notin 0 .. (ChunkSize - 1)
    <3>1. i \notin Covered(c)
      BY <2>2 DEF Covered
    <3>2. i \notin 0 .. (Len(chunk[c]) - 1)
      BY <1>2, <2>2
    <3> QED
      BY <3>1, <3>2
  <2> QED
    BY <2>1, <2>2
<1>6. Covered(c) = {i \in 0 .. (Len(chunk[c]) - 1) : base + i \notin written}
  BY <1>5
<1>7. ASSUME NEW i \in 1 .. Len(chunk[c])
      PROVE  chunk[c][i] = IF i - 1 \in Covered(c) THEN 0 ELSE base + i
  <2>1. i - 1 \in 0 .. (ChunkSize - 1)
    BY <1>2
  <2>2. i - 1 \in Covered(c) <=> InGaps(i - 1, gaps[c])
    BY <1>3, <2>1
  <2> QED
    BY <1>1, <2>2 DEF Faithful
<1>8. \A g, h \in gaps[c] : g = h \/ g[2] <= h[1] \/ h[2] <= g[1]
  BY <1>1 DEF Faithful, Apart
<1> QED
  BY <1>6, <1>7, <1>8 DEF base

\* The gaps of a chunk are exactly the bytes no packet has brought, the other
\* bytes are those the command printed there, and no two gaps overlap: whatever
\* the order, the overlaps and the repetitions of the packets _output_append()
\* is given, for any number and size of chunks.
THEOREM GapsAreWhatIsMissingHolds == SpecStream => []GapsAreWhatIsMissing
<1>1. InitStream => StreamIInv
  BY StreamInit
<1>2. StreamIInv /\ [NextStream]_streamVars => StreamIInv'
  BY StreamStep
<1>3. StreamIInv => GapsAreWhatIsMissing
  BY FaithfulIsWhatIsMissing
<1> QED
  BY <1>1, <1>2, <1>3, PTL DEF SpecStream

-----------------------------------------------------------------------------
(* Numbers and recursion                                                   *)

\* A set of numbers has a least one.
LEMMA NatMin ==
  ASSUME NEW S, S \subseteq Nat, S # {}
  PROVE \E m \in S : \A n \in S : m <= n
<1> DEFINE T == {0 .. n : n \in S}
           F == FiniteSubsetsOf(Nat)
           R == StrictSubsetOrdering(Nat)
<1>1. IsWellFoundedOn(R, F)
  BY FS_StrictSubsetOrderingWellFounded
<1>2. T \subseteq F /\ T # {}
  <2>1. ASSUME NEW n \in S PROVE 0 .. n \in F
    <3>1. n \in Nat /\ n \in Int /\ 0 \in Int OBVIOUS
    <3>2. IsFiniteSet(0 .. n) BY <3>1, FS_Interval
    <3>3. 0 .. n \subseteq Nat BY <3>1
    <3> QED BY <3>2, <3>3 DEF FiniteSubsetsOf
  <2> QED BY <2>1
<1>3. PICK x \in T : \A y \in T : ~(<<y, x>> \in R)
  <2> HIDE DEF T, F, R
  <2> QED BY <1>1, <1>2, WFMin
<1>4. PICK m \in S : x = 0 .. m
  OBVIOUS
<1>5. ASSUME NEW n \in S, n < m PROVE FALSE
  <2>1. 0 .. n \in T
    OBVIOUS
  <2>2. n \in Nat /\ m \in Nat OBVIOUS
  <2>3. 0 .. n \in FiniteSubsetsOf(Nat) /\ 0 .. m \in FiniteSubsetsOf(Nat)
    BY <1>2, <1>4, <2>1
  <2>4. 0 .. n \subseteq 0 .. m /\ 0 .. n # 0 .. m
    BY <2>2, <1>5
  <2>5. <<0 .. n, 0 .. m>> \in R
    BY <2>3, <2>4 DEF StrictSubsetOrdering
  <2> QED BY <2>1, <2>5, <1>3, <1>4
<1> QED BY <1>5

\* What is applied at each step of a recursion over 1 .. n, and its values.
StepsOf(n, S) == [(1 .. n) \X S -> S]
Follows(f, n, S, a, G) ==
    /\ f \in [0 .. n -> S] /\ f[0] = a
    /\ \A i \in 1 .. n : f[i] = G[<<i, f[i - 1]>>]

\* What is recursive over 1 .. n has a value.
LEMMA Recursion ==
    ASSUME NEW n \in Nat, NEW S, NEW a \in S, NEW G \in StepsOf(n, S)
    PROVE  \E f : Follows(f, n, S, a, G)
<1> DEFINE Bad == {m \in 0 .. n : ~\E f : Follows(f, m, S, a, G)}
<1>1. ASSUME Bad # {} PROVE FALSE
  <2>1. PICK m \in Bad : \A k \in Bad : m <= k
    <3>1. Bad \subseteq Nat
      OBVIOUS
    <3> HIDE DEF Bad
    <3>2. QED
      BY <1>1, <3>1, NatMin
  <2>2. m \in 0 .. n /\ m \in Nat
    OBVIOUS
  <2>3. m # 0
    <3>1. Follows([i \in 0 .. 0 |-> a], 0, S, a, G)
      BY DEF Follows
    <3>2. QED
      BY <3>1
  <2>4. m - 1 \in 0 .. n /\ m - 1 \notin Bad
    <3>1. m - 1 \in 0 .. n /\ ~(m <= m - 1)
      BY <2>2, <2>3
    <3> HIDE DEF Bad
    <3>2. QED
      BY <2>1, <3>1
  <2>5. PICK f : Follows(f, m - 1, S, a, G)
    BY <2>4
  <2> DEFINE g == [i \in 0 .. m |-> IF i = m THEN G[<<m, f[m - 1]>>] ELSE f[i]]
  <2>6. f \in [0 .. (m - 1) -> S] /\ m - 1 \in 0 .. (m - 1) /\ f[m - 1] \in S /\ m \in 1 .. n
    BY <2>2, <2>3, <2>5 DEF Follows
  <2>7. g \in [0 .. m -> S]
    BY <2>2, <2>6 DEF StepsOf
  <2>8. g[m] = G[<<m, f[m - 1]>>] /\ \A i \in 0 .. (m - 1) : g[i] = f[i]
    BY <2>2
  <2>9. Follows(g, m, S, a, G)
    <3> HIDE DEF g
    <3>1. g[0] = a
      BY <2>2, <2>3, <2>5, <2>8 DEF Follows
    <3>2. ASSUME NEW i \in 1 .. m PROVE g[i] = G[<<i, g[i - 1]>>]
      <4>1. i - 1 \in 0 .. (m - 1) /\ (i # m => i \in 1 .. (m - 1) /\ i \in 0 .. (m - 1))
        BY <2>2
      <4>2. QED
        BY <2>5, <2>8, <4>1 DEF Follows
    <3>3. QED
      BY <2>7, <3>1, <3>2 DEF Follows
  <2>10. QED
    BY <2>1, <2>9
<1>2. n \in 0 .. n
  OBVIOUS
<1>3. QED
  BY <1>1, <1>2

\* Some numbers that have a bound have a greatest one.
LEMMA NatMax ==
    ASSUME NEW n \in Nat, NEW S, S \subseteq 0 .. n, S # {}
    PROVE  \E m \in S : \A k \in S : k <= m
<1> DEFINE T == {n - k : k \in S}
<1>1. T \subseteq Nat /\ T # {}
  <2>1. \A k \in S : k \in Int /\ k <= n
    OBVIOUS
  <2>2. \A k \in S : n - k \in Nat
    BY <2>1
  <2> QED
    BY <2>2
<1>2. PICK t \in T : \A u \in T : t <= u
  <2> HIDE DEF T
  <2> QED
    BY <1>1, NatMin
<1>3. PICK m \in S : t = n - m
  OBVIOUS
<1>4. \A k \in S : n - m <= n - k
  BY <1>2, <1>3
<1> QED
  BY <1>4

-----------------------------------------------------------------------------
(* What is read                                                            *)

Limit == PutMaxChunks * ChunkSize

\* The first n bytes of the output were written, those that have a chunk, no other.
Stored(w, n) == \A i \in Nat : i \in w <=> i < n /\ i < Limit

\* What task_runner posted is a piece of the output that starts before what is being
\* posted, and what is stored ends where a packet does.
StreamedInv ==
    /\ stdout_chunks \in 0 .. PutMaxChunks
    /\ \A c \in Chunks : chunk[c] # <<>> => c < stdout_chunks
    /\ streaming =>
        /\ \A p \in packets : /\ p[1] <= output_chunk_start
                              /\ p[2] <= output_chunk_start \/ p[2] = packet_end
        /\ Stored(written, output_chunk_start) \/ Stored(written, packet_end)

\* Chunks that are not empty are counted, once a packet is stored too.
LEMMA CountKeeps ==
    ASSUME stdout_chunks \in 0 .. PutMaxChunks, NEW a, NEW b, AppendOutput(a, b),
           \A c \in Chunks : chunk[c] # <<>> => c < stdout_chunks
    PROVE  /\ stdout_chunks' \in 0 .. PutMaxChunks
           /\ \A c \in Chunks : chunk'[c] # <<>> => c < stdout_chunks'
<1> DEFINE parts == PartsOf(a, b)
           S == {stdout_chunks} \cup {c + 1 : c \in parts}
<1>1. parts \subseteq Chunks /\ PutMaxChunks \in Nat
  BY SizesAssumption DEF PartsOf
<1>2. S \subseteq 0 .. PutMaxChunks /\ stdout_chunks \in S /\ \A c \in parts : c + 1 \in S
  <2> HIDE DEF parts
  <2> QED
    BY <1>1 DEF Chunks
<1>3. \A m \in S : m = stdout_chunks \/ \E c \in parts : m = c + 1
  OBVIOUS
<1>4. stdout_chunks' = CHOOSE m \in S : stdout_chunks <= m /\ \A c \in parts : c + 1 <= m
  BY DEF AppendOutput, ChunkCount
<1>5. \A c \in Chunks : chunk'[c] # <<>> => c \in parts \/ chunk[c] # <<>>
  BY DEF AppendOutput
<1> HIDE DEF S, parts
<1>6. PICK m \in S : \A k \in S : k <= m
  BY <1>1, <1>2, NatMax
<1>7. stdout_chunks <= m /\ \A c \in parts : c + 1 <= m
  BY <1>2, <1>6
<1>8. /\ stdout_chunks' \in S
      /\ stdout_chunks <= stdout_chunks' /\ \A c \in parts : c + 1 <= stdout_chunks'
  BY <1>4, <1>7
<1>9. stdout_chunks' \in 0 .. PutMaxChunks
  BY <1>2, <1>8
<1>10. ASSUME NEW c \in Chunks, chunk'[c] # <<>> PROVE c < stdout_chunks'
  <2>1. c \in Nat
    BY <1>1 DEF Chunks
  <2>2. c < stdout_chunks \/ c + 1 <= stdout_chunks'
    BY <1>5, <1>8, <1>10
  <2> QED
    BY <1>8, <1>9, <2>1, <2>2
<1> QED
  BY <1>9, <1>10

\* A packet that starts where something is stored before it stores up to its end.
LEMMA StoredGrows ==
    ASSUME NEW w, NEW n \in Nat, Stored(w, n), NEW a \in Nat, NEW b \in Nat, a <= n
    PROVE  Stored(w \cup {i \in a .. (b - 1) : i < Limit}, IF n < b THEN b ELSE n)
<1> DEFINE w2 == w \cup {i \in a .. (b - 1) : i < Limit}
<1>1. Limit \in Nat
  BY SizesAssumption DEF Limit
<1>2. ASSUME NEW i \in Nat
      PROVE  i \in w2 <=> (i < n /\ i < Limit) \/ (a <= i /\ i < b /\ i < Limit)
  <2>1. i \in a .. (b - 1) <=> a <= i /\ i < b
    OBVIOUS
  <2> QED
    BY <2>1 DEF Stored
<1> HIDE DEF w2
<1>3. \A i \in Nat : i \in w2 <=> i < (IF n < b THEN b ELSE n) /\ i < Limit
  BY <1>1, <1>2
<1>4. Stored(w2, IF n < b THEN b ELSE n)
  BY <1>3 DEF Stored
<1> QED
  BY <1>4 DEF w2

\* Nothing is posted, nothing is stored.
LEMMA StreamedInit == InitStream => StreamedInv
<1> SUFFICES ASSUME InitStream PROVE StreamedInv
  OBVIOUS
<1>1. Stored({}, 0)
  BY SizesAssumption DEF Stored, Limit
<1> QED
  BY <1>1, SizesAssumption DEF InitStream, InitOutput, StreamedInv

\* A packet of the stream is stored: what is stored ends where it did, or where the
\* packet that is being posted does.
LEMMA PacketIsStored ==
    ASSUME NEW start \in Nat, NEW end \in Nat, start <= end,
           NEW a \in Nat, NEW b \in Nat, AppendOutput(a, b), a <= start, b <= start \/ b = end,
           Stored(written, start) \/ Stored(written, end)
    PROVE  /\ Stored(written', start) \/ Stored(written', end)
           /\ b = end => Stored(written', end)
<1>1. written' = written \cup {i \in a .. (b - 1) : i < Limit}
  BY DEF AppendOutput, Limit
<1>2. CASE Stored(written, start)
  <2>1. Stored(written', IF start < b THEN b ELSE start)
    BY <1>1, <1>2, StoredGrows
  <2>2. (IF start < b THEN b ELSE start) = IF b = end THEN end ELSE start
    OBVIOUS
  <2> QED
    BY <2>1, <2>2
<1>3. CASE Stored(written, end)
  <2>1. Stored(written', IF end < b THEN b ELSE end)
    BY <1>1, <1>3, StoredGrows
  <2>2. (IF end < b THEN b ELSE end) = end
    OBVIOUS
  <2> QED
    BY <2>1, <2>2
<1> QED
  BY <1>2, <1>3

\* A late packet adds nothing; that which is being posted adds all of it.
LEMMA StreamedStep == StreamIInv /\ StreamedInv /\ [NextStream]_streamVars => StreamedInv'
<1> SUFFICES ASSUME StreamIInv, StreamedInv, [NextStream]_streamVars PROVE StreamedInv'
  OBVIOUS
<1>1. /\ output_chunk_start \in Nat /\ packet_end \in Nat /\ output_chunk_start <= packet_end
      /\ packets \subseteq {p \in Nat \X Nat : p[1] < p[2]}
  BY SizesAssumption DEF StreamIInv
<1>2. ASSUME NEW a, NEW b, AppendOutput(a, b)
      PROVE  /\ stdout_chunks' \in 0 .. PutMaxChunks
             /\ \A c \in Chunks : chunk'[c] # <<>> => c < stdout_chunks'
  BY <1>2, CountKeeps DEF StreamedInv
<1>3. CASE UNCHANGED streaming /\ streaming /\ PacketIsAnswered
  <2>1. AppendOutput(output_chunk_start, packet_end) /\ output_chunk_start' = packet_end
        /\ packet_end' = packet_end /\ packets' = packets /\ streaming'
    BY <1>3 DEF PacketIsAnswered, NextStart
  <2>2. Stored(written', packet_end)
    BY <1>1, <1>3, <2>1, PacketIsStored DEF StreamedInv
  <2>3. \A p \in packets : p[1] <= packet_end /\ p[2] <= packet_end
    BY <1>1, <1>3 DEF StreamedInv
  <2> QED
    BY <1>2, <2>1, <2>2, <2>3 DEF StreamedInv
<1>4. CASE UNCHANGED streaming /\ streaming /\ PacketIsRepeated
  <2>1. PICK p \in packets : AppendOutput(p[1], p[2])
    BY <1>4 DEF PacketIsRepeated
  <2>2. p[1] \in Nat /\ p[2] \in Nat /\ p[1] <= output_chunk_start
        /\ (p[2] <= output_chunk_start \/ p[2] = packet_end)
    BY <1>1, <1>4 DEF StreamedInv
  <2>3. Stored(written', output_chunk_start) \/ Stored(written', packet_end)
    BY <1>1, <1>4, <2>1, <2>2, PacketIsStored DEF StreamedInv
  <2>4. UNCHANGED <<output_chunk_start, packet_end, packets>>
    BY <1>4 DEF PacketIsRepeated
  <2> QED
    BY <1>2, <1>4, <2>1, <2>3, <2>4 DEF StreamedInv
<1>5. ASSUME UNCHANGED streaming, streaming, NEW b \in 1 .. OutputSize, PostPacket(b)
      PROVE  StreamedInv'
  <2>1. /\ packet_end = output_chunk_start /\ packet_end' = b
        /\ packets' = packets \cup {<<output_chunk_start, b>>}
        /\ UNCHANGED <<chunk, stdout_chunks, written, output_chunk_start>>
    BY <1>5 DEF PostPacket, outputVars
  <2>2. Stored(written, output_chunk_start)
    BY <1>5, <2>1 DEF StreamedInv
  <2>3. ASSUME NEW p \in packets'
        PROVE  p[1] <= output_chunk_start /\ (p[2] <= output_chunk_start \/ p[2] = b)
    <3>1. CASE p \in packets
      BY <1>1, <1>5, <2>1, <3>1 DEF StreamedInv
    <3>2. CASE p = <<output_chunk_start, b>>
      BY <1>1, <3>2
    <3> QED
      BY <2>1, <3>1, <3>2
  <2> QED
    BY <1>5, <2>1, <2>2, <2>3 DEF StreamedInv
<1>6. CASE UNCHANGED streaming /\ ~streaming /\ NextOutput /\ UNCHANGED <<output_chunk_start, packet_end, packets>>
  <2>1. PICK a \in Indices : \E b \in (a + 1) .. OutputSize : AppendOutput(a, b)
    BY <1>6 DEF NextOutput
  <2>2. PICK b \in (a + 1) .. OutputSize : AppendOutput(a, b)
    BY <2>1
  <2> QED
    BY <1>2, <1>6, <2>2 DEF StreamedInv
<1>7. CASE UNCHANGED streamVars
  BY <1>7 DEF StreamedInv, streamVars, outputVars
<1> QED
  BY <1>3, <1>4, <1>5, <1>6, <1>7 DEF NextStream

\* What a chunk holds, when what was written are the first n bytes.
LEMMA ChunkIsFull ==
    ASSUME AllFaithful, NEW n \in Nat, Stored(written, n), NEW c \in Chunks
    PROVE  /\ chunk[c] \in Seq(Nat)
           /\ Len(chunk[c]) = IF n <= c * ChunkSize THEN 0 ELSE Least(ChunkSize, n - c * ChunkSize)
           /\ \A i \in 1 .. Len(chunk[c]) : chunk[c][i] = c * ChunkSize + i
<1> DEFINE base == c * ChunkSize
           ck == chunk[c]
           gs == gaps[c]
<1>1. /\ base \in Nat /\ ChunkSize \in Nat /\ 0 < ChunkSize
      /\ Limit \in Nat /\ base + ChunkSize <= Limit
  BY ChunkLies DEF Limit
<1>2. Faithful(ck, gs, base, written)
  BY DEF AllFaithful
<1> HIDE DEF base, ck, gs
<1>3. ck \in Seq(Nat) /\ Len(ck) \in Nat /\ Len(ck) <= ChunkSize
  BY <1>2, LenProperties DEF Faithful
<1>4. ASSUME NEW i \in 0 .. (ChunkSize - 1)
      PROVE  base + i \in written <=> base + i < n
  BY <1>1 DEF Stored
<1>5. ASSUME NEW i \in 0 .. (ChunkSize - 1), base + i < n
      PROVE  i < Len(ck) /\ ~InGaps(i, gs)
  BY <1>2, <1>4, <1>5 DEF Faithful
<1>6. ASSUME Len(ck) > 0 PROVE base + (Len(ck) - 1) < n
  <2>1. Len(ck) - 1 \in 0 .. (ChunkSize - 1)
    BY <1>1, <1>3, <1>6
  <2> QED
    BY <1>2, <1>4, <1>6, <2>1 DEF Faithful
<1>7. CASE n <= base
  <2>1. Len(ck) = 0
    BY <1>1, <1>3, <1>6, <1>7
  <2> QED
    BY <1>3, <1>7, <2>1 DEF base, ck
<1>8. CASE base < n
  <2> DEFINE m == Least(ChunkSize, n - base)
  <2>1. m \in Nat /\ m > 0 /\ m <= ChunkSize /\ base + m <= n /\ (m = ChunkSize \/ base + m = n)
    BY <1>1, <1>8 DEF Least
  <2> HIDE DEF m
  <2>2. m <= Len(ck)
    <3>1. m - 1 \in 0 .. (ChunkSize - 1) /\ base + (m - 1) < n
      BY <1>1, <2>1
    <3>2. m - 1 < Len(ck)
      BY <1>5, <3>1
    <3> QED
      BY <1>3, <2>1, <3>2
  <2>3. Len(ck) <= m
    BY <1>1, <1>3, <1>6, <2>1, <2>2
  <2>4. Len(ck) = m
    BY <1>3, <2>1, <2>2, <2>3
  <2>5. ASSUME NEW i \in 1 .. Len(ck) PROVE ck[i] = base + i
    <3>1. i - 1 \in 0 .. (ChunkSize - 1) /\ base + (i - 1) < n
      BY <1>1, <1>3, <2>1, <2>4
    <3>2. ~InGaps(i - 1, gs)
      BY <1>5, <3>1
    <3> QED
      BY <1>2, <3>2 DEF Faithful
  <2>6. ~(n <= base)
    BY <1>1, <1>8
  <2> QED
    BY <1>3, <2>4, <2>5, <2>6 DEF base, ck, m
<1> QED
  BY <1>1, <1>7, <1>8

\* The first chunks, joined.
JoinedUpTo(n, f) == f = [c \in 0 .. n |-> IF c = 0 THEN <<>> ELSE f[c - 1] \o Part(c - 1)]

\* They are what the recursion of get_output_async() makes of them.
LEMMA JoinedIs ==
    ASSUME NEW n \in 0 .. PutMaxChunks, \A c \in Chunks : chunk[c] \in Seq(Nat)
    PROVE  \E f : JoinedUpTo(n, f)
<1> DEFINE G == [p \in (1 .. n) \X Seq(Nat) |-> p[2] \o Part(p[1] - 1)]
<1>1. n \in Nat /\ \A k \in 1 .. n : k - 1 \in Chunks
  BY SizesAssumption DEF Chunks
<1>2. \A c \in Chunks : Part(c) \in Seq(Nat)
  <2>1. Blank(ChunkSize) \in Seq(Nat)
    BY SizesAssumption DEF Blank
  <2> QED
    BY <2>1 DEF Part
<1>3. \A p \in (1 .. n) \X Seq(Nat) : p[2] \o Part(p[1] - 1) \in Seq(Nat)
  <2> SUFFICES ASSUME NEW p \in (1 .. n) \X Seq(Nat) PROVE p[2] \o Part(p[1] - 1) \in Seq(Nat)
    OBVIOUS
  <2>1. p[2] \in Seq(Nat) /\ p[1] \in 1 .. n
    OBVIOUS
  <2>2. Part(p[1] - 1) \in Seq(Nat)
    BY <1>1, <1>2, <2>1
  <2> QED
    BY <2>1, <2>2
<1>4. <<>> \in Seq(Nat) /\ G \in StepsOf(n, Seq(Nat))
  BY <1>3 DEF StepsOf
<1>5. \A k \in 1 .. n, s \in Seq(Nat) : G[<<k, s>>] = s \o Part(k - 1)
  OBVIOUS
<1> HIDE DEF G
<1>6. PICK f : Follows(f, n, Seq(Nat), <<>>, G)
  BY <1>1, <1>4, Recursion
<1>7. /\ f \in [0 .. n -> Seq(Nat)] /\ f[0] = <<>>
      /\ \A k \in 1 .. n : f[k] = G[<<k, f[k - 1]>>]
  BY <1>6 DEF Follows
<1>8. ASSUME NEW k \in 0 .. n
      PROVE  f[k] = IF k = 0 THEN <<>> ELSE f[k - 1] \o Part(k - 1)
  <2>1. CASE k = 0
    BY <1>7, <2>1
  <2>2. CASE k # 0
    <3>1. k \in 1 .. n /\ k - 1 \in 0 .. n
      BY <1>1, <2>2
    <3>2. f[k - 1] \in Seq(Nat)
      BY <1>7, <3>1
    <3> QED
      BY <1>5, <1>7, <2>2, <3>1, <3>2
  <2> QED
    BY <2>1, <2>2
<1>9. JoinedUpTo(n, f)
  BY <1>7, <1>8 DEF JoinedUpTo
<1> QED
  BY <1>9

\* The last chunk that is read, of those that are counted and fit, has something, and
\* those that come after it have nothing.
LEMMA LastPartIs ==
    ASSUME NEW m \in 0 .. PutMaxChunks
    PROVE  /\ LastPart(m) \in 0 .. m
           /\ LastPart(m) > 0 => chunk[LastPart(m) - 1] # <<>>
           /\ \A c \in 0 .. (m - 1) : chunk[c] # <<>> => c < LastPart(m)
<1> DEFINE full == {c \in 0 .. (m - 1) : chunk[c] # <<>>}
<1>1. m \in Nat /\ full \subseteq 0 .. m /\ full \subseteq 0 .. (m - 1)
      /\ \A c \in full : chunk[c] # <<>>
  BY SizesAssumption
<1>2. \A c \in 0 .. (m - 1) : chunk[c] # <<>> => c \in full
  OBVIOUS
<1>3. LastPart(m) = IF full = {} THEN 0 ELSE (CHOOSE c \in full : \A d \in full : d <= c) + 1
  BY DEF LastPart
<1> HIDE DEF full
<1>4. CASE full = {}
  BY <1>1, <1>2, <1>3, <1>4
<1>5. CASE full # {}
  <2>1. \E c \in full : \A d \in full : d <= c
    BY <1>1, <1>5, NatMax
  <2>2. PICK c \in full : LastPart(m) = c + 1 /\ \A d \in full : d <= c
    BY <1>3, <1>5, <2>1
  <2>3. c \in 0 .. (m - 1) /\ c + 1 \in 0 .. m /\ (c + 1) - 1 = c /\ c + 1 > 0
    BY <1>1
  <2>4. \A d \in 0 .. (m - 1) : chunk[d] # <<>> => d < c + 1
    BY <1>1, <1>2, <2>2, <2>3
  <2> QED
    BY <1>1, <2>2, <2>3, <2>4
<1> QED
  BY <1>4, <1>5

\* What is read are the first bytes that are stored, as many as one fetch takes.
LEMMA OutputIs ==
    ASSUME AllFaithful, StreamedInv, NEW n \in Nat, Stored(written, n)
    PROVE  /\ \A i \in 1 .. Len(GetOutput) : GetOutput[i] = i
           /\ Len(GetOutput) = Least(n, FetchMaxChunks * ChunkSize)
<1> DEFINE m == Least(stdout_chunks, FetchMaxChunks)
           last == LastPart(m)
           joined == CHOOSE f : JoinedUpTo(last, f)
<1>1. /\ ChunkSize \in Nat /\ 0 < ChunkSize /\ PutMaxChunks \in Nat
      /\ FetchMaxChunks \in Nat /\ FetchMaxChunks <= PutMaxChunks
      /\ stdout_chunks \in Nat /\ stdout_chunks <= PutMaxChunks
  BY SizesAssumption DEF StreamedInv
<1>2. m \in 0 .. PutMaxChunks /\ m <= FetchMaxChunks
      /\ \A c \in Nat : c < m <=> c < stdout_chunks /\ c < FetchMaxChunks
  BY <1>1 DEF Least
<1>3. GetOutput = joined[last]
  BY DEF GetOutput, JoinedUpTo
<1> HIDE DEF m
<1>4. /\ last \in 0 .. m
      /\ last > 0 => chunk[last - 1] # <<>>
      /\ \A c \in 0 .. (m - 1) : chunk[c] # <<>> => c < last
  BY <1>2, LastPartIs
<1> HIDE DEF last
<1>5. \A c \in Chunks :
          /\ chunk[c] \in Seq(Nat)
          /\ Len(chunk[c]) = IF n <= c * ChunkSize THEN 0 ELSE Least(ChunkSize, n - c * ChunkSize)
          /\ \A i \in 1 .. Len(chunk[c]) : chunk[c][i] = c * ChunkSize + i
  BY ChunkIsFull
<1>6. \A c \in Chunks : c * ChunkSize \in Nat /\ (chunk[c] = <<>> <=> n <= c * ChunkSize)
  <2> SUFFICES ASSUME NEW c \in Chunks
               PROVE  c * ChunkSize \in Nat /\ (chunk[c] = <<>> <=> n <= c * ChunkSize)
    OBVIOUS
  <2> DEFINE base == c * ChunkSize
             ck == chunk[c]
  <2>1. base \in Nat
    BY ChunkLies
  <2>2. ck \in Seq(Nat) /\ Len(ck) = IF n <= base THEN 0 ELSE Least(ChunkSize, n - base)
    BY <1>5
  <2>3. ck = <<>> <=> Len(ck) = 0
    BY <2>2, EmptySeq
  <2> HIDE DEF base, ck
  <2>4. ck = <<>> <=> n <= base
    BY <1>1, <2>1, <2>2, <2>3 DEF Least
  <2> QED
    BY <2>1, <2>4 DEF base, ck
<1>7. JoinedUpTo(last, joined)
  <2>1. last \in 0 .. PutMaxChunks
    BY <1>1, <1>2, <1>4
  <2> QED
    BY <1>5, <2>1, JoinedIs
<1> HIDE DEF joined
<1>8. /\ joined[0] = <<>>
      /\ \A k \in 1 .. last : joined[k] = joined[k - 1] \o Part(k - 1)
  <2>1. last \in Nat
    BY <1>1, <1>2, <1>4
  <2>2. 0 \in 0 .. last /\ \A k \in 1 .. last : k \in 0 .. last /\ k # 0
    BY <2>1
  <2> QED
    BY <1>7, <2>2 DEF JoinedUpTo
<1>9. ASSUME NEW k \in 0 .. (last - 1)
      PROVE  k \in Chunks /\ k * ChunkSize < n /\ Part(k) = chunk[k]
  <2>1. /\ last \in Nat /\ k \in Nat /\ last > 0 /\ k <= last - 1
        /\ k \in Chunks /\ last - 1 \in Chunks
    BY <1>1, <1>2, <1>4 DEF Chunks
  <2>2. (last - 1) * ChunkSize < n /\ (last - 1) * ChunkSize \in Nat
    BY <1>4, <1>6, <2>1
  <2>3. k * ChunkSize <= (last - 1) * ChunkSize
    BY <1>1, <2>1
  <2>4. k * ChunkSize < n /\ k * ChunkSize \in Nat
    BY <1>6, <2>1, <2>2, <2>3
  <2>5. chunk[k] # <<>>
    BY <1>6, <2>1, <2>4
  <2> QED
    BY <2>1, <2>4, <2>5 DEF Part
<1> DEFINE Good(k) == /\ joined[k] \in Seq(Nat) /\ Len(joined[k]) = Least(n, k * ChunkSize)
                      /\ \A i \in 1 .. Len(joined[k]) : joined[k][i] = i
           Bad == {k \in 0 .. last : ~Good(k)}
<1>10. Good(0)
  <2>1. joined[0] \in Seq(Nat) /\ Len(joined[0]) = 0 /\ 0 * ChunkSize = 0
    BY <1>1, <1>8, EmptySeq
  <2> QED
    BY <2>1 DEF Least
<1>11. ASSUME NEW k \in 1 .. last, Good(k - 1) PROVE Good(k)
  <2> DEFINE base == (k - 1) * ChunkSize
             r == joined[k - 1]
             ck == chunk[k - 1]
  <2>1. k - 1 \in 0 .. (last - 1)
    BY <1>1, <1>2, <1>4
  <2>2. k - 1 \in Chunks /\ base < n /\ base \in Nat /\ joined[k] = r \o ck
    BY <1>6, <1>8, <1>9, <2>1
  <2>3. k * ChunkSize = base + ChunkSize
    BY <1>1, <1>2, <1>4
  <2>4. r \in Seq(Nat) /\ Len(r) = Least(n, base) /\ \A i \in 1 .. Len(r) : r[i] = i
    BY <1>11
  <2>5. /\ ck \in Seq(Nat)
        /\ Len(ck) = IF n <= base THEN 0 ELSE Least(ChunkSize, n - base)
        /\ \A i \in 1 .. Len(ck) : ck[i] = base + i
    BY <1>5, <2>2
  <2> HIDE DEF base, r, ck
  <2>6. Len(r) = base
    BY <2>2, <2>4 DEF Least
  <2>7. Len(ck) = Least(ChunkSize, n - base) /\ Len(ck) \in Nat
    BY <2>2, <2>5
  <2>8. /\ joined[k] \in Seq(Nat) /\ Len(joined[k]) = base + Len(ck)
        /\ \A i \in 1 .. base + Len(ck) : joined[k][i] = IF i <= base THEN r[i] ELSE ck[i - base]
    <3>1. /\ r \o ck \in Seq(Nat) /\ Len(r \o ck) = Len(r) + Len(ck)
          /\ \A i \in 1 .. Len(r) + Len(ck) :
                (r \o ck)[i] = IF i <= Len(r) THEN r[i] ELSE ck[i - Len(r)]
      BY <2>4, <2>5, ConcatProperties
    <3> QED
      BY <2>2, <2>6, <3>1
  <2>9. base + Len(ck) = Least(n, k * ChunkSize)
    BY <1>1, <2>2, <2>3, <2>7 DEF Least
  <2>10. ASSUME NEW i \in 1 .. base + Len(ck) PROVE joined[k][i] = i
    <3>1. CASE i <= base
      <4>1. i \in 1 .. Len(r)
        BY <2>2, <2>6, <3>1
      <4> QED
        BY <2>4, <2>8, <3>1, <4>1
    <3>2. CASE ~(i <= base)
      <4>1. i - base \in 1 .. Len(ck) /\ base + (i - base) = i
        BY <2>2, <2>7, <3>2
      <4> QED
        BY <2>5, <2>8, <3>2, <4>1
    <3> QED
      BY <3>1, <3>2
  <2> QED
    BY <2>8, <2>9, <2>10
<1>12. Good(last)
  <2>1. Bad \subseteq 0 .. last /\ (\A k \in Bad : ~Good(k)) /\ \A k \in 0 .. last : k \notin Bad => Good(k)
    OBVIOUS
  <2>2. last \in Nat
    BY <1>1, <1>2, <1>4
  <2> HIDE DEF Bad, Good
  <2>3. CASE Bad # {}
    <3>0. Bad \subseteq Nat
      BY <2>1, <2>2
    <3>1. PICK k \in Bad : \A j \in Bad : k <= j
      BY <2>3, <3>0, NatMin
    <3>2. k \in 1 .. last /\ k - 1 \in 0 .. last /\ ~(k <= k - 1)
      BY <1>10, <2>1, <2>2
    <3>3. Good(k - 1)
      BY <2>1, <3>1, <3>2
    <3> QED
      BY <1>11, <2>1, <3>2, <3>3
  <2> QED
    BY <2>1, <2>2, <2>3
<1>13. Least(n, last * ChunkSize) = Least(n, FetchMaxChunks * ChunkSize)
  <2>1. last \in Nat /\ last <= FetchMaxChunks
    BY <1>1, <1>2, <1>4
  <2>2. CASE last = FetchMaxChunks
    BY <2>2
  <2>3. CASE last < FetchMaxChunks
    <3>1. last \in Chunks
      BY <1>1, <2>1, <2>3 DEF Chunks
    <3>2. chunk[last] = <<>>
      <4> SUFFICES ASSUME chunk[last] # <<>> PROVE FALSE
        OBVIOUS
      <4>1. last < stdout_chunks
        BY <3>1 DEF StreamedInv
      <4>2. last < m
        BY <1>2, <2>1, <2>3, <4>1
      <4>3. last \in 0 .. (m - 1)
        BY <1>2, <2>1, <4>2
      <4> QED
        BY <1>4, <2>1, <4>3
    <3>3. n <= last * ChunkSize /\ last * ChunkSize \in Nat
      BY <1>6, <3>1, <3>2
    <3>4. last * ChunkSize <= FetchMaxChunks * ChunkSize /\ FetchMaxChunks * ChunkSize \in Nat
      BY <1>1, <2>1
    <3> HIDE DEF joined
    <3> QED
      BY <3>3, <3>4 DEF Least
  <2> QED
    BY <2>1, <2>2, <2>3, <1>1
<1> QED
  BY <1>3, <1>12, <1>13

\* Whatever is repeated or late, what is stored is the beginning of the output, and
\* what is read of it are its first bytes, as many as one fetch takes.
LEMMA StreamedIsPrefix == StreamIInv /\ StreamedInv => OutputIsPrefix
<1> SUFFICES ASSUME StreamIInv, StreamedInv, streaming
             PROVE  /\ \A i \in 1 .. Len(GetOutput) : GetOutput[i] = i
                    /\ Len(GetOutput) \in {Least(output_chunk_start, FetchMaxChunks * ChunkSize),
                                           Least(packet_end, FetchMaxChunks * ChunkSize)}
  BY DEF OutputIsPrefix
<1>1. AllFaithful /\ output_chunk_start \in Nat /\ packet_end \in Nat
  BY SizesAssumption DEF StreamIInv
<1>2. CASE Stored(written, output_chunk_start)
  BY <1>1, <1>2, OutputIs
<1>3. CASE Stored(written, packet_end)
  BY <1>1, <1>3, OutputIs
<1> QED
  BY <1>2, <1>3 DEF StreamedInv

\* At any time what was stored of a stream ends where one of its packets does, for
\* chunks and packets of any size and number.
THEOREM StreamedInvHolds == SpecStream => [](StreamIInv /\ StreamedInv)
<1>1. InitStream => StreamIInv /\ StreamedInv
  BY StreamInit, StreamedInit
<1>2. (StreamIInv /\ StreamedInv) /\ [NextStream]_streamVars => (StreamIInv /\ StreamedInv)'
  BY StreamStep, StreamedStep
<1> QED
  BY <1>1, <1>2, PTL DEF SpecStream

\* What a client reads is the beginning of what the command printed, at least what
\* the bot has seen answered, whatever packets are repeated or late.
THEOREM OutputIsPrefixHolds == SpecStream => []OutputIsPrefix
<1> QED
  BY StreamedInvHolds, StreamedIsPrefix, PTL

-----------------------------------------------------------------------------
(* 2. The queues.  Times                                                   *)

\* A finite set of numbers has a greatest one: a smallest set without one would
\* have one more than another set without one.
LEMMA FiniteMax ==
    ASSUME NEW S, S \subseteq Nat, S # {}, IsFiniteSet(S)
    PROVE  Max(S) \in S /\ \A n \in S : n <= Max(S)
<1> DEFINE HasMax(T) == \E m \in T : \A n \in T : n <= m
           Fails == {T \in SUBSET S : T # {} /\ ~HasMax(T)}
<1>1. SUFFICES ASSUME Fails # {} PROVE FALSE
  <2>1. HasMax(S)
    BY <1>1
  <2>2. PICK m \in S : \A n \in S : n <= m
    BY <2>1
  <2>3. \A n \in S : m >= n
    BY <2>2
  <2>4. Max(S) \in S /\ \A n \in S : Max(S) >= n
    BY <2>3 DEF Max
  <2> QED
    BY <2>4
<1>2. Fails \subseteq FiniteSubsetsOf(S)
  BY FS_Subset DEF FiniteSubsetsOf
<1>3. PICK T \in Fails : \A U \in Fails : <<U, T>> \notin StrictSubsetOrdering(S)
  <2> HIDE DEF Fails
  <2> QED
    BY <1>1, <1>2, FS_StrictSubsetOrderingWellFounded, WFMin
<1>4. PICK x : x \in T
  BY <1>3
<1>5. T \ {x} \notin Fails
  <2>1. T \ {x} \in FiniteSubsetsOf(S) /\ T \in FiniteSubsetsOf(S)
    BY <1>2, <1>3, FS_Subset DEF FiniteSubsetsOf
  <2>2. <<T \ {x}, T>> \in StrictSubsetOrdering(S)
    BY <1>4, <2>1 DEF StrictSubsetOrdering
  <2> QED
    BY <1>3, <2>2
<1>6. T \subseteq Nat /\ ~HasMax(T)
  BY <1>3
<1>7. T \ {x} = {} \/ HasMax(T \ {x})
  BY <1>3, <1>5
<1>8. CASE T \ {x} = {}
  <2>1. \A n \in T : n <= x
    BY <1>4, <1>6, <1>8
  <2> QED
    BY <1>4, <1>6, <2>1
<1>9. CASE HasMax(T \ {x})
  <2>1. PICK m \in T \ {x} : \A n \in T \ {x} : n <= m
    BY <1>9
  <2>2. x \in Nat /\ m \in Nat /\ T \subseteq Nat
    BY <1>4, <1>6, <2>1
  <2>3. CASE x <= m
    <3>1. \A n \in T : n <= m
      BY <2>1, <2>3
    <3> QED
      BY <1>6, <2>1, <3>1
  <2>4. CASE ~(x <= m)
    <3>1. \A n \in T : n <= x
      BY <2>1, <2>2, <2>4
    <3> QED
      BY <1>4, <1>6, <3>1
  <2> QED
    BY <2>3, <2>4
<1> QED
  BY <1>7, <1>8, <1>9

\* The longest life and the largest jitter.
LEMMA LongestIs ==
    /\ MaxLife \in Nat /\ MaxLife \in Lives /\ \A life \in Lives : life \in Nat /\ life <= MaxLife
    /\ MaxJitter \in Nat /\ \A jitter \in Jitters : jitter \in Nat /\ jitter <= MaxJitter
<1>1. Lives \subseteq Nat /\ Jitters \subseteq Nat /\ Lives # {} /\ Jitters # {}
      /\ IsFiniteSet(Lives) /\ IsFiniteSet(Jitters)
  BY QueuesAssumption
<1>2. MaxLife \in Lives /\ \A life \in Lives : life <= MaxLife
  BY <1>1, FiniteMax DEF MaxLife
<1>3. MaxJitter \in Jitters /\ \A jitter \in Jitters : jitter <= MaxJitter
  BY <1>1, FiniteMax DEF MaxJitter
<1> QED
  BY <1>1, <1>2, <1>3

\* The greater of two numbers.
LEMMA MaxOfTwo ==
    ASSUME NEW a \in Int, NEW b \in Int
    PROVE  Max({a, b}) \in {a, b} /\ a <= Max({a, b}) /\ b <= Max({a, b})
<1>1. \E m \in {a, b} : \A n \in {a, b} : m >= n
  OBVIOUS
<1>2. Max({a, b}) \in {a, b} /\ \A n \in {a, b} : Max({a, b}) >= n
  BY <1>1 DEF Max
<1> QED
  BY <1>2

\* What a time is, and becomes when time passes.
LEMMA TimesAre ==
    /\ Times \subseteq Int /\ Gone \in Times /\ Gone < 0 /\ Over < 0 /\ 0 \in Times
    /\ \A t \in Times : Gone <= t /\ t <= MaxValidity
    /\ \A life \in Lives : life + Advance \in Times
    /\ \A t \in Times : /\ Passes(t) \in Times /\ PassesForBot(t) \in Times
                        /\ t >= 0 => Passes(t) = t - 1 /\ t - 1 >= -1
                        /\ t >= 1 => PassesForBot(t) = t - 1
                        /\ t < 0 => Passes(t) < 0
<1>1. MaxLife \in Nat /\ MaxJitter \in Nat /\ Advance \in Nat
  BY LongestIs, QueuesAssumption
<1>2. /\ Gone = -(MaxJitter + 2) /\ Over = -(MaxJitter + 1) /\ MaxValidity = MaxLife + Advance
      /\ Times = {Gone} \cup Over .. MaxValidity
  BY DEF Gone, Over, MaxValidity, Times
<1>3. \A life \in Lives : life + Advance \in Times
  BY <1>1, <1>2, LongestIs
<1>4. Times \subseteq Int /\ Gone \in Times /\ Gone < 0 /\ Over < 0 /\ 0 \in Times
      /\ \A t \in Times : Gone <= t /\ t <= MaxValidity
  BY <1>1, <1>2
<1>5. ASSUME NEW t \in Times
      PROVE  /\ Passes(t) \in Times /\ PassesForBot(t) \in Times
             /\ t >= 0 => Passes(t) = t - 1 /\ t - 1 >= -1
             /\ t >= 1 => PassesForBot(t) = t - 1
             /\ t < 0 => Passes(t) < 0
  BY <1>1, <1>2 DEF Passes, PassesForBot
<1> QED
  BY <1>3, <1>4, <1>5

-----------------------------------------------------------------------------
(* Types                                                                   *)

\* An entity is there or not.
Entities == {{}} \cup {{d} : d \in SUBSET Kinds}
Polls == [step : {"idle", "put", "seal", "cache", "get", "set"}, found : [Kinds -> Times]]
Job == [kind : Kinds, valid : Times, todo : SUBSET Bots, put : SUBSET Bots, clear : SUBSET Bots]

\* What a poll holds has its type.
LEMMA PollsAre ==
    /\ NoPoll \in Polls /\ \A list : Finds(list) \in [Kinds -> Times]
    /\ \A p \in Polls : p.step \in {"idle", "put", "seal", "cache", "get", "set"}
                        /\ p.found \in [Kinds -> Times]
BY TimesAre DEF NoPoll, Polls, Finds

\* What TypeOK says, in the terms of the proofs.
LEMMA TypesAre ==
    ASSUME TypeOK
    PROVE  /\ dims \in [Bots -> SUBSET Kinds] /\ torn \subseteq Bots /\ polled \subseteq Bots
           /\ botDims \in [Bots -> Entities] /\ index \in [Bots -> Entities] /\ memcache \in [Bots -> Entities]
           /\ botTasks \in [Bots -> [Kinds -> Times]] /\ taskDims \in [Kinds -> Times]
           /\ poll \in [Bots -> Polls] /\ queue \subseteq Task /\ jobs \subseteq Job
           /\ waiting \in [Kinds -> Nat]
<1>1. waiting \in [Kinds -> 0 .. MaxLife] /\ MaxLife \in Nat
  BY LongestIs DEF TypeOK
<1>2. waiting \in [Kinds -> Nat]
  <2>1. 0 .. MaxLife \subseteq Nat
    BY <1>1
  <2> QED
    BY <1>1, <2>1
<1> QED
  BY <1>2 DEF TypeOK, Entities, Polls, Job

\* The steps of a poll keep the types.
LEMMA PollTypes == ASSUME TypeOK, NEW b \in Bots, Poll(b) PROVE TypeOK'
<1>1. dims[b] \subseteq Kinds /\ Found(b) \subseteq Kinds /\ poll[b] \in Polls /\ poll[b].found \in [Kinds -> Times]
  BY DEF TypeOK, Found, Polls
<1>2. CASE AssertBot(b)
  <2> DEFINE forgets == [botTasks EXCEPT ![b] = [k \in Kinds |-> IF k \in dims[b] THEN @[k] ELSE Gone]]
             finds == [k \in Kinds |-> IF k \in dims[b] /\ taskDims[k] >= 0 THEN taskDims[k] ELSE Gone]
  <2>0. /\ botTasks \in [Bots -> [Kinds -> Times]] /\ taskDims \in [Kinds -> Times]
        /\ Gone \in Times /\ torn \subseteq Bots
    BY TimesAre DEF TypeOK
  <2>1. forgets \in [Bots -> [Kinds -> Times]] /\ finds \in [Kinds -> Times]
    BY <2>0
  <2>2. botTasks' \in [Bots -> [Kinds -> Times]] /\ torn' \subseteq Bots
    <3>1. (botTasks' = botTasks \/ botTasks' = forgets) /\ (torn' = torn \/ torn' = torn \cup {b})
      BY <1>2 DEF AssertBot
    <3> HIDE DEF forgets
    <3> QED
      BY <2>0, <2>1, <3>1
  <2>3. poll' \in [Bots -> Polls]
    <3>1. poll' = [poll EXCEPT ![b].step = "get"] \/ poll' = [poll EXCEPT ![b] = [step |-> "put", found |-> finds]]
      BY <1>2 DEF AssertBot
    <3>2. poll \in [Bots -> Polls]
      BY DEF TypeOK, Polls
    <3> HIDE DEF finds
    <3> QED
      BY <2>1, <3>1, <3>2 DEF Polls
  <2> QED
    BY <1>2, <2>2, <2>3 DEF AssertBot, TypeOK, Entities, Polls, tasks
<1>3. CASE PutBotTasks(b)
  <2>1. botTasks' \in [Bots -> [Kinds -> Times]]
    BY <1>1, <1>3 DEF PutBotTasks, TypeOK
  <2>2. poll' \in [Bots -> Polls]
    BY <1>3, PollsAre DEF PutBotTasks, TypeOK, Polls
  <2> QED
    BY <1>3, <2>1, <2>2 DEF PutBotTasks, TypeOK, Entities, Polls, tasks
<1>4. CASE Seal(b)
  <2>1. poll' \in [Bots -> Polls]
    BY <1>4 DEF Seal, TypeOK, Polls
  <2>3. botDims' \in [Bots -> Entities]
    BY <1>1, <1>4 DEF Seal, TypeOK, Entities
  <2> QED
    BY <1>4, <2>1, <2>3 DEF Seal, TypeOK, Entities, Polls, tasks
<1>5. ASSUME UNCHANGED <<dims, botDims, index, botTasks, taskDims, tasks, events, torn>>,
             poll' \in [Bots -> Polls], seen' \in [Bots -> SUBSET Kinds], polled' \subseteq Bots,
             memcache' = memcache \/ memcache' = [memcache EXCEPT ![b] = {Found(b)}]
      PROVE  TypeOK'
  <2>1. Found(b) \in SUBSET Kinds /\ memcache \in [Bots -> Entities]
    BY <1>1 DEF TypeOK, Entities
  <2>2. memcache' \in [Bots -> Entities]
    BY <1>5, <2>1 DEF Entities
  <2> QED
    BY <1>5, <2>2 DEF TypeOK, Entities, Polls, tasks
<1>6. CASE CacheMatches(b)
  <2>1. poll' \in [Bots -> Polls]
    BY <1>6, PollsAre DEF CacheMatches, TypeOK, Polls, NoPoll
  <2> QED
    BY <1>5, <1>6, <2>1 DEF CacheMatches, TypeOK, Entities
<1>7. CASE GetQueues(b)
  <2>1. PICK list \in memcache[b] : Looks(b, list)
    BY <1>7 DEF GetQueues
  <2>2. list \subseteq Kinds
    <3>1. memcache \in [Bots -> Entities]
      BY DEF TypeOK, Entities
    <3> QED
      BY <2>1, <3>1 DEF Entities
  <2>3. poll' \in [Bots -> Polls] /\ seen' \in [Bots -> SUBSET Kinds] /\ polled' \subseteq Bots
    BY <2>1, <2>2, PollsAre DEF Looks, TypeOK, Polls
  <2> QED
    BY <1>5, <1>7, <2>3 DEF GetQueues
<1>8. CASE QueryQueues(b)
  <2>1. poll' \in [Bots -> Polls]
    BY <1>8, PollsAre DEF QueryQueues, TypeOK, Polls
  <2> QED
    BY <1>5, <1>8, <2>1 DEF QueryQueues, TypeOK, Entities
<1>9. CASE CacheQueues(b)
  <2>1. poll' \in [Bots -> Polls] /\ seen' \in [Bots -> SUBSET Kinds] /\ polled' \subseteq Bots
    BY <1>1, <1>9, PollsAre DEF CacheQueues, Looks, TypeOK, Polls
  <2> QED
    BY <1>5, <1>9, <2>1 DEF CacheQueues
<1> QED
  BY <1>2, <1>3, <1>4, <1>6, <1>7, <1>8, <1>9 DEF Poll

\* The steps of a task that asserts a kind, and of the queue, keep the types.
LEMMA AssertTypes ==
    ASSUME TypeOK, (\E k \in Kinds : AssertTask(k)) \/ Rebuild \/ \E j \in jobs : TaskDies(j)
    PROVE  TypeOK'
<1>1. ASSUME NEW k \in Kinds, AssertTask(k) PROVE TypeOK'
  <2>1. PICK life \in Lives : Waits(k, life) /\ (queue' = queue \/ queue' = queue \cup {[kind |-> k, valid |-> life + Advance]})
    BY <1>1 DEF AssertTask, AssertTaskHit, AssertTaskMiss
  <2>2. queue' \subseteq Task
    BY <2>1, TimesAre DEF TypeOK, Task
  <2>3. waiting[k] \in 0 .. MaxLife /\ life \in 0 .. MaxLife
    <3>1. MaxLife \in Nat /\ life \in Nat /\ life <= MaxLife
      BY LongestIs
    <3> QED
      BY <3>1 DEF TypeOK
  <2>4. Max({waiting[k], life}) \in 0 .. MaxLife
    <3>1. waiting[k] \in Int /\ life \in Int
      BY <2>3
    <3> QED
      BY <2>3, <3>1, MaxOfTwo
  <2>5. waiting' \in [Kinds -> 0 .. MaxLife]
    BY <2>1, <2>4 DEF Waits, TypeOK
  <2> QED
    BY <1>1, <2>2, <2>5 DEF AssertTask, AssertTaskHit, AssertTaskMiss, TypeOK, Entities, bot
<1>2. ASSUME NEW task \in queue, RebuildTaskCache(task) PROVE TypeOK'
  <2>1. PICK job \in Job : jobs' = jobs \cup {job}
    BY <1>2 DEF RebuildTaskCache, TypeOK, Task, Job
  <2>2. events' \in 0 .. MaxEvents /\ torn' \subseteq Bots
    BY <1>2, QueuesAssumption DEF RebuildTaskCache, Event, Crossing, TypeOK
  <2>3. queue' \subseteq Task /\ jobs' \subseteq Job
    BY <1>2, <2>1 DEF RebuildTaskCache, TypeOK, Job
  <2> QED
    BY <1>2, <2>2, <2>3 DEF RebuildTaskCache, TypeOK, Entities, bot, Job
<1>3. ASSUME NEW j \in jobs, NEW b \in Bots, RefreshGet(j, b) \/ RefreshPut(j, b) \/ RefreshClear(j, b)
      PROVE  TypeOK'
  <2>1. j \in Job
    BY DEF TypeOK, Job
  <2>2. PICK next \in Job : jobs' = (jobs \ {j}) \cup {next}
    BY <1>3, <2>1 DEF RefreshGet, RefreshPut, RefreshClear, Goes, Job
  <2>3. botTasks' \in [Bots -> [Kinds -> Times]]
    <3>1. botTasks \in [Bots -> [Kinds -> Times]] /\ j.valid \in Times /\ j.kind \in Kinds
      BY <2>1 DEF TypeOK, Job
    <3>2. botTasks' = botTasks \/ botTasks' = [botTasks EXCEPT ![b][j.kind] = j.valid]
      BY <1>3 DEF RefreshGet, RefreshPut, RefreshClear
    <3> QED
      BY <3>1, <3>2
  <2>5. memcache' \in [Bots -> Entities]
    BY <1>3 DEF RefreshGet, RefreshPut, RefreshClear, TypeOK, Entities
  <2>6. UNCHANGED <<dims, botDims, index, taskDims, poll, seen, polled, queue, waiting, events, torn>>
    BY <1>3 DEF RefreshGet, RefreshPut, RefreshClear, bot
  <2> QED
    BY <2>2, <2>3, <2>5, <2>6 DEF TypeOK, Entities, Job
<1>4. ASSUME NEW j \in jobs, StoreTaskDimensions(j) PROVE TypeOK'
  <2>1. j.kind \in Kinds /\ j.valid \in Times /\ taskDims[j.kind] \in Times
    BY DEF TypeOK
  <2>2. Asserted(taskDims[j.kind], j.valid) \in Times
    BY <2>1, TimesAre, MaxOfTwo DEF Asserted
  <2>3. taskDims' \in [Kinds -> Times]
    BY <1>4, <2>2 DEF StoreTaskDimensions, TypeOK
  <2> QED
    BY <1>4, <2>3 DEF StoreTaskDimensions, TypeOK, Entities, bot
<1>5. ASSUME NEW j \in jobs, TaskDies(j) PROVE TypeOK'
  <2>1. [kind |-> j.kind, valid |-> j.valid] \in Task
    BY DEF TypeOK, Task
  <2>2. queue' \subseteq Task /\ events' \in 0 .. MaxEvents
    BY <1>5, <2>1, QueuesAssumption DEF TaskDies, Event, TypeOK
  <2> QED
    BY <1>5, <2>2 DEF TaskDies, TypeOK, Entities, bot
<1> QED
  BY <1>1, <1>2, <1>3, <1>4, <1>5 DEF Rebuild

\* The steps of cron jobs and of bots, what is forgotten, and time keep the types.
LEMMA OtherTypes ==
    ASSUME TypeOK,
           \/ \E b \in Bots : PollDies(b) \/ TidyStale(b) \/ CleanupAfterBot(b) \/ BotChanges(b)
                              \/ IndexIsUpdated(b) \/ ListIsEvicted(b)
           \/ TimePasses \/ UNCHANGED vars
    PROVE  TypeOK'
<1>1. ASSUME NEW b \in Bots, PollDies(b) PROVE TypeOK'
  <2>1. poll' \in [Bots -> Polls] /\ events' \in 0 .. MaxEvents /\ torn' \subseteq Bots
    BY <1>1, PollsAre, QueuesAssumption DEF PollDies, Event, TypeOK, Polls
  <2> QED
    BY <1>1, <2>1 DEF PollDies, TypeOK, Entities, tasks, Polls
<1>2. ASSUME NEW b \in Bots, NEW k \in Kinds, TidyTask(k) \/ TidyBotTask(b, k) PROVE TypeOK'
  <2>0. /\ botTasks \in [Bots -> [Kinds -> Times]] /\ taskDims \in [Kinds -> Times]
        /\ Gone \in Times
    BY TimesAre DEF TypeOK
  <2>1. taskDims' \in [Kinds -> Times]
    <3>1. taskDims' = taskDims \/ taskDims' = [taskDims EXCEPT ![k] = Gone]
      BY <1>2 DEF TidyTask, TidyBotTask
    <3> QED
      BY <2>0, <3>1
  <2>2. botTasks' \in [Bots -> [Kinds -> Times]]
    <3>1. botTasks' = botTasks \/ botTasks' = [botTasks EXCEPT ![b][k] = Gone]
      BY <1>2 DEF TidyTask, TidyBotTask
    <3> QED
      BY <2>0, <3>1
  <2>3. memcache' \in [Bots -> Entities]
    BY <1>2 DEF TidyTask, TidyBotTask, TypeOK, Entities
  <2>4. UNCHANGED <<dims, botDims, index, poll, seen, polled, queue, jobs, waiting, events, torn>>
    BY <1>2 DEF TidyTask, TidyBotTask, bot, tasks
  <2> QED
    BY <2>1, <2>2, <2>3, <2>4 DEF TypeOK, Entities
<1>3. ASSUME NEW b \in Bots, CleanupAfterBot(b) PROVE TypeOK'
  <2>1. botTasks' \in [Bots -> [Kinds -> Times]] /\ events' \in 0 .. MaxEvents /\ torn' \subseteq Bots
    BY <1>3, TimesAre, QueuesAssumption DEF CleanupAfterBot, Event, TypeOK
  <2>3. botDims' \in [Bots -> Entities]
    BY <1>3 DEF CleanupAfterBot, TypeOK, Entities
  <2> QED
    BY <1>3, <2>1, <2>3 DEF CleanupAfterBot, TypeOK, Entities, bot, tasks
<1>4. ASSUME NEW b \in Bots, BotChanges(b) PROVE TypeOK'
  <2>1. dims' \in [Bots -> SUBSET Kinds] /\ events' \in 0 .. MaxEvents
    BY <1>4, QueuesAssumption DEF BotChanges, Event, TypeOK
  <2> QED
    BY <1>4, <2>1 DEF BotChanges, TypeOK, Entities, tasks
<1>5. ASSUME NEW b \in Bots, IndexIsUpdated(b) PROVE TypeOK'
  <2>2. index' \in [Bots -> Entities]
    BY <1>5 DEF IndexIsUpdated, TypeOK, Entities
  <2> QED
    BY <1>5, <2>2 DEF IndexIsUpdated, TypeOK, Entities, bot, tasks
<1>6. ASSUME NEW b \in Bots, ListIsEvicted(b) PROVE TypeOK'
  <2>2. memcache' \in [Bots -> Entities]
    BY <1>6 DEF ListIsEvicted, TypeOK, Entities
  <2> QED
    BY <1>6, <2>2 DEF ListIsEvicted, TypeOK, Entities, bot, tasks
<1>7. CASE TimePasses
  <2>0. /\ botTasks \in [Bots -> [Kinds -> Times]] /\ taskDims \in [Kinds -> Times]
        /\ queue \subseteq Task /\ waiting \in [Kinds -> 0 .. MaxLife]
    BY DEF TypeOK
  <2>1. botTasks' \in [Bots -> [Kinds -> Times]] /\ taskDims' \in [Kinds -> Times]
    BY <1>7, <2>0, TimesAre DEF TimePasses
  <2>2. queue' \subseteq Task
    <3>1. \A task \in queue : [task EXCEPT !.valid = Passes(@)] \in Task
      BY <2>0, TimesAre DEF Task
    <3> QED
      BY <1>7, <3>1 DEF TimePasses
  <2>3. waiting' \in [Kinds -> 0 .. MaxLife]
    <3>1. \A w \in 0 .. MaxLife : (IF w = 0 THEN 0 ELSE w - 1) \in 0 .. MaxLife
      BY LongestIs
    <3> QED
      BY <1>7, <2>0, <3>1 DEF TimePasses
  <2> QED
    BY <1>7, <2>1, <2>2, <2>3 DEF TimePasses, TypeOK, Entities
<1>8. CASE UNCHANGED vars
  BY <1>8 DEF vars, TypeOK
<1> QED
  BY <1>1, <1>2, <1>3, <1>4, <1>5, <1>6, <1>7, <1>8 DEF TidyStale

\* Every variable keeps its type.
LEMMA TypeKeeps == ASSUME TypeOK, [Next]_vars PROVE TypeOK'
BY PollTypes, AssertTypes, OtherTypes DEF Next

-----------------------------------------------------------------------------
(* Kinds that tasks wait for                                               *)

\* Somebody asserts kind k, for long enough.
AssertedFor(set, k) == \E t \in set : t.kind = k /\ t.valid >= waiting[k] - MaxJitter

\* A task that waits is one whose kind is known, or that the queue or a task of it
\* holds with a date that is late enough.
KindIsCovered ==
    \A k \in Kinds :
        waiting[k] > MaxJitter =>
            \/ taskDims[k] >= waiting[k] - MaxJitter
            \/ AssertedFor(queue, k) \/ AssertedFor(jobs, k)

\* A task is stored: the kind is known for long enough, or the queue has it.
LEMMA KindAssertTask ==
    ASSUME TypeOK, KindIsCovered, NEW k \in Kinds, AssertTask(k)
    PROVE  KindIsCovered'
<1>1. PICK life \in Lives :
         /\ Waits(k, life) /\ UNCHANGED <<taskDims, jobs>>
         /\ \/ queue' = queue /\ \E jitter \in Jitters : taskDims[k] >= life - jitter
            \/ queue' = queue \cup {[kind |-> k, valid |-> life + Advance]}
  BY DEF AssertTask, AssertTaskHit, AssertTaskMiss, IsHit
<1>2. waiting \in [Kinds -> Nat] /\ taskDims \in [Kinds -> Int] /\ life \in Nat
      /\ MaxJitter \in Nat /\ Advance \in Nat
  BY TypesAre, TimesAre, LongestIs, QueuesAssumption
<1>3. waiting'[k] \in {waiting[k], life}
  <2>1. Max({waiting[k], life}) \in {waiting[k], life}
    <3>1. waiting[k] \in Int /\ life \in Int
      BY <1>2
    <3> QED
      BY <3>1, MaxOfTwo
  <2> QED
    BY <1>1, <1>2, <2>1 DEF Waits
<1>4. ASSUME NEW n \in Kinds, waiting'[n] = waiting[n], waiting[n] > MaxJitter
      PROVE  taskDims[n] >= waiting[n] - MaxJitter \/ AssertedFor(queue, n)' \/ AssertedFor(jobs, n)'
  BY <1>1, <1>4 DEF KindIsCovered, AssertedFor
<1>5. ASSUME waiting'[k] = life, life > MaxJitter
      PROVE  taskDims[k] >= life - MaxJitter \/ AssertedFor(queue, k)'
  <2>1. CASE \E jitter \in Jitters : taskDims[k] >= life - jitter
    <3>1. PICK jitter \in Jitters : taskDims[k] >= life - jitter
      BY <2>1
    <3>2. jitter \in Nat /\ jitter <= MaxJitter
      BY LongestIs
    <3> QED
      BY <1>2, <3>1, <3>2
  <2>2. CASE queue' = queue \cup {[kind |-> k, valid |-> life + Advance]}
    <3> DEFINE t == [kind |-> k, valid |-> life + Advance]
    <3>1. t \in queue' /\ t.kind = k /\ t.valid >= life - MaxJitter
      BY <1>2, <2>2
    <3> HIDE DEF t
    <3> QED
      BY <1>5, <3>1 DEF AssertedFor
  <2> QED
    BY <1>1, <2>1, <2>2
<1>6. \A n \in Kinds \ {k} : waiting'[n] = waiting[n]
  BY <1>1, <1>2 DEF Waits
<1> QED
  BY <1>1, <1>3, <1>4, <1>5, <1>6 DEF KindIsCovered

\* A task of the queue goes on with its kind and date.
LEMMA JobGoes ==
    ASSUME TypeOK, NEW j \in jobs, NEW b \in Bots,
           RefreshGet(j, b) \/ RefreshPut(j, b) \/ RefreshClear(j, b)
    PROVE  /\ queue' = queue
           /\ \E next : jobs' = (jobs \ {j}) \cup {next} /\ next.kind = j.kind /\ next.valid = j.valid
<1>1. j \in Job
  BY TypesAre
<1>2. CASE RefreshGet(j, b)
  <2> DEFINE next == [j EXCEPT !.todo = @ \ {b},
                               !.put = IF botTasks[b][j.kind] < j.valid THEN @ \cup {b} ELSE @,
                               !.clear = IF botTasks[b][j.kind] < -1 THEN @ \cup {b} ELSE @]
  <2>1. next.kind = j.kind /\ next.valid = j.valid
    BY <1>1 DEF Job
  <2>2. queue' = queue /\ jobs' = (jobs \ {j}) \cup {next}
    BY <1>2 DEF RefreshGet, Goes
  <2> QED
    BY <2>1, <2>2
<1>3. CASE RefreshPut(j, b)
  <2> DEFINE next == [j EXCEPT !.put = @ \ {b}]
  <2>1. next.kind = j.kind /\ next.valid = j.valid
    BY <1>1 DEF Job
  <2>2. queue' = queue /\ jobs' = (jobs \ {j}) \cup {next}
    BY <1>3 DEF RefreshPut, Goes
  <2> QED
    BY <2>1, <2>2
<1>4. CASE RefreshClear(j, b)
  <2> DEFINE next == [j EXCEPT !.clear = @ \ {b}]
  <2>1. next.kind = j.kind /\ next.valid = j.valid
    BY <1>1 DEF Job
  <2>2. queue' = queue /\ jobs' = (jobs \ {j}) \cup {next}
    BY <1>4 DEF RefreshClear, Goes
  <2> QED
    BY <2>1, <2>2
<1> QED
  BY <1>2, <1>3, <1>4

\* What the queue and its tasks do: a kind that is asserted stays so until it is known.
LEMMA KindRebuild ==
    ASSUME TypeOK, KindIsCovered, Rebuild \/ \E j \in jobs : TaskDies(j)
    PROVE  KindIsCovered'
<1>1. waiting' = waiting
  BY DEF Rebuild, RebuildTaskCache, StoreTaskDimensions, RefreshGet, RefreshPut, RefreshClear, TaskDies
<1>2. SUFFICES ASSUME NEW k \in Kinds, waiting[k] > MaxJitter,
                      ~(taskDims'[k] >= waiting[k] - MaxJitter)
               PROVE  AssertedFor(queue, k)' \/ AssertedFor(jobs, k)'
  BY <1>1 DEF KindIsCovered
<1> DEFINE late(t) == t.kind = k /\ t.valid >= waiting[k] - MaxJitter
<1>3. ASSUME NEW j \in jobs, StoreTaskDimensions(j)
      PROVE  /\ jobs' = jobs \ {j} /\ queue' = queue
             /\ ~late(j) /\ taskDims[k] <= taskDims'[k]
  <2>1. j.kind \in Kinds /\ j.valid \in Int /\ taskDims \in [Kinds -> Int] /\ waiting[k] \in Int
        /\ MaxJitter \in Int
    BY TypesAre, TimesAre, LongestIs DEF Job
  <2>2. Asserted(taskDims[j.kind], j.valid) >= j.valid
        /\ Asserted(taskDims[j.kind], j.valid) >= taskDims[j.kind]
        /\ Asserted(taskDims[j.kind], j.valid) \in Int
    <3>1. taskDims[j.kind] \in Int /\ j.valid \in Int
      BY <2>1
    <3> QED
      BY <3>1, MaxOfTwo DEF Asserted
  <2>3. taskDims' = [taskDims EXCEPT ![j.kind] = Asserted(taskDims[j.kind], j.valid)]
    BY <1>3 DEF StoreTaskDimensions
  <2> HIDE DEF late
  <2>4. taskDims[k] <= taskDims'[k] /\ (j.kind = k => taskDims'[k] >= j.valid)
    BY <2>1, <2>2, <2>3
  <2>5. ~late(j)
    BY <1>2, <2>1, <2>2, <2>3, <2>4 DEF late
  <2> QED
    BY <1>3, <2>4, <2>5 DEF StoreTaskDimensions
<1>4. ~(taskDims[k] >= waiting[k] - MaxJitter)
  <2>1. taskDims[k] \in Int /\ waiting[k] \in Int /\ MaxJitter \in Int /\ taskDims'[k] \in Int
    <3>1. TypeOK'
      BY AssertTypes
    <3>2. taskDims' \in [Kinds -> Times]
      BY <3>1 DEF TypeOK
    <3>3. taskDims \in [Kinds -> Times] /\ waiting \in [Kinds -> Nat] /\ Times \subseteq Int /\ MaxJitter \in Nat
      BY TypesAre, TimesAre, LongestIs
    <3>4. taskDims[k] \in Times /\ taskDims'[k] \in Times /\ waiting[k] \in Nat
      BY <3>2, <3>3
    <3>5. \A t \in Times : t \in Int
      BY <3>3
    <3>6. taskDims[k] \in Int /\ taskDims'[k] \in Int
      BY <3>4, <3>5
    <3>7. waiting[k] \in Int /\ MaxJitter \in Int
      BY <3>3, <3>4
    <3> QED
      BY <3>6, <3>7
  <2>2. taskDims[k] <= taskDims'[k]
    <3>1. CASE \E j \in jobs : StoreTaskDimensions(j)
      BY <1>3, <3>1
    <3>2. CASE ~ \E j \in jobs : StoreTaskDimensions(j)
      <4>1. taskDims' = taskDims
        BY <3>2 DEF Rebuild, RebuildTaskCache, RefreshGet, RefreshPut, RefreshClear, TaskDies
      <4> QED
        BY <2>1, <4>1
    <3> QED
      BY <3>1, <3>2
  <2> QED
    BY <1>2, <2>1, <2>2
<1>5. PICK t \in queue \cup jobs : late(t)
  BY <1>2, <1>4 DEF KindIsCovered, AssertedFor
<1>6. \E u \in queue' \cup jobs' : u.kind = t.kind /\ u.valid = t.valid
  <2>1. CASE t \in queue' \cup jobs'
    BY <2>1
  <2>2. ASSUME NEW task \in queue, RebuildTaskCache(task)
        PROVE  \E u \in queue' \cup jobs' : u.kind = t.kind /\ u.valid = t.valid
    <3> DEFINE job == [kind |-> task.kind, valid |-> task.valid,
                       todo |-> {b \in Bots : \E d \in index[b] : task.kind \in d}, put |-> {}, clear |-> {}]
    <3>1. queue' = queue \ {task} /\ jobs' = jobs \cup {job}
          /\ job.kind = task.kind /\ job.valid = task.valid
      BY <2>2 DEF RebuildTaskCache
    <3> HIDE DEF job
    <3> QED
      BY <3>1
  <2>3. ASSUME NEW j \in jobs, StoreTaskDimensions(j)
        PROVE  \E u \in queue' \cup jobs' : u.kind = t.kind /\ u.valid = t.valid
    <3>1. t # j
      BY <1>3, <1>5, <2>3
    <3> QED
      BY <1>3, <2>3, <3>1
  <2>4. ASSUME NEW j \in jobs, NEW b \in Bots, RefreshGet(j, b) \/ RefreshPut(j, b) \/ RefreshClear(j, b)
        PROVE  \E u \in queue' \cup jobs' : u.kind = t.kind /\ u.valid = t.valid
    <3>1. queue' = queue /\ \E next : jobs' = (jobs \ {j}) \cup {next} /\ next.kind = j.kind /\ next.valid = j.valid
      BY <2>4, JobGoes
    <3> QED
      BY <3>1
  <2>5. ASSUME NEW j \in jobs, TaskDies(j)
        PROVE  \E u \in queue' \cup jobs' : u.kind = t.kind /\ u.valid = t.valid
    <3> DEFINE again == [kind |-> j.kind, valid |-> j.valid]
    <3>1. queue' = queue \cup {again} /\ jobs' = jobs \ {j} /\ again.kind = j.kind /\ again.valid = j.valid
      BY <2>5 DEF TaskDies
    <3> HIDE DEF again
    <3> QED
      BY <3>1
  <2> QED
    BY <2>2, <2>3, <2>4, <2>5 DEF Rebuild
<1> QED
  BY <1>1, <1>5, <1>6 DEF AssertedFor

\* Time, and what does not concern the kinds of tasks.
LEMMA KindOther ==
    ASSUME TypeOK, KindIsCovered,
           \/ \E b \in Bots : Poll(b) \/ PollDies(b) \/ TidyStale(b) \/ CleanupAfterBot(b)
                              \/ BotChanges(b) \/ IndexIsUpdated(b) \/ ListIsEvicted(b)
           \/ TimePasses \/ UNCHANGED vars
    PROVE  KindIsCovered'
<1>0. waiting \in [Kinds -> Nat] /\ taskDims \in [Kinds -> Times] /\ queue \subseteq Task /\ MaxJitter \in Nat
  BY TypesAre, LongestIs
<1>1. CASE UNCHANGED <<taskDims, queue, jobs, waiting>>
  BY <1>1 DEF KindIsCovered, AssertedFor
<1>2. ASSUME NEW k \in Kinds, TidyTask(k) PROVE KindIsCovered'
  <2>1. UNCHANGED <<queue, jobs, waiting>>
    BY <1>2 DEF TidyTask, tasks
  <2>2. taskDims[k] \in Int /\ taskDims[k] < 0 /\ taskDims' = [taskDims EXCEPT ![k] = Gone]
    <3>1. taskDims[k] \in Over .. -1 /\ taskDims[k] \in Int
      BY <1>0, <1>2, TimesAre DEF TidyTask
    <3> QED
      BY <1>2, <3>1 DEF TidyTask
  <2>3. waiting[k] > MaxJitter => ~(taskDims[k] >= waiting[k] - MaxJitter)
    <3>1. waiting[k] \in Int /\ MaxJitter \in Int
      BY <1>0
    <3> QED
      BY <2>2, <3>1
  <2>4. \A n \in Kinds \ {k} : taskDims'[n] = taskDims[n]
    BY <1>0, <2>2
  <2> QED
    BY <2>1, <2>3, <2>4 DEF KindIsCovered, AssertedFor
<1>3. CASE TimePasses
  <2>1. SUFFICES ASSUME NEW k \in Kinds, waiting'[k] > MaxJitter
                 PROVE  taskDims'[k] >= waiting'[k] - MaxJitter \/ AssertedFor(queue, k)'
    BY DEF KindIsCovered
  <2>2. waiting'[k] = waiting[k] - 1 /\ waiting[k] > MaxJitter /\ waiting[k] \in Nat
    BY <1>0, <1>3, <2>1 DEF TimePasses
  <2>3. taskDims'[k] = Passes(taskDims[k]) /\ jobs = {}
        /\ queue' = {[task EXCEPT !.valid = Passes(@)] : task \in queue}
    BY <1>3 DEF TimePasses
  <2>4. \A t \in Times : t >= waiting[k] - MaxJitter => Passes(t) >= waiting'[k] - MaxJitter
    <3>1. ASSUME NEW t \in Times, t >= waiting[k] - MaxJitter PROVE Passes(t) >= waiting'[k] - MaxJitter
      <4>1. t \in Int /\ t >= 0
        BY <1>0, <2>2, <3>1, TimesAre
      <4>2. Passes(t) = t - 1
        BY <4>1, TimesAre
      <4> QED
        BY <1>0, <2>2, <3>1, <4>1, <4>2
    <3> QED
      BY <3>1
  <2>5. CASE taskDims[k] >= waiting[k] - MaxJitter
    BY <1>0, <2>3, <2>4, <2>5
  <2>6. CASE AssertedFor(queue, k)
    <3>1. PICK t \in queue : t.kind = k /\ t.valid >= waiting[k] - MaxJitter
      BY <2>6 DEF AssertedFor
    <3> DEFINE u == [t EXCEPT !.valid = Passes(@)]
    <3>2. t \in Task /\ u.kind = t.kind /\ u.valid = Passes(t.valid) /\ t.valid \in Times
      BY <1>0 DEF Task
    <3>3. u \in queue'
      BY <2>3
    <3>4. u.valid >= waiting'[k] - MaxJitter
      BY <2>4, <3>1, <3>2
    <3> HIDE DEF u
    <3> QED
      BY <3>1, <3>2, <3>3, <3>4 DEF AssertedFor
  <2>7. ~AssertedFor(jobs, k)
    BY <2>3 DEF AssertedFor
  <2> QED
    BY <2>2, <2>5, <2>6, <2>7 DEF KindIsCovered
<1>4. ASSUME NEW b \in Bots, Poll(b) PROVE UNCHANGED <<taskDims, queue, jobs, waiting>>
  BY <1>4 DEF Poll, AssertBot, PutBotTasks, Seal, CacheMatches, GetQueues, QueryQueues, CacheQueues, tasks
<1>5. ASSUME NEW b \in Bots, PollDies(b) \/ CleanupAfterBot(b) \/ BotChanges(b) \/ IndexIsUpdated(b)
                              \/ ListIsEvicted(b) \/ \E k \in Kinds : TidyBotTask(b, k)
      PROVE  UNCHANGED <<taskDims, queue, jobs, waiting>>
  BY <1>5 DEF PollDies, CleanupAfterBot, BotChanges, IndexIsUpdated, ListIsEvicted, TidyBotTask, tasks
<1>6. CASE UNCHANGED vars
  BY <1>1, <1>6 DEF vars
<1> QED
  BY <1>1, <1>2, <1>3, <1>4, <1>5, <1>6 DEF TidyStale

-----------------------------------------------------------------------------
(* Bots that can run a kind                                                *)

\* If kind k is known, bot b has it for at least as long.
IsBacked(b, k) == taskDims[k] >= 0 => botTasks[b][k] >= taskDims[k]

\* While the cache of bot b is rebuilt no task of the queue runs, and what was found
\* is as good as what is known; else the kinds of its BotDimensions are backed, and a
\* task of the queue that runs has made its kind so, or will.
BotIsSteady(b) ==
    /\ Rebuilding(b) => jobs = {}
    /\ poll[b].step \in {"put", "seal"} => dims[b] \notin botDims[b]
    /\ \A i, j \in jobs : i.kind = j.kind => i = j
    /\ \A j \in jobs : b \in j.put => botTasks[b][j.kind] <= j.valid
    /\ \A d \in botDims[b] : \A k \in d :
          /\ poll[b].step \notin {"put", "seal"} => IsBacked(b, k)
          /\ \A j \in jobs : j.kind = k /\ j.valid >= 0 =>
                b \in j.todo \cup j.put \/ botTasks[b][k] >= j.valid
    /\ poll[b].step = "put" => \A k \in dims[b] : taskDims[k] >= 0 => poll[b].found[k] >= taskDims[k]
    /\ poll[b].step = "seal" => \A k \in dims[b] : IsBacked(b, k)

BotsAreSteady ==
    /\ \A b \in Bots : poll[b].step # "idle" => b \notin polled
    /\ \A b \in Bots \ torn : BotIsSteady(b)

\* What bot b is not concerned by.
LEMMA SteadyStays ==
    ASSUME NEW b \in Bots, BotIsSteady(b), dims'[b] = dims[b], botDims'[b] = botDims[b],
           botTasks'[b] = botTasks[b], poll'[b] = poll[b], jobs' = jobs, taskDims' = taskDims
    PROVE  BotIsSteady(b)'
BY DEF BotIsSteady, IsBacked, Rebuilding

\* What another bot does, or what is done to it, does not concern bot b.
LEMMA SteadyElsewhere ==
    ASSUME TypeOK, NEW b \in Bots, NEW c \in Bots, b # c, BotIsSteady(b),
           \/ Poll(c) \/ PollDies(c) \/ CleanupAfterBot(c) \/ BotChanges(c) \/ IndexIsUpdated(c)
           \/ ListIsEvicted(c) \/ \E k \in Kinds : TidyBotTask(c, k)
    PROVE  BotIsSteady(b)'
<1>0. /\ dims \in [Bots -> SUBSET Kinds] /\ botDims \in [Bots -> Entities]
      /\ botTasks \in [Bots -> [Kinds -> Times]] /\ poll \in [Bots -> Polls]
  BY TypesAre
<1>1. jobs' = jobs /\ taskDims' = taskDims
  BY DEF Poll, AssertBot, PutBotTasks, Seal, CacheMatches, GetQueues, QueryQueues, CacheQueues, PollDies,
         CleanupAfterBot, BotChanges, IndexIsUpdated, ListIsEvicted, TidyBotTask, tasks
<1>2. dims'[b] = dims[b]
  BY <1>0 DEF Poll, AssertBot, PutBotTasks, Seal, CacheMatches, GetQueues, QueryQueues, CacheQueues,
              PollDies, CleanupAfterBot, BotChanges, IndexIsUpdated, ListIsEvicted, TidyBotTask, bot
<1>3. botDims'[b] = botDims[b]
  BY <1>0 DEF Poll, AssertBot, PutBotTasks, Seal, CacheMatches, GetQueues, QueryQueues, CacheQueues,
              PollDies, CleanupAfterBot, BotChanges, IndexIsUpdated, ListIsEvicted, TidyBotTask
<1>4. botTasks'[b] = botTasks[b]
  BY <1>0 DEF Poll, AssertBot, PutBotTasks, Seal, CacheMatches, GetQueues, QueryQueues, CacheQueues,
              PollDies, CleanupAfterBot, BotChanges, IndexIsUpdated, ListIsEvicted, TidyBotTask
<1>5. poll'[b] = poll[b]
  BY <1>0 DEF Poll, AssertBot, PutBotTasks, Seal, CacheMatches, GetQueues, QueryQueues, CacheQueues, Looks,
              PollDies, CleanupAfterBot, BotChanges, IndexIsUpdated, ListIsEvicted, TidyBotTask, bot
<1> QED
  BY <1>1, <1>2, <1>3, <1>4, <1>5, SteadyStays

\* The poll of bot b.
LEMMA SteadyPoll ==
    ASSUME TypeOK, NEW b \in Bots, BotIsSteady(b), Poll(b), b \notin torn'
    PROVE  BotIsSteady(b)'
<1>0. /\ dims \in [Bots -> SUBSET Kinds] /\ botDims \in [Bots -> Entities] /\ taskDims \in [Kinds -> Times]
      /\ botTasks \in [Bots -> [Kinds -> Times]] /\ poll \in [Bots -> Polls] /\ Times \subseteq Int
      /\ Gone \in Times
  BY TypesAre, TimesAre
<1>1. CASE AssertBot(b) /\ IsUpToDate(b)
  <2>1. /\ poll'[b].step = "get" /\ poll[b].step = "idle" /\ botTasks' = botTasks
        /\ UNCHANGED <<dims, botDims, taskDims, jobs>>
    BY <1>0, <1>1 DEF AssertBot, tasks, Polls
  <2> QED
    BY <2>1 DEF BotIsSteady, IsBacked, Rebuilding
<1>2. CASE AssertBot(b) /\ ~IsUpToDate(b)
  <2> DEFINE found == [k \in Kinds |-> IF k \in dims[b] /\ taskDims[k] >= 0 THEN taskDims[k] ELSE Gone]
  <2>1. /\ jobs = {} /\ dims[b] \notin botDims[b]
        /\ poll'[b].step = "put" /\ poll'[b].found = found
        /\ UNCHANGED <<dims, botDims, taskDims, jobs>>
    BY <1>0, <1>2 DEF AssertBot, IsUpToDate, tasks
  <2>2. ASSUME NEW k \in dims[b], taskDims[k] >= 0 PROVE found[k] >= taskDims[k]
    <3>1. k \in Kinds /\ taskDims[k] \in Int
      BY <1>0
    <3>2. found[k] = taskDims[k]
      BY <2>2, <3>1
    <3> QED
      BY <3>1, <3>2
  <2> HIDE DEF found
  <2> QED
    BY <2>1, <2>2 DEF BotIsSteady
<1>3. CASE PutBotTasks(b)
  <2>1. /\ jobs = {} /\ dims[b] \notin botDims[b] /\ poll[b].step = "put" /\ poll'[b].step = "seal"
        /\ UNCHANGED <<dims, botDims, taskDims, jobs>>
    BY <1>0, <1>3 DEF PutBotTasks, BotIsSteady, Rebuilding, tasks
  <2>2. ASSUME NEW k \in dims[b], taskDims[k] >= 0 PROVE botTasks'[b][k] >= taskDims[k]
    <3>1. poll[b].found[k] >= taskDims[k] /\ k \in Kinds
      BY <1>0, <2>1, <2>2 DEF BotIsSteady
    <3>2. poll[b].found[k] \in Times /\ taskDims[k] \in Times /\ Gone < 0
      BY <1>0, <3>1, TimesAre DEF Polls
    <3>3. k \in Found(b)
      <4>1. poll[b].found[k] \in Int /\ taskDims[k] \in Int /\ Gone \in Int
        BY <1>0, <3>2
      <4>2. poll[b].found[k] # Gone
        BY <2>2, <3>1, <3>2, <4>1
      <4> QED
        BY <3>1, <4>2 DEF Found
    <3>4. botTasks'[b][k] = poll[b].found[k]
      BY <1>0, <1>3, <3>1, <3>3 DEF PutBotTasks
    <3> QED
      BY <3>1, <3>4
  <2> QED
    BY <2>1, <2>2 DEF BotIsSteady, IsBacked
<1>4. CASE Seal(b)
  <2>1. /\ jobs = {} /\ poll[b].step = "seal" /\ poll'[b].step = "cache" /\ botDims'[b] = {dims[b]}
        /\ UNCHANGED <<dims, botTasks, taskDims, jobs>>
    BY <1>0, <1>4 DEF Seal, BotIsSteady, Rebuilding, Polls, tasks
  <2> QED
    BY <2>1 DEF BotIsSteady, IsBacked
<1>5. CASE CacheMatches(b) \/ GetQueues(b) \/ QueryQueues(b) \/ CacheQueues(b)
  <2>1. /\ poll[b].step \in {"cache", "get", "set"} /\ poll'[b].step \in {"idle", "get", "set"}
        /\ UNCHANGED <<dims, botDims, botTasks, taskDims, jobs>>
    BY <1>0, <1>5 DEF CacheMatches, GetQueues, QueryQueues, CacheQueues, Looks, NoPoll, Polls, tasks
  <2> QED
    BY <2>1 DEF BotIsSteady, IsBacked, Rebuilding
<1> QED
  BY <1>1, <1>2, <1>3, <1>4, <1>5 DEF Poll, AssertBot

\* What happens to bot b.
LEMMA SteadyHere ==
    ASSUME TypeOK, NEW b \in Bots, BotIsSteady(b), b \notin torn',
           \/ PollDies(b) \/ CleanupAfterBot(b) \/ BotChanges(b) \/ IndexIsUpdated(b)
           \/ ListIsEvicted(b) \/ \E k \in Kinds : TidyBotTask(b, k)
    PROVE  BotIsSteady(b)'
<1>0. /\ dims \in [Bots -> SUBSET Kinds] /\ botDims \in [Bots -> Entities] /\ taskDims \in [Kinds -> Times]
      /\ botTasks \in [Bots -> [Kinds -> Times]] /\ poll \in [Bots -> Polls] /\ jobs \subseteq Job
  BY TypesAre
<1>1. CASE PollDies(b)
  <2>1. /\ ~Rebuilding(b) /\ poll'[b].step = "idle"
        /\ UNCHANGED <<dims, botDims, botTasks, taskDims, jobs>>
    BY <1>0, <1>1 DEF PollDies, NoPoll, tasks
  <2> QED
    BY <2>1 DEF BotIsSteady, IsBacked, Rebuilding
<1>2. CASE CleanupAfterBot(b)
  <2>1. /\ ~Rebuilding(b) /\ botDims'[b] = {} /\ \A k \in Kinds : botTasks'[b][k] = Gone
        /\ UNCHANGED <<dims, poll, taskDims, jobs>>
    BY <1>0, <1>2 DEF CleanupAfterBot, bot, tasks
  <2>2. \A j \in jobs : Gone <= j.valid /\ j.kind \in Kinds
    BY <1>0, TimesAre DEF Job
  <2> QED
    BY <2>1, <2>2 DEF BotIsSteady, Rebuilding
<1>3. CASE BotChanges(b)
  <2>1. poll[b].step = "idle" /\ UNCHANGED <<botDims, botTasks, poll, taskDims, jobs>>
    BY <1>3 DEF BotChanges, tasks
  <2> QED
    BY <2>1 DEF BotIsSteady, IsBacked, Rebuilding
<1>4. CASE IndexIsUpdated(b) \/ ListIsEvicted(b)
  BY <1>4, SteadyStays DEF IndexIsUpdated, ListIsEvicted, bot, tasks
<1>5. ASSUME NEW k \in Kinds, TidyBotTask(b, k) PROVE BotIsSteady(b)'
  <2>1. /\ botTasks[b][k] \in Over .. -1 /\ botTasks' = [botTasks EXCEPT ![b][k] = Gone]
        /\ UNCHANGED <<dims, botDims, poll, taskDims, jobs>>
    BY <1>5 DEF TidyBotTask, bot, tasks
  <2>2. botTasks[b][k] \in Int /\ botTasks[b][k] < 0 /\ botTasks'[b][k] = Gone
        /\ \A n \in Kinds \ {k} : botTasks'[b][n] = botTasks[b][n]
    <3>1. Over \in Int
      BY LongestIs DEF Over
    <3> QED
      BY <1>0, <2>1, <3>1
  <2>3. \A j \in jobs : Gone <= j.valid /\ j.kind \in Kinds /\ j.valid \in Int
    BY <1>0, TimesAre DEF Job
  <2>4. taskDims[k] \in Int /\ \A d \in botDims[b] : d \subseteq Kinds
    BY <1>0, TimesAre DEF Entities
  <2>5. \A n \in Kinds : IsBacked(b, n) => IsBacked(b, n)'
    BY <2>1, <2>2, <2>4 DEF IsBacked
  <2>6. \A j \in jobs : b \in j.put => botTasks'[b][j.kind] <= j.valid
    BY <2>2, <2>3 DEF BotIsSteady
  <2>7. \A d \in botDims[b] : \A n \in d : \A j \in jobs :
           j.kind = n /\ j.valid >= 0 => b \in j.todo \cup j.put \/ botTasks'[b][n] >= j.valid
    BY <2>2, <2>3, <2>4 DEF BotIsSteady
  <2>8. dims[b] \subseteq Kinds
    BY <1>0
  <2>9. \A d \in botDims[b] : \A n \in d : poll[b].step \notin {"put", "seal"} => IsBacked(b, n)'
    BY <2>4, <2>5 DEF BotIsSteady
  <2>10. poll[b].step = "seal" => \A n \in dims[b] : IsBacked(b, n)'
    BY <2>5, <2>8 DEF BotIsSteady
  <2> QED
    BY <2>1, <2>6, <2>7, <2>9, <2>10 DEF BotIsSteady, Rebuilding
<1> QED
  BY <1>1, <1>2, <1>3, <1>4, <1>5

\* A task of the queue starts: a bot that it will not refresh is not concerned, or
\* was being changed just then.
LEMMA SteadyStarts ==
    ASSUME TypeOK, NEW b \in Bots, BotIsSteady(b), b \notin torn',
           NEW task \in queue, RebuildTaskCache(task)
    PROVE  BotIsSteady(b)'
<1> DEFINE job == [kind |-> task.kind, valid |-> task.valid,
                   todo |-> {c \in Bots : \E d \in index[c] : task.kind \in d}, put |-> {}, clear |-> {}]
<1>1. /\ jobs' = jobs \cup {job} /\ ~ \E j \in jobs : j.kind = task.kind
      /\ b \notin Crossing
      /\ UNCHANGED <<dims, botDims, botTasks, poll, taskDims>>
  BY DEF RebuildTaskCache, bot
<1>2. /\ job.kind = task.kind /\ job.put = {}
      /\ \A d \in index[b] : task.kind \in d => b \in job.todo
  OBVIOUS
<1> HIDE DEF job
<1>3. ~Rebuilding(b) /\ index[b] = botDims[b]
  BY <1>1 DEF Crossing
<1>4. /\ \A i, j \in jobs' : i.kind = j.kind => i = j
      /\ \A j \in jobs' : b \in j.put => botTasks[b][j.kind] <= j.valid
  BY <1>1, <1>2 DEF BotIsSteady
<1>5. \A d \in botDims[b] : \A k \in d : \A j \in jobs' :
         j.kind = k /\ j.valid >= 0 => b \in j.todo \cup j.put \/ botTasks[b][k] >= j.valid
  BY <1>1, <1>2, <1>3 DEF BotIsSteady
<1> QED
  BY <1>1, <1>3, <1>4, <1>5 DEF BotIsSteady, IsBacked, Rebuilding

\* A task of the queue refreshes bot c.
LEMMA SteadyRefresh ==
    ASSUME TypeOK, NEW b \in Bots, BotIsSteady(b), NEW c \in Bots, NEW j \in jobs,
           RefreshGet(j, c) \/ RefreshPut(j, c) \/ RefreshClear(j, c)
    PROVE  BotIsSteady(b)'
<1> DEFINE k == j.kind
           valid == botTasks[c][k]
           gets == [j EXCEPT !.todo = @ \ {c},
                             !.put = IF valid < j.valid THEN @ \cup {c} ELSE @,
                             !.clear = IF valid < -1 THEN @ \cup {c} ELSE @]
           puts == [j EXCEPT !.put = @ \ {c}]
           clears == [j EXCEPT !.clear = @ \ {c}]
<1>0. /\ botTasks \in [Bots -> [Kinds -> Times]] /\ j \in Job /\ Times \subseteq Int
      /\ k \in Kinds /\ j.valid \in Int /\ taskDims \in [Kinds -> Times] /\ botDims \in [Bots -> Entities]
      /\ dims \in [Bots -> SUBSET Kinds] /\ jobs \subseteq Job
  BY TypesAre, TimesAre DEF Job
<1>1. jobs # {} /\ ~Rebuilding(b)
  BY DEF BotIsSteady
<1>2. PICK next : /\ jobs' = (jobs \ {j}) \cup {next} /\ next.kind = k /\ next.valid = j.valid
                  /\ UNCHANGED <<dims, botDims, poll, taskDims>>
                  /\ \/ /\ botTasks' = botTasks
                        /\ next.put = j.put /\ next.todo = j.todo
                     \/ /\ botTasks' = botTasks
                        /\ next.todo = j.todo \ {c}
                        /\ next.put = IF botTasks[c][k] < j.valid THEN j.put \cup {c} ELSE j.put
                     \/ /\ botTasks' = [botTasks EXCEPT ![c][k] = j.valid] /\ c \in j.put
                        /\ next.put = j.put \ {c} /\ next.todo = j.todo
  <2>1. CASE RefreshGet(j, c)
    <3>1. /\ gets.kind = k /\ gets.valid = j.valid /\ gets.todo = j.todo \ {c}
          /\ gets.put = IF valid < j.valid THEN j.put \cup {c} ELSE j.put
      BY <1>0 DEF Job
    <3>2. jobs' = (jobs \ {j}) \cup {gets} /\ UNCHANGED <<dims, botDims, botTasks, poll, taskDims>>
      BY <2>1 DEF RefreshGet, Goes, bot
    <3> HIDE DEF gets
    <3> QED
      BY <3>1, <3>2
  <2>2. CASE RefreshPut(j, c)
    <3>1. puts.kind = k /\ puts.valid = j.valid /\ puts.todo = j.todo /\ puts.put = j.put \ {c}
      BY <1>0 DEF Job
    <3>2. /\ jobs' = (jobs \ {j}) \cup {puts} /\ UNCHANGED <<dims, botDims, poll, taskDims>>
          /\ botTasks' = [botTasks EXCEPT ![c][k] = j.valid] /\ c \in j.put
      BY <2>2 DEF RefreshPut, Goes, bot
    <3> HIDE DEF puts
    <3> QED
      BY <3>1, <3>2
  <2>3. CASE RefreshClear(j, c)
    <3>1. clears.kind = k /\ clears.valid = j.valid /\ clears.todo = j.todo /\ clears.put = j.put
      BY <1>0 DEF Job
    <3>2. jobs' = (jobs \ {j}) \cup {clears} /\ UNCHANGED <<dims, botDims, botTasks, poll, taskDims>>
      BY <2>3 DEF RefreshClear, Goes, bot
    <3> HIDE DEF clears
    <3> QED
      BY <3>1, <3>2
  <2> QED
    BY <2>1, <2>2, <2>3
<1> HIDE DEF gets, puts, clears
<1>3. /\ \A i \in jobs : i.kind = k => i = j
      /\ b \in j.put => botTasks[b][k] <= j.valid
      /\ \A d \in botDims[b] : k \in d /\ j.valid >= 0 => b \in j.todo \cup j.put \/ botTasks[b][k] >= j.valid
      /\ \A d \in botDims[b] : \A n \in d : IsBacked(b, n)
  BY <1>1 DEF BotIsSteady, Rebuilding
<1>4. \A i, l \in jobs' : i.kind = l.kind => i = l
  BY <1>2, <1>3 DEF BotIsSteady
<1>5. \A n \in Kinds \ {k} : botTasks'[b][n] = botTasks[b][n]
  BY <1>0, <1>2
<1>6. botTasks[b][k] \in Int /\ taskDims[k] \in Int
  <2>1. botTasks[b][k] \in Times /\ taskDims[k] \in Times
    BY <1>0
  <2> QED
    BY <1>0, <2>1
<1>7. botTasks'[b][k] = botTasks[b][k] \/ (botTasks'[b][k] = j.valid /\ b \in j.put)
  BY <1>0, <1>2
<1>8. /\ b \in next.put => botTasks'[b][k] <= j.valid
      /\ \A d \in botDims[b] : k \in d /\ j.valid >= 0 =>
            b \in next.todo \cup next.put \/ botTasks'[b][k] >= j.valid
  <2>1. CASE botTasks' = botTasks /\ next.put = j.put /\ next.todo = j.todo
    BY <1>3, <2>1
  <2>2. CASE /\ botTasks' = botTasks /\ next.todo = j.todo \ {c}
             /\ next.put = IF botTasks[c][k] < j.valid THEN j.put \cup {c} ELSE j.put
    BY <1>0, <1>3, <1>6, <2>2
  <2>3. CASE /\ botTasks' = [botTasks EXCEPT ![c][k] = j.valid] /\ c \in j.put
             /\ next.put = j.put \ {c} /\ next.todo = j.todo
    <3>1. CASE b = c
      <4>1. botTasks'[b][k] = j.valid
        BY <1>0, <2>3, <3>1
      <4> QED
        BY <1>0, <4>1
    <3>2. CASE b # c
      <4>1. botTasks'[b] = botTasks[b]
        BY <1>0, <2>3, <3>2
      <4> QED
        BY <1>3, <2>3, <3>2, <4>1
    <3> QED
      BY <3>1, <3>2
  <2> QED
    BY <1>2, <2>1, <2>2, <2>3
<1>9. \A n \in Kinds : IsBacked(b, n) => IsBacked(b, n)'
  <2>1. IsBacked(b, k) => IsBacked(b, k)'
    BY <1>0, <1>2, <1>3, <1>6, <1>7 DEF IsBacked
  <2>2. \A n \in Kinds \ {k} : IsBacked(b, n) => IsBacked(b, n)'
    BY <1>2, <1>5 DEF IsBacked
  <2> QED
    BY <2>1, <2>2
<1>10. \A d \in botDims[b] : d \subseteq Kinds
  BY <1>0 DEF Entities
<1>11. \A i \in jobs' : b \in i.put => botTasks'[b][i.kind] <= i.valid
  <2>1. \A i \in jobs \ {j} : b \in i.put => botTasks'[b][i.kind] <= i.valid
    <3>1. \A i \in jobs \ {j} : i.kind \in Kinds \ {k}
      BY <1>0, <1>3 DEF Job
    <3> QED
      BY <1>5, <3>1 DEF BotIsSteady
  <2> QED
    BY <1>2, <1>8, <2>1
<1>12. \A d \in botDims[b] : \A n \in d : \A i \in jobs' :
          i.kind = n /\ i.valid >= 0 => b \in i.todo \cup i.put \/ botTasks'[b][n] >= i.valid
  <2>1. \A d \in botDims[b] : \A n \in d : \A i \in jobs \ {j} :
           i.kind = n /\ i.valid >= 0 => b \in i.todo \cup i.put \/ botTasks'[b][n] >= i.valid
    <3>1. \A i \in jobs \ {j} : i.kind \in Kinds \ {k}
      BY <1>0, <1>3 DEF Job
    <3> QED
      BY <1>5, <3>1 DEF BotIsSteady
  <2> QED
    BY <1>2, <1>8, <2>1
<1>13. \A d \in botDims[b] : \A n \in d : IsBacked(b, n)'
  BY <1>3, <1>9, <1>10
<1> QED
  BY <1>1, <1>2, <1>4, <1>11, <1>12, <1>13 DEF BotIsSteady, Rebuilding

\* A task of the queue ends: the kind it stores is backed by then.
LEMMA SteadyStored ==
    ASSUME TypeOK, NEW b \in Bots, BotIsSteady(b), NEW j \in jobs, StoreTaskDimensions(j) \/ TaskDies(j)
    PROVE  BotIsSteady(b)'
<1>0. /\ botTasks \in [Bots -> [Kinds -> Times]] /\ j \in Job /\ Times \subseteq Int
      /\ j.kind \in Kinds /\ j.valid \in Int /\ taskDims \in [Kinds -> Times] /\ botDims \in [Bots -> Entities]
  BY TypesAre, TimesAre DEF Job
<1>1. jobs' = jobs \ {j} /\ jobs # {} /\ ~Rebuilding(b) /\ UNCHANGED <<dims, botDims, botTasks, poll>>
  BY DEF StoreTaskDimensions, TaskDies, BotIsSteady, bot
<1>2. \A d \in botDims[b] : \A k \in d : IsBacked(b, k)'
  <2> SUFFICES ASSUME NEW d \in botDims[b], NEW k \in d PROVE IsBacked(b, k)'
    OBVIOUS
  <2>1. IsBacked(b, k) /\ k \in Kinds
    BY <1>0, <1>1 DEF BotIsSteady, Rebuilding, Entities
  <2>2. CASE taskDims'[k] = taskDims[k]
    BY <1>1, <2>1, <2>2 DEF IsBacked
  <2>3. CASE taskDims'[k] # taskDims[k]
    <3>1. StoreTaskDimensions(j) /\ k = j.kind
      BY <1>0, <2>1, <2>3 DEF StoreTaskDimensions, TaskDies
    <3>2. b \notin j.todo \cup j.put
      BY <3>1 DEF StoreTaskDimensions, BotsAreRefreshed
    <3>3. taskDims[k] \in Int /\ botTasks[b][k] \in Int
      <4>1. taskDims[k] \in Times /\ botTasks[b][k] \in Times
        BY <1>0, <2>1
      <4> QED
        BY <1>0, <4>1
    <3>4. taskDims'[k] \in {taskDims[k], j.valid}
      <4>1. Asserted(taskDims[k], j.valid) \in {taskDims[k], j.valid}
        BY <1>0, <3>3, MaxOfTwo DEF Asserted
      <4> QED
        BY <1>0, <2>1, <3>1, <4>1 DEF StoreTaskDimensions
    <3>5. j.valid >= 0 => botTasks[b][k] >= j.valid
      BY <3>1, <3>2 DEF BotIsSteady
    <3> QED
      BY <1>1, <2>3, <3>4, <3>5 DEF IsBacked
  <2> QED
    BY <2>2, <2>3
<1> QED
  BY <1>1, <1>2 DEF BotIsSteady, Rebuilding

\* Kinds are forgotten, and time passes.
LEMMA SteadyTime ==
    ASSUME TypeOK, BotsAreSteady, NEW b \in Bots, BotIsSteady(b), TimePasses \/ \E k \in Kinds : TidyTask(k)
    PROVE  BotIsSteady(b)'
<1>0. /\ botTasks \in [Bots -> [Kinds -> Times]] /\ Times \subseteq Int /\ taskDims \in [Kinds -> Times]
      /\ botDims \in [Bots -> Entities] /\ dims \in [Bots -> SUBSET Kinds] /\ poll \in [Bots -> Polls]
  BY TypesAre, TimesAre
<1>1. ASSUME NEW k \in Kinds, TidyTask(k) PROVE BotIsSteady(b)'
  <2>1. taskDims' = [taskDims EXCEPT ![k] = Gone] /\ UNCHANGED <<dims, botDims, botTasks, poll, jobs>>
    BY <1>1 DEF TidyTask, bot, tasks
  <2>3. \A n \in Kinds : taskDims'[n] >= 0 => taskDims'[n] = taskDims[n]
    <3>1. \A n \in Kinds : taskDims'[n] = Gone \/ taskDims'[n] = taskDims[n]
      BY <1>0, <2>1
    <3>2. Gone \in Int /\ Gone < 0
      BY TimesAre
    <3> QED
      BY <3>1, <3>2
  <2>4. \A n \in Kinds : IsBacked(b, n) => IsBacked(b, n)'
    BY <2>1, <2>3 DEF IsBacked
  <2>5. dims[b] \subseteq Kinds /\ \A d \in botDims[b] : d \subseteq Kinds
    BY <1>0 DEF Entities
  <2>6. /\ poll[b].step = "seal" => \A n \in dims[b] : IsBacked(b, n)'
        /\ \A d \in botDims[b] : \A n \in d : poll[b].step \notin {"put", "seal"} => IsBacked(b, n)'
    BY <2>4, <2>5 DEF BotIsSteady
  <2>7. poll[b].step = "put" => \A n \in dims[b] : taskDims'[n] >= 0 => poll[b].found[n] >= taskDims'[n]
    BY <2>3, <2>5 DEF BotIsSteady
  <2> QED
    BY <2>1, <2>6, <2>7 DEF BotIsSteady, Rebuilding
<1>2. CASE TimePasses
  <2>1. /\ poll[b].step = "idle" /\ jobs = {} /\ jobs' = {}
        /\ UNCHANGED <<dims, botDims, poll>>
        /\ botTasks'[b] = [k \in Kinds |-> PassesForBot(botTasks[b][k])]
        /\ taskDims' = [k \in Kinds |-> Passes(taskDims[k])]
    BY <1>2 DEF TimePasses, BotsAreSteady
  <2>2. ASSUME NEW k \in Kinds, IsBacked(b, k) PROVE IsBacked(b, k)'
    <3>1. taskDims[k] \in Times /\ botTasks[b][k] \in Times /\ taskDims[k] \in Int /\ botTasks[b][k] \in Int
      <4>1. taskDims[k] \in Times /\ botTasks[b][k] \in Times
        BY <1>0
      <4> QED
        BY <1>0, <4>1
    <3>2. taskDims'[k] = Passes(taskDims[k]) /\ botTasks'[b][k] = PassesForBot(botTasks[b][k])
      BY <2>1
    <3>3. Passes(taskDims[k]) \in Int /\ PassesForBot(botTasks[b][k]) \in Int
      BY <1>0, <3>1, TimesAre
    <3>4. ASSUME Passes(taskDims[k]) >= 0 PROVE PassesForBot(botTasks[b][k]) >= Passes(taskDims[k])
      <4>1. taskDims[k] >= 0
        BY <3>1, <3>3, <3>4, TimesAre
      <4>2. Passes(taskDims[k]) = taskDims[k] - 1 /\ taskDims[k] >= 1
        BY <3>1, <3>4, <4>1, TimesAre
      <4>3. botTasks[b][k] >= taskDims[k] /\ botTasks[b][k] >= 1
        BY <2>2, <3>1, <4>2 DEF IsBacked
      <4>4. PassesForBot(botTasks[b][k]) = botTasks[b][k] - 1
        BY <3>1, <4>3, TimesAre
      <4> QED
        BY <3>1, <4>2, <4>3, <4>4
    <3> QED
      BY <3>2, <3>4 DEF IsBacked
  <2>3. \A d \in botDims[b] : d \subseteq Kinds
    BY <1>0 DEF Entities
  <2> QED
    BY <2>1, <2>2, <2>3 DEF BotIsSteady, Rebuilding
<1> QED
  BY <1>1, <1>2

\* A bot polls once in a unit of time.
LEMMA PollsOnce ==
    ASSUME TypeOK, \A b \in Bots : poll[b].step # "idle" => b \notin polled, [Next]_vars
    PROVE  \A b \in Bots : poll'[b].step # "idle" => b \notin polled'
<1>0. poll \in [Bots -> Polls]
  BY TypesAre
<1>1. ASSUME NEW c \in Bots, Poll(c) PROVE \A b \in Bots : poll'[b].step # "idle" => b \notin polled'
  <2>1. CASE AssertBot(c)
    <3>1. c \notin polled /\ polled' = polled /\ \A b \in Bots \ {c} : poll'[b] = poll[b]
      BY <1>0, <2>1 DEF AssertBot
    <3> QED
      BY <3>1
  <2>2. CASE PutBotTasks(c) \/ Seal(c) \/ CacheMatches(c) \/ QueryQueues(c)
    <3>1. poll[c].step # "idle" /\ polled' = polled /\ \A b \in Bots \ {c} : poll'[b] = poll[b]
      BY <1>0, <2>2 DEF PutBotTasks, Seal, CacheMatches, QueryQueues
    <3> QED
      BY <3>1
  <2>3. CASE GetQueues(c) \/ CacheQueues(c)
    <3>1. /\ polled' = polled \cup {c} /\ poll'[c].step = "idle"
          /\ \A b \in Bots \ {c} : poll'[b] = poll[b]
      BY <1>0, <2>3 DEF GetQueues, CacheQueues, Looks, NoPoll
    <3> QED
      BY <3>1
  <2> QED
    BY <1>1, <2>1, <2>2, <2>3 DEF Poll
<1>2. ASSUME NEW c \in Bots, PollDies(c) PROVE \A b \in Bots : poll'[b].step # "idle" => b \notin polled'
  <2>1. polled' = polled /\ poll'[c].step = "idle" /\ \A b \in Bots \ {c} : poll'[b] = poll[b]
    BY <1>0, <1>2 DEF PollDies, NoPoll
  <2> QED
    BY <2>1
<1>3. CASE TimePasses
  BY <1>3 DEF TimePasses
<1>4. ASSUME UNCHANGED <<poll, polled>> PROVE \A b \in Bots : poll'[b].step # "idle" => b \notin polled'
  BY <1>4
<1>5. ASSUME NEW b \in Bots, TidyStale(b) \/ CleanupAfterBot(b) \/ BotChanges(b) \/ IndexIsUpdated(b) \/ ListIsEvicted(b)
      PROVE  UNCHANGED <<poll, polled>>
  BY <1>5 DEF TidyStale, TidyTask, TidyBotTask, CleanupAfterBot, BotChanges, IndexIsUpdated, ListIsEvicted, bot
<1>6. ASSUME (\E k \in Kinds : AssertTask(k)) \/ Rebuild \/ \E j \in jobs : TaskDies(j)
      PROVE  UNCHANGED <<poll, polled>>
  BY <1>6 DEF AssertTask, AssertTaskHit, AssertTaskMiss, Rebuild, RebuildTaskCache, StoreTaskDimensions,
              RefreshGet, RefreshPut, RefreshClear, TaskDies, bot
<1>7. CASE UNCHANGED vars
  BY <1>4, <1>7 DEF vars
<1> QED
  BY <1>1, <1>2, <1>3, <1>4, <1>5, <1>6, <1>7 DEF Next

\* A cache that was torn stays so.
LEMMA TornStays == ASSUME [Next]_vars, TypeOK PROVE torn \subseteq torn'
<1>1. ASSUME NEW b \in Bots, Poll(b) \/ PollDies(b) \/ TidyStale(b) PROVE torn \subseteq torn'
  BY <1>1 DEF Poll, AssertBot, PutBotTasks, Seal, CacheMatches, GetQueues, QueryQueues, CacheQueues, PollDies,
              TidyStale, TidyTask, TidyBotTask
<1>2. ASSUME NEW b \in Bots, CleanupAfterBot(b) \/ BotChanges(b) \/ IndexIsUpdated(b) \/ ListIsEvicted(b)
      PROVE  torn \subseteq torn'
  BY <1>2 DEF CleanupAfterBot, BotChanges, IndexIsUpdated, ListIsEvicted
<1>3. ASSUME (\E k \in Kinds : AssertTask(k)) \/ Rebuild \/ (\E j \in jobs : TaskDies(j)) \/ TimePasses
      PROVE  torn \subseteq torn'
  BY <1>3, TypesAre DEF AssertTask, AssertTaskHit, AssertTaskMiss, Rebuild, RebuildTaskCache,
              StoreTaskDimensions, RefreshGet, RefreshPut, RefreshClear, TaskDies, TimePasses
<1>4. CASE UNCHANGED vars
  BY <1>4 DEF vars
<1> QED
  BY <1>1, <1>2, <1>3, <1>4 DEF Next

\* Every step keeps the bots steady.
LEMMA SteadyKeeps == ASSUME TypeOK, BotsAreSteady, [Next]_vars PROVE BotsAreSteady'
<1>1. SUFFICES ASSUME NEW b \in Bots, b \notin torn' PROVE BotIsSteady(b)'
  BY PollsOnce DEF BotsAreSteady
<1>2. BotIsSteady(b)
  BY <1>1, TornStays DEF BotsAreSteady
<1>3. ASSUME NEW c \in Bots,
             \/ Poll(c) \/ PollDies(c) \/ CleanupAfterBot(c) \/ BotChanges(c) \/ IndexIsUpdated(c)
             \/ ListIsEvicted(c) \/ \E k \in Kinds : TidyBotTask(c, k)
      PROVE  BotIsSteady(b)'
  <2>1. CASE c = b
    BY <1>1, <1>2, <1>3, <2>1, SteadyPoll, SteadyHere
  <2>2. CASE c # b
    BY <1>2, <1>3, <2>2, SteadyElsewhere
  <2> QED
    BY <2>1, <2>2
<1>4. CASE TimePasses \/ \E k \in Kinds : TidyTask(k)
  BY <1>2, <1>4, SteadyTime
<1>5. CASE Rebuild \/ \E j \in jobs : TaskDies(j)
  BY <1>1, <1>2, <1>5, SteadyStarts, SteadyRefresh, SteadyStored DEF Rebuild
<1>6. CASE UNCHANGED vars \/ \E k \in Kinds : AssertTask(k)
  <2>1. UNCHANGED <<dims, botDims, botTasks, poll, jobs, taskDims>>
    BY <1>6 DEF AssertTask, AssertTaskHit, AssertTaskMiss, vars, bot
  <2> QED
    BY <1>2, <2>1, SteadyStays
<1> QED
  BY <1>3, <1>4, <1>5, <1>6 DEF Next, TidyStale

-----------------------------------------------------------------------------
(* Theorems about the queues                                               *)

QueuesInv == TypeOK /\ KindIsCovered /\ BotsAreSteady

\* For any bots, kinds and tasks of the queue: a kind that a task waits for is known or
\* on its way, and a bot whose cache is being rebuilt will be as good as what is known.
THEOREM QueuesInvHolds == Spec => []QueuesInv
<1>1. Init => QueuesInv
  <2> SUFFICES ASSUME Init PROVE QueuesInv
    OBVIOUS
  <2>1. TypeOK
    <3>1. MaxLife \in Nat /\ 0 \in 0 .. MaxLife /\ 0 \in 0 .. MaxEvents
      BY LongestIs, QueuesAssumption
    <3> QED
      BY <3>1, TimesAre DEF Init, TypeOK, NoPoll
  <2>2. KindIsCovered
    BY LongestIs DEF Init, KindIsCovered
  <2>3. BotsAreSteady
    BY DEF Init, BotsAreSteady, BotIsSteady, Rebuilding, NoPoll
  <2> QED
    BY <2>1, <2>2, <2>3 DEF QueuesInv
<1>2. QueuesInv /\ [Next]_vars => QueuesInv'
  <2> SUFFICES ASSUME QueuesInv, [Next]_vars PROVE QueuesInv'
    OBVIOUS
  <2>1. TypeOK'
    BY TypeKeeps DEF QueuesInv
  <2>2. KindIsCovered'
    BY KindAssertTask, KindRebuild, KindOther DEF QueuesInv, Next
  <2>3. BotsAreSteady'
    BY SteadyKeeps DEF QueuesInv
  <2> QED
    BY <2>1, <2>2, <2>3 DEF QueuesInv
<1> QED
  BY <1>1, <1>2, PTL DEF Spec

\* Entities, lists, polls and tasks of the queue keep their types.
THEOREM TypeCorrect == Spec => []TypeOK
<1>1. QueuesInv => TypeOK
  BY DEF QueuesInv
<1> QED
  BY <1>1, QueuesInvHolds, PTL

\* A task is not forgotten: until it expires, less the jitter, its kind is known or about
\* to be, whatever fails in between (assert_task, rebuild_task_cache).
THEOREM KindIsKnownHolds == Spec => []KindIsKnown
<1>1. QueuesInv => KindIsKnown
  BY DEF QueuesInv, KindIsCovered, AssertedFor, KindIsKnown, IsBeingAsserted
<1> QED
  BY <1>1, QueuesInvHolds, PTL

\* As long as a kind is known, so is every bot whose BotDimensions are up to date and that
\* can run it, unless its cache was rebuilt just while the kind was asserted.
THEOREM BotIsKnownHolds == Spec => []BotIsKnown
<1>1. QueuesInv => BotIsKnown
  <2> SUFFICES ASSUME QueuesInv, NEW b \in Bots \ torn, NEW k \in Kinds,
                      botDims[b] = {dims[b]}, k \in dims[b], taskDims[k] >= 0
               PROVE  botTasks[b][k] >= taskDims[k]
    BY DEF BotIsKnown
  <2>1. BotIsSteady(b) /\ dims[b] \in botDims[b]
    BY DEF QueuesInv, BotsAreSteady
  <2>2. IsBacked(b, k)
    BY <2>1 DEF BotIsSteady
  <2> QED
    BY <2>2 DEF IsBacked
<1> QED
  BY <1>1, QueuesInvHolds, PTL
=============================================================================

----------------------------- MODULE RaftLemmas -----------------------------
(***************************************************************************)
(* Lemmas about the operators of Raft: extrema of sets of numbers, what    *)
(* the operations on logs return, and that every action keeps the types.   *)
(***************************************************************************)
EXTENDS RaftLogInv, RaftLedger, FiniteSetTheorems, SequenceTheorems, WellFoundedInduction, TLAPS

(* A non-empty set of numbers has a least element, and Min is it. *)
LEMMA MinProperties ==
  ASSUME NEW S \in SUBSET Nat, S # {}
  PROVE  Min(S) \in S /\ \A x \in S : Min(S) <= x
<1> DEFINE R == {ss \in Nat \X Nat : ss[1] < ss[2]}
<1>1. IsWellFoundedOn(R, Nat)
  BY NatLessThanWellFounded DEF OpToRel
<1>2. PICK m \in S : \A y \in S : ~ (<<y, m>> \in R)
  <2> HIDE DEF R
  <2> QED
    BY Zenon, <1>1, WFMin
<1>3. \A y \in S : m <= y
  <2> SUFFICES ASSUME NEW y \in S PROVE m <= y
    OBVIOUS
  <2>1. <<y, m>> \in Nat \X Nat /\ <<y, m>>[1] = y /\ <<y, m>>[2] = m
    OBVIOUS
  <2>2. ~ (y < m)
    BY <1>2, <2>1
  <2> QED
    BY <2>2
<1> QED
  BY Zenon, <1>3 DEF Min

(* A non-empty bounded set of numbers has a greatest element, Max. *)
LEMMA MaxProperties ==
  ASSUME NEW b \in Nat, NEW S \in SUBSET (0 .. b), S # {}
  PROVE  Max(S) \in S /\ \A x \in S : x <= Max(S)
<1> DEFINE T == {b - x : x \in S}
<1>1. T \in SUBSET Nat /\ T # {}
  <2>1. \A x \in S : b - x \in Nat
    OBVIOUS
  <2> QED
    BY Zenon, <2>1
<1>2. PICK m \in S : \A x \in S : b - m <= b - x
  <2>1. Min(T) \in T /\ \A y \in T : Min(T) <= y
    BY Zenon, <1>1, MinProperties
  <2> QED
    BY Zenon, <2>1
<1>3. \A x \in S : m >= x
  BY <1>2
<1> QED
  BY Zenon, <1>3 DEF Max

(* The two-element sets that stand for Go's min and max. *)
LEMMA PairExtrema ==
  ASSUME NEW a \in Nat, NEW b \in Nat
  PROVE  /\ Max({a, b}) = IF a >= b THEN a ELSE b
         /\ Min({a, b}) = IF a <= b THEN a ELSE b
<1>1. Max({a, b}) \in {a, b} /\ \A x \in {a, b} : x <= Max({a, b})
  BY MaxProperties, {a, b} \in SUBSET (0 .. a + b)
<1>2. Min({a, b}) \in {a, b} /\ \A x \in {a, b} : Min({a, b}) <= x
  BY MinProperties
<1> QED
  BY <1>1, <1>2

-----------------------------------------------------------------------------
(* The term at an index the log has, the sentinel's included. *)
LEMMA TermAtType ==
  ASSUME NEW l \in Seq(Entry), NEW i \in 0 .. Len(l)
  PROVE  TermAt(l, i) \in Nat
<1>1. CASE i = 0
  BY <1>1 DEF TermAt
<1>2. CASE i # 0
  <2>1. l[i] \in Entry
    BY <1>2, ElementOfSeq
  <2> QED
    BY <1>2, <2>1 DEF TermAt, Entry
<1> QED
  BY <1>1, <1>2

(* entriesFrom returns log entries, none beyond the end of the log. *)
LEMMA EntriesFromType ==
  ASSUME NEW l \in Seq(Entry), NEW lo \in 1 .. Len(l) + 1, NEW k \in Nat \ {0}
  PROVE  /\ EntriesFrom(l, lo, k) \in Seq(Entry)
         /\ lo - 1 + Len(EntriesFrom(l, lo, k)) <= Len(l)
<1> DEFINE hi == Min({Len(l), lo + k - 1})
<1>1. hi = IF Len(l) <= lo + k - 1 THEN Len(l) ELSE lo + k - 1
  BY PairExtrema, Len(l) \in Nat, lo + k - 1 \in Nat
<1> HIDE DEF hi
<1>2. hi \in Int /\ hi <= Len(l) /\ \A i \in lo .. hi : l[i] \in Entry
  <2>1. hi \in Int /\ hi <= Len(l)
    BY <1>1
  <2> QED
    BY <2>1, ElementOfSeq
<1>3. /\ SubSeq(l, lo, hi) \in Seq(Entry)
      /\ Len(SubSeq(l, lo, hi)) = IF lo <= hi THEN hi - lo + 1 ELSE 0
  BY <1>2, SubSeqProperties
<1>4. EntriesFrom(l, lo, k) = SubSeq(l, lo, hi)
  BY DEF EntriesFrom, hi
<1> QED
  BY <1>2, <1>3, <1>4

(* The merge of a message into a log that has the entry before it is a     *)
(* log: the old one, or a part of it and the tail of the message.          *)
LEMMA AppendNewType ==
  ASSUME NEW l \in Seq(Entry), NEW es \in Seq(Entry), NEW prev \in 0 .. Len(l)
  PROVE  AppendNew(l, prev, es) \in Seq(Entry)
<1> DEFINE novel == {k \in 1 .. Len(es) :
                       prev + k > Len(l) \/ l[prev + k].term # es[k].term}
           k == Min(novel)
<1>1. CASE novel = {}
  BY <1>1 DEF AppendNew
<1>2. CASE novel # {}
  <2>1. k \in novel /\ \A j \in novel : k <= j
    BY <1>2, MinProperties, novel \in SUBSET Nat
  <2>2. k \in 1 .. Len(es)
    BY <2>1
  <2>3. prev + k - 1 <= Len(l)
    <3>1. CASE k = 1
      BY <3>1
    <3>2. CASE k # 1
      <4>1. k - 1 \in 1 .. Len(es) /\ k - 1 \notin novel
        <5> HIDE DEF k
        <5> QED
          BY <3>2, <2>1, <2>2
      <4> QED
        BY <4>1, <2>2
    <3> QED
      BY <3>1, <3>2
  <2> HIDE DEF k
  <2>4. SubSeq(l, 1, prev + k - 1) \in Seq(Entry)
    <3>1. \A i \in 1 .. prev + k - 1 : l[i] \in Entry
      BY <2>2, <2>3
    <3> QED
      BY <3>1, <2>2, SubSeqProperties
  <2>5. SubSeq(es, k, Len(es)) \in Seq(Entry)
    <3>1. \A i \in k .. Len(es) : es[i] \in Entry
      BY <2>2
    <3> QED
      BY <3>1, <2>2, SubSeqProperties
  <2>6. SubSeq(l, 1, prev + k - 1) \o SubSeq(es, k, Len(es)) \in Seq(Entry)
    BY <2>4, <2>5, ConcatProperties
  <2> QED
    BY <1>2, <2>6 DEF AppendNew, k
<1> QED
  BY <1>1, <1>2

-----------------------------------------------------------------------------
(* Logs that start alike.  A log is a member of Logs here, so that the     *)
(* provers do not look into sequences where nothing depends on them.       *)

(* The length of a log, and the terms in it, are numbers. *)
LEMMA LogFacts ==
  ASSUME NEW l \in Logs
  PROVE  Len(l) \in Nat /\ \A i \in 1 .. Len(l) : l[i] \in Entry /\ l[i].term \in Nat
<1>1. l \in Seq(Entry) /\ Len(l) \in Nat
  BY LenProperties DEF Logs
<1>2. \A i \in 1 .. Len(l) : l[i] \in Entry
  BY <1>1, ElementOfSeq
<1>3. \A e \in Entry : e.term \in Nat
  BY DEF Entry
<1> QED
  BY Zenon, <1>1, <1>2, <1>3

(* Starting alike is symmetric, transitive, and holds of every shorter     *)
(* start.                                                                  *)
LEMMA SameUpToRules ==
  ASSUME NEW k \in Nat, NEW l \in Logs, NEW h \in Logs,
         NEW g \in Logs, SameUpTo(k, l, h)
  PROVE  /\ SameUpTo(k, h, l)
         /\ SameUpTo(k, h, g) => SameUpTo(k, l, g)
         /\ \A j \in 0 .. k : SameUpTo(j, l, h)
<1>1. Len(l) \in Nat /\ Len(h) \in Nat /\ Len(g) \in Nat
  BY LogFacts
<1> QED
  BY <1>1 DEF SameUpTo

(* Two grounded logs with an entry of one term at one index are the same   *)
(* up to it.                                                               *)
LEMMA GroundedMatch ==
  ASSUME NEW H \in [Nat -> Logs], NEW l \in Logs, NEW h \in Logs,
         NEW s \in Nat, NEW t \in Nat, Grounded(l, H, s), Grounded(h, H, t),
         NEW i \in 1 .. Len(l), i <= Len(h), l[i].term = h[i].term
  PROVE  SameUpTo(i, l, h)
<1>1. Len(l) \in Nat /\ Len(h) \in Nat /\ i \in Nat /\ i \in 1 .. Len(h)
  BY LogFacts
<1>2. l[i] \in Entry
  BY LogFacts
<1>3. l[i].term \in Nat /\ H[l[i].term] \in Logs
  BY <1>2 DEF Entry
<1>4. SameUpTo(i, l, H[l[i].term]) /\ SameUpTo(i, h, H[l[i].term])
  BY <1>1 DEF Grounded
<1> QED
  BY <1>1, <1>3, <1>4, SameUpToRules

(* The leaders' logs have grown from H to G. *)
Extends(G, H) == \A u \in Nat : SameUpTo(Len(H[u]), G[u], H[u])

(* A log stays grounded when the leaders' logs grow and its bound does. *)
LEMMA GroundedMono ==
  ASSUME NEW H \in [Nat -> Logs], NEW G \in [Nat -> Logs],
         NEW l \in Logs, NEW s \in Nat, NEW t \in Nat, s <= t,
         Grounded(l, H, s), Extends(G, H)
  PROVE  Grounded(l, G, t)
<1> SUFFICES ASSUME NEW a \in 1 .. Len(l)
             PROVE  /\ l[a].term <= t
                    /\ SameUpTo(a, l, G[l[a].term])
                    /\ \A j \in 1 .. a : l[j].term <= l[a].term
  BY DEF Grounded
<1>1. PICK u \in Nat : u = l[a].term
  BY LogFacts
<1>2. H[u] \in Logs /\ G[u] \in Logs /\ a \in Nat
  <2>1. Len(l) \in Nat
    BY LogFacts
  <2> QED
    BY <2>1
<1>3. /\ u <= s /\ SameUpTo(a, l, H[u])
      /\ \A j \in 1 .. a : l[j].term <= u
  BY <1>1 DEF Grounded
<1>4. SameUpTo(a, G[u], H[u])
  <2>1. a \in 0 .. Len(H[u]) /\ Len(H[u]) \in Nat
    BY <1>2, <1>3, LogFacts DEF SameUpTo
  <2> QED
    BY <1>2, <2>1, SameUpToRules DEF Extends
<1>5. SameUpTo(a, l, G[u])
  BY <1>2, <1>3, <1>4, SameUpToRules
<1>6. u <= t
  BY <1>3
<1> QED
  BY Zenon, <1>1, <1>3, <1>5, <1>6

(* The start of a grounded log is grounded. *)
LEMMA GroundedPrefix ==
  ASSUME NEW H \in [Nat -> Logs], NEW l \in Logs, NEW h \in Logs,
         NEW t \in Nat, Grounded(h, H, t), SameUpTo(Len(l), l, h)
  PROVE  Grounded(l, H, t)
<1> SUFFICES ASSUME NEW a \in 1 .. Len(l)
             PROVE  /\ l[a].term <= t
                    /\ SameUpTo(a, l, H[l[a].term])
                    /\ \A j \in 1 .. a : l[j].term <= l[a].term
  BY DEF Grounded
<1>1. a \in 1 .. Len(h) /\ a \in Nat /\ Len(l) \in Nat /\ l[a] = h[a]
  BY LogFacts DEF SameUpTo
<1>2. h[a] \in Entry
  BY <1>1, LogFacts
<1>3. h[a].term \in Nat /\ H[h[a].term] \in Logs
  BY <1>2 DEF Entry
<1>4. SameUpTo(a, l, h)
  BY <1>1, SameUpToRules
<1>5. /\ h[a].term <= t /\ SameUpTo(a, h, H[h[a].term])
      /\ \A j \in 1 .. a : h[j].term <= h[a].term
  BY <1>1 DEF Grounded
<1>6. SameUpTo(a, l, H[h[a].term])
  <2>1. PICK g \in Logs : g = H[h[a].term]
    BY <1>3
  <2>2. SameUpTo(a, h, g)
    BY Zenon, <1>5, <2>1
  <2>3. SameUpTo(a, l, g)
    BY <1>1, <1>4, <2>2, SameUpToRules
  <2> QED
    BY Zenon, <2>1, <2>3
<1>7. \A j \in 1 .. a : l[j] = h[j]
  BY <1>4 DEF SameUpTo
<1> QED
  BY <1>1, <1>5, <1>6, <1>7

(* The first c entries of one log, followed by another from index k on. *)
LEMMA SpliceProperties ==
  ASSUME NEW l \in Seq(Entry), NEW es \in Seq(Entry), NEW c \in 0 .. Len(l),
         NEW k \in 1 .. Len(es)
  PROVE  LET m == SubSeq(l, 1, c) \o SubSeq(es, k, Len(es))
         IN  /\ Len(m) = c + (Len(es) - k + 1)
             /\ \A i \in 1 .. c : m[i] = l[i]
             /\ \A i \in k .. Len(es) : m[c + (i - k + 1)] = es[i]
<1> DEFINE x == SubSeq(l, 1, c)
           y == SubSeq(es, k, Len(es))
           m == x \o y
           e == Len(es) - k + 1
<1>1. Len(l) \in Nat /\ Len(es) \in Nat /\ c \in Nat /\ c <= Len(l) /\ e \in Nat
  BY LenProperties
<1>2. \A i \in 1 .. c : l[i] \in Entry
  BY <1>1, ElementOfSeq
<1>3. \A i \in k .. Len(es) : es[i] \in Entry
  BY <1>1, ElementOfSeq
<1>4. x \in Seq(Entry) /\ Len(x) = c /\ \A i \in 1 .. c - 1 + 1 : x[i] = l[1 + i - 1]
  BY <1>1, <1>2, SubSeqProperties
<1>5. y \in Seq(Entry) /\ Len(y) = e /\ \A i \in 1 .. e : y[i] = es[k + i - 1]
  BY <1>1, <1>3, SubSeqProperties
<1> HIDE DEF x, y
<1>6. /\ Len(m) = c + e
      /\ \A i \in 1 .. c + e : m[i] = IF i <= c THEN x[i] ELSE y[i - c]
  <2>1. /\ Len(x \o y) = Len(x) + Len(y)
        /\ \A i \in 1 .. Len(x) + Len(y) :
             (x \o y)[i] = IF i <= Len(x) THEN x[i] ELSE y[i - Len(x)]
    BY <1>4, <1>5, ConcatProperties
  <2> QED
    BY Zenon, <1>4, <1>5, <2>1
<1> HIDE DEF m
<1>7. ASSUME NEW i \in 1 .. c PROVE m[i] = l[i]
  <2>1. i \in 1 .. c + e /\ i <= c /\ i \in 1 .. c - 1 + 1 /\ 1 + i - 1 = i
    BY <1>1
  <2> QED
    BY <1>4, <1>6, <2>1
<1>8. ASSUME NEW i \in k .. Len(es) PROVE m[c + (i - k + 1)] = es[i]
  <2>1. PICK j \in Nat : j = i - k + 1
    BY <1>1
  <2>2. /\ j \in 1 .. e /\ k + j - 1 = i /\ c + j \in 1 .. c + e
        /\ ~ (c + j <= c) /\ c + j - c = j
    BY <1>1, <2>1
  <2>3. m[c + j] = y[j]
    BY <1>6, <2>2
  <2> QED
    BY <1>5, <2>1, <2>2, <2>3
<1> QED
  BY <1>6, <1>7, <1>8 DEF m, x, y

(* Merging a section of h into a log that has the entry before it gives a  *)
(* log that has all of the section, changes nothing when there is nothing  *)
(* new in it, and loses nothing that l shares with h.                      *)
LEMMA AppendNewMerges ==
  ASSUME NEW H \in [Nat -> Logs], NEW l \in Logs, NEW h \in Logs,
         NEW es \in Logs, NEW prev \in Nat, prev <= Len(l),
         NEW s \in Nat, NEW t \in Nat, Grounded(l, H, s), Grounded(h, H, t),
         Follow(es, prev, h), TermAt(l, prev) = TermAt(h, prev)
  PROVE  /\ SameUpTo(prev + Len(es), AppendNew(l, prev, es), h)
         /\ \/ AppendNew(l, prev, es) = l
            \/ Len(AppendNew(l, prev, es)) = prev + Len(es)
         /\ \A a \in Nat : SameUpTo(a, l, h) => SameUpTo(a, AppendNew(l, prev, es), h)
<1> DEFINE novel == {k \in 1 .. Len(es) :
                       prev + k > Len(l) \/ l[prev + k].term # es[k].term}
           k == Min(novel)
           m == AppendNew(l, prev, es)
<1>1. /\ Len(l) \in Nat /\ Len(h) \in Nat /\ Len(es) \in Nat
      /\ prev + Len(es) <= Len(h)
  BY LogFacts DEF Follow
<1>2. SameUpTo(prev, l, h)
  <2>1. CASE prev = 0
    BY <1>1, <2>1 DEF SameUpTo
  <2>2. CASE prev # 0
    <3>1. l[prev].term = h[prev].term
      BY <2>2 DEF TermAt
    <3>2. prev \in 1 .. Len(l) /\ prev <= Len(h)
      BY <1>1, <2>2
    <3> QED
      BY <3>1, <3>2, GroundedMatch
  <2> QED
    BY <2>1, <2>2
<1>3. ASSUME NEW j \in 1 .. Len(es), j \notin novel
      PROVE  SameUpTo(prev + j, l, h)
  <2>1. prev + j <= Len(l) /\ l[prev + j].term = es[j].term
    BY <1>1, <1>3
  <2>2. es[j] = h[prev + j]
    BY DEF Follow
  <2>3. prev + j \in 1 .. Len(l) /\ prev + j <= Len(h)
    BY <1>1, <2>1
  <2> QED
    BY <2>1, <2>2, <2>3, GroundedMatch
<1>4. CASE novel = {}
  <2>1. m = l
    BY <1>4 DEF AppendNew
  <2>2. SameUpTo(prev + Len(es), l, h)
    <3>1. CASE Len(es) = 0
      BY <1>2, <3>1
    <3>2. CASE Len(es) # 0
      <4>1. Len(es) \in 1 .. Len(es)
        BY <1>1, <3>2
      <4> HIDE DEF novel
      <4> QED
        BY <1>3, <1>4, <4>1
    <3> QED
      BY <3>1, <3>2
  <2> QED
    BY Zenon, <2>1, <2>2
<1>5. CASE novel # {}
  <2>1. k \in novel /\ \A j \in novel : k <= j
    BY <1>5, MinProperties, novel \in SUBSET Nat
  <2>2. k \in 1 .. Len(es) /\ (prev + k > Len(l) \/ l[prev + k].term # es[k].term)
    BY <2>1
  <2>3. m = SubSeq(l, 1, prev + k - 1) \o SubSeq(es, k, Len(es))
    BY <1>5 DEF AppendNew
  <2> HIDE DEF k, m, novel
  <2>4. PICK c \in Nat : c = prev + k - 1 /\ c < prev + Len(es) /\ k = c + 1 - prev
    BY <1>1, <2>2
  <2>5. SameUpTo(c, l, h)
    <3>1. CASE k = 1
      BY <1>2, <2>4, <3>1
    <3>2. CASE k # 1
      <4>1. k - 1 \in 1 .. Len(es) /\ prev + (k - 1) = c /\ ~ (k <= k - 1)
        BY <1>1, <2>2, <2>4, <3>2
      <4>2. k - 1 \notin novel
        BY <2>1, <4>1
      <4> QED
        BY <1>3, <4>1, <4>2
    <3> QED
      BY <3>1, <3>2
  <2>6. c <= Len(l) /\ \A i \in 1 .. c : l[i] = h[i]
    BY <2>5 DEF SameUpTo
  <2>7. /\ Len(m) = c + (Len(es) - k + 1)
        /\ \A i \in 1 .. c : m[i] = l[i]
        /\ \A i \in k .. Len(es) : m[c + (i - k + 1)] = es[i]
    <3>1. c \in 0 .. Len(l) /\ l \in Seq(Entry) /\ es \in Seq(Entry)
      BY <1>1, <2>4, <2>6 DEF Logs
    <3>2. m = SubSeq(l, 1, c) \o SubSeq(es, k, Len(es))
      BY Zenon, <2>3, <2>4
    <3> QED
      BY <2>2, <3>1, <3>2, SpliceProperties
  <2>8. Len(m) = prev + Len(es)
    <3>1. c + (Len(es) - k + 1) = prev + Len(es)
      BY <1>1, <2>2, <2>4
    <3> QED
      BY Zenon, <2>7, <3>1
  <2>9. ASSUME NEW i \in 1 .. prev + Len(es) PROVE m[i] = h[i]
    <3>1. CASE i <= c
      BY <1>1, <2>6, <2>7, <3>1
    <3>2. CASE i > c
      <4>1. PICK j \in 1 .. Len(es) : j = i - prev
        <5>1. i - prev \in 1 .. Len(es)
          BY <1>1, <2>2, <2>4, <3>2
        <5> QED
          BY <5>1
      <4>2. j \in k .. Len(es) /\ c + (j - k + 1) = i /\ prev + j = i
        BY <1>1, <2>2, <2>4, <3>2, <4>1
      <4>3. m[i] = es[j]
        BY <2>7, <4>2
      <4>4. es[j] = h[prev + j]
        BY DEF Follow
      <4> QED
        BY <4>2, <4>3, <4>4
    <3> QED
      BY <1>1, <3>1, <3>2
  <2>10. SameUpTo(prev + Len(es), m, h)
    BY <1>1, <2>8, <2>9 DEF SameUpTo
  <2>11. ASSUME NEW a \in Nat, SameUpTo(a, l, h) PROVE SameUpTo(a, m, h)
    <3>1. a < prev + k
      <4>1. SUFFICES ASSUME prev + k <= a PROVE FALSE
        BY <2>2
      <4>2. prev + k <= Len(l) /\ prev + k \in 1 .. a
        BY <1>1, <2>2, <2>11, <4>1 DEF SameUpTo
      <4>3. l[prev + k] = h[prev + k]
        BY <2>11, <4>2 DEF SameUpTo
      <4>4. es[k] = h[prev + k]
        BY <2>2 DEF Follow
      <4> QED
        BY <1>1, <2>2, <4>2, <4>3, <4>4
    <3>2. a <= prev + Len(es)
      BY <1>1, <2>2, <3>1
    <3>3. m \in Logs
      BY <1>1, AppendNewType, prev \in 0 .. Len(l) DEF m, Logs
    <3>4. prev + Len(es) \in Nat /\ a \in 0 .. prev + Len(es)
      BY <1>1, <3>2
    <3> QED
      BY <2>10, <3>3, <3>4, SameUpToRules
  <2> QED
    BY <2>8, <2>10, <2>11 DEF m
<1> QED
  BY <1>4, <1>5

(* An entry of a term below the last term of a grounded log is in it, if   *)
(* it is in the log of the leader of that last term.                       *)
LEMMA LastTermHolds ==
  ASSUME NEW H \in [Nat -> Logs], NEW l \in Logs, NEW g \in Logs,
         NEW s \in Nat, NEW w \in Nat, NEW a \in Nat \ {0}, NEW k \in Nat \ {0},
         Grounded(l, H, s), Grounded(H[w], H, w), SameUpTo(a, H[w], g)
  PROVE  k = Len(l) /\ w = l[k].term /\ g[a].term < w => SameUpTo(a, l, g)
<1>1. SUFFICES ASSUME k = Len(l), w = l[k].term, g[a].term < w PROVE SameUpTo(a, l, g)
  OBVIOUS
<1>2. PICK h \in Logs : h = H[w]
  OBVIOUS
<1>3. Grounded(h, H, w) /\ SameUpTo(a, h, g)
  BY Zenon, <1>2
<1>4. SameUpTo(k, l, h)
  <2>1. k \in 1 .. Len(l)
    BY <1>1
  <2> QED
    BY Zenon, <1>1, <1>2, <2>1 DEF Grounded
<1>5. a <= k
  <2>1. SUFFICES ASSUME k < a PROVE FALSE
    OBVIOUS
  <2>2. a \in 1 .. Len(h) /\ h[a] = g[a]
    BY <1>3, LogFacts DEF SameUpTo
  <2>3. h[k] = l[k]
    BY <1>4 DEF SameUpTo
  <2>4. k \in 1 .. a
    BY <2>1
  <2>5. h[k].term <= h[a].term
    BY Zenon, <1>3, <2>2, <2>4 DEF Grounded
  <2>6. h[a].term \in Nat
    BY <2>2, LogFacts DEF Entry
  <2>7. w <= g[a].term /\ g[a].term \in Nat
    BY Zenon, <1>1, <2>2, <2>3, <2>5, <2>6
  <2> QED
    BY <1>1, <2>7
<1>6. SameUpTo(a, l, h)
  BY <1>4, <1>5, SameUpToRules
<1> QED
  BY <1>3, <1>6, SameUpToRules

(* The log g is l with one more entry at the end, of term u. *)
OneMore(g, l, u) ==
  /\ Len(g) = Len(l) + 1 /\ g[Len(l) + 1].term = u
  /\ \A i \in 1 .. Len(l) : g[i] = l[i]

(* Append is that. *)
LEMMA AppendOneMore ==
  ASSUME NEW l \in Logs, NEW e \in Entry
  PROVE  Append(l, e) \in Logs /\ OneMore(Append(l, e), l, e.term)
BY AppendProperties, LenProperties DEF OneMore, Logs

(* A log that grew by one starts with the old one. *)
LEMMA OneMoreStarts ==
  ASSUME NEW l \in Logs, NEW g \in Logs, NEW u \in Nat, OneMore(g, l, u)
  PROVE  SameUpTo(Len(l), g, l) /\ Len(l) \in Nat
BY LogFacts DEF OneMore, SameUpTo

(* The log the leader of term u has since it was elected, or the one it    *)
(* was elected with, grows by an entry.                                    *)
LEMMA GroundedOneMore ==
  ASSUME NEW H \in [Nat -> Logs], NEW G \in [Nat -> Logs], NEW l \in Logs,
         NEW s \in Nat, NEW u \in Nat, s <= u, Grounded(l, H, s),
         OneMore(G[u], l, u), \A t \in Nat : t # u => G[t] = H[t],
         Len(H[u]) = 0 \/ H[u] = l
  PROVE  /\ Extends(G, H)
         /\ Grounded(G[u], G, u)
         /\ \A a \in Nat : Created(u, a, G) =>
              Created(u, a, H) \/ (a = Len(l) + 1 /\ a > Len(H[u]))
<1>1. PICK g \in Logs : g = G[u]
  OBVIOUS
<1>2. PICK h \in Logs : h = H[u]
  OBVIOUS
<1>3. /\ Len(l) \in Nat /\ Len(h) \in Nat /\ Len(g) = Len(l) + 1
      /\ g[Len(l) + 1].term = u /\ \A i \in 1 .. Len(l) : g[i] = l[i]
  BY <1>1, LogFacts DEF OneMore
<1>4. SameUpTo(Len(l), g, l)
  BY <1>3 DEF SameUpTo
<1>5. Extends(G, H)
  <2> SUFFICES ASSUME NEW t \in Nat PROVE SameUpTo(Len(H[t]), G[t], H[t])
    BY DEF Extends
  <2>1. CASE t # u
    <3>1. PICK x \in Logs : x = H[t] /\ x = G[t]
      BY <2>1
    <3>2. SameUpTo(Len(x), x, x)
      BY LogFacts DEF SameUpTo
    <3> QED
      BY Zenon, <3>1, <3>2
  <2>2. CASE t = u
    <3>1. SameUpTo(Len(h), g, h)
      <4>1. CASE h = l
        BY <1>4, <4>1
      <4>2. CASE Len(h) = 0
        BY <1>3, <4>2 DEF SameUpTo
      <4> QED
        BY <1>2, <4>1, <4>2
    <3> QED
      BY Zenon, <1>1, <1>2, <2>2, <3>1
  <2> QED
    BY <2>1, <2>2
<1>6. Grounded(l, G, s)
  BY <1>5, GroundedMono
<1>7. Grounded(g, G, u)
  <2> SUFFICES ASSUME NEW a \in 1 .. Len(g)
               PROVE  /\ g[a].term <= u
                      /\ SameUpTo(a, g, G[g[a].term])
                      /\ \A j \in 1 .. a : g[j].term <= g[a].term
    BY DEF Grounded
  <2>1. \A i \in 1 .. Len(l) : l[i].term \in Nat /\ l[i].term <= s
    BY LogFacts DEF Grounded
  <2>2. CASE a = Len(l) + 1
    <3>1. g[a].term = u /\ G[g[a].term] = g
      BY Zenon, <1>1, <1>3, <2>2
    <3>2. SameUpTo(a, g, g)
      BY <1>3, <2>2 DEF SameUpTo
    <3>3. ASSUME NEW j \in 1 .. a PROVE g[j].term <= u
      <4>1. CASE j = a
        BY <3>1, <4>1
      <4>2. CASE j # a
        <5>1. j \in 1 .. Len(l)
          BY <1>3, <2>2, <4>2
        <5>2. g[j] = l[j] /\ l[j].term \in Nat /\ l[j].term <= s
          BY <1>3, <2>1, <5>1
        <5> QED
          BY <5>2
      <4> QED
        BY <4>1, <4>2
    <3>4. u <= u
      OBVIOUS
    <3> QED
      BY Zenon, <3>1, <3>2, <3>3, <3>4
  <2>3. CASE a # Len(l) + 1
    <3>1. a \in 1 .. Len(l) /\ a \in Nat
      BY <1>3, <2>3
    <3>2. \A j \in 1 .. a : g[j] = l[j]
      BY <1>3, <3>1
    <3>3. PICK t \in Nat : t = l[a].term /\ t <= s
      BY <2>1, <3>1
    <3>4. PICK x \in Logs : x = G[t]
      OBVIOUS
    <3>5. SameUpTo(a, l, x) /\ \A j \in 1 .. a : l[j].term <= t
      BY Zenon, <1>6, <3>1, <3>3, <3>4 DEF Grounded
    <3>6. SameUpTo(a, g, l)
      BY <1>3, <1>4, <3>1, SameUpToRules
    <3>7. SameUpTo(a, g, x)
      BY <3>1, <3>5, <3>6, SameUpToRules
    <3>8. t <= u /\ a \in 1 .. a
      BY <3>1, <3>3
    <3> QED
      BY Zenon, <3>2, <3>3, <3>4, <3>5, <3>7, <3>8
  <2> QED
    BY <2>2, <2>3
<1>8. ASSUME NEW a \in Nat, Created(u, a, G)
      PROVE  Created(u, a, H) \/ (a = Len(l) + 1 /\ a > Len(H[u]))
  <2>1. a \in 1 .. Len(g) /\ g[a].term = u
    BY Zenon, <1>1, <1>8 DEF Created
  <2>2. CASE a = Len(l) + 1
    <3>1. a > Len(h)
      BY <1>2, <1>3, <2>2
    <3> QED
      BY Zenon, <1>2, <2>2, <3>1
  <2>3. CASE a # Len(l) + 1
    <3>1. a \in 1 .. Len(l) /\ l[a].term = u
      BY <1>3, <2>1, <2>3
    <3>2. SameUpTo(a, l, h)
      BY Zenon, <1>2, <3>1 DEF Grounded
    <3>3. a \in 1 .. Len(h) /\ h[a] = l[a]
      BY <1>3, <3>1, <3>2 DEF SameUpTo
    <3> QED
      BY Zenon, <1>2, <3>1, <3>3 DEF Created
  <2> QED
    BY <2>2, <2>3
<1> QED
  BY Zenon, <1>1, <1>5, <1>7, <1>8

(* advanceCommitIndex never moves the commit index back, nor beyond the    *)
(* end of the log.                                                         *)
LEMMA CommitPointBounds ==
  ASSUME NEW n \in Node, commitIndex \in [Node -> Nat],
         NEW l \in Seq(Entry), NEW t \in Nat, NEW match \in [Node -> Nat]
  PROVE  /\ CommitPoint(n, l, t, match) \in Nat
         /\ \/ CommitPoint(n, l, t, match) = commitIndex[n]
            \/ /\ commitIndex[n] < CommitPoint(n, l, t, match)
               /\ CommitPoint(n, l, t, match) <= Len(l)
<1> DEFINE held == {i \in commitIndex[n] + 1 .. Len(l) :
              /\ \A j \in i .. Len(l) : l[j].term = t
              /\ Cardinality({p \in Peers(n) : match[p] >= i}) + 1 >= Quorum}
<1>1. CASE held = {}
  <2>1. CommitPoint(n, l, t, match) = commitIndex[n]
    BY <1>1 DEF CommitPoint
  <2>2. commitIndex[n] \in Nat
    OBVIOUS
  <2> HIDE DEF held
  <2> QED
    BY <2>1, <2>2
<1>2. CASE held # {}
  <2>1. held \in SUBSET (0 .. Len(l))
    OBVIOUS
  <2>2. Max(held) \in held
    <3> HIDE DEF held
    <3> QED
      BY <1>2, <2>1, MaxProperties, Len(l) \in Nat
  <2>3. CommitPoint(n, l, t, match) = Max(held)
    BY Zenon, <1>2 DEF CommitPoint
  <2> QED
    BY <2>2, <2>3
<1> QED
  BY Zenon, <1>1, <1>2

-----------------------------------------------------------------------------
(* A section of a leader's log stays one when the log grows. *)
LEMMA SectionGrows ==
  ASSUME NEW H \in [Nat -> Logs], NEW G \in [Nat -> Logs], Extends(G, H),
         NEW m \in AppendEntriesArgs, Section(m, H)
  PROVE  Section(m, G)
<1>1. m.term \in Nat /\ m.prevLogIndex \in Nat /\ m.entries \in Logs
  BY Zenon DEF AppendEntriesArgs, Logs
<1>2. PICK h \in Logs : h = H[m.term]
  BY Zenon, <1>1
<1>3. PICK g \in Logs : g = G[m.term]
  BY Zenon, <1>1
<1>4. PICK es \in Logs : es = m.entries
  BY Zenon, <1>1
<1>5. PICK prev \in Nat : prev = m.prevLogIndex
  BY Zenon, <1>1
<1>6. SameUpTo(Len(h), g, h) /\ Follow(es, prev, h) /\ m.prevLogTerm = TermAt(h, prev)
  BY Zenon, <1>1, <1>2, <1>3, <1>4, <1>5 DEF Extends, Section
<1>7. Len(h) \in Nat /\ Len(g) \in Nat /\ Len(es) \in Nat
  BY LogFacts
<1>8. Follow(es, prev, g)
  BY <1>6, <1>7 DEF Follow, SameUpTo
<1>9. TermAt(g, prev) = TermAt(h, prev)
  <2>1. CASE prev = 0
    BY <2>1 DEF TermAt
  <2>2. CASE prev # 0
    <3>1. prev \in 1 .. Len(h)
      BY <1>6, <1>7, <2>2 DEF Follow
    <3>2. g[prev] = h[prev]
      BY <1>6, <3>1 DEF SameUpTo
    <3> QED
      BY Zenon, <2>2, <3>2 DEF TermAt
  <2> QED
    BY <2>1, <2>2
<1> QED
  BY Zenon, <1>3, <1>4, <1>5, <1>6, <1>8, <1>9 DEF Section

(* entriesFrom returns what follows in the log. *)
LEMMA EntriesFromFollow ==
  ASSUME NEW l \in Seq(Entry), NEW lo \in 1 .. Len(l) + 1, NEW k \in Nat \ {0}
  PROVE  Follow(EntriesFrom(l, lo, k), lo - 1, l)
<1> DEFINE hi == Min({Len(l), lo + k - 1})
<1>1. hi = IF Len(l) <= lo + k - 1 THEN Len(l) ELSE lo + k - 1
  BY PairExtrema, Len(l) \in Nat, lo + k - 1 \in Nat
<1> HIDE DEF hi
<1>2. hi \in Int /\ hi <= Len(l) /\ lo - 1 <= hi /\ Len(l) \in Nat /\ lo \in Nat
  BY <1>1
<1>3. \A i \in lo .. hi : l[i] \in Entry
  BY <1>2, ElementOfSeq
<1>4. /\ Len(SubSeq(l, lo, hi)) = IF lo <= hi THEN hi - lo + 1 ELSE 0
      /\ \A i \in 1 .. hi - lo + 1 : SubSeq(l, lo, hi)[i] = l[lo + i - 1]
  BY <1>2, <1>3, SubSeqProperties
<1>5. PICK es : es = SubSeq(l, lo, hi) /\ es = EntriesFrom(l, lo, k)
  BY DEF EntriesFrom, hi
<1>6. Len(es) = hi - lo + 1 /\ \A i \in 1 .. hi - lo + 1 : es[i] = l[lo + i - 1]
  BY <1>2, <1>4, <1>5
<1>7. lo - 1 + Len(es) <= Len(l) /\ \A i \in 1 .. Len(es) : es[i] = l[lo - 1 + i]
  <2>1. \A i \in 1 .. Len(es) : lo + i - 1 = lo - 1 + i
    BY <1>2, <1>6
  <2>2. lo - 1 + Len(es) <= Len(l)
    BY <1>2, <1>6
  <2> QED
    BY Zenon, <1>6, <2>1, <2>2
<1> QED
  BY Zenon, <1>5, <1>7 DEF Follow

(* A log that isUpToDate lets win over a log with an entry of term t has   *)
(* that entry, if the log of the leader of its own last term has it.       *)
LEMMA UpToDateHolds ==
  ASSUME NEW H \in [Nat -> Logs], NEW l \in Logs, NEW c \in Logs,
         NEW s \in Nat, NEW u \in Nat, NEW t \in Nat, NEW a \in Nat,
         Grounded(l, H, s), Grounded(c, H, u), \A i \in Nat : Grounded(H[i], H, i),
         Created(t, a, H), SameUpTo(a, l, H[t]), IsUpToDate(l, LastTerm(c), Len(c))
  PROVE  \E w \in Nat : /\ Len(H[w]) > 0
                        /\ w > t \/ SameUpTo(a, c, H[t])
                        /\ w > t /\ SameUpTo(a, H[w], H[t]) => SameUpTo(a, c, H[t])
<1>1. PICK g \in Logs : g = H[t]
  BY Zenon
<1>2. Len(l) \in Nat /\ Len(c) \in Nat /\ Len(g) \in Nat
  BY LogFacts
<1>3. a \in 1 .. Len(g) /\ g[a].term = t /\ SameUpTo(a, l, g)
  BY Zenon, <1>1 DEF Created
<1>4. a \in 1 .. Len(l) /\ l[a] = g[a] /\ Len(l) >= 1
  BY <1>2, <1>3 DEF SameUpTo
<1>5. Len(l) \in 1 .. Len(l) /\ a \in 1 .. Len(l)
  BY <1>2, <1>4
<1>6. LastTerm(l) = l[Len(l)].term
  BY <1>4 DEF LastTerm, TermAt
<1>7. LastTerm(l) \in Nat /\ t <= LastTerm(l)
  <2>1. l[a].term <= l[Len(l)].term
    BY Zenon, <1>5 DEF Grounded
  <2>2. l[Len(l)].term \in Nat
    BY Zenon, <1>5, LogFacts
  <2> QED
    BY Zenon, <1>3, <1>4, <1>6, <2>1, <2>2
<1>8. PICK k \in Nat : k = Len(c)
  BY <1>2
<1>9. k # 0
  <2>1. SUFFICES ASSUME k = 0 PROVE FALSE
    OBVIOUS
  <2>2. LastTerm(c) = 0
    BY <1>8, <2>1 DEF LastTerm, TermAt
  <2> QED
    BY <1>2, <1>4, <1>7, <1>8, <2>1, <2>2 DEF IsUpToDate
<1>10. k \in 1 .. Len(c) /\ k \in Nat \ {0}
  BY <1>8, <1>9
<1>11. PICK w \in Nat : w = c[k].term
  BY Zenon, <1>10, LogFacts
<1>12. LastTerm(c) = w
  BY Zenon, <1>8, <1>9, <1>11 DEF LastTerm, TermAt
<1>13. SameUpTo(k, c, H[w])
  BY Zenon, <1>10, <1>11 DEF Grounded
<1>14. PICK h \in Logs : h = H[w]
  BY Zenon
<1>15. Len(h) > 0 /\ SameUpTo(k, c, h) /\ Len(h) \in Nat
  <2>1. SameUpTo(k, c, h) /\ Len(h) \in Nat
    BY Zenon, <1>13, <1>14, LogFacts
  <2> QED
    BY <1>10, <2>1 DEF SameUpTo
<1>16. w > t \/ SameUpTo(a, c, g)
  <2>1. SUFFICES ASSUME ~ (w > t) PROVE SameUpTo(a, c, g)
    OBVIOUS
  <2>2. w = t /\ k >= Len(l)
    BY <1>2, <1>7, <1>8, <1>12, <2>1 DEF IsUpToDate
  <2>3. h = g
    BY Zenon, <1>1, <1>14, <2>2
  <2> QED
    BY <1>2, <1>4, <1>15, <2>2, <2>3 DEF SameUpTo
<1>17. ASSUME w > t, SameUpTo(a, h, g) PROVE SameUpTo(a, c, g)
  <2>1. a \in Nat \ {0} /\ g[a].term < w
    BY <1>3, <1>17
  <2>2. Grounded(H[w], H, w) /\ SameUpTo(a, H[w], g)
    BY Zenon, <1>14, <1>17
  <2> QED
    BY Zenon, <1>8, <1>10, <1>11, <2>1, <2>2, LastTermHolds
<1> QED
  BY Zenon, <1>1, <1>14, <1>15, <1>16, <1>17

(* Logs that start alike have the same first entries. *)
LEMMA SameStart ==
  ASSUME NEW k \in Nat, NEW l \in Logs, NEW h \in Logs, SameUpTo(k, l, h)
  PROVE  SubSeq(l, 1, k) = SubSeq(h, 1, k)
<1>1. ASSUME NEW f \in Logs, k <= Len(f)
      PROVE  /\ SubSeq(f, 1, k) \in Seq(Entry) /\ Len(SubSeq(f, 1, k)) = k
             /\ \A i \in 1 .. k : SubSeq(f, 1, k)[i] = f[i]
  <2>1. Len(f) \in Nat /\ \A i \in 1 .. Len(f) : f[i] \in Entry
    BY Zenon, LogFacts
  <2>2. \A i \in 1 .. k : f[i] \in Entry
    BY <1>1, <2>1
  <2>3. /\ SubSeq(f, 1, k) \in Seq(Entry)
        /\ Len(SubSeq(f, 1, k)) = IF 1 <= k THEN k - 1 + 1 ELSE 0
        /\ \A i \in 1 .. k - 1 + 1 : SubSeq(f, 1, k)[i] = f[1 + i - 1]
    BY <2>2, SubSeqProperties
  <2>4. PICK y : y = SubSeq(f, 1, k)
    OBVIOUS
  <2>5. /\ y \in Seq(Entry) /\ Len(y) = IF 1 <= k THEN k - 1 + 1 ELSE 0
        /\ \A i \in 1 .. k - 1 + 1 : y[i] = f[1 + i - 1]
    BY Zenon, <2>3, <2>4
  <2>6. Len(y) = k /\ \A i \in 1 .. k : y[i] = f[i]
    BY <2>5
  <2> QED
    BY Zenon, <2>4, <2>5, <2>6
<1>2. k <= Len(l) /\ k <= Len(h) /\ \A i \in 1 .. k : l[i] = h[i]
  BY Zenon DEF SameUpTo
<1>3. PICK x \in Seq(Entry) : x = SubSeq(l, 1, k) /\ Len(x) = k /\ \A i \in 1 .. k : x[i] = l[i]
  BY Zenon, <1>1, <1>2
<1>4. PICK y \in Seq(Entry) : y = SubSeq(h, 1, k) /\ Len(y) = k /\ \A i \in 1 .. k : y[i] = h[i]
  BY Zenon, <1>1, <1>2
<1>5. Len(x) = Len(y) /\ \A i \in 1 .. Len(x) : x[i] = y[i]
  BY Zenon, <1>2, <1>3, <1>4
<1>6. x = y
  BY <1>5, SeqEqual
<1> QED
  BY Zenon, <1>3, <1>4, <1>6

-----------------------------------------------------------------------------
(* What was committed, put in order.                                       *)

(* S has one entry for each index from 1 to k. *)
OneEach(S, k) ==
  /\ S \subseteq [index : Nat, entry : Entry, term : Nat]
  /\ {c.index : c \in S} = 1 .. k
  /\ \A c, d \in S : c.index = d.index => c.entry = d.entry

(* Then it is a log. *)
LEMMA InOrderIs ==
  ASSUME NEW S, NEW k \in Nat, OneEach(S, k)
  PROVE  /\ InOrder(S) \in Logs /\ Len(InOrder(S)) = k
         /\ \A c \in S : c.index \in 1 .. k /\ InOrder(S)[c.index] = c.entry
<1>0. {c.index : c \in S} = 1 .. k /\ \A c, d \in S : c.index = d.index => c.entry = d.entry
  BY Zenon DEF OneEach
<1>1. ASSUME NEW c \in S
      PROVE  /\ c.index \in 1 .. k /\ c.entry \in Entry
             /\ InOrder(S)[c.index] = c.entry
  <2>1. c.index \in {d.index : d \in S}
    OBVIOUS
  <2>2. PICK d : d = CHOOSE e \in S : e.index = c.index
    OBVIOUS
  <2>3. d \in S /\ d.index = c.index
    BY Zenon, <2>2
  <2>4. d.entry = c.entry
    BY Zenon, <1>0, <2>3
  <2>5. InOrder(S)[c.index] = d.entry
    BY Zenon, <2>1, <2>2 DEF InOrder
  <2>6. c.entry \in Entry
    BY DEF OneEach
  <2> QED
    BY Zenon, <1>0, <2>1, <2>4, <2>5, <2>6
<1>2. ASSUME NEW i \in 1 .. k PROVE InOrder(S)[i] \in Entry
  <2>1. PICK c \in S : c.index = i
    BY Zenon, <1>0
  <2> QED
    BY Zenon, <1>1, <2>1
<1>3. DOMAIN InOrder(S) = 1 .. k /\ InOrder(S) = [i \in 1 .. k |-> InOrder(S)[i]]
  BY Zenon, <1>0 DEF InOrder
<1>4. InOrder(S) \in [1 .. k -> Entry]
  BY Zenon, <1>2, <1>3
<1>5. PICK f : f = InOrder(S)
  OBVIOUS
<1>6. f \in Seq(Entry) /\ Len(f) = k
  BY <1>4, <1>5
<1> QED
  BY Zenon, <1>1, <1>5, <1>6 DEF Logs

(* The first j entries of l are in S: then its log starts with them.       *)
StartsIn(j, l, S) ==
  j <= Len(l) /\ \A i \in 1 .. j : \E c \in S : c.index = i /\ c.entry = l[i]
LEMMA LearntInOrder ==
  ASSUME NEW S, NEW k \in Nat, OneEach(S, k), NEW l \in Logs, NEW j \in Nat,
         StartsIn(j, l, S)
  PROVE  j <= k /\ SameUpTo(j, l, InOrder(S)) /\ SubSeq(l, 1, j) = SubSeq(InOrder(S), 1, j)
<1>1. /\ InOrder(S) \in Logs /\ Len(InOrder(S)) = k
      /\ \A c \in S : c.index \in 1 .. k /\ InOrder(S)[c.index] = c.entry
  BY Zenon, InOrderIs
<1>2. j <= Len(l) /\ \A i \in 1 .. j : i \in 1 .. k /\ l[i] = InOrder(S)[i]
  BY Zenon, <1>1 DEF StartsIn
<1>3. j <= k
  BY <1>2
<1>4. SameUpTo(j, l, InOrder(S))
  BY Zenon, <1>1, <1>2, <1>3 DEF SameUpTo
<1> QED
  BY Zenon, <1>1, <1>3, <1>4, SameStart

(* The length of a prefix. *)
LEMMA PrefixLength ==
  ASSUME NEW l \in Logs, NEW j \in Nat, j <= Len(l)
  PROVE  Len(SubSeq(l, 1, j)) = j
BY DEF Logs

(* The whole of a log, and nothing of it, as a prefix. *)
LEMMA PrefixEnds ==
  ASSUME NEW l \in Logs
  PROVE  SubSeq(l, 1, Len(l)) = l /\ SubSeq(l, 1, 0) = <<>>
BY DEF Logs

-----------------------------------------------------------------------------
(* The types: no step breaks TypeOK. *)

USE ZenonT(30), SMTT(30)

(* The facts about one node that TypeOK gives. *)
LEMMA NodeTypes ==
  ASSUME TypeOK, NEW n \in Node
  PROVE  /\ currentTerm[n] \in Nat
         /\ votedFor[n] \in Node \cup {Nobody}
         /\ log[n] \in Seq(Entry) /\ Len(log[n]) \in Nat
         /\ disk[n] \in PersistentState
         /\ disk[n].term \in Nat /\ disk[n].entries \in Seq(Entry)
         /\ disk[n].votedFor \in Node \cup {Nobody}
         /\ commitIndex[n] \in Nat
         /\ nextIndex[n] \in [Node -> Nat] /\ matchIndex[n] \in [Node -> Nat]
         /\ votes[n] \in Nat /\ boot[n] \in Nat
<1>1. Len(log[n]) \in Nat
  BY LenProperties DEF TypeOK
<1> QED
  BY <1>1 DEF TypeOK, PersistentState

(* What persist writes is a persistent state. *)
LEMMA PersistType ==
  ASSUME TypeOK, NEW n \in Node, Persist(n),
         currentTerm' \in [Node -> Nat],
         votedFor' \in [Node -> Node \cup {Nobody}],
         log' \in [Node -> Seq(Entry)]
  PROVE  /\ disk' \in [Node -> PersistentState]
         /\ disk'[n] = [term |-> currentTerm'[n], votedFor |-> votedFor'[n],
                        entries |-> log'[n]]
         /\ \A p \in Node : p # n => disk'[p] = disk[p]
BY DEF TypeOK, Persist, PersistentState

(* A new commit index is a number, and what is committed are log entries. *)
LEMMA AdvanceType ==
  ASSUME TypeOK, NEW n \in Node, AdvanceCommitIndex(n),
         currentTerm' \in [Node -> Nat],
         log' \in [Node -> Seq(Entry)],
         matchIndex' \in [Node -> [Node -> Nat]]
  PROVE  /\ commitIndex' \in [Node -> Nat]
         /\ committed' \subseteq [index : Nat, entry : Entry, term : Nat]
         /\ \A p \in Node : p # n => commitIndex'[p] = commitIndex[p]
<1> DEFINE c == CommitPoint(n, log'[n], currentTerm'[n], matchIndex'[n])
<1>1. /\ c \in Nat
      /\ c = commitIndex[n] \/ (commitIndex[n] < c /\ c <= Len(log'[n]))
  <2>1. commitIndex \in [Node -> Nat]
    BY DEF TypeOK
  <2>2. /\ log'[n] \in Seq(Entry) /\ currentTerm'[n] \in Nat
        /\ matchIndex'[n] \in [Node -> Nat]
    OBVIOUS
  <2> QED
    BY <2>1, <2>2, CommitPointBounds
<1> HIDE DEF c
<1>2. commitIndex' = [commitIndex EXCEPT ![n] = c]
  BY DEF AdvanceCommitIndex, c
<1>3. commitIndex' \in [Node -> Nat] /\ commitIndex'[n] = c
  BY <1>1, <1>2 DEF TypeOK
<1>4. \A i \in commitIndex[n] + 1 .. commitIndex'[n] :
        i \in Nat /\ log'[n][i] \in Entry
  <2> SUFFICES ASSUME NEW i \in commitIndex[n] + 1 .. commitIndex'[n]
               PROVE  i \in Nat /\ log'[n][i] \in Entry
    OBVIOUS
  <2>1. i \in 1 .. Len(log'[n])
    BY SMTT(30), <1>1, <1>3, LenProperties DEF TypeOK
  <2> QED
    BY <2>1, ElementOfSeq
<1>5. committed' \subseteq [index : Nat, entry : Entry, term : Nat]
  <2> DEFINE new == {[index |-> i, entry |-> log'[n][i], term |-> currentTerm'[n]] :
                       i \in commitIndex[n] + 1 .. commitIndex'[n]}
  <2>1. committed' = committed \cup new
    BY DEF AdvanceCommitIndex
  <2>2. new \subseteq [index : Nat, entry : Entry, term : Nat]
    <3>1. currentTerm'[n] \in Nat
      OBVIOUS
    <3> QED
      BY SMTT(30), <3>1, <1>4
  <2>3. committed \subseteq [index : Nat, entry : Entry, term : Nat]
    BY DEF TypeOK
  <2> HIDE DEF new
  <2> QED
    BY <2>1, <2>2, <2>3
<1> QED
  BY <1>2, <1>3, <1>5 DEF TypeOK

(* becomeLeader leaves every variable it sets in its type. *)
LEMMA BecomeLeaderType ==
  ASSUME TypeOK, NEW n \in Node, BecomeLeader(n), up[n],
         currentTerm' \in [Node -> Nat],
         votedFor' \in [Node -> Node \cup {Nobody}]
  PROVE  /\ role' \in [Node -> {Follower, Candidate, Leader}]
         /\ leaderID' \in [Node -> Node \cup {Nobody}]
         /\ nextIndex' \in [Node -> [Node -> Nat]]
         /\ matchIndex' \in [Node -> [Node -> Nat]]
         /\ log' \in [Node -> Seq(Entry)]
         /\ disk' \in [Node -> PersistentState]
         /\ commitIndex' \in [Node -> Nat]
         /\ leaders' \subseteq Node \X Nat
         /\ committed' \subseteq [index : Nat, entry : Entry, term : Nat]
         /\ \A p \in Node : ~ up[p] =>
              role'[p] = Follower /\ leaderID'[p] = Nobody /\ commitIndex'[p] = 0
<1>1. [term |-> currentTerm'[n], cmd |-> NoOp] \in Entry
  BY DEF Entry
<1>2. Append(log[n], [term |-> currentTerm'[n], cmd |-> NoOp]) \in Seq(Entry)
  BY <1>1, AppendProperties, NodeTypes
<1>3. log' \in [Node -> Seq(Entry)]
  BY <1>2 DEF BecomeLeader, TypeOK
<1>4. matchIndex' \in [Node -> [Node -> Nat]]
  BY DEF BecomeLeader, TypeOK
<1>5. nextIndex' \in [Node -> [Node -> Nat]]
  <2>1. [p \in Node |-> Len(log[n]) + 1] \in [Node -> Nat]
    BY SMTT(30), NodeTypes
  <2> QED
    BY <2>1 DEF BecomeLeader, TypeOK
<1>6. disk' \in [Node -> PersistentState]
  BY <1>3, PersistType DEF BecomeLeader
<1>7. /\ commitIndex' \in [Node -> Nat]
      /\ committed' \subseteq [index : Nat, entry : Entry, term : Nat]
      /\ \A p \in Node : p # n => commitIndex'[p] = commitIndex[p]
  BY <1>3, <1>4, AdvanceType DEF BecomeLeader
<1>8. role' \in [Node -> {Follower, Candidate, Leader}]
      /\ leaderID' \in [Node -> Node \cup {Nobody}]
  BY DEF BecomeLeader, TypeOK
<1>9. leaders' \subseteq Node \X Nat
  <2>1. leaders' = leaders \cup {<<n, currentTerm'[n]>>}
    BY DEF BecomeLeader
  <2>2. leaders \subseteq Node \X Nat
    BY DEF TypeOK
  <2> QED
    BY SMTT(30), <2>1, <2>2
<1>10. \A p \in Node : ~ up[p] =>
         role'[p] = Follower /\ leaderID'[p] = Nobody /\ commitIndex'[p] = 0
  BY <1>7 DEF BecomeLeader, TypeOK
<1> QED
  BY <1>3, <1>4, <1>5, <1>6, <1>7, <1>8, <1>9, <1>10

-----------------------------------------------------------------------------
(* Every action keeps the types. *)

(* startElection, whether or not it wins at once. *)
LEMMA ElectionTimeoutType ==
  ASSUME TypeOK, NEW n \in Node, ElectionTimeout(n)
  PROVE  TypeOK'
<1>1. currentTerm' \in [Node -> Nat] /\ votedFor' \in [Node -> Node \cup {Nobody}]
  <2>1. /\ currentTerm' = [currentTerm EXCEPT ![n] = @ + 1]
        /\ votedFor' = [votedFor EXCEPT ![n] = n]
    BY Zenon DEF ElectionTimeout
  <2>2. currentTerm \in [Node -> Nat] /\ votedFor \in [Node -> Node \cup {Nobody}]
    BY DEF TypeOK
  <2> QED
    BY SMTT(30), <2>1, <2>2
<1>2. votes' \in [Node -> Nat] /\ up[n]
  BY DEF ElectionTimeout, TypeOK
<1>3. ballots' \subseteq Node \X Nat \X Node
  <2>1. currentTerm'[n] \in Nat
    BY <1>1
  <2> QED
    BY SMTT(30), <2>1 DEF ElectionTimeout, TypeOK
<1>4. CASE BecomeLeader(n) /\ UNCHANGED voteReqs
  BY <1>1, <1>2, <1>3, <1>4, BecomeLeaderType
     DEF ElectionTimeout, TypeOK, appendNet
<1>5. CASE ~ (BecomeLeader(n) /\ UNCHANGED voteReqs)
  <2>1. /\ role' = [role EXCEPT ![n] = Candidate]
        /\ leaderID' = [leaderID EXCEPT ![n] = Nobody]
        /\ log' = log
        /\ Persist(n)
        /\ voteReqs' = voteReqs \cup
             {[from |-> n, boot |-> boot[n], to |-> p, term |-> currentTerm'[n],
               lastLogIndex |-> Len(log[n]),
               lastLogTerm |-> LastTerm(log[n])] : p \in Peers(n)}
        /\ UNCHANGED <<commitIndex, progress, leaders, committed>>
    BY <1>5 DEF ElectionTimeout
  <2>2. disk' \in [Node -> PersistentState]
    BY <1>1, <2>1, PersistType DEF TypeOK
  <2>3. voteReqs' \subseteq RequestVoteArgs
    <3>1. LastTerm(log[n]) \in Nat
      BY SMTT(30), TermAtType, NodeTypes DEF LastTerm
    <3>2. currentTerm'[n] \in Nat /\ boot[n] \in Nat /\ Len(log[n]) \in Nat
      BY <1>1, NodeTypes
    <3>3. \A p \in Peers(n) :
            [from |-> n, boot |-> boot[n], to |-> p, term |-> currentTerm'[n],
             lastLogIndex |-> Len(log[n]),
             lastLogTerm |-> LastTerm(log[n])] \in RequestVoteArgs
      BY <3>1, <3>2 DEF RequestVoteArgs, Peers
    <3>4. voteReqs \subseteq RequestVoteArgs
      BY DEF TypeOK
    <3> QED
      BY <2>1, <3>3, <3>4
  <2> QED
    BY <1>1, <1>2, <1>3, <2>1, <2>2, <2>3
       DEF ElectionTimeout, TypeOK, progress, appendNet
<1> QED
  BY <1>4, <1>5

(* What observeTerm leaves behind is well typed. *)
LEMMA AfterTypes ==
  ASSUME TypeOK, NEW n \in Node, NEW t \in Nat
  PROVE  /\ TermAfter(n, t) = IF t > currentTerm[n] THEN t ELSE currentTerm[n]
         /\ TermAfter(n, t) \in Nat
         /\ VoteAfter(n, t) \in Node \cup {Nobody}
         /\ RoleAfter(n, t) \in {Follower, Candidate, Leader}
         /\ LeaderAfter(n, t) \in Node \cup {Nobody}
<1>1. currentTerm[n] \in Nat
  BY DEF TypeOK
<1>2. TermAfter(n, t) = IF t > currentTerm[n] THEN t ELSE currentTerm[n]
  BY SMTT(30), <1>1, PairExtrema DEF TermAfter
<1>3. TermAfter(n, t) \in Nat
  BY <1>1, <1>2
<1> QED
  BY <1>2, <1>3 DEF TypeOK, VoteAfter, RoleAfter, LeaderAfter

(* The RequestVote handler, granting or refusing. *)
LEMMA HandleRequestVoteType ==
  ASSUME TypeOK, NEW n \in Node, NEW m \in voteReqs, HandleRequestVote(n, m)
  PROVE  TypeOK'
<1> DEFINE t == TermAfter(n, m.term)
           g == m.term = t /\ CanVote(n, m)
<1>1. /\ m \in RequestVoteArgs /\ m.term \in Nat /\ m.from \in Node /\ up[n]
  BY DEF TypeOK, RequestVoteArgs, HandleRequestVote
<1>2. t \in Nat /\ VoteAfter(n, m.term) \in Node \cup {Nobody}
      /\ RoleAfter(n, m.term) \in {Follower, Candidate, Leader}
      /\ LeaderAfter(n, m.term) \in Node \cup {Nobody}
  BY <1>1, AfterTypes
<1>3. g \in BOOLEAN
  BY DEF CanVote
<1> HIDE DEF t, g
<1>4. currentTerm' \in [Node -> Nat] /\ votedFor' \in [Node -> Node \cup {Nobody}]
  BY <1>1, <1>2 DEF TypeOK, HandleRequestVote, t
<1>5. disk' \in [Node -> PersistentState]
  <2>1. log' \in [Node -> Seq(Entry)] /\ disk \in [Node -> PersistentState]
    BY DEF TypeOK, HandleRequestVote
  <2>2. Persist(n) \/ disk' = disk
    BY DEF HandleRequestVote
  <2> QED
    BY <1>4, <2>1, <2>2, PersistType
<1>6. voteReps' \subseteq RequestVoteReply
  <2>1. [req |-> m, term |-> t, voteGranted |-> g] \in RequestVoteReply
    BY <1>1, <1>2, <1>3 DEF RequestVoteReply
  <2>2. voteReps' = voteReps \cup ToCaller(m, [req |-> m, term |-> t, voteGranted |-> g])
    BY DEF HandleRequestVote, t, g
  <2>3. voteReps \subseteq RequestVoteReply
    BY DEF TypeOK
  <2> QED
    BY <2>1, <2>2, <2>3 DEF ToCaller
<1>7. ballots' \subseteq Node \X Nat \X Node
  <2>1. ballots' = ballots \cup {<<n, t, m.from>>} \/ ballots' = ballots
    BY DEF HandleRequestVote, t, g
  <2>2. ballots \subseteq Node \X Nat \X Node
    BY DEF TypeOK
  <2> QED
    BY SMTT(30), <1>1, <1>2, <2>1, <2>2
<1>8. /\ role' \in [Node -> {Follower, Candidate, Leader}]
      /\ leaderID' \in [Node -> Node \cup {Nobody}]
      /\ \A p \in Node : ~ up'[p] =>
           role'[p] = Follower /\ leaderID'[p] = Nobody /\ commitIndex'[p] = 0
  BY <1>1, <1>2 DEF TypeOK, HandleRequestVote
<1> QED
  BY <1>4, <1>5, <1>6, <1>7, <1>8
     DEF TypeOK, HandleRequestVote, progress, appendNet

(* requestVote taking a granted vote. *)
LEMMA RequestVoteRepliedType ==
  ASSUME TypeOK, NEW n \in Node, NEW r \in voteReps, RequestVoteReplied(n, r)
  PROVE  TypeOK'
<1>1. /\ currentTerm' \in [Node -> Nat] /\ votedFor' \in [Node -> Node \cup {Nobody}]
      /\ votes' \in [Node -> Nat] /\ up[n] /\ voteReps' \subseteq RequestVoteReply
  <2>1. /\ currentTerm' \in [Node -> Nat] /\ votedFor' \in [Node -> Node \cup {Nobody}]
    BY DEF RequestVoteReplied, TypeOK
  <2>2. up[n] /\ voteReps' \subseteq RequestVoteReply
    BY DEF RequestVoteReplied, StillRunning, TypeOK
  <2>3. votes' \in [Node -> Nat]
    <3>1. votes \in [Node -> Nat] /\ votes' = [votes EXCEPT ![n] = @ + 1]
      BY DEF RequestVoteReplied, TypeOK
    <3> QED
      BY SMTT(30), <3>1
  <2> QED
    BY <2>1, <2>2, <2>3
<1>2. CASE BecomeLeader(n)
  BY <1>1, <1>2, BecomeLeaderType DEF RequestVoteReplied, TypeOK, appendNet
<1>3. CASE UNCHANGED <<log, disk, volatile, progress, leaders, committed>>
  BY <1>1, <1>3 DEF RequestVoteReplied, TypeOK, appendNet, volatile, progress
<1> QED
  BY <1>2, <1>3 DEF RequestVoteReplied

(* observeTerm on a reply of either RPC. *)
LEMMA ReplyWithNewerTermType ==
  ASSUME TypeOK, NEW n \in Node, NEW r \in voteReps \cup appendReps,
         ReplyWithNewerTerm(n, r)
  PROVE  TypeOK'
<1>1. r.term \in Nat
  BY DEF TypeOK, RequestVoteReply, AppendEntriesReply
<1>2. /\ currentTerm' \in [Node -> Nat] /\ votedFor' \in [Node -> Node \cup {Nobody}]
      /\ log' \in [Node -> Seq(Entry)]
  BY <1>1 DEF TypeOK, ReplyWithNewerTerm
<1>3. disk' \in [Node -> PersistentState]
  BY <1>2, PersistType DEF ReplyWithNewerTerm
<1> QED
  BY <1>2, <1>3 DEF TypeOK, ReplyWithNewerTerm, progress, history

(* Propose on the leader. *)
LEMMA ProposeType ==
  ASSUME TypeOK, NEW n \in Node, NEW c \in Command, Propose(n, c)
  PROVE  TypeOK'
<1>1. [term |-> currentTerm[n], cmd |-> c] \in Entry
  BY NodeTypes DEF Entry
<1>2. Append(log[n], [term |-> currentTerm[n], cmd |-> c]) \in Seq(Entry)
  BY <1>1, AppendProperties, NodeTypes
<1>3. /\ log' \in [Node -> Seq(Entry)] /\ currentTerm' \in [Node -> Nat]
      /\ votedFor' \in [Node -> Node \cup {Nobody}]
      /\ matchIndex' \in [Node -> [Node -> Nat]]
  BY <1>2 DEF Propose, TypeOK
<1>4. disk' \in [Node -> PersistentState]
  BY <1>3, PersistType DEF Propose
<1>5. /\ commitIndex' \in [Node -> Nat]
      /\ committed' \subseteq [index : Nat, entry : Entry, term : Nat]
      /\ \A p \in Node : p # n => commitIndex'[p] = commitIndex[p]
  BY <1>3, AdvanceType DEF Propose
<1> QED
  BY <1>3, <1>4, <1>5 DEF TypeOK, Propose, voteNet, appendNet

(* replicateTo sending; the request is built from a nextIndex in the log. *)
LEMMA ReplicateToType ==
  ASSUME TypeOK, NextIndexInLog, NEW n \in Node, NEW p \in Peers(n),
         ReplicateTo(n, p)
  PROVE  TypeOK'
<1> DEFINE prev == nextIndex[n][p] - 1
           es == EntriesFrom(log[n], prev + 1, MaxEntriesPerAppend)
<1>1. p \in Node /\ nextIndex[n][p] \in 1 .. Len(log[n]) + 1
  BY DEF NextIndexInLog, ReplicateTo, Peers
<1>2. prev \in 0 .. Len(log[n]) /\ prev \in Nat /\ prev + 1 \in 1 .. Len(log[n]) + 1
  BY SMTT(30), <1>1, NodeTypes
<1> HIDE DEF prev
<1>3. TermAt(log[n], prev) \in Nat /\ es \in Seq(Entry)
  BY <1>2, TermAtType, EntriesFromType, NodeTypes, ConstantsAssumption
<1> HIDE DEF es
<1>4. [from |-> n, boot |-> boot[n], to |-> p, term |-> currentTerm[n],
       prevLogIndex |-> prev, prevLogTerm |-> TermAt(log[n], prev),
       entries |-> es, leaderCommit |-> commitIndex[n]] \in AppendEntriesArgs
  BY <1>1, <1>2, <1>3, NodeTypes DEF AppendEntriesArgs
<1>5. appendReqs' = appendReqs \cup
        {[from |-> n, boot |-> boot[n], to |-> p, term |-> currentTerm[n],
          prevLogIndex |-> prev, prevLogTerm |-> TermAt(log[n], prev),
          entries |-> es, leaderCommit |-> commitIndex[n]]}
  BY DEF ReplicateTo, prev, es
<1>6. appendReqs' \subseteq AppendEntriesArgs
  <2>1. appendReqs \subseteq AppendEntriesArgs
    BY DEF TypeOK
  <2> QED
    BY <1>4, <1>5, <2>1
<1> QED
  BY <1>6 DEF TypeOK, ReplicateTo, saved, volatile, progress, voteNet, history

(* The AppendEntries handler, whatever it does to the log. *)
LEMMA HandleAppendEntriesType ==
  ASSUME TypeOK, NEW n \in Node, NEW m \in appendReqs, HandleAppendEntries(n, m)
  PROVE  TypeOK'
<1> DEFINE t == TermAfter(n, m.term)
           ok == m.term = t /\ Matches(log[n], m.prevLogIndex, m.prevLogTerm)
           l == IF ok THEN AppendNew(log[n], m.prevLogIndex, m.entries) ELSE log[n]
           c == IF ok THEN CommitFrom(n, m) ELSE commitIndex[n]
<1>1. /\ m \in AppendEntriesArgs /\ m.term \in Nat /\ m.from \in Node
      /\ m.prevLogIndex \in Nat /\ m.entries \in Seq(Entry) /\ m.leaderCommit \in Nat
      /\ Len(m.entries) \in Nat /\ up[n]
  BY LenProperties DEF TypeOK, AppendEntriesArgs, HandleAppendEntries
<1>2. t \in Nat /\ VoteAfter(n, m.term) \in Node \cup {Nobody}
  BY <1>1, AfterTypes
<1>3. l \in Seq(Entry)
  <2>1. CASE ok
    <3>1. m.prevLogIndex \in 0 .. Len(log[n])
      BY <2>1 DEF Matches
    <3> QED
      BY <1>1, <2>1, <3>1, AppendNewType, NodeTypes
  <2>2. CASE ~ ok
    BY <2>2, NodeTypes
  <2> QED
    BY <2>1, <2>2
<1>4. c \in Nat
  <2>1. Min({m.leaderCommit, m.prevLogIndex + Len(m.entries)}) \in Nat
    <3>1. m.prevLogIndex + Len(m.entries) \in Nat
      BY SMTT(30), <1>1
    <3> QED
      BY <1>1, <3>1, PairExtrema
  <2>2. CommitFrom(n, m) \in Nat
    BY <2>1, PairExtrema, NodeTypes DEF CommitFrom
  <2> QED
    BY <2>2, NodeTypes
<1>5. ok \in BOOLEAN
  BY DEF Matches
<1>6. /\ currentTerm' = [currentTerm EXCEPT ![n] = t]
      /\ votedFor' = [votedFor EXCEPT ![n] = VoteAfter(n, m.term)]
      /\ log' = [log EXCEPT ![n] = l]
      /\ commitIndex' = [commitIndex EXCEPT ![n] = c]
      /\ role' = [role EXCEPT ![n] = IF m.term = t THEN Follower ELSE @]
      /\ leaderID' = [leaderID EXCEPT ![n] = IF m.term = t THEN m.from ELSE @]
      /\ Persist(n) \/ disk' = disk
      /\ appendReqs' \subseteq appendReqs
      /\ appendReps' = appendReps \cup
           ToCaller(m, [req |-> m, term |-> t, success |-> ok])
      /\ UNCHANGED <<up, progress, votes, boot, voteNet, crashes, history>>
  BY DEF HandleAppendEntries
<1> HIDE DEF t, ok, l, c
<1>7. /\ currentTerm' \in [Node -> Nat] /\ votedFor' \in [Node -> Node \cup {Nobody}]
      /\ log' \in [Node -> Seq(Entry)] /\ commitIndex' \in [Node -> Nat]
  BY <1>2, <1>3, <1>4, <1>6 DEF TypeOK
<1>8. disk' \in [Node -> PersistentState]
  <2>1. disk \in [Node -> PersistentState]
    BY DEF TypeOK
  <2> QED
    BY <1>6, <1>7, <2>1, PersistType
<1>9. appendReps' \subseteq AppendEntriesReply
  <2>1. [req |-> m, term |-> t, success |-> ok] \in AppendEntriesReply
    BY <1>1, <1>2, <1>5 DEF AppendEntriesReply
  <2>2. appendReps \subseteq AppendEntriesReply
    BY DEF TypeOK
  <2> QED
    BY <1>6, <2>1, <2>2 DEF ToCaller
<1>10. /\ role' \in [Node -> {Follower, Candidate, Leader}]
       /\ leaderID' \in [Node -> Node \cup {Nobody}]
       /\ \A p \in Node : ~ up'[p] =>
            role'[p] = Follower /\ leaderID'[p] = Nobody /\ commitIndex'[p] = 0
  BY <1>1, <1>6 DEF TypeOK
<1> QED
  BY <1>6, <1>7, <1>8, <1>9, <1>10 DEF TypeOK, progress, voteNet, history

(* replicateTo after a success. *)
LEMMA AppendSucceededType ==
  ASSUME TypeOK, NEW n \in Node, NEW r \in appendReps, AppendSucceeded(n, r)
  PROVE  TypeOK'
<1> DEFINE p == r.req.to
           k == r.req.prevLogIndex + Len(r.req.entries)
<1>1. p \in Node /\ k \in Nat
  <2>1. r.req \in AppendEntriesArgs
    BY DEF TypeOK, AppendEntriesReply
  <2>2. p \in Node /\ r.req.prevLogIndex \in Nat /\ r.req.entries \in Seq(Entry)
    BY <2>1 DEF AppendEntriesArgs
  <2>3. Len(r.req.entries) \in Nat
    BY <2>2, LenProperties
  <2> QED
    BY <2>2, <2>3
<1>2. MatchAfter(n, p, r.req) \in Nat /\ NextAfter(n, p, r.req) \in Nat
  <2>1. matchIndex[n][p] \in Nat /\ nextIndex[n][p] \in Nat /\ k + 1 \in Nat
    BY SMTT(30), <1>1, NodeTypes
  <2> QED
    BY <1>1, <2>1, PairExtrema DEF MatchAfter, NextAfter
<1>3. /\ matchIndex' = [matchIndex EXCEPT ![n][p] = MatchAfter(n, p, r.req)]
      /\ nextIndex' = [nextIndex EXCEPT ![n][p] = NextAfter(n, p, r.req)]
      /\ AdvanceCommitIndex(n) /\ up[n]
      /\ appendReps' \subseteq appendReps
      /\ UNCHANGED <<currentTerm, log>>
      /\ UNCHANGED <<votedFor, disk, up, role, leaderID, votes, boot, voteNet,
                     appendReqs, crashes, ballots, leaders>>
  BY DEF AppendSucceeded, TakeAppendReply
<1> HIDE DEF p, k
<1>4. /\ matchIndex' \in [Node -> [Node -> Nat]]
      /\ nextIndex' \in [Node -> [Node -> Nat]]
      /\ currentTerm' \in [Node -> Nat] /\ log' \in [Node -> Seq(Entry)]
  BY <1>1, <1>2, <1>3 DEF TypeOK
<1>5. /\ commitIndex' \in [Node -> Nat]
      /\ committed' \subseteq [index : Nat, entry : Entry, term : Nat]
      /\ \A q \in Node : q # n => commitIndex'[q] = commitIndex[q]
  BY <1>3, <1>4, AdvanceType
<1> QED
  BY <1>3, <1>4, <1>5 DEF TypeOK, voteNet

(* replicateTo after a refusal. *)
LEMMA AppendRefusedType ==
  ASSUME TypeOK, NEW n \in Node, NEW r \in appendReps, AppendRefused(n, r)
  PROVE  TypeOK'
<1>1. r.req.to \in Node /\ r.req.prevLogIndex \in Nat
  BY DEF TypeOK, AppendEntriesReply, AppendEntriesArgs
<1>2. /\ nextIndex' = [nextIndex EXCEPT ![n][r.req.to] = r.req.prevLogIndex]
      /\ appendReps' \subseteq appendReps
      /\ UNCHANGED <<saved, up, volatile, matchIndex, votes, boot, voteNet,
                     appendReqs, crashes, history>>
  BY DEF AppendRefused, TakeAppendReply
<1>3. nextIndex' \in [Node -> [Node -> Nat]]
  BY <1>1, <1>2 DEF TypeOK
<1> QED
  BY <1>2, <1>3 DEF TypeOK, saved, volatile, voteNet, history

(* A failed AppendEntries RPC. *)
LEMMA AppendLostType ==
  ASSUME TypeOK, AppendLost
  PROVE  TypeOK'
BY DEF TypeOK, AppendLost, saved, volatile, progress, voteNet, history

(* What a process that dies leaves has its type. *)
LEMMA LoseMemoryType ==
  ASSUME TypeOK, NEW n \in Node, LoseMemory(n),
         disk' \in [Node -> PersistentState],
         ballots' \subseteq Node \X Nat \X Node
  PROVE  TypeOK'
<1>1. crashes' \in 0 .. MaxCrashes
  <2>1. crashes \in 0 .. MaxCrashes
    BY DEF TypeOK
  <2>2. crashes < MaxCrashes /\ crashes' = crashes + 1
    BY DEF LoseMemory
  <2> QED
    BY SMTT(30), <2>1, <2>2, ConstantsAssumption
<1>2. /\ nextIndex' \in [Node -> [Node -> Nat]]
      /\ matchIndex' \in [Node -> [Node -> Nat]]
      /\ votes' \in [Node -> Nat] /\ boot' \in [Node -> Nat]
      /\ up' \in [Node -> BOOLEAN]
  BY SMTT(30) DEF LoseMemory, TypeOK
<1>3. /\ role' \in [Node -> {Follower, Candidate, Leader}]
      /\ leaderID' \in [Node -> Node \cup {Nobody}]
      /\ commitIndex' \in [Node -> Nat]
      /\ \A p \in Node : ~ up'[p] =>
           role'[p] = Follower /\ leaderID'[p] = Nobody /\ commitIndex'[p] = 0
  BY DEF LoseMemory, TypeOK
<1> QED
  BY <1>1, <1>2, <1>3 DEF LoseMemory, TypeOK

(* A crash, between handlers or between two saves of one. *)
LEMMA CrashType ==
  ASSUME TypeOK, NEW n \in Node, Crash(n) \/ CrashBetweenSaves(n)
  PROVE  TypeOK'
<1>1. CASE Crash(n)
  BY <1>1, LoseMemoryType DEF Crash, TypeOK
<1>2. CASE CrashBetweenSaves(n)
  <2>1. LoseMemory(n)
    BY <1>2 DEF CrashBetweenSaves
  <2>2. ASSUME NEW m \in voteReqs \cup appendReqs,
               disk' = [disk EXCEPT ![n] = [term |-> m.term, votedFor |-> Nobody,
                                            entries |-> log[n]]],
               ballots' = ballots
        PROVE  TypeOK'
    <3>1. m.term \in Nat
      BY DEF TypeOK, RequestVoteArgs, AppendEntriesArgs
    <3>2. disk' \in [Node -> PersistentState]
      BY <2>2, <3>1, NodeTypes DEF TypeOK, PersistentState
    <3> QED
      BY <2>1, <2>2, <3>2, LoseMemoryType DEF TypeOK
  <2>3. ASSUME disk' = [disk EXCEPT ![n] = [term |-> currentTerm[n] + 1,
                                            votedFor |-> n, entries |-> log[n]]],
               ballots' = ballots \cup {<<n, currentTerm[n] + 1, n>>}
        PROVE  TypeOK'
    <3>1. currentTerm[n] + 1 \in Nat
      <4>1. PICK t \in Nat : t = currentTerm[n]
        BY NodeTypes
      <4>2. t + 1 \in Nat
        OBVIOUS
      <4> QED
        BY <4>1, <4>2
    <3>2. disk' \in [Node -> PersistentState]
      BY <2>3, <3>1, NodeTypes DEF TypeOK, PersistentState
    <3>3. ballots' \subseteq Node \X Nat \X Node
      BY SMTT(30), <2>3, <3>1 DEF TypeOK
    <3> QED
      BY <2>1, <3>2, <3>3, LoseMemoryType
  <2> QED
    BY <1>2, <2>2, <2>3 DEF CrashBetweenSaves
<1> QED
  BY <1>1, <1>2

(* New on what the disk holds. *)
LEMMA RestartType ==
  ASSUME TypeOK, NEW n \in Node, Restart(n)
  PROVE  TypeOK'
<1>1. /\ currentTerm' \in [Node -> Nat] /\ votedFor' \in [Node -> Node \cup {Nobody}]
      /\ log' \in [Node -> Seq(Entry)] /\ up' \in [Node -> BOOLEAN]
  BY NodeTypes DEF TypeOK, Restart
<1> QED
  BY <1>1 DEF TypeOK, Restart, volatile, progress, voteNet, appendNet, history

(* No step of a node or of the network breaks the types, as long as the    *)
(* leaders' indexes lie in their logs.                                     *)
LEMMA TypeStep ==
  ASSUME TypeOK, NextIndexInLog, Next
  PROVE  TypeOK'
<1>1. CASE AppendLost
  BY <1>1, AppendLostType
<1>2. ASSUME NEW n \in Node, NodeStep(n)
      PROVE  TypeOK'
  BY <1>2, ElectionTimeoutType, HandleRequestVoteType, RequestVoteRepliedType,
     ReplyWithNewerTermType, ProposeType, ReplicateToType,
     HandleAppendEntriesType, AppendSucceededType, AppendRefusedType,
     CrashType, RestartType DEF NodeStep
<1> QED
  BY <1>1, <1>2 DEF Next

(* What a step does to the process of its node. *)
Stops(n) ==
  /\ up[n] /\ up' = [up EXCEPT ![n] = FALSE]
  /\ commitIndex'[n] = 0 /\ committed' = committed
Starts(n) ==
  /\ ~up[n] /\ up' = [up EXCEPT ![n] = TRUE]
  /\ commitIndex' = commitIndex /\ committed' = committed
RunsOn(n) == up[n] /\ up' = up /\ commitIndex'[n] >= commitIndex[n]

(* A request that is merged never moves the commit index back. *)
LEMMA CommitFromGrows ==
  ASSUME TypeOK, NEW n \in Node, NEW m \in appendReqs
  PROVE  CommitFrom(n, m) >= commitIndex[n]
<1>1. m \in AppendEntriesArgs /\ commitIndex[n] \in Nat
  BY NodeTypes DEF TypeOK
<1>2. m.leaderCommit \in Nat /\ m.prevLogIndex \in Nat /\ Len(m.entries) \in Nat
  BY <1>1, LenProperties DEF AppendEntriesArgs
<1>3. PICK x \in Nat : x = m.prevLogIndex + Len(m.entries)
  BY SMTT(30), <1>2
<1>4. PICK y : y = Min({m.leaderCommit, x})
  OBVIOUS
<1>5. y \in Nat
  BY <1>2, <1>4, PairExtrema
<1>6. CommitFrom(n, m) = IF commitIndex[n] >= y THEN commitIndex[n] ELSE y
  BY <1>1, <1>3, <1>4, <1>5, PairExtrema DEF CommitFrom
<1> QED
  BY SMTT(30), <1>1, <1>5, <1>6

(* Nor does counting. *)
LEMMA AdvanceGrows ==
  ASSUME TypeOK, TypeOK', NEW n \in Node, AdvanceCommitIndex(n)
  PROVE  commitIndex'[n] >= commitIndex[n]
<1>1. commitIndex'[n] = CommitPoint(n, log'[n], currentTerm'[n], matchIndex'[n])
  BY DEF AdvanceCommitIndex, TypeOK
<1>2. commitIndex \in [Node -> Nat] /\ log'[n] \in Seq(Entry) /\ currentTerm'[n] \in Nat
      /\ matchIndex'[n] \in [Node -> Nat]
  BY DEF TypeOK
<1>3. PICK x : x = CommitPoint(n, log'[n], currentTerm'[n], matchIndex'[n])
  OBVIOUS
<1>4. x \in Nat /\ (x = commitIndex[n] \/ commitIndex[n] < x)
  BY <1>2, <1>3, CommitPointBounds
<1> QED
  BY SMTT(30), <1>1, <1>2, <1>3, <1>4

(* A process stops, starts or runs on; its commit index falls only in the  *)
(* first case.                                                             *)
LEMMA SelfRuns ==
  ASSUME TypeOK, TypeOK', NEW n \in Node, NodeStep(n)
  PROVE  Stops(n) \/ Starts(n) \/ RunsOn(n)
<1> DEFINE Goal == Stops(n) \/ Starts(n) \/ RunsOn(n)
<1>1. DOMAIN commitIndex = Node /\ commitIndex[n] \in Nat
  BY NodeTypes DEF TypeOK
<1>2. ASSUME up[n], up' = up, commitIndex'[n] = commitIndex[n] PROVE Goal
  BY SMTT(30), <1>1, <1>2 DEF RunsOn
<1>3. ASSUME up[n], up' = up, AdvanceCommitIndex(n) PROVE Goal
  BY <1>3, AdvanceGrows DEF RunsOn
<1> HIDE DEF Goal
<1> USE DEF volatile
<1>4. ASSUME ElectionTimeout(n) PROVE Goal
  <2>1. up[n] /\ up' = up /\ (AdvanceCommitIndex(n) \/ commitIndex' = commitIndex)
    BY <1>4 DEF ElectionTimeout, BecomeLeader
  <2> QED
    BY <1>2, <1>3, <2>1
<1>5. ASSUME NEW m \in voteReqs, HandleRequestVote(n, m) PROVE Goal
  BY <1>2, <1>5 DEF HandleRequestVote
<1>6. ASSUME NEW r \in voteReps, RequestVoteReplied(n, r) PROVE Goal
  <2>1. up[n] /\ up' = up /\ (AdvanceCommitIndex(n) \/ commitIndex' = commitIndex)
    BY <1>6 DEF RequestVoteReplied, BecomeLeader
  <2> QED
    BY <1>2, <1>3, <2>1
<1>7. ASSUME NEW r \in voteReps \cup appendReps, ReplyWithNewerTerm(n, r) PROVE Goal
  BY <1>2, <1>7 DEF ReplyWithNewerTerm
<1>8. ASSUME NEW c \in Command, Propose(n, c) PROVE Goal
  BY <1>3, <1>8 DEF Propose
<1>9. ASSUME NEW q \in Peers(n), ReplicateTo(n, q) PROVE Goal
  BY <1>2, <1>9 DEF ReplicateTo
<1>10. ASSUME NEW m \in appendReqs, HandleAppendEntries(n, m) PROVE Goal
  <2>1. up[n] /\ up' = up /\ commitIndex'[n] \in {CommitFrom(n, m), commitIndex[n]}
    BY <1>1, <1>10 DEF HandleAppendEntries
  <2>2. CommitFrom(n, m) >= commitIndex[n]
    BY CommitFromGrows
  <2> QED
    BY <1>2, <2>1, <2>2 DEF Goal, RunsOn
<1>11. ASSUME NEW r \in appendReps, AppendSucceeded(n, r) PROVE Goal
  BY <1>3, <1>11 DEF AppendSucceeded, TakeAppendReply
<1>12. ASSUME NEW r \in appendReps, AppendRefused(n, r) PROVE Goal
  BY <1>2, <1>12 DEF AppendRefused, TakeAppendReply
<1>13. ASSUME Crash(n) \/ CrashBetweenSaves(n) PROVE Goal
  BY <1>1, <1>13 DEF Crash, CrashBetweenSaves, LoseMemory, Stops, Goal
<1>14. ASSUME Restart(n) PROVE Goal
  BY <1>14 DEF Restart, history, Starts, Goal
<1> HIDE DEF volatile
<1>15. Goal
  BY <1>4, <1>5, <1>6, <1>7, <1>8, <1>9, <1>10, <1>11, <1>12, <1>13, <1>14 DEF NodeStep
<1> QED
  BY <1>15 DEF Goal

(* What ProgressKept says of one peer. *)
Advances(n, p) ==
  /\ matchIndex'[n][p] >= matchIndex[n][p]
  /\ \/ nextIndex'[n][p] >= nextIndex[n][p]
     \/ /\ nextIndex'[n][p] = nextIndex[n][p] - 1
        /\ RefusedBy(n, p, nextIndex'[n][p])

(* A leader that takes a success records no less than it had. *)
LEMMA SuccessAdvances ==
  ASSUME TypeOK, NEW n \in Node, NEW p \in Peers(n), NEW r \in appendReps,
         AppendSucceeded(n, r)
  PROVE  Advances(n, p)
<1>1. /\ p \in Node /\ matchIndex \in [Node -> [Node -> Nat]]
      /\ nextIndex \in [Node -> [Node -> Nat]]
      /\ matchIndex[n][p] \in Nat /\ nextIndex[n][p] \in Nat
      /\ r.req \in AppendEntriesArgs
  BY DEF TypeOK, Peers, AppendEntriesReply
<1>2. PICK k \in Nat : k = r.req.prevLogIndex + Len(r.req.entries)
  <2>1. r.req.prevLogIndex \in Nat /\ Len(r.req.entries) \in Nat
    BY <1>1, LenProperties DEF AppendEntriesArgs
  <2> QED
    BY SMTT(30), <2>1
<1>3. /\ matchIndex' = [matchIndex EXCEPT ![n][r.req.to] = MatchAfter(n, r.req.to, r.req)]
      /\ nextIndex' = [nextIndex EXCEPT ![n][r.req.to] = NextAfter(n, r.req.to, r.req)]
  BY DEF AppendSucceeded
<1>4. CASE p # r.req.to
  <2>1. matchIndex'[n][p] = matchIndex[n][p] /\ nextIndex'[n][p] = nextIndex[n][p]
    BY <1>1, <1>3, <1>4
  <2> QED
    BY SMTT(30), <1>1, <2>1 DEF Advances
<1>5. CASE p = r.req.to
  <2>1. /\ matchIndex'[n][p] = Max({matchIndex[n][p], k})
        /\ nextIndex'[n][p] = Max({nextIndex[n][p], k + 1})
    BY <1>1, <1>2, <1>3, <1>5 DEF MatchAfter, NextAfter
  <2>2. Max({matchIndex[n][p], k}) = IF matchIndex[n][p] >= k THEN matchIndex[n][p] ELSE k
    BY <1>1, PairExtrema
  <2>3. k + 1 \in Nat
    BY SMTT(30)
  <2>4. Max({nextIndex[n][p], k + 1})
          = IF nextIndex[n][p] >= k + 1 THEN nextIndex[n][p] ELSE k + 1
    BY <1>1, <2>3, PairExtrema
  <2> QED
    BY SMTT(30), <1>1, <2>1, <2>2, <2>3, <2>4 DEF Advances
<1> QED
  BY <1>4, <1>5

(* Whatever it takes, it goes back only by the one entry it was refused. *)
LEMMA SelfAdvances ==
  ASSUME TypeOK, NEW n \in Node, NodeStep(n), LeadsOn(n), NEW p \in Peers(n)
  PROVE  Advances(n, p)
<1>1. /\ p \in Node /\ DOMAIN role = Node
      /\ nextIndex \in [Node -> [Node -> Nat]] /\ matchIndex[n][p] \in Nat
      /\ nextIndex[n][p] \in Nat /\ Follower # Leader /\ Candidate # Leader
  BY SMTT(30) DEF TypeOK, Peers, Follower, Leader, Candidate
<1>2. role[n] = Leader /\ role'[n] = Leader
  BY DEF LeadsOn
<1>3. ASSUME UNCHANGED progress PROVE Advances(n, p)
  BY SMTT(30), <1>1, <1>3 DEF Advances, progress
<1>4. ~ ElectionTimeout(n) /\ \A r \in voteReps : ~ RequestVoteReplied(n, r)
  BY <1>1, <1>2 DEF ElectionTimeout, RequestVoteReplied, StillRunning
<1>5. ~ Crash(n) /\ ~ CrashBetweenSaves(n)
  BY <1>1, <1>2 DEF Crash, CrashBetweenSaves, LoseMemory
<1>6. ASSUME NEW r \in appendReps, AppendRefused(n, r) PROVE Advances(n, p)
  <2>1. /\ r.req.from = n /\ r.req.term = currentTerm[n] /\ ~r.success
        /\ nextIndex[n][r.req.to] = r.req.prevLogIndex + 1
        /\ nextIndex' = [nextIndex EXCEPT ![n][r.req.to] = r.req.prevLogIndex]
        /\ matchIndex' = matchIndex
    BY <1>6 DEF AppendRefused, TakeAppendReply
  <2>2. CASE p # r.req.to
    <3>1. matchIndex'[n][p] = matchIndex[n][p] /\ nextIndex'[n][p] = nextIndex[n][p]
      BY <1>1, <2>1, <2>2
    <3> QED
      BY SMTT(30), <1>1, <3>1 DEF Advances
  <2>3. CASE p = r.req.to
    <3>1. nextIndex'[n][p] = r.req.prevLogIndex /\ matchIndex'[n][p] = matchIndex[n][p]
      BY <1>1, <2>1, <2>3
    <3>2. RefusedBy(n, p, nextIndex'[n][p])
      BY <2>1, <2>3, <3>1 DEF RefusedBy
    <3>3. PICK i \in Nat : i = r.req.prevLogIndex
      BY DEF TypeOK, AppendEntriesReply, AppendEntriesArgs
    <3>4. nextIndex[n][p] = i + 1 /\ nextIndex'[n][p] = i /\ matchIndex[n][p] \in Nat
      BY <1>1, <2>1, <2>3, <3>1, <3>3
    <3>5. nextIndex'[n][p] = nextIndex[n][p] - 1
      BY SMTT(30), <3>4
    <3>6. matchIndex'[n][p] >= matchIndex[n][p]
      BY SMTT(30), <3>1, <3>4
    <3> QED
      BY <3>2, <3>5, <3>6 DEF Advances
  <2> QED
    BY <2>2, <2>3
<1> USE <1>3
<1>7. ASSUME NEW m \in voteReqs, HandleRequestVote(n, m) PROVE Advances(n, p)
  BY <1>7 DEF HandleRequestVote
<1>8. ASSUME NEW r \in voteReps \cup appendReps, ReplyWithNewerTerm(n, r)
      PROVE  Advances(n, p)
  BY <1>8 DEF ReplyWithNewerTerm
<1>9. ASSUME NEW c \in Command, Propose(n, c) PROVE Advances(n, p)
  BY <1>9 DEF Propose, progress
<1>10. ASSUME NEW q \in Peers(n), ReplicateTo(n, q) PROVE Advances(n, p)
  BY <1>10 DEF ReplicateTo
<1>11. ASSUME NEW m \in appendReqs, HandleAppendEntries(n, m) PROVE Advances(n, p)
  BY <1>11 DEF HandleAppendEntries
<1>12. ASSUME Restart(n) PROVE Advances(n, p)
  BY <1>12 DEF Restart
<1> QED
  BY <1>4, <1>5, <1>6, <1>7, <1>8, <1>9, <1>10, <1>11, <1>12, SuccessAdvances
     DEF NodeStep

=============================================================================

--------------------------- MODULE NodeLoopsProofs ---------------------------
(***************************************************************************)
(* Safety of the goroutines of a node, for all bounds: delivery in order,  *)
(* no missed wake-up, no lost kick, nothing after Stop.                    *)
(***************************************************************************)
EXTENDS NodeLoops, SequenceTheorems, WellFoundedInduction, TLAPS

(* A goroutine of requestVote or replicateTo. *)
CallRec ==
  [pc : {None, "start", "call", "replied"}, kind : {"vote", "append"},
   term : 0 .. MaxTerm, prev : Nat, count : Nat,
   size : Nat, ok : BOOLEAN, seen : 0 .. MaxTerm]

(* The types that the other invariants need. *)
LoopTypes ==
  /\ stop \in {"no", "waiting", "returned"}
  /\ term \in Nat /\ term <= MaxTerm /\ bound \in Bound /\ bound.terms <= MaxTerm
  /\ log \in Seq(Nat)
  /\ commitIndex \in Nat /\ lastApplied \in Nat
  /\ nextIndex \in Nat \ {0} /\ matchIndex \in Nat /\ first \in Nat /\ common \in Nat
  /\ applier \in {None, "top", "waiting", "sending"}
  /\ batch \in Seq(Nat) /\ received \in Seq(Nat)
  /\ loops \in [Term -> {None, "top", "select"}]
  /\ calls \in [Call -> CallRec]

(* What the applier has sent and has still to send of its batch. *)
ApplierInv ==
  /\ ~started => applier = None /\ received = <<>> /\ lastApplied = 0
  /\ \A i \in 1 .. Len(received) : received[i] = i
  /\ Len(received) <= commitIndex
  /\ applier \in {"top", "waiting"} => lastApplied = Len(received)
  /\ applier = "waiting" => ~Stopped /\ lastApplied = commitIndex
  /\ applier = "sending" =>
       /\ lastApplied < Len(received) + Len(batch)
       /\ Len(received) + Len(batch) <= commitIndex
       /\ \A i \in 1 .. Len(batch) : batch[i] = Len(received) + i

(* A leader's loop and the channel that Propose kicks. *)
LeaderInv ==
  /\ role # "Follower" => term \in Term
  /\ role = "Leader" /\ ~Stopped => kickCh = term
  /\ KickNotLost

(* What the wait group has waited for. *)
ReturnedInv ==
  stop = "returned" =>
    /\ ticker = None /\ applier = None
    /\ \A t \in Term : loops[t] = None
    /\ \A c \in Call : calls[c] = NoCall

(* A replicateTo that matters is of the term that the node leads, and what *)
(* it sends is in the log.                                                 *)
InLog(g) ==
  g.pc # None /\ g.kind = "append" =>
    /\ g.term <= term
    /\ g.term = term => role = "Leader" /\ g.prev + g.count <= Len(log)

(* The indexes are within the log: what is applied is committed, what is   *)
(* committed, or counted or sent by a leader, is there.                    *)
IndexInv ==
  /\ commitIndex <= Len(log) /\ lastApplied <= commitIndex
  /\ role = "Leader" => matchIndex <= Len(log) /\ nextIndex <= Len(log) + 1
  /\ \A c \in Call : InLog(calls[c])

(* The types of what no other invariant looks at. *)
PlainTypes ==
  /\ started \in BOOLEAN /\ consuming \in BOOLEAN /\ ticker \in {None, "running"}
  /\ role \in {"Follower", "Candidate", "Leader"} /\ first # 0 /\ covered \in Nat
  /\ kickCh \in 0 .. MaxTerm /\ kicks \subseteq Term

LoopsInv ==
  LoopTypes /\ ApplierInv /\ LeaderInv /\ ReturnedInv /\ IndexInv /\ PlainTypes

-----------------------------------------------------------------------------
(* The maximum of two numbers. *)
LEMMA MaxOfTwo ==
  ASSUME NEW x \in Nat, NEW y \in Nat
  PROVE  Max({x, y}) \in {x, y} /\ Max({x, y}) >= x /\ Max({x, y}) >= y
<1> DEFINE P(z) == z \in {x, y} /\ \A w \in {x, y} : z >= w
<1>1. \E z : P(z)
  <2>1. CASE x >= y
    BY <2>1
  <2>2. CASE ~(x >= y)
    BY <2>2
  <2> QED BY <2>1, <2>2
<1>2. Max({x, y}) = CHOOSE z \in {x, y} : \A w \in {x, y} : z >= w
  BY DEF Max
<1> QED BY <1>1, <1>2

-----------------------------------------------------------------------------
(* A non-empty set of numbers has a least element. *)
LEMMA LeastNumber ==
  ASSUME NEW S \in SUBSET Nat, S # {}
  PROVE  \E m \in S : \A x \in S : m <= x
<1> DEFINE R == {p \in Nat \X Nat : p[1] < p[2]}
<1>1. IsWellFoundedOn(R, Nat)
  BY NatLessThanWellFounded DEF OpToRel
<1>2. PICK m \in S : \A x \in S : <<x, m>> \notin R
  <2> HIDE DEF R
  <2> QED
    BY Zenon, <1>1, WFMin
<1>3. ASSUME NEW x \in S PROVE m <= x
  <2>1. <<x, m>> \in Nat \X Nat
    OBVIOUS
  <2> QED
    BY <1>2, <2>1
<1> QED
  BY Zenon, <1>3

(* f has the sums of the first i sizes of s, for i up to m. *)
Sums(f, s, m) == f = [i \in 0 .. m |-> IF i = 0 THEN 0 ELSE f[i - 1] + s[i]]

(* There is such a function: a least m without one would have one that     *)
(* goes on from the one of m - 1.                                          *)
LEMMA SumsExist ==
  ASSUME NEW s \in Seq(Nat)
  PROVE  \E f : Sums(f, s, Len(s))
<1> DEFINE T == {m \in 0 .. Len(s) : ~ \E f : Sums(f, s, m)}
<1>0. Len(s) \in Nat
  BY LenProperties
<1> SUFFICES ASSUME T # {} PROVE FALSE
  BY <1>0
<1>1. PICK m \in T : \A x \in T : m <= x
  <2>1. T \in SUBSET Nat
    OBVIOUS
  <2> QED
    BY Zenon, <2>1, LeastNumber
<1>2. m \in 0 .. Len(s) /\ ~ \E f : Sums(f, s, m)
  BY <1>1
<1>3. CASE m = 0
  <2>1. Sums([i \in 0 .. 0 |-> 0], s, 0)
    BY DEF Sums
  <2> QED
    BY <1>2, <1>3, <2>1
<1>4. CASE m # 0
  <2>1. m - 1 \in 0 .. Len(s) /\ ~ (m <= m - 1)
    BY <1>0, <1>2, <1>4
  <2>2. PICK f : Sums(f, s, m - 1)
    BY <1>1, <2>1
  <2> DEFINE g == [i \in 0 .. m |-> IF i < m THEN f[i] ELSE f[m - 1] + s[m]]
  <2>3. ASSUME NEW i \in 0 .. m
        PROVE  g[i] = IF i = 0 THEN 0 ELSE g[i - 1] + s[i]
    <3>1. CASE i = m
      BY <1>0, <1>2, <1>4, <3>1
    <3>2. CASE i < m
      <4>1. i \in 0 .. m - 1 /\ (i # 0 => i - 1 \in 0 .. m /\ i - 1 < m)
        BY <1>0, <1>2, <3>2
      <4>2. f[i] = IF i = 0 THEN 0 ELSE f[i - 1] + s[i]
        BY <2>2, <4>1 DEF Sums
      <4> QED
        BY <3>2, <4>1, <4>2
    <3> QED
      BY <1>0, <1>2, <3>1, <3>2
  <2>4. Sums(g, s, m)
    <3>1. g = [i \in 0 .. m |-> g[i]]
      OBVIOUS
    <3> HIDE DEF g
    <3>2. [i \in 0 .. m |-> g[i]] = [i \in 0 .. m |-> IF i = 0 THEN 0 ELSE g[i - 1] + s[i]]
      BY <2>3
    <3> QED
      BY Zenon, <3>1, <3>2 DEF Sums
  <2> QED
    BY <1>2, <2>4
<1> QED
  BY <1>3, <1>4

(* The size of a body is a number. *)
LEMMA BodySizeType ==
  ASSUME NEW s \in Seq(Nat)
  PROVE  BodySize(s) \in Nat
<1>0. Len(s) \in Nat /\ \A i \in 1 .. Len(s) : s[i] \in Nat
  BY LenProperties, ElementOfSeq
<1>1. PICK f : f = CHOOSE u : u = [i \in 0 .. Len(s) |-> IF i = 0 THEN 0
                                         ELSE u[i - 1] + s[i]]
  OBVIOUS
<1>2. BodySize(s) = f[Len(s)]
  BY <1>1 DEF BodySize
<1>3. Sums(f, s, Len(s))
  BY Zenon, <1>1, SumsExist DEF Sums
<1>4. \A i \in 0 .. Len(s) : f[i] = IF i = 0 THEN 0 ELSE f[i - 1] + s[i]
  BY SMTT(30), <1>3 DEF Sums
<1> DEFINE T == {i \in 0 .. Len(s) : f[i] \notin Nat}
<1> SUFFICES ASSUME T # {} PROVE FALSE
  BY <1>0, <1>2
<1>5. PICK m \in T : \A x \in T : m <= x
  <2>1. T \in SUBSET Nat
    OBVIOUS
  <2> QED
    BY Zenon, <2>1, LeastNumber
<1>6. m \in 0 .. Len(s) /\ f[m] \notin Nat
  BY <1>5
<1>7. m # 0
  BY <1>4, <1>6
<1>8. m - 1 \in 0 .. Len(s) /\ m \in 1 .. Len(s) /\ ~ (m <= m - 1)
  BY <1>0, <1>6, <1>7
<1>9. f[m - 1] \in Nat
  BY <1>5, <1>8
<1>10. f[m] = f[m - 1] + s[m]
  BY <1>4, <1>6, <1>7
<1>11. s[m] \in Nat
  BY <1>0, <1>8
<1>12. PICK a \in Nat, b \in Nat : a = f[m - 1] /\ b = s[m]
  BY <1>9, <1>11
<1> QED
  BY <1>6, <1>10, <1>12
-----------------------------------------------------------------------------
(* The initial state satisfies the invariant. *)
LEMMA InitInv == Init => LoopsInv
<1> SUFFICES ASSUME Init PROVE LoopsInv
  OBVIOUS
<1>1. bound \in Bound /\ bound.terms <= MaxTerm
  BY LoopsAssumption DEF Init
<1>2. NoCall \in CallRec
  BY LoopsAssumption DEF NoCall, CallAt, CallRec, None
<1>3. LoopTypes
  BY <1>1, <1>2, LoopsAssumption DEF Init, LoopTypes, None
<1>4. ApplierInv /\ LeaderInv /\ ReturnedInv
  BY DEF Init, ApplierInv, LeaderInv, KickNotLost, ReturnedInv, Stopped, None
<1>5. \A c \in Call : calls[c].pc = None
  BY DEF Init, NoCall, CallAt
<1>6. IndexInv
  BY <1>5 DEF Init, IndexInv, InLog
<1>7. PlainTypes
  <2>1. 0 \in 0 .. MaxTerm /\ 0 \in Nat /\ 1 # 0
    BY LoopsAssumption
  <2> QED
    BY Zenon, <2>1 DEF Init, PlainTypes
<1> QED
  BY <1>3, <1>4, <1>6, <1>7 DEF LoopsInv

(* Using up a bound keeps the bounds, and the one on terms as it is. *)
LEMMA SpendTypes ==
  ASSUME bound \in Bound,
         NEW what \in {"proposals", "requests", "stops", "quits"}, Spend(what)
  PROVE  bound' \in Bound /\ bound'.terms = bound.terms
BY DEF Spend, Bound

(* What replicateTo sends is a sequence of entries of the log. *)
LEMMA EntriesFromTypes ==
  ASSUME log \in Seq(Nat), NEW lo \in Nat \ {0}
  PROVE  EntriesFrom(lo, MaxEntriesPerAppend) \in Seq(Nat)
<1> DEFINE hi == IF Len(log) < lo + MaxEntriesPerAppend THEN Len(log)
                 ELSE lo + MaxEntriesPerAppend - 1
<1>1. hi \in Nat /\ hi <= Len(log)
  BY LoopsAssumption, LenProperties
<1>2. \A i \in lo .. hi : log[i] \in Nat
  BY <1>1, ElementOfSeq
<1>3. SubSeq(log, lo, hi) \in Seq(Nat)
  BY <1>1, <1>2, SubSeqProperties
<1> QED
  BY <1>3 DEF EntriesFrom

-----------------------------------------------------------------------------
(* A call before its first step. *)
LEMMA NewCallTypes ==
  ASSUME NEW pc \in {None, "start"}, NEW kind \in {"vote", "append"},
         NEW t \in 0 .. MaxTerm
  PROVE  CallAt(pc, kind, t) \in CallRec
<1>1. 0 \in Nat /\ 0 \in 0 .. MaxTerm
  BY LoopsAssumption
<1> QED
  BY <1>1 DEF CallRec, CallAt, None

(* No call is one. *)
LEMMA NoCallTypes == NoCall \in CallRec
BY NewCallTypes, LoopsAssumption DEF NoCall

(* The arguments that replicateTo builds make a call. *)
LEMMA BuiltCallTypes ==
  ASSUME NEW g \in CallRec, NEW prev \in Nat, NEW count \in Nat, NEW size \in Nat
  PROVE  [g EXCEPT !.pc = "call", !.prev = prev, !.count = count, !.size = size]
           \in CallRec
BY Zenon DEF CallRec

(* Spawn puts a call in a free place. *)
LEMMA SpawnTypes ==
  ASSUME LoopTypes, NEW kind \in {"vote", "append"}, NEW t \in 0 .. MaxTerm,
         Spawn(kind, t)
  PROVE  calls' \in [Call -> CallRec]
<1> DEFINE g == CallAt("start", kind, t)
           c == CHOOSE c \in Free : \A d \in Free : c <= d
<1>1. g \in CallRec
  BY NewCallTypes
<1>2. calls' = [calls EXCEPT ![c] = g]
  BY DEF Spawn
<1> HIDE DEF g, c
<1> QED
  BY Zenon, <1>1, <1>2 DEF LoopTypes

(* A call that goes on stays a call. *)
LEMMA CallStartsTypes ==
  ASSUME LoopTypes, NEW c \in Call, CallStarts(c)
  PROVE  calls' \in [Call -> CallRec]
<1> DEFINE g == calls[c]
           entries == EntriesFrom(nextIndex, MaxEntriesPerAppend)
           h == [g EXCEPT !.pc = "call", !.prev = nextIndex - 1,
                          !.count = Len(entries), !.size = BodySize(entries)]
<1>1. g \in CallRec /\ NoCall \in CallRec
  BY NoCallTypes DEF LoopTypes
<1>2. entries \in Seq(Nat) /\ Len(entries) \in Nat
  BY EntriesFromTypes, LenProperties DEF LoopTypes
<1>3. BodySize(entries) \in Nat
  BY <1>2, BodySizeType
<1>4. nextIndex - 1 \in Nat
  BY DEF LoopTypes
<1>5. calls' \in {[calls EXCEPT ![c].pc = "call"], [calls EXCEPT ![c] = NoCall],
                  [calls EXCEPT ![c] = h]}
  BY Zenon DEF CallStarts
<1>6. h \in CallRec /\ [g EXCEPT !.pc = "call"] \in CallRec
  <2>1. h \in CallRec
    BY Zenon, <1>1, <1>2, <1>3, <1>4, BuiltCallTypes
  <2>2. [g EXCEPT !.pc = "call"] \in CallRec
    BY <1>1 DEF CallRec
  <2> QED
    BY SMTT(30), <2>1, <2>2
<1> HIDE DEF h
<1>7. calls \in [Call -> CallRec]
  BY DEF LoopTypes
<1>8. [calls EXCEPT ![c] = h] \in [Call -> CallRec]
  BY <1>6, <1>7
<1>9. [calls EXCEPT ![c] = NoCall] \in [Call -> CallRec]
  BY <1>1, <1>7
<1>10. [calls EXCEPT ![c].pc = "call"] \in [Call -> CallRec]
  BY SMTT(30), <1>6, <1>7
<1> QED
  BY <1>5, <1>8, <1>9, <1>10

(* An answered call stays a call. *)
LEMMA CallServedTypes ==
  ASSUME LoopTypes, NEW c \in Call, CallServed(c) \/ CallFails(c)
  PROVE  calls' \in [Call -> CallRec] /\ common' \in Nat
<1> DEFINE g == calls[c]
<1>1. g \in CallRec /\ NoCall \in CallRec
  BY NoCallTypes DEF LoopTypes
<1>2. calls \in [Call -> CallRec] /\ bound.terms <= MaxTerm /\ bound.terms \in Nat
  BY SMTT(30) DEF LoopTypes, Bound
<1>3. calls' \in [Call -> CallRec]
  <2>1. CASE calls' = [calls EXCEPT ![c] = NoCall]
    BY <2>1, <1>1, <1>2
  <2>2. CASE \E ok \in BOOLEAN, seen \in 0 .. MaxTerm :
               calls' = [calls EXCEPT ![c] = [g EXCEPT !.pc = "replied", !.ok = ok,
                                                       !.seen = seen]]
    <3>1. PICK ok \in BOOLEAN, seen \in 0 .. MaxTerm :
            calls' = [calls EXCEPT ![c] = [g EXCEPT !.pc = "replied", !.ok = ok,
                                                    !.seen = seen]]
      BY Zenon, <2>2
    <3>2. [g EXCEPT !.pc = "replied", !.ok = ok, !.seen = seen] \in CallRec
      BY Zenon, <1>1 DEF CallRec
    <3> QED
      BY SMTT(30), <3>1, <3>2, <1>2
  <2>3. g.term \in 0 .. MaxTerm /\ (g.prev <= common) \in BOOLEAN
    BY <1>1 DEF CallRec
  <2>4. \A seen \in g.term + 1 .. bound.terms : seen \in 0 .. MaxTerm
    BY <2>3, <1>2, LoopsAssumption
  <2> QED
    BY Zenon, <2>1, <2>2, <2>3, <2>4 DEF CallServed, CallFails
<1>4. common \in Nat /\ g.prev + g.count \in Nat
  BY <1>1 DEF LoopTypes, CallRec
<1>5. Max({common, g.prev + g.count}) \in Nat
  BY <1>4, MaxOfTwo
<1>6. Taken(g) \in Nat
  BY Zenon, <1>4, <1>5 DEF Taken
<1> QED
  BY Zenon, <1>3, <1>4, <1>6 DEF CallServed, CallFails

(* A success moves the indexes up only, and wakes the applier for a commit. *)
LEMMA SuccessFacts ==
  ASSUME LoopTypes, NEW g \in CallRec, Success(g)
  PROVE  /\ matchIndex' \in Nat /\ nextIndex' \in Nat \ {0}
         /\ commitIndex' \in Nat /\ commitIndex' >= commitIndex
         /\ (UNCHANGED <<commitIndex, applier>>) \/ Broadcast
         /\ UNCHANGED <<term, role, log, first>>
<1> DEFINE m == g.prev + g.count
           match == Max({matchIndex, m})
<1>1. m \in Nat /\ matchIndex \in Nat /\ nextIndex \in Nat \ {0} /\ first \in Nat
      /\ commitIndex \in Nat
  BY DEF LoopTypes, CallRec
<1>2. match \in Nat
  BY <1>1, MaxOfTwo
<1>3. Max({nextIndex, m + 1}) \in Nat \ {0}
  BY <1>1, MaxOfTwo
<1>4. /\ matchIndex' = match /\ nextIndex' = Max({nextIndex, m + 1})
      /\ commitIndex' = Committed(match)
      /\ IF Committed(match) = commitIndex THEN UNCHANGED applier ELSE Broadcast
      /\ UNCHANGED <<term, role, log, first>>
  BY DEF Success
<1> HIDE DEF match, m
<1>5. Committed(match) \in Nat /\ Committed(match) >= commitIndex
  BY <1>1, <1>2 DEF Committed
<1> QED
  BY <1>2, <1>3, <1>4, <1>5

(* The outcomes of a reply, with what is common to all. *)
LEMMA CallTakenCases ==
  ASSUME LoopTypes, NEW c \in Call, CallTaken(c)
  PROVE  /\ UNCHANGED <<started, stop, ticker, lastApplied, batch, received, bound,
                        consuming>>
         /\ calls[c].pc = "replied"
         /\ \/ /\ calls' = [calls EXCEPT ![c] = NoCall]
               /\ UNCHANGED <<raft, common, applier, leading>>
            \/ /\ ~Stopped /\ ObserveTerm(calls[c].seen)
               /\ calls' = [calls EXCEPT ![c] = NoCall]
               /\ UNCHANGED <<common, applier, leading>>
            \/ /\ ~Stopped /\ BecomeLeader /\ UNCHANGED applier
               /\ term = calls[c].term /\ role = "Candidate"
               /\ calls' = [calls EXCEPT ![c] = NoCall]
            \/ /\ ~Stopped /\ Success(calls[c])
               /\ calls[c].kind = "append" /\ Leads(calls[c].term)
               /\ calls' = [calls EXCEPT ![c] = NoCall]
               /\ UNCHANGED <<common, leading>>
            \/ /\ ~Stopped /\ nextIndex' = calls[c].prev /\ calls[c].prev # 0
               /\ Leads(calls[c].term) /\ nextIndex = calls[c].prev + 1
               /\ calls' = [calls EXCEPT ![c] =
                              CallAt("start", "append", calls[c].term)]
               /\ UNCHANGED <<term, role, log, first, commitIndex, matchIndex,
                              common, applier, leading>>
<1>1. calls[c] \in CallRec
  BY DEF LoopTypes
<1>2. calls[c].kind \in {"vote", "append"}
  BY <1>1 DEF CallRec
<1> QED
  BY Zenon, <1>2 DEF CallTaken, Ignores, Outdated, NoBackup

(* A reply keeps the types. *)
LEMMA CallTakenTypes ==
  ASSUME LoopTypes, NEW c \in Call, CallTaken(c)
  PROVE  LoopTypes'
<1> DEFINE g == calls[c]
<1>1. g \in CallRec /\ calls \in [Call -> CallRec] /\ NoCall \in CallRec
  BY NoCallTypes DEF LoopTypes
<1>2. /\ g.term \in 0 .. MaxTerm /\ g.seen \in 0 .. MaxTerm /\ g.prev \in Nat
      /\ CallAt("start", "append", g.term) \in CallRec
  BY ZenonT(40), <1>1, NewCallTypes DEF CallRec
<1>3. calls' \in [Call -> CallRec]
  BY <1>1, <1>2, CallTakenCases
<1>4. CASE UNCHANGED <<raft, common, applier, leading>>
  BY <1>3, <1>4, CallTakenCases DEF LoopTypes, raft, leading
<1>5. CASE ObserveTerm(g.seen) /\ UNCHANGED <<common, applier, leading>>
  BY <1>2, <1>3, <1>5, CallTakenCases, LoopsAssumption
  DEF LoopTypes, ObserveTerm, leading
<1>6. CASE BecomeLeader /\ UNCHANGED applier
  <2>1. Len(log) \in Nat /\ Append(log, 0) \in Seq(Nat)
    BY LenProperties, AppendProperties DEF LoopTypes
  <2>2. loops' \in [Term -> {None, "top", "select"}]
    BY Zenon, <1>6 DEF BecomeLeader, LoopTypes
  <2> QED
    BY <1>3, <1>6, <2>1, <2>2, CallTakenCases DEF LoopTypes, BecomeLeader
<1>7. CASE Success(g) /\ UNCHANGED <<common, leading>>
  <2>1. applier' \in {None, "top", "waiting", "sending"}
    BY <1>1, <1>7, SuccessFacts DEF Broadcast, LoopTypes
  <2> QED
    BY <1>1, <1>3, <1>7, <2>1, SuccessFacts, CallTakenCases DEF LoopTypes, leading
<1>8. CASE /\ nextIndex' = g.prev /\ g.prev # 0
           /\ UNCHANGED <<term, role, log, first, commitIndex, matchIndex, common,
                          applier, leading>>
  BY <1>2, <1>3, <1>8, CallTakenCases DEF LoopTypes, leading
<1> QED
  BY Zenon, <1>4, <1>5, <1>6, <1>7, <1>8, CallTakenCases

(* Another leader's request leaves a log, with what is committed in it. *)
LEMMA OtherLeadersLog ==
  ASSUME LoopTypes, HandleAppendEntries
  PROVE  /\ log' \in Seq(Nat) /\ Len(log') \in Nat
         /\ commitIndex <= Len(log) => commitIndex <= Len(log')
<1>1. log \in Seq(Nat) /\ Len(log) \in Nat /\ commitIndex \in Nat
  BY LenProperties DEF LoopTypes
<1>2. CASE log' = log
  BY <1>1, <1>2
<1>3. ASSUME NEW k \in commitIndex .. Len(log), NEW size \in Size \cup {0},
             log' = Append(SubSeq(log, 1, k), size)
      PROVE  log' \in Seq(Nat) /\ Len(log') \in Nat /\ commitIndex <= Len(log')
  <2>1. k \in Nat /\ k <= Len(log) /\ commitIndex <= k
    BY <1>1
  <2>2. PICK kept : kept = SubSeq(log, 1, k)
    BY Zenon
  <2>3. kept \in Seq(Nat) /\ Len(kept) = k
    <3>1. \A i \in 1 .. k : log[i] \in Nat
      BY <1>1, <2>1, ElementOfSeq
    <3>2. k - 1 + 1 = k /\ (~(1 <= k) => k = 0)
      BY <2>1
    <3> QED
      BY <1>1, <2>1, <2>2, <3>1, <3>2, SubSeqProperties
  <2>4. size \in Nat
    BY LoopsAssumption
  <2>5. log' \in Seq(Nat) /\ Len(log') = Len(kept) + 1
    BY <1>3, <2>2, <2>3, <2>4, AppendProperties
  <2> QED
    BY SMTT(30), <1>1, <2>1, <2>3, <2>5
<1> QED
  BY Zenon, <1>2, <1>3 DEF HandleAppendEntries

(* A request of another leader keeps the types, and commitIndex moves up   *)
(* only with a broadcast.                                                  *)
LEMMA HandleAppendEntriesFacts ==
  ASSUME LoopTypes, HandleAppendEntries
  PROVE  /\ LoopTypes' /\ role' = "Follower"
         /\ commitIndex' >= commitIndex
         /\ (UNCHANGED <<commitIndex, applier>>) \/ Broadcast
<1>1. bound' \in Bound /\ bound'.terms <= MaxTerm
  BY SpendTypes DEF HandleAppendEntries, LoopTypes
<1>2. log' \in Seq(Nat)
  BY OtherLeadersLog
<1>3. Len(log') \in Nat
  BY <1>2, LenProperties
<1>4. /\ commitIndex' \in Nat /\ commitIndex' >= commitIndex
      /\ (UNCHANGED <<commitIndex, applier>>) \/ Broadcast
      /\ applier' \in {None, "top", "waiting", "sending"}
  BY <1>3 DEF HandleAppendEntries, LoopTypes, Broadcast
<1>5. term' \in Nat /\ term' <= MaxTerm /\ role' = "Follower"
  BY LoopsAssumption DEF HandleAppendEntries, LoopTypes, Bound
<1>6. UNCHANGED <<stop, first, nextIndex, matchIndex, common, lastApplied, batch,
                  received, leading, calls>>
  BY DEF HandleAppendEntries
<1> QED
  BY <1>1, <1>2, <1>4, <1>5, <1>6 DEF LoopTypes, leading

(* What the applier sends is a sequence of indexes. *)
LEMMA BatchTypes ==
  ASSUME LoopTypes, lastApplied < commitIndex
  PROVE  Batch \in Seq(Nat) /\ Len(Batch) = commitIndex - lastApplied
         /\ \A i \in 1 .. Len(Batch) : Batch[i] = lastApplied + i
BY DEF Batch, LoopTypes

(* When a batch is out, the last message received is as many as there are. *)
LEMMA LastReceived ==
  ASSUME LoopTypes, ApplierInv, applier = "sending", batch = <<>>
  PROVE  received[Len(received)] = Len(received) /\ Len(received) \in Nat
<1>1. Len(received) \in Nat /\ 0 < Len(received)
  BY LenProperties DEF LoopTypes, ApplierInv
<1> QED
  BY <1>1 DEF ApplierInv

(* Every step keeps the types. *)
LEMMA TypesStep == LoopTypes /\ ApplierInv /\ [Next]_vars => LoopTypes'
<1> SUFFICES ASSUME LoopTypes, ApplierInv, [Next]_vars PROVE LoopTypes'
  OBVIOUS
<1> USE DEF raft, leading, delivery
<1>1. CASE Start
  BY <1>1 DEF Start, LoopTypes
<1>2. CASE Stop
  BY <1>2, SpendTypes DEF Stop, Broadcast, LoopTypes
<1>3. CASE StopReturns
  BY <1>3 DEF StopReturns, LoopTypes
<1>4. CASE ApplierTop
  BY <1>4, BatchTypes DEF ApplierTop, LoopTypes
<1>5. CASE Deliver
  <2>1. Head(batch) \in Nat /\ Tail(batch) \in Seq(Nat)
    BY <1>5, HeadTailProperties DEF Deliver, LoopTypes
  <2>2. received' \in Seq(Nat)
    BY <1>5, <2>1, AppendProperties DEF Deliver, LoopTypes
  <2> QED
    BY <1>5, <2>1, <2>2 DEF Deliver, LoopTypes
<1>6. CASE ConsumerQuits
  BY <1>6, SpendTypes DEF ConsumerQuits, LoopTypes
<1>7. CASE ApplierSent
  <2>1. lastApplied' \in Nat
    BY <1>7, LastReceived DEF ApplierSent, LoopTypes
  <2>2. batch' \in Seq(Nat) /\ applier' \in {None, "top", "waiting", "sending"}
    <3>1. <<>> \in Seq(Nat)
      OBVIOUS
    <3>2. batch' \in {<<>>, batch} /\ applier' \in {None, "top"}
      BY <1>7 DEF ApplierSent
    <3> QED
      BY Zenon, <3>1, <3>2 DEF LoopTypes
  <2> QED
    BY <1>7, <2>1, <2>2 DEF ApplierSent, LoopTypes
<1>8. CASE Ticker
  <2>1. CASE Stopped
    BY <1>8, <2>1 DEF Ticker, LoopTypes
  <2>2. CASE ~Stopped
    <3>1. term + 1 \in 0 .. MaxTerm
      BY <1>8, <2>2, LoopsAssumption DEF Ticker, LoopTypes, Bound
    <3>2. calls' \in [Call -> CallRec]
      BY SMTT(30), <1>8, <2>2, <3>1, SpawnTypes DEF Ticker
    <3> QED
      BY <1>8, <2>2, <3>1, <3>2 DEF Ticker, LoopTypes
  <2> QED BY <2>1, <2>2
<1>9. ASSUME NEW c \in Call, CallStarts(c) PROVE LoopTypes'
  BY ZenonT(40), <1>9, CallStartsTypes DEF CallStarts, LoopTypes
<1>10. ASSUME NEW c \in Call, CallServed(c) \/ CallFails(c) PROVE LoopTypes'
  BY ZenonT(40), <1>10, CallServedTypes DEF CallServed, CallFails, LoopTypes
<1>11. ASSUME NEW c \in Call, CallTaken(c) PROVE LoopTypes'
  BY <1>11, CallTakenTypes
<1>12. CASE HandleRequestVote
  <2>1. term' \in Nat /\ term' <= MaxTerm
    BY <1>12, LoopsAssumption DEF HandleRequestVote, ObserveTerm, LoopTypes, Bound
  <2>2. bound' \in Bound /\ bound'.terms <= MaxTerm
    BY <1>12, SpendTypes DEF HandleRequestVote, LoopTypes
  <2> QED
    BY <1>12, <2>1, <2>2 DEF HandleRequestVote, ObserveTerm, LoopTypes
<1>13. CASE HandleAppendEntries
  BY <1>13, HandleAppendEntriesFacts
<1>14. CASE Propose
  <2>1. log' \in Seq(Nat)
    BY SMTT(30), <1>14, AppendProperties, LoopsAssumption DEF Propose, LoopTypes
  <2> QED
    BY <1>14, <2>1, SpendTypes DEF Propose, LoopTypes
<1>15. ASSUME NEW t \in Term, LeaderLoop(t) PROVE LoopTypes'
  <2>1. t \in 0 .. MaxTerm
    BY LoopsAssumption DEF Term
  <2>2. calls' \in [Call -> CallRec]
    BY <1>15, <2>1, SpawnTypes DEF LeaderLoop, LoopTypes
  <2>3. loops' \in [Term -> {None, "top", "select"}]
    BY Zenon, <1>15 DEF LeaderLoop, LoopTypes
  <2> QED
    BY <1>15, <2>2, <2>3 DEF LeaderLoop, LoopTypes
<1>16. ASSUME NEW t \in Term, Heartbeat(t) PROVE LoopTypes'
  BY Zenon, <1>16 DEF Heartbeat, LoopTypes
<1>17. CASE UNCHANGED vars
  BY <1>17 DEF vars, LoopTypes
<1> QED
  BY SMTT(30), <1>1, <1>2, <1>3, <1>4, <1>5, <1>6, <1>7, <1>8, <1>9, <1>10, <1>11, <1>12,
     <1>13, <1>14, <1>15, <1>16, <1>17 DEF Next

-----------------------------------------------------------------------------
(* Steps outside the applier: what it has sent stays as it is, commitIndex  *)
(* moves up only, and a change of it or of stopped comes with a broadcast.  *)
LEMMA ApplierFrame ==
  ASSUME LoopTypes, LoopTypes', ApplierInv,
         UNCHANGED <<started, lastApplied, batch, received>>,
         commitIndex' >= commitIndex,
         (UNCHANGED <<commitIndex, stop, applier>>) \/ Broadcast
  PROVE  ApplierInv'
<1>1. applier' = applier \/ (applier = "waiting" /\ applier' = "top")
  BY DEF Broadcast
<1>2. Len(received) \in Nat /\ Len(batch) \in Nat
      /\ commitIndex \in Nat /\ commitIndex' \in Nat /\ lastApplied \in Nat
  BY SMTT(30), LenProperties DEF LoopTypes
<1>3. applier' = "waiting" => UNCHANGED <<commitIndex, stop, applier>>
  BY DEF Broadcast
<1> QED
  BY <1>1, <1>2, <1>3 DEF ApplierInv, Stopped, None

(* The applier's own steps keep what it has sent in order. *)
LEMMA ApplierSteps ==
  ASSUME LoopTypes, LoopTypes', ApplierInv,
         Start \/ ApplierTop \/ Deliver \/ ApplierSent
  PROVE  ApplierInv'
<1> USE DEF raft
<1>1. Len(received) \in Nat /\ Len(batch) \in Nat
      /\ commitIndex \in Nat /\ lastApplied \in Nat
  BY LenProperties DEF LoopTypes
<1>2. CASE Start
  BY <1>2 DEF Start, ApplierInv, LoopTypes
<1>3. CASE ApplierTop
  <2>0. /\ lastApplied = Len(received) /\ started /\ applier = "top"
        /\ UNCHANGED <<started, stop, commitIndex, lastApplied, received>>
    BY <1>3 DEF ApplierTop, ApplierInv, None
  <2>1. CASE Stopped
    BY <1>1, <1>3, <2>0, <2>1 DEF ApplierTop, ApplierInv, None
  <2>2. CASE ~Stopped /\ lastApplied >= commitIndex
    BY <1>1, <1>3, <2>0, <2>2 DEF ApplierTop, ApplierInv, Stopped
  <2>3. CASE ~Stopped /\ lastApplied < commitIndex
    <3>1. applier' = "sending" /\ batch' = Batch
      BY <1>1, <1>3, <2>3 DEF ApplierTop
    <3> QED
      BY <1>1, <2>0, <2>3, <3>1, BatchTypes DEF ApplierInv
  <2> QED
    BY <1>1, <2>1, <2>2, <2>3
<1>4. CASE Deliver
  <2>1. /\ received' = Append(received, Head(batch)) /\ batch' = Tail(batch)
        /\ batch # <<>> /\ applier = "sending" /\ started
        /\ UNCHANGED <<started, stop, commitIndex, lastApplied, applier>>
    BY <1>4 DEF Deliver, ApplierInv, None
  <2>2. batch \in Seq(Nat) /\ received \in Seq(Nat)
    BY DEF LoopTypes
  <2>3. /\ Len(batch) > 0 /\ Head(batch) = batch[1] /\ Head(batch) \in Nat
        /\ Len(Tail(batch)) = Len(batch) - 1
        /\ \A i \in 1 .. Len(Tail(batch)) : Tail(batch)[i] = batch[i + 1]
    BY <2>1, <2>2
  <2>4. /\ Len(received') = Len(received) + 1
        /\ \A i \in 1 .. Len(received) : received'[i] = received[i]
        /\ received'[Len(received) + 1] = Head(batch)
    BY <2>1, <2>2, <2>3, AppendProperties
  <2>5. Head(batch) = Len(received) + 1
    BY <2>1, <2>3, <1>1 DEF ApplierInv
  <2>6. \A i \in 1 .. Len(received') : received'[i] = i
    BY <2>4, <2>5, <1>1 DEF ApplierInv
  <2>7. \A i \in 1 .. Len(batch') : batch'[i] = Len(received') + i
    BY <2>1, <2>3, <2>4, <1>1 DEF ApplierInv
  <2> QED
    BY SMTT(30), <1>1, <2>1, <2>3, <2>4, <2>6, <2>7 DEF ApplierInv
<1>5. CASE ApplierSent
  <2>1. CASE batch # <<>>
    BY <1>5, <2>1 DEF ApplierSent, ApplierInv, None
  <2>2. CASE batch = <<>>
    BY <1>1, <1>5, <2>2, LastReceived DEF ApplierSent, ApplierInv, None
  <2> QED BY <2>1, <2>2
<1> QED
  BY <1>2, <1>3, <1>4, <1>5

(* Every step keeps the applier's invariant. *)
LEMMA ApplierStep ==
  LoopTypes /\ LoopTypes' /\ ApplierInv /\ [Next]_vars => ApplierInv'
<1> SUFFICES ASSUME LoopTypes, LoopTypes', ApplierInv, [Next]_vars
             PROVE  ApplierInv'
  OBVIOUS
<1>0. commitIndex \in Nat /\ commitIndex >= commitIndex
  BY DEF LoopTypes
<1>1. CASE Start \/ ApplierTop \/ Deliver \/ ApplierSent
  BY <1>1, ApplierSteps
<1>2. CASE Stop \/ StopReturns
  BY <1>0, <1>2, ApplierFrame DEF Stop, StopReturns, Broadcast, raft, delivery, None
<1>3. CASE \/ ConsumerQuits \/ Ticker \/ HandleRequestVote \/ Propose
           \/ \E c \in Call : CallStarts(c) \/ CallServed(c) \/ CallFails(c)
           \/ \E t \in Term : LeaderLoop(t) \/ Heartbeat(t)
           \/ UNCHANGED vars
  <2>1. UNCHANGED <<started, lastApplied, batch, received, commitIndex, stop, applier>>
    <3> USE DEF raft, delivery
    <3>1. CASE ConsumerQuits \/ Ticker \/ HandleRequestVote \/ Propose
      BY <3>1 DEF ConsumerQuits, Ticker, HandleRequestVote, ObserveTerm, Propose
    <3>2. ASSUME NEW c \in Call, CallStarts(c) \/ CallServed(c) \/ CallFails(c)
          PROVE  UNCHANGED <<started, lastApplied, batch, received, commitIndex, stop,
                            applier>>
      BY Zenon, <3>2 DEF CallStarts, CallServed, CallFails
    <3>3. ASSUME NEW t \in Term, LeaderLoop(t) \/ Heartbeat(t)
          PROVE  UNCHANGED <<started, lastApplied, batch, received, commitIndex, stop,
                            applier>>
      BY Zenon, <3>3 DEF LeaderLoop, Heartbeat
    <3>4. CASE UNCHANGED vars
      BY <3>4 DEF vars
    <3> QED
      BY SMTT(30), <1>3, <3>1, <3>2, <3>3, <3>4
  <2> QED
    BY <1>0, <2>1, ApplierFrame
<1>4. CASE HandleAppendEntries
  <2>1. UNCHANGED <<started, lastApplied, batch, received, stop>>
    BY <1>4 DEF HandleAppendEntries
  <2> QED
    BY <1>4, <2>1, HandleAppendEntriesFacts, ApplierFrame
<1>5. ASSUME NEW c \in Call, CallTaken(c) PROVE ApplierInv'
  <2>1. UNCHANGED <<started, lastApplied, batch, received, stop>>
    BY SMTT(30), <1>5, CallTakenCases
  <2>2. /\ commitIndex' >= commitIndex
        /\ (UNCHANGED <<commitIndex, applier>>) \/ Broadcast
    <3>1. CASE Success(calls[c])
      BY SMTT(30), <3>1, SuccessFacts DEF LoopTypes
    <3>2. CASE UNCHANGED <<commitIndex, applier>>
      BY <1>0, <3>2
    <3> QED
      BY SMTT(30), <1>5, <3>1, <3>2, CallTakenCases DEF BecomeLeader, ObserveTerm, raft
  <2> QED
    BY <2>1, <2>2, ApplierFrame
<1> QED
  BY <1>1, <1>2, <1>3, <1>4, <1>5 DEF Next

-----------------------------------------------------------------------------
(* Steps that neither lead nor propose keep the leader's invariant. *)
LEMMA LeaderFrame ==
  ASSUME LeaderInv, UNCHANGED <<term, role, log, leading>>, Stopped => Stopped'
  PROVE  LeaderInv'
BY DEF LeaderInv, KickNotLost, leading, Stopped

(* A step down, for a term that has to be positive only if it is led. *)
LEMMA FollowerFrame ==
  ASSUME role' = "Follower"
  PROVE  LeaderInv'
BY DEF LeaderInv, KickNotLost

(* A leader loop of any term keeps the leader's invariant. *)
LEMMA LoopSteps ==
  ASSUME LoopTypes, LeaderInv, NEW t \in Term, LeaderLoop(t) \/ Heartbeat(t)
  PROVE  LeaderInv'
<1>1. UNCHANGED <<stop, term, role, log, kickCh>>
  BY DEF LeaderLoop, Heartbeat, raft
<1>2. SUFFICES ASSUME role = "Leader", ~Stopped PROVE KickNotLost'
  BY <1>1 DEF LeaderInv, KickNotLost, Stopped
<1>3. term \in Term /\ KickNotLost /\ loops \in [Term -> {None, "top", "select"}]
  BY <1>2 DEF LeaderInv, LoopTypes
<1>4. CASE t = term
  BY <1>1, <1>2, <1>3, <1>4
  DEF LeaderLoop, Heartbeat, KickNotLost, Leads, Stopped, None
<1>5. CASE t # term
  <2>1. loops'[term] = loops[term]
    BY <1>3, <1>5 DEF LeaderLoop, Heartbeat
  <2>2. covered' = covered /\ (term \in kicks' <=> term \in kicks)
    BY <1>2, <1>5 DEF LeaderLoop, Heartbeat, Leads
  <2> QED
    BY SMTT(30), <1>1, <1>3, <2>1, <2>2 DEF KickNotLost, Stopped
<1> QED
  BY <1>4, <1>5

(* Every step keeps the leader's invariant. *)
LEMMA LeaderStep == LoopTypes /\ LoopTypes' /\ LeaderInv /\ [Next]_vars => LeaderInv'
<1> SUFFICES ASSUME LoopTypes, LoopTypes', LeaderInv, [Next]_vars PROVE LeaderInv'
  OBVIOUS
<1> USE DEF raft
<1>1. CASE Start \/ StopReturns \/ ApplierTop \/ Deliver \/ ApplierSent \/ ConsumerQuits
  <2>1. UNCHANGED <<term, role, log, leading>> /\ (Stopped => Stopped')
    BY <1>1 DEF Start, StopReturns, ApplierTop, Deliver, ApplierSent, ConsumerQuits,
                Stopped
  <2> QED
    BY SMTT(30), <2>1, LeaderFrame
<1>2. CASE Stop
  BY <1>2, LeaderFrame DEF Stop, Stopped
<1>3. CASE Ticker
  <2>1. CASE Stopped
    BY SMTT(30), <1>3, <2>1, LeaderFrame DEF Ticker, Stopped
  <2>2. CASE ~Stopped
    <3>1. role' = "Candidate" /\ term' \in Term
      BY <1>3, <2>2, LoopsAssumption DEF Ticker, LoopTypes, Term
    <3> QED
      BY SMTT(30), <3>1 DEF LeaderInv, KickNotLost
  <2> QED BY <2>1, <2>2
<1>4. ASSUME NEW c \in Call, CallStarts(c) \/ CallServed(c) \/ CallFails(c)
      PROVE  LeaderInv'
  <2>1. UNCHANGED <<term, role, log, leading>> /\ (Stopped => Stopped')
    BY Zenon, <1>4 DEF CallStarts, CallServed, CallFails, Stopped
  <2> QED
    BY SMTT(30), <2>1, LeaderFrame
<1>5. ASSUME NEW c \in Call, CallTaken(c) PROVE LeaderInv'
  <2>1. stop' = stop
    BY <1>5, CallTakenCases
  <2>2. CASE UNCHANGED <<term, role, log, leading>>
    BY SMTT(30), <2>1, <2>2, LeaderFrame DEF Stopped
  <2>3. CASE ObserveTerm(calls[c].seen)
    BY <2>3, FollowerFrame DEF ObserveTerm
  <2>4. CASE BecomeLeader /\ role = "Candidate"
    <3>1. term \in Term /\ loops \in [Term -> {None, "top", "select"}]
      BY <2>4 DEF LeaderInv, LoopTypes
    <3>2. loops'[term] = "top" /\ kickCh' = term /\ term' = term
      BY SMTT(30), <2>4, <3>1 DEF BecomeLeader, NewKickCh
    <3> QED
      BY <3>1, <3>2 DEF LeaderInv, KickNotLost, None
  <2>5. CASE Success(calls[c]) /\ UNCHANGED leading
    BY <2>1, <2>5, LeaderFrame DEF Success, Stopped
  <2> QED
    BY Zenon, <1>5, <2>2, <2>3, <2>4, <2>5, CallTakenCases
<1>6. CASE HandleRequestVote
  BY <1>6, FollowerFrame DEF HandleRequestVote, ObserveTerm
<1>7. CASE HandleAppendEntries
  BY <1>7, FollowerFrame, HandleAppendEntriesFacts
<1>8. CASE Propose
  <2>1. /\ role = "Leader" /\ ~Stopped /\ kickCh = term
        /\ UNCHANGED <<stop, term, role, loops, kickCh>> /\ term \in kicks'
    BY <1>8 DEF Propose, Kick, LeaderInv
  <2> QED
    BY <2>1 DEF LeaderInv, KickNotLost, Stopped
<1>9. ASSUME NEW t \in Term, LeaderLoop(t) \/ Heartbeat(t) PROVE LeaderInv'
  BY <1>9, LoopSteps
<1>10. CASE UNCHANGED vars
  BY <1>10, LeaderFrame DEF vars, Stopped
<1> QED
  BY SMTT(30), <1>1, <1>2, <1>3, <1>4, <1>5, <1>6, <1>7, <1>8, <1>9, <1>10 DEF Next

-----------------------------------------------------------------------------
(* A call that is over, or for a vote, says nothing of the log. *)
LEMMA OtherCalls ==
  ASSUME NEW g, g = NoCall \/ g.kind = "vote" PROVE InLog(g)
BY SMTT(30) DEF InLog, NoCall, CallAt

(* Calls that are over, votes, and those of before are in the log as long  *)
(* as term, role and log stay.                                             *)
LEMMA CallsFrame ==
  ASSUME IndexInv, UNCHANGED <<term, role, log>>, NEW c \in Call,
         \/ calls'[c] = NoCall \/ calls'[c].kind = "vote"
         \/ /\ calls[c].pc # None
            /\ calls'[c].kind = calls[c].kind /\ calls'[c].term = calls[c].term
            /\ calls'[c].prev = calls[c].prev /\ calls'[c].count = calls[c].count
         \/ calls'[c] = calls[c]
  PROVE  InLog(calls[c])'
BY SMTT(30) DEF IndexInv, InLog, NoCall, CallAt

(* Indexes and log as they are, and calls that are in the log. *)
LEMMA IndexFrame ==
  ASSUME IndexInv, UNCHANGED <<role, log, commitIndex, lastApplied, matchIndex,
                               nextIndex>>,
         \A c \in Call : InLog(calls[c])'
  PROVE  IndexInv'
BY SMTT(30) DEF IndexInv, InLog

(* A newer term leaves all calls behind. *)
LEMMA OldCalls ==
  ASSUME LoopTypes, LoopTypes', IndexInv, UNCHANGED calls, term' > term, NEW c \in Call
  PROVE  InLog(calls[c])'
<1>1. calls[c].term \in Nat /\ term \in Nat /\ term' \in Nat
  BY DEF LoopTypes, CallRec
<1> QED
  BY <1>1 DEF IndexInv, InLog

(* What replicateTo sends ends within the log. *)
LEMMA EntriesInLog ==
  ASSUME log \in Seq(Nat), NEW lo \in Nat \ {0}, lo <= Len(log) + 1
  PROVE  lo - 1 + Len(EntriesFrom(lo, MaxEntriesPerAppend)) <= Len(log)
<1> DEFINE hi == IF Len(log) < lo + MaxEntriesPerAppend THEN Len(log)
                 ELSE lo + MaxEntriesPerAppend - 1
<1>1. hi \in Nat /\ hi <= Len(log) /\ Len(log) \in Nat /\ lo <= hi + 1
  BY LoopsAssumption, LenProperties
<1>2. \A i \in lo .. hi : log[i] \in Nat
  BY <1>1, ElementOfSeq
<1>3. Len(SubSeq(log, lo, hi)) = IF lo <= hi THEN hi - lo + 1 ELSE 0
  BY <1>1, <1>2, SubSeqProperties
<1> HIDE DEF hi
<1>4. lo - 1 + Len(SubSeq(log, lo, hi)) <= Len(log)
  BY <1>1, <1>3
<1> QED
  BY Zenon, <1>4 DEF EntriesFrom, hi

(* A call that starts sends what is in the log. *)
LEMMA CallStartsIndexes ==
  ASSUME LoopTypes, IndexInv, NEW c \in Call, CallStarts(c)
  PROVE  IndexInv'
<1> DEFINE g == calls[c]
           entries == EntriesFrom(nextIndex, MaxEntriesPerAppend)
           h == [g EXCEPT !.pc = "call", !.prev = nextIndex - 1,
                          !.count = Len(entries), !.size = BodySize(entries)]
<1>1. g \in CallRec /\ calls \in [Call -> CallRec]
  BY DEF LoopTypes
<1>2. UNCHANGED <<raft, lastApplied>> /\ g.pc = "start"
  BY Zenon DEF CallStarts, delivery
<1>3. ASSUME NEW d \in Call PROVE InLog(calls[d])'
  <2>1. CASE d # c
    <3>1. calls'[d] = calls[d]
      BY Zenon, <1>1, <2>1 DEF CallStarts
    <3> QED
      BY <1>2, <3>1, CallsFrame DEF raft
  <2>2. CASE calls' = [calls EXCEPT ![c].pc = "call"] /\ d = c
    <3>1. /\ calls'[c].kind = g.kind /\ calls'[c].term = g.term
          /\ calls'[c].prev = g.prev /\ calls'[c].count = g.count /\ g.pc # None
      BY SMTT(30), <1>1, <1>2, <2>2 DEF CallRec, None
    <3> QED
      BY <1>2, <2>2, <3>1, CallsFrame DEF raft
  <2>3. CASE calls' = [calls EXCEPT ![c] = NoCall] /\ d = c
    BY <1>1, <1>2, <2>3, CallsFrame DEF raft
  <2>4. CASE calls' = [calls EXCEPT ![c] = h] /\ Leads(g.term) /\ d = c
    <3>1. nextIndex - 1 + Len(entries) <= Len(log)
      BY <2>4, EntriesInLog DEF LoopTypes, IndexInv, Leads
    <3>2. h.term = g.term /\ h.prev = nextIndex - 1 /\ h.count = Len(entries)
      BY <1>1 DEF CallRec
    <3>3. calls'[c] = h
      BY <1>1, <2>4
    <3>4. g.term <= term
      BY <2>4 DEF Leads, LoopTypes
    <3> QED
      BY ZenonT(40), <1>2, <2>4, <3>1, <3>2, <3>3, <3>4 DEF InLog, Leads, raft
  <2> QED
    BY Zenon, <2>1, <2>2, <2>3, <2>4 DEF CallStarts
<1> QED
  BY SMTT(30), <1>2, <1>3, IndexFrame DEF raft

(* A call that gets its answer, or none, sends what it sent. *)
LEMMA CallServedIndexes ==
  ASSUME LoopTypes, IndexInv, NEW c \in Call, CallServed(c) \/ CallFails(c)
  PROVE  IndexInv'
<1> DEFINE g == calls[c]
<1>1. g \in CallRec /\ calls \in [Call -> CallRec]
  BY DEF LoopTypes
<1>2. UNCHANGED <<raft, lastApplied>> /\ g.pc = "call"
  BY Zenon DEF CallServed, CallFails, delivery
<1>3. \/ calls' = [calls EXCEPT ![c] = NoCall]
      \/ \E ok, seen : calls' = [calls EXCEPT ![c] =
                                  [g EXCEPT !.pc = "replied", !.ok = ok, !.seen = seen]]
  BY Zenon DEF CallServed, CallFails
<1>4. ASSUME NEW d \in Call PROVE InLog(calls[d])'
  <2>1. CASE d # c
    <3>1. calls'[d] = calls[d]
      BY Zenon, <1>1, <1>3, <2>1
    <3> QED
      BY <1>2, <3>1, CallsFrame DEF raft
  <2>2. CASE calls' = [calls EXCEPT ![c] = NoCall] /\ d = c
    BY <1>1, <1>2, <2>2, CallsFrame DEF raft
  <2>3. ASSUME NEW ok, NEW seen, d = c,
               calls' = [calls EXCEPT ![c] =
                           [g EXCEPT !.pc = "replied", !.ok = ok, !.seen = seen]]
        PROVE  InLog(calls[d])'
    <3>1. /\ calls'[c].kind = g.kind /\ calls'[c].term = g.term
          /\ calls'[c].prev = g.prev /\ calls'[c].count = g.count /\ g.pc # None
      BY SMTT(30), <1>1, <1>2, <2>3 DEF CallRec, None
    <3> QED
      BY Zenon, <1>2, <2>3, <3>1, CallsFrame DEF raft
  <2> QED
    BY Zenon, <1>3, <2>1, <2>2, <2>3
<1> QED
  BY <1>2, <1>4, IndexFrame DEF raft

(* A reply moves the indexes within the log. *)
LEMMA CallTakenIndexes ==
  ASSUME LoopTypes, LoopTypes', IndexInv, NEW c \in Call, CallTaken(c)
  PROVE  IndexInv'
<1> DEFINE g == calls[c]
<1>1. /\ g \in CallRec /\ calls \in [Call -> CallRec] /\ g.pc # None
      /\ lastApplied' = lastApplied
  BY SMTT(30), CallTakenCases DEF LoopTypes, None
<1>2. /\ g.term \in Nat /\ g.prev \in Nat /\ g.count \in Nat /\ term \in Nat
      /\ Len(log) \in Nat /\ commitIndex \in Nat /\ matchIndex \in Nat
      /\ nextIndex \in Nat /\ lastApplied \in Nat
  BY <1>1, LenProperties DEF LoopTypes, CallRec
<1>3. CASE calls' = [calls EXCEPT ![c] = NoCall] /\ UNCHANGED raft
  <2>1. \A d \in Call : calls'[d] = NoCall \/ calls'[d] = calls[d]
    BY <1>1, <1>3
  <2> QED
    BY SMTT(30), <1>1, <1>3, <2>1, CallsFrame, IndexFrame DEF raft
<1>4. CASE calls' = [calls EXCEPT ![c] = NoCall] /\ ObserveTerm(g.seen)
  <2>1. \A d \in Call : calls'[d] = NoCall \/ calls'[d] = calls[d]
    BY SMTT(30), <1>1, <1>4
  <2>2. term' > term /\ term' \in Nat /\ \A d \in Call : calls[d].term \in Nat
    BY SMTT(30), <1>1, <1>4 DEF ObserveTerm, CallRec, LoopTypes
  <2>3. ASSUME NEW d \in Call PROVE InLog(calls[d])'
    <3>1. CASE calls'[d] = NoCall
      BY <3>1 DEF InLog, NoCall, CallAt
    <3>2. CASE calls'[d] = calls[d]
      <4>1. calls[d].term \in Nat /\ InLog(calls[d])
        BY <2>2 DEF IndexInv
      <4> QED
        BY SMTT(30), <1>2, <2>2, <3>2, <4>1 DEF InLog
    <3> QED BY SMTT(30), <2>1, <3>1, <3>2
  <2>4. role' # "Leader" /\ UNCHANGED <<log, commitIndex>>
    BY SMTT(30), <1>4 DEF ObserveTerm
  <2> QED
    BY <1>1, <2>3, <2>4 DEF IndexInv
<1>5. CASE /\ calls' = [calls EXCEPT ![c] = NoCall] /\ BecomeLeader
           /\ role = "Candidate"
  <2>1. \A d \in Call : calls'[d] = NoCall \/ calls'[d] = calls[d]
    BY SMTT(30), <1>1, <1>5
  <2>2. /\ Len(log') = Len(log) + 1 /\ matchIndex' = 0 /\ nextIndex' = Len(log) + 1
        /\ UNCHANGED <<term, commitIndex>>
    BY ZenonT(40), <1>5, AppendProperties DEF BecomeLeader, LoopTypes
  <2>3. \A d \in Call : InLog(calls[d])'
    BY SMTT(30), <1>5, <2>1, <2>2 DEF IndexInv, InLog, NoCall, CallAt
  <2> QED
    BY <1>1, <1>2, <2>2, <2>3 DEF IndexInv
<1>6. CASE /\ calls' = [calls EXCEPT ![c] = NoCall] /\ Success(g)
           /\ g.kind = "append" /\ Leads(g.term)
  <2>1. \A d \in Call : calls'[d] = NoCall \/ calls'[d] = calls[d]
    BY SMTT(30), <1>1, <1>6
  <2>2. UNCHANGED <<term, role, log>>
    BY SMTT(30), <1>6 DEF Success
  <2>3. \A d \in Call : InLog(calls[d])'
    BY SMTT(30), <2>1, <2>2, CallsFrame
  <2>4. g.prev + g.count <= Len(log) /\ matchIndex <= Len(log)
        /\ nextIndex <= Len(log) + 1 /\ commitIndex <= Len(log)
        /\ lastApplied <= commitIndex
    BY SMTT(30), <1>1, <1>6 DEF IndexInv, InLog, Leads
  <2>5. g.prev + g.count \in Nat /\ g.prev + g.count + 1 \in Nat
    BY SMTT(30), <1>2
  <2>6. Max({matchIndex, g.prev + g.count}) <= Len(log)
    <3>1. Max({matchIndex, g.prev + g.count}) \in {matchIndex, g.prev + g.count}
      BY SMTT(30), <1>2, <2>5, MaxOfTwo
    <3> QED
      BY <2>4, <3>1
  <2>7. Max({nextIndex, g.prev + g.count + 1}) <= Len(log) + 1
    <3>1. Max({nextIndex, g.prev + g.count + 1}) \in {nextIndex, g.prev + g.count + 1}
      BY SMTT(30), <1>2, <2>5, MaxOfTwo
    <3>2. g.prev + g.count + 1 <= Len(log) + 1
      BY SMTT(30), <1>2, <2>4
    <3> QED
      BY <2>4, <3>1, <3>2
  <2>8. /\ matchIndex' = Max({matchIndex, g.prev + g.count})
        /\ nextIndex' = Max({nextIndex, g.prev + g.count + 1})
        /\ commitIndex' = Committed(matchIndex')
        /\ commitIndex' >= commitIndex /\ commitIndex' \in Nat
    BY SMTT(30), <1>1, <1>6, SuccessFacts DEF Success
  <2>9. commitIndex' <= Len(log)
    BY SMTT(30), <2>4, <2>6, <2>8 DEF Committed
  <2> QED
    BY SMTT(30), <1>1, <1>2, <2>2, <2>3, <2>4, <2>6, <2>7, <2>8, <2>9 DEF IndexInv
<1>7. CASE /\ calls' = [calls EXCEPT ![c] = CallAt("start", "append", g.term)]
           /\ Leads(g.term) /\ nextIndex = g.prev + 1 /\ nextIndex' = g.prev
           /\ UNCHANGED <<term, role, log, commitIndex, matchIndex>>
  <2>1. /\ calls'[c].term = term' /\ role' = "Leader" /\ Len(log') \in Nat
        /\ calls'[c].prev + calls'[c].count = 0 /\ term' \in Nat
    BY <1>1, <1>2, <1>7 DEF CallAt, Leads
  <2>2. ASSUME NEW d \in Call PROVE InLog(calls[d])'
    <3>1. CASE d = c
      BY <2>1, <3>1 DEF InLog
    <3>2. CASE d # c
      BY <1>1, <1>7, <3>2, CallsFrame
    <3> QED BY <3>1, <3>2
  <2> QED
    BY SMTT(30), <1>1, <1>2, <1>7, <2>2 DEF IndexInv
<1> QED
  BY Zenon, <1>3, <1>4, <1>5, <1>6, <1>7, CallTakenCases

(* Another leader's entries leave what is committed in the log. *)
LEMMA HandleAppendEntriesIndexes ==
  ASSUME LoopTypes, LoopTypes', IndexInv, HandleAppendEntries
  PROVE  IndexInv'
<1>1. commitIndex \in Nat /\ term \in Nat /\ lastApplied \in Nat
  BY DEF LoopTypes
<1>2. commitIndex <= Len(log') /\ Len(log') \in Nat
  BY OtherLeadersLog DEF IndexInv
<1>3. commitIndex' \in Nat /\ commitIndex <= commitIndex' /\ commitIndex' <= Len(log')
  BY SMTT(30), <1>1, <1>2 DEF HandleAppendEntries
<1>4. /\ role' = "Follower" /\ UNCHANGED <<calls, lastApplied>>
      /\ (term' = term /\ role # "Leader") \/ term' > term
  BY SMTT(30), <1>1 DEF HandleAppendEntries
<1>5. \A c \in Call : InLog(calls[c])'
  BY <1>4, OldCalls DEF IndexInv, InLog
<1> QED
  BY SMTT(30), <1>1, <1>2, <1>3, <1>4, <1>5 DEF IndexInv

(* The other steps keep the indexes within the log. *)
LEMMA OtherIndexes ==
  ASSUME LoopTypes, LoopTypes', ApplierInv, IndexInv,
         \/ ApplierSent \/ Ticker \/ HandleRequestVote \/ Propose
         \/ \E t \in Term : LeaderLoop(t)
  PROVE  IndexInv'
<1> USE DEF raft
<1>1. /\ term \in Nat /\ Len(log) \in Nat /\ commitIndex \in Nat /\ nextIndex \in Nat
      /\ matchIndex \in Nat /\ lastApplied \in Nat /\ calls \in [Call -> CallRec]
  BY SMTT(30), LenProperties DEF LoopTypes
<1>2. ASSUME NEW t, Spawn("append", t), Leads(t), UNCHANGED <<raft, lastApplied>>
      PROVE  IndexInv'
  <2> DEFINE c == CHOOSE c \in Free : \A d \in Free : c <= d
             g == CallAt("start", "append", t)
  <2>1. calls' = [calls EXCEPT ![c] = g]
    BY SMTT(30), <1>2 DEF Spawn
  <2>2. g.term = term' /\ role' = "Leader" /\ g.prev + g.count <= Len(log')
        /\ term' \in Nat
    BY <1>1, <1>2 DEF CallAt, Leads
  <2> HIDE DEF c, g
  <2>3. ASSUME NEW d \in Call PROVE InLog(calls[d])'
    <3>1. CASE calls'[d] = g
      BY SMTT(30), <2>2, <3>1 DEF InLog
    <3>2. CASE calls'[d] = calls[d]
      BY SMTT(30), <1>2, <3>2, CallsFrame
    <3> QED
      BY SMTT(30), <1>1, <2>1, <3>1, <3>2
  <2> QED
    BY <1>2, <2>3, IndexFrame
<1>3. CASE ApplierSent
  <2>1. lastApplied' \in {lastApplied, Len(received)}
    BY SMTT(30), <1>3, LastReceived DEF ApplierSent
  <2>2. UNCHANGED <<term, role, log, commitIndex, matchIndex, nextIndex, calls>>
    BY <1>3 DEF ApplierSent
  <2> QED
    BY SMTT(30), <2>1, <2>2 DEF IndexInv, InLog, ApplierInv
<1>4. CASE Ticker
  <2>1. CASE Stopped
    BY ZenonT(40), <1>4, <2>1, CallsFrame, IndexFrame DEF Ticker, delivery
  <2>2. CASE ~Stopped
    <3>1. /\ term' = term + 1 /\ role' = "Candidate" /\ Spawn("vote", term + 1)
          /\ UNCHANGED <<log, commitIndex, nextIndex, matchIndex, lastApplied>>
      BY SMTT(30), <1>4, <2>2 DEF Ticker, delivery
    <3>2. \A d \in Call : calls'[d] = calls[d] \/ calls'[d].kind = "vote"
      BY SMTT(30), <1>1, <3>1 DEF Spawn, CallAt
    <3>3. \A d \in Call : InLog(calls[d])'
      <4>1. \A d \in Call : calls[d].term \in Nat
        BY <1>1 DEF CallRec
      <4> QED
        BY SMTT(30), <1>1, <3>1, <3>2, <4>1 DEF IndexInv, InLog
    <3> QED
      BY SMTT(30), <3>1, <3>3 DEF IndexInv
  <2> QED BY SMTT(30), <2>1, <2>2
<1>5. CASE HandleRequestVote
  <2>1. /\ term' > term /\ role' = "Follower"
        /\ UNCHANGED <<log, commitIndex, lastApplied, calls>>
    BY SMTT(30), <1>5 DEF HandleRequestVote, ObserveTerm, delivery
  <2> QED
    BY <2>1, OldCalls DEF IndexInv
<1>6. CASE Propose
  <2>1. /\ Len(log') = Len(log) + 1
        /\ UNCHANGED <<term, role, commitIndex, nextIndex, matchIndex, lastApplied, calls>>
    BY <1>6, AppendProperties, LoopsAssumption DEF Propose, LoopTypes, delivery
  <2>2. \A d \in Call : calls[d].prev + calls[d].count \in Nat
    BY SMTT(30), <1>1 DEF CallRec
  <2> QED
    BY SMTT(30), <1>1, <2>1, <2>2 DEF IndexInv, InLog
<1>7. ASSUME NEW t \in Term, LeaderLoop(t) PROVE IndexInv'
  <2>1. UNCHANGED <<raft, lastApplied>>
    BY SMTT(30), <1>7 DEF LeaderLoop, delivery
  <2>2. calls' = calls \/ (Spawn("append", t) /\ Leads(t))
    BY <1>7 DEF LeaderLoop
  <2> QED
    BY ZenonT(40), <1>2, <2>1, <2>2, CallsFrame, IndexFrame
<1> QED
  BY SMTT(30), <1>3, <1>4, <1>5, <1>6, <1>7

(* Every step keeps the indexes within the log. *)
LEMMA IndexStep ==
  LoopTypes /\ LoopTypes' /\ ApplierInv /\ IndexInv /\ [Next]_vars => IndexInv'
<1> SUFFICES ASSUME LoopTypes, LoopTypes', ApplierInv, IndexInv, [Next]_vars
             PROVE  IndexInv'
  BY SMTT(30)
<1>1. CASE \/ Start \/ Stop \/ StopReturns \/ ApplierTop \/ Deliver \/ ConsumerQuits
           \/ \E t \in Term : Heartbeat(t)
           \/ UNCHANGED vars
  <2>1. UNCHANGED <<raft, lastApplied, calls>>
    BY <1>1 DEF Start, Stop, StopReturns, ApplierTop, Deliver, ConsumerQuits, Heartbeat,
                vars, delivery
  <2> QED
    BY SMTT(30), <2>1, CallsFrame, IndexFrame DEF raft
<1>2. CASE \/ ApplierSent \/ Ticker \/ HandleRequestVote \/ Propose
           \/ \E t \in Term : LeaderLoop(t)
  BY <1>2, OtherIndexes
<1>3. CASE \E c \in Call : CallStarts(c) \/ CallServed(c) \/ CallFails(c) \/ CallTaken(c)
  BY <1>3, CallStartsIndexes, CallServedIndexes, CallTakenIndexes
<1>4. CASE HandleAppendEntries
  BY <1>4, HandleAppendEntriesIndexes
<1> QED
  BY <1>1, <1>2, <1>3, <1>4 DEF Next

(* Every step keeps the types of the rest. *)
LEMMA PlainStep ==
  LoopTypes /\ LeaderInv /\ PlainTypes /\ [Next]_vars => PlainTypes'
<1> SUFFICES ASSUME LoopTypes, LeaderInv, PlainTypes, [Next]_vars PROVE PlainTypes'
  OBVIOUS
<1> USE DEF raft, leading, delivery
<1>0. Len(log) \in Nat /\ Len(log) + 1 # 0 /\ term \in 0 .. MaxTerm
  BY SMTT(30), LenProperties, LoopsAssumption DEF LoopTypes
<1>1. CASE Start \/ Stop \/ StopReturns
  BY Zenon, <1>1 DEF Start, Stop, StopReturns, PlainTypes
<1>2. CASE ApplierTop \/ Deliver \/ ApplierSent \/ ConsumerQuits
  BY Zenon, <1>2 DEF ApplierTop, Deliver, ApplierSent, ConsumerQuits, PlainTypes
<1>3. CASE Ticker \/ HandleRequestVote \/ HandleAppendEntries
  BY <1>3 DEF Ticker, HandleRequestVote, HandleAppendEntries, ObserveTerm, PlainTypes
<1>4. CASE Propose
  BY <1>4 DEF Propose, Kick, LeaderInv, PlainTypes
<1>5. ASSUME NEW c \in Call, CallStarts(c) \/ CallServed(c) \/ CallFails(c)
      PROVE  PlainTypes'
  BY Zenon, <1>5 DEF CallStarts, CallServed, CallFails, PlainTypes
<1>6. ASSUME NEW c \in Call, CallTaken(c) PROVE PlainTypes'
  <2>1. UNCHANGED <<started, ticker, consuming>>
    BY <1>6, CallTakenCases
  <2>2. CASE UNCHANGED <<role, first, leading>>
    BY SMTT(30), <2>1, <2>2 DEF PlainTypes
  <2>3. CASE ObserveTerm(calls[c].seen) /\ UNCHANGED leading
    BY Zenon, <2>1, <2>3 DEF ObserveTerm, PlainTypes
  <2>4. CASE BecomeLeader
    BY SMTT(30), <1>0, <2>1, <2>4 DEF BecomeLeader, NewKickCh, PlainTypes
  <2> QED
    BY Zenon, <1>6, <2>2, <2>3, <2>4, CallTakenCases DEF Success
<1>7. ASSUME NEW t \in Term, LeaderLoop(t) \/ Heartbeat(t) PROVE PlainTypes'
  BY SMTT(30), <1>0, <1>7 DEF LeaderLoop, Heartbeat, PlainTypes
<1>8. CASE UNCHANGED vars
  BY <1>8 DEF vars, PlainTypes
<1> QED
  BY <1>1, <1>2, <1>3, <1>4, <1>5, <1>6, <1>7, <1>8 DEF Next

-----------------------------------------------------------------------------
(* Once Stop has returned, only the consumer still has a step. *)
LEMMA NothingAfterStop ==
  ASSUME LoopTypes, ReturnedInv, stop = "returned", [Next]_vars
  PROVE  UNCHANGED <<stop, raft, ticker, applier, received, calls, loops>>
<1> USE DEF raft, leading, delivery
<1>1. Stopped /\ NoCall.pc = None /\ ticker = None /\ applier = None
  BY DEF Stopped, ReturnedInv, NoCall, CallAt
<1>2. \A c \in Call : calls[c].pc = None
  BY <1>1 DEF ReturnedInv
<1>3. \A t \in Term : loops[t] = None
  BY SMTT(30) DEF ReturnedInv
<1>4. ~(Start \/ Stop \/ StopReturns \/ HandleRequestVote \/ HandleAppendEntries \/ Propose)
  <2>1. ~(Stop \/ StopReturns)
    BY Zenon DEF Stop, StopReturns
  <2> QED
    BY Zenon, <1>1, <2>1 DEF Start, HandleRequestVote, HandleAppendEntries, Propose
<1>5. ~(ApplierTop \/ Deliver \/ ApplierSent \/ Ticker)
  BY SMTT(30), <1>1 DEF ApplierTop, Deliver, ApplierSent, Ticker, None
<1>6. ~\E c \in Call : CallStarts(c) \/ CallServed(c) \/ CallFails(c) \/ CallTaken(c)
  BY ZenonT(40), <1>2 DEF CallStarts, CallServed, CallFails, CallTaken, None
<1>7. ~\E t \in Term : LeaderLoop(t) \/ Heartbeat(t)
  BY <1>3 DEF LeaderLoop, Heartbeat, None
<1>8. CASE ConsumerQuits
  BY <1>8 DEF ConsumerQuits
<1>9. CASE UNCHANGED vars
  BY <1>9 DEF vars
<1> QED
  BY SMTT(30), <1>4, <1>5, <1>6, <1>7, <1>8, <1>9 DEF Next

(* Only StopReturns makes Stop return. *)
LEMMA OnlyStopReturns ==
  ASSUME LoopTypes, [Next]_vars, stop # "returned", stop' = "returned"
  PROVE  StopReturns
<1>1. CASE \/ Start \/ Stop \/ ApplierTop \/ Deliver \/ ApplierSent \/ ConsumerQuits
           \/ Ticker \/ HandleRequestVote \/ HandleAppendEntries \/ Propose
  BY <1>1 DEF Start, Stop, ApplierTop, Deliver, ApplierSent, ConsumerQuits, Ticker,
              HandleRequestVote, HandleAppendEntries, Propose
<1>2. ASSUME NEW c \in Call,
             CallStarts(c) \/ CallServed(c) \/ CallFails(c) \/ CallTaken(c)
      PROVE  FALSE
  <2>1. stop' = stop
    BY Zenon, <1>2, CallTakenCases DEF CallStarts, CallServed, CallFails
  <2> QED BY <2>1
<1>3. ASSUME NEW t \in Term, LeaderLoop(t) \/ Heartbeat(t) PROVE FALSE
  BY <1>3 DEF LeaderLoop, Heartbeat
<1>4. CASE UNCHANGED vars
  BY <1>4 DEF vars
<1> QED
  BY SMTT(30), <1>1, <1>2, <1>3, <1>4 DEF Next

(* Every step keeps what the wait group has waited for. *)
LEMMA ReturnedStep == LoopTypes /\ ReturnedInv /\ [Next]_vars => ReturnedInv'
<1> SUFFICES ASSUME LoopTypes, ReturnedInv, [Next]_vars PROVE ReturnedInv'
  OBVIOUS
<1>1. CASE stop = "returned"
  BY SMTT(30), <1>1, NothingAfterStop DEF ReturnedInv
<1>2. CASE stop # "returned"
  BY SMTT(30), <1>2, OnlyStopReturns DEF ReturnedInv, StopReturns, delivery, leading
<1> QED BY <1>1, <1>2

(* After Stop is called the Raft state stays as it is. *)
LEMMA RaftFrozen ==
  ASSUME LoopTypes, Stopped, [Next]_vars
  PROVE  UNCHANGED raft
<1> USE DEF raft
<1>1. CASE \/ Start \/ Stop \/ StopReturns \/ ApplierTop \/ Deliver \/ ApplierSent
           \/ ConsumerQuits \/ Ticker
  BY <1>1 DEF Start, Stop, StopReturns, ApplierTop, Deliver, ApplierSent,
              ConsumerQuits, Ticker
<1>2. ~(HandleRequestVote \/ HandleAppendEntries \/ Propose)
  BY DEF HandleRequestVote, HandleAppendEntries, Propose
<1>3. ASSUME NEW c \in Call,
             CallStarts(c) \/ CallServed(c) \/ CallFails(c) \/ CallTaken(c)
      PROVE  UNCHANGED raft
  BY Zenon, <1>3, CallTakenCases DEF CallStarts, CallServed, CallFails
<1>4. ASSUME NEW t \in Term, LeaderLoop(t) \/ Heartbeat(t) PROVE UNCHANGED raft
  BY Zenon, <1>4 DEF LeaderLoop, Heartbeat
<1>5. CASE UNCHANGED vars
  BY <1>5 DEF vars
<1> QED
  BY SMTT(30), <1>1, <1>2, <1>3, <1>4, <1>5 DEF Next

-----------------------------------------------------------------------------
(* The invariant holds throughout, whatever the goroutines, the peer, the  *)
(* clients and the consumer do and however the bounds are chosen.          *)
THEOREM LoopsInvariant == Spec => []LoopsInv
<1>1. LoopsInv /\ [Next]_vars => LoopsInv'
  BY TypesStep, ApplierStep, LeaderStep, ReturnedStep, IndexStep, PlainStep DEF LoopsInv
<1> QED
  BY InitInv, <1>1, PTL DEF Spec

(* Types, and the indexes in their order: what is applied is committed and *)
(* what is committed is in the log, whatever a late reply of replicateTo   *)
(* says and however another leader cuts the log (apply.go copies entries   *)
(* of the log by these indexes).                                           *)
THEOREM LoopTypesCorrect == Spec => []TypeOK
<1>1. LoopsInv => TypeOK
  <2> SUFFICES ASSUME LoopsInv PROVE TypeOK
    OBVIOUS
  <2>1. LoopTypes /\ IndexInv /\ PlainTypes
    BY SMTT(30) DEF LoopsInv
  <2>2. term \in 0 .. MaxTerm /\ commitIndex \in 0 .. Len(log)
        /\ lastApplied \in 0 .. commitIndex /\ first \in Nat \ {0}
    BY SMTT(30), <2>1, LenProperties, LoopsAssumption DEF LoopTypes, IndexInv, PlainTypes
  <2> QED
    BY Zenon, <2>1, <2>2 DEF LoopTypes, PlainTypes, TypeOK, CallRec
<1> QED
  BY LoopsInvariant, <1>1, PTL

(* apply.go delivers every committed entry once, by index, over all of its *)
(* batches.                                                                *)
THEOREM DeliveryInOrder == Spec => []DeliveredInOrder
<1>1. LoopsInv => DeliveredInOrder
  BY DEF LoopsInv, ApplierInv, DeliveredInOrder
<1> QED
  BY LoopsInvariant, <1>1, PTL

(* apply.go never waits while there is something to deliver: every change  *)
(* of commitIndex, and Stop, broadcasts.                                   *)
THEOREM NoWakeupMissed == Spec => []NoMissedWakeup
<1>1. LoopsInv => NoMissedWakeup
  BY DEF LoopsInv, ApplierInv, NoMissedWakeup
<1> QED
  BY LoopsInvariant, <1>1, PTL

(* A leader's loop is alive and never waits on entries it has not sent     *)
(* without a kick in its own channel.                                      *)
THEOREM NoKickLost == Spec => []KickNotLost
<1>1. LoopsInv => KickNotLost
  BY DEF LoopsInv, LeaderInv
<1> QED
  BY LoopsInvariant, <1>1, PTL

(* Stop freezes the Raft state, and when it has returned no goroutine of   *)
(* the node is left to deliver or to call.                                 *)
THEOREM StopIsFinal == Spec => StoppedForGood
<1>1. LoopsInv /\ [Next]_vars =>
        [/\ Stopped => UNCHANGED raft
         /\ stop = "returned" => UNCHANGED <<received, calls, loops>>]_vars
  BY NothingAfterStop, RaftFrozen DEF LoopsInv
<1> QED
  BY LoopsInvariant, <1>1, PTL DEF Spec, StoppedForGood

=============================================================================

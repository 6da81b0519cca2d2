------------------------------ MODULE NodeLoops ------------------------------
(***************************************************************************)
(* The goroutines of one Node: ticker, applier, leader loops and RPCs,     *)
(* from Start to Stop, and the consumer of applyCh.                        *)
(*                                                                         *)
(* What a goroutine does while it holds the mutex is one action; it gives  *)
(* the mutex up in Cond.Wait, in a select and around an RPC.  A goroutine  *)
(* that Stop waits for is alive as long as its state says so: the wait     *)
(* group is their number.                                                  *)
(*                                                                         *)
(* The node and one peer make the quorum; other members of the cluster     *)
(* appear only as the leaders and candidates that send the node requests.  *)
(* Logs agree up to their last common entry and nowhere after it           *)
(* (LogMatching of Raft), so the peer's log is the index of that entry.    *)
(* Of an entry only the size of its JSON matters.                          *)
(***************************************************************************)
EXTENDS Naturals, Sequences, FiniteSetsExt

CONSTANTS
  Size,                 \* the sizes of commands
  MaxEntriesPerAppend,  \* Config.MaxEntriesPerAppend
  MaxBody,              \* maxBodyBytes of httptransport
  MaxTerm, MaxCalls,    \* the largest of the bounds on terms and goroutines
  Bounds                \* the bounds of a behaviour: its terms, proposals, RPC
                        \* goroutines at a time, requests of other members, how
                        \* often Stop is called and the consumer quits

Bound == [terms : Nat, proposals : Nat, calls : Nat \ {0}, requests : Nat,
          stops : Nat, quits : Nat]

ASSUME LoopsAssumption ==
  /\ Size \subseteq Nat \ {0} /\ Size # {}
  /\ MaxEntriesPerAppend \in Nat \ {0} /\ MaxBody \in Nat
  /\ MaxTerm \in Nat /\ MaxCalls \in Nat
  /\ Bounds \subseteq Bound
  /\ \A b \in Bounds : b.terms <= MaxTerm /\ b.calls <= MaxCalls

VARIABLES
  started, stop,            \* Start was called; how far Stop is
  term, role,               \* currentTerm and role
  log,                      \* the sizes of the log's entries
  first,                    \* index of the no-op of the last leadership
  commitIndex, lastApplied,
  nextIndex, matchIndex,    \* a leader's view of the peer
  common,                   \* the last entry that node and peer share
  ticker, applier, batch,   \* the two goroutines of Start; what is delivered
  loops,                    \* term -> the leader loop of that term
  kickCh, kicks,            \* the current kick channel; the full channels
  calls,                    \* the goroutines of requestVote and replicateTo
  received, consuming,      \* what the consumer got; does it go on receiving?
  covered,                  \* history: log length when the leader last sent
  bound                     \* the bounds, and what is left of them

raft == <<term, role, log, first, commitIndex, nextIndex, matchIndex>>
delivery == <<lastApplied, applier, batch, received, consuming>>
leading == <<loops, kickCh, kicks, covered>>
vars == <<started, stop, raft, common, ticker, delivery, leading, calls,
          bound>>

Term == 1 .. MaxTerm
Call == 1 .. MaxCalls
Index == 1 .. Max({b.terms + b.proposals + b.requests : b \in Bounds})
Stopped == stop # "no"

(* A goroutine that is not running; one of requestVote or replicateTo, of  *)
(* a term, before its first step.                                          *)
None == "none"
CallAt(pc, kind, t) ==
  [pc |-> pc, kind |-> kind, term |-> t, prev |-> 0, count |-> 0, size |-> 0,
   ok |-> FALSE, seen |-> 0]
NoCall == CallAt(None, "append", 0)
Free == {c \in Call : calls[c].pc = None /\ c <= bound.calls}

(* One use of what a bound limits. *)
Spend(what) ==
  /\ bound[what] > 0
  /\ bound' = [bound EXCEPT ![what] = @ - 1]

-----------------------------------------------------------------------------
Init ==
  /\ started = FALSE /\ stop = "no"
  /\ term = 0 /\ role = "Follower"
  /\ log = <<>> /\ first = 1
  /\ commitIndex = 0 /\ lastApplied = 0
  /\ nextIndex = 1 /\ matchIndex = 0 /\ common = 0
  /\ ticker = None /\ applier = None /\ batch = <<>>
  /\ loops = [t \in Term |-> None]
  /\ kickCh = 0 /\ kicks = {}
  /\ calls = [c \in Call |-> NoCall]
  /\ received = <<>> /\ consuming = TRUE
  /\ covered = 0 /\ bound \in Bounds

Start ==
  /\ ~started /\ ~Stopped
  /\ started' = TRUE /\ ticker' = "running" /\ applier' = "top"
  /\ UNCHANGED <<bound, stop, raft, common, lastApplied, batch, received, consuming,
                 leading, calls>>

(* applyCond.Broadcast: an applier in Cond.Wait goes back to its loop. *)
WrongBroadcast == UNCHANGED applier
Broadcast == applier' = IF applier = "waiting" THEN "top" ELSE applier

(* Stop up to the wait: the flag, stopCh, the context and the broadcast. *)
WrongStop ==
  /\ Spend("stops")
  /\ stop = "no" /\ stop' = "waiting"
  /\ UNCHANGED <<started, raft, common, ticker, delivery, leading, calls>>
Stop ==
  /\ Spend("stops")
  /\ stop = "no" /\ stop' = "waiting"
  /\ Broadcast
  /\ UNCHANGED <<started, raft, common, ticker, lastApplied, batch, received,
                 consuming, leading, calls>>

(* wg.Wait returns when the last goroutine is done. *)
StopReturns ==
  /\ stop = "waiting"
  /\ ticker = None /\ applier = None
  /\ \A t \in Term : loops[t] = None
  /\ \A c \in Call : calls[c] = NoCall
  /\ stop' = "returned"
  /\ UNCHANGED <<bound, started, raft, common, ticker, delivery, leading, calls>>

-----------------------------------------------------------------------------
(* The applier, apply.go. *)

(* The loop's check, with the mutex: end, wait, or copy what is committed  *)
(* and not applied yet.                                                    *)
WrongBatch == [i \in 1 .. commitIndex - lastApplied + 1 |-> lastApplied + i - 1]
Batch == [i \in 1 .. commitIndex - lastApplied |-> lastApplied + i]
ApplierTop ==
  /\ applier = "top"
  /\ \/ Stopped /\ applier' = None /\ batch' = batch
     \/ /\ ~Stopped /\ lastApplied >= commitIndex
        /\ applier' = "waiting" /\ batch' = batch
     \/ /\ ~Stopped /\ lastApplied < commitIndex
        /\ applier' = "sending" /\ batch' = Batch
  /\ UNCHANGED <<bound, started, stop, raft, common, ticker, lastApplied, received,
                 consuming, leading, calls>>

(* One message goes to the consumer, who may stop receiving for good. *)
Deliver ==
  /\ applier = "sending" /\ batch # <<>> /\ consuming
  /\ received' = Append(received, Head(batch))
  /\ batch' = Tail(batch)
  /\ UNCHANGED <<bound, started, stop, raft, common, ticker, lastApplied, applier,
                 consuming, leading, calls>>

ConsumerQuits ==
  /\ Spend("quits")
  /\ consuming /\ consuming' = FALSE
  /\ UNCHANGED <<started, stop, raft, common, ticker, lastApplied, applier, batch,
                 received, leading, calls>>

(* The other case of the select, or the batch is out and the mutex taken   *)
(* again: lastApplied moves once for the whole batch.                      *)
ApplierSent ==
  /\ applier = "sending"
  /\ \/ batch # <<>> /\ Stopped /\ applier' = None /\ batch' = <<>>
        /\ UNCHANGED lastApplied
     \/ batch = <<>> /\ applier' = "top" /\ batch' = batch
        /\ lastApplied' = received[Len(received)]
  /\ UNCHANGED <<bound, started, stop, raft, common, ticker, received, consuming,
                 leading, calls>>

-----------------------------------------------------------------------------
(* Spawned RPCs. *)

(* spawn, on the first free place. *)
Spawn(kind, t) ==
  LET c == CHOOSE c \in Free : \A d \in Free : c <= d
  IN  /\ Free # {}
      /\ calls' = [calls EXCEPT ![c] = CallAt("start", kind, t)]

(* The ticker ends with stopCh, or starts an election: becomeCandidate and *)
(* a requestVote goroutine.                                                *)
Ticker ==
  /\ ticker = "running"
  /\ \/ /\ Stopped /\ ticker' = None
        /\ UNCHANGED <<term, role, calls>>
     \/ /\ ~Stopped /\ role # "Leader" /\ term < bound.terms
        /\ term' = term + 1 /\ role' = "Candidate"
        /\ Spawn("vote", term + 1)
        /\ ticker' = ticker
  /\ UNCHANGED <<bound, started, stop, log, first, commitIndex, nextIndex, matchIndex,
                 common, delivery, leading>>

(* entriesFrom, and the size of the JSON of some entries. *)
EntriesFrom(lo, limit) ==
  SubSeq(log, lo, IF Len(log) < lo + limit THEN Len(log) ELSE lo + limit - 1)
BodySize(entries) ==
  LET upTo[i \in 0 .. Len(entries)] == IF i = 0 THEN 0 ELSE upTo[i - 1] + entries[i]
  IN  upTo[Len(entries)]

Leads(t) == role = "Leader" /\ term = t

(* A goroutine's first step: requestVote calls the peer with the arguments *)
(* it was given; replicateTo, with the mutex, ends or builds its own.      *)
CallStarts(c) ==
  LET g == calls[c]
      entries == EntriesFrom(nextIndex, MaxEntriesPerAppend)
  IN  /\ g.pc = "start"
      /\ \/ /\ g.kind = "vote"
            /\ calls' = [calls EXCEPT ![c].pc = "call"]
         \/ /\ g.kind = "append" /\ ~Leads(g.term)
            /\ calls' = [calls EXCEPT ![c] = NoCall]
         \/ /\ g.kind = "append" /\ Leads(g.term)
            /\ calls' = [calls EXCEPT ![c] =
                 [g EXCEPT !.pc = "call", !.prev = nextIndex - 1,
                           !.count = Len(entries), !.size = BodySize(entries)]]
      /\ UNCHANGED <<bound, started, stop, raft, common, ticker, delivery, leading>>

(* The peer's side of a call: it decodes a body up to the limit only, and  *)
(* takes entries that follow one it has, without losing a later one that   *)
(* it shares.  A call of a term that the node has left finds the peer      *)
(* there too, as its vote made the new term.                               *)
Decoded(g) == g.size <= MaxBody
Taken(g) ==
  IF g.kind = "append" /\ Decoded(g) /\ g.term = term /\ g.prev <= common
  THEN Max({common, g.prev + g.count}) ELSE common

(* The peer answers: 400 for a body over the limit, its own term if that   *)
(* is newer, or its vote or verdict.                                       *)
CallServed(c) ==
  LET g == calls[c]
      Reply(ok, seen) ==
        calls' = [calls EXCEPT ![c] = [g EXCEPT !.pc = "replied", !.ok = ok,
                                                !.seen = seen]]
  IN  /\ g.pc = "call"
      /\ \/ /\ ~Decoded(g)
            /\ calls' = [calls EXCEPT ![c] = NoCall]
            /\ common' = common
         \/ /\ Decoded(g)
            /\ \E seen \in g.term + 1 .. bound.terms : Reply(FALSE, seen)
            /\ common' = common
         \/ /\ g.kind = "vote" /\ g.term = term
            /\ \E granted \in BOOLEAN : Reply(granted, g.term)
            /\ common' = common
         \/ /\ g.kind = "append" /\ g.term = term /\ Decoded(g)
            /\ Reply(g.prev <= common, g.term)
            /\ common' = Taken(g)
      /\ UNCHANGED <<bound, started, stop, raft, ticker, delivery, leading>>

(* No answer: the peer is down or stopped (503), the time is up, Stop has  *)
(* cancelled the context.  The peer may have handled the request.          *)
CallFails(c) ==
  /\ calls[c].pc = "call"
  /\ calls' = [calls EXCEPT ![c] = NoCall]
  /\ common' \in {common, Taken(calls[c])}
  /\ UNCHANGED <<bound, started, stop, raft, ticker, delivery, leading>>

-----------------------------------------------------------------------------
(* Becoming leader: the no-op, a fresh kick channel and a leader loop.     *)
(* How far the peer's log agrees with the node's is anyone's guess.        *)
WrongNewKickCh == IF kickCh = 0 THEN term ELSE kickCh
NewKickCh == term
BecomeLeader ==
  /\ role' = "Leader"
  /\ nextIndex' = Len(log) + 1 /\ matchIndex' = 0
  /\ common' \in 0 .. Len(log)
  /\ log' = Append(log, 0) /\ first' = Len(log) + 1
  /\ kickCh' = NewKickCh
  /\ loops' = [loops EXCEPT ![term] = "top"]
  /\ UNCHANGED <<term, commitIndex, kicks, covered>>

(* observeTerm of a newer term. *)
ObserveTerm(t) ==
  /\ t > term
  /\ term' = t /\ role' = "Follower"
  /\ UNCHANGED <<log, first, commitIndex, nextIndex, matchIndex>>

(* A successful reply of replicateTo: matchIndex and nextIndex never move  *)
(* back, and what the peer stored of this leadership is committed.         *)
WrongCommitted(match) == IF match >= first THEN match + 1 ELSE commitIndex
Committed(match) ==
  IF match >= first /\ match > commitIndex THEN match ELSE commitIndex
Success(g) ==
  LET match == Max({matchIndex, g.prev + g.count})
      commit == Committed(match)
  IN  /\ matchIndex' = match
      /\ nextIndex' = Max({nextIndex, g.prev + g.count + 1})
      /\ commitIndex' = commit
      /\ IF commit = commitIndex THEN UNCHANGED applier ELSE Broadcast
      /\ UNCHANGED <<term, role, log, first>>

(* What a goroutine does with its reply, with the mutex.  Only a refusal   *)
(* of the entry before nextIndex goes on, with a replicateTo in its place. *)
WrongNoBackup(g) == nextIndex # g.prev + 1 \/ g.prev <= 1
NoBackup(g) == nextIndex # g.prev + 1 \/ g.prev = 0
Outdated(g) ==
  /\ g.seen <= term
  /\ \/ g.kind = "append" /\ ~Leads(g.term)
     \/ g.kind = "append" /\ ~g.ok /\ NoBackup(g)
     \/ g.kind = "vote" /\ (role # "Candidate" \/ term # g.term \/ ~g.ok)
WrongIgnores(g) == Outdated(g)
Ignores(g) == Stopped \/ Outdated(g)
CallTaken(c) ==
  LET g == calls[c]
      Ends == calls' = [calls EXCEPT ![c] = NoCall]
  IN  /\ g.pc = "replied"
      /\ \/ /\ Ignores(g)
            /\ Ends /\ UNCHANGED <<raft, common, applier, leading>>
         \/ /\ ~Ignores(g)
            /\ ObserveTerm(g.seen)
            /\ Ends /\ UNCHANGED <<common, applier, leading>>
         \/ /\ ~Ignores(g) /\ g.seen <= term /\ g.kind = "vote"
            /\ BecomeLeader
            /\ Ends /\ UNCHANGED applier
         \/ /\ ~Ignores(g) /\ g.seen <= term /\ g.kind = "append" /\ g.ok
            /\ Success(g)
            /\ Ends /\ UNCHANGED <<common, leading>>
         \/ /\ ~Ignores(g) /\ g.seen <= term /\ g.kind = "append" /\ ~g.ok
            /\ nextIndex' = g.prev
            /\ calls' = [calls EXCEPT ![c] = CallAt("start", "append", g.term)]
            /\ UNCHANGED <<term, role, log, first, commitIndex, matchIndex, common,
                           applier, leading>>
      /\ UNCHANGED <<bound, started, stop, ticker, lastApplied, batch, received, consuming>>

-----------------------------------------------------------------------------
(* Requests of others and of the client. *)

(* HandleRequestVote of a newer term. *)
HandleRequestVote ==
  /\ Spend("requests")
  /\ ~Stopped /\ term < bound.terms
  /\ ObserveTerm(term + 1)
  /\ UNCHANGED <<started, stop, common, ticker, delivery, leading, calls>>

(* HandleAppendEntries of the leader of this or the next term, who keeps   *)
(* what is committed (CommittedPrefixKept of Raft), may replace the rest   *)
(* by an entry of its own, a no-op or a command, and may commit some or    *)
(* all of it: min(LeaderCommit, last new entry).                           *)
HandleAppendEntries ==
  /\ Spend("requests")
  /\ ~Stopped
  /\ \E t \in {term, term + 1} \cap 1 .. bound.terms :
       /\ t = term => role # "Leader"
       /\ term' = t /\ role' = "Follower"
  /\ \/ log' = log
     \/ \E k \in commitIndex .. Len(log), size \in Size \cup {0} :
          log' = Append(SubSeq(log, 1, k), size)
  /\ \/ UNCHANGED <<commitIndex, applier>>
     \/ commitIndex' \in commitIndex + 1 .. Len(log') /\ Broadcast
  /\ UNCHANGED <<started, stop, first, nextIndex, matchIndex, common, ticker,
                 lastApplied, batch, received, consuming, leading, calls>>

(* kick: a send that a full channel drops. *)
Kick == kicks' = kicks \cup {kickCh}

Propose ==
  /\ Spend("proposals")
  /\ ~Stopped /\ role = "Leader"
  /\ \E size \in Size : log' = Append(log, size)
  /\ Kick
  /\ UNCHANGED <<started, stop, term, role, first, commitIndex, nextIndex, matchIndex,
                 common, ticker, delivery, loops, kickCh, covered, calls>>

-----------------------------------------------------------------------------
(* leaderLoop: a round of replicateTo, then the wait for stopCh, the       *)
(* heartbeat ticker or a kick.                                             *)
LeaderLoop(t) ==
  /\ loops[t] = "top"
  /\ \/ /\ Stopped \/ ~Leads(t)
        /\ loops' = [loops EXCEPT ![t] = None]
        /\ UNCHANGED <<calls, covered>>
     \/ /\ ~Stopped /\ Leads(t)
        /\ Spawn("append", t)
        /\ loops' = [loops EXCEPT ![t] = "select"]
        /\ covered' = Len(log)
  /\ UNCHANGED <<bound, started, stop, raft, common, ticker, delivery, kickCh, kicks>>

Heartbeat(t) ==
  /\ loops[t] = "select"
  /\ \/ /\ Stopped /\ loops' = [loops EXCEPT ![t] = None]
        /\ UNCHANGED kicks
     \/ /\ loops' = [loops EXCEPT ![t] = "top"]
        /\ UNCHANGED kicks
     \/ /\ t \in kicks /\ kicks' = kicks \ {t}
        /\ loops' = [loops EXCEPT ![t] = "top"]
  /\ UNCHANGED <<bound, started, stop, raft, common, ticker, delivery, kickCh, covered, calls>>

-----------------------------------------------------------------------------
Next ==
  \/ Start \/ Stop \/ StopReturns
  \/ ApplierTop \/ Deliver \/ ApplierSent \/ ConsumerQuits
  \/ Ticker
  \/ \E c \in Call : CallStarts(c) \/ CallServed(c) \/ CallFails(c) \/ CallTaken(c)
  \/ HandleRequestVote \/ HandleAppendEntries \/ Propose
  \/ \E t \in Term : LeaderLoop(t) \/ Heartbeat(t)

(* Every goroutine that can go on does, every call comes to an end, and a  *)
(* peer that is called again and again answers again and again; nothing    *)
(* makes anyone call Start, Stop or Propose, or the ticker start an        *)
(* election.  The consumer receives until it quits.                        *)
Fairness ==
  /\ WF_vars(StopReturns)
  /\ WF_vars(ApplierTop) /\ WF_vars(Deliver) /\ WF_vars(ApplierSent)
  /\ WF_vars(Stopped /\ Ticker)
  /\ \A c \in Call :
       /\ WF_vars(CallStarts(c)) /\ WF_vars(CallTaken(c))
       /\ WF_vars(CallServed(c) \/ CallFails(c))
       /\ SF_vars(CallServed(c))
  /\ \A t \in Term : WF_vars(LeaderLoop(t)) /\ WF_vars(Heartbeat(t))

Spec == Init /\ [][Next]_vars /\ Fairness

-----------------------------------------------------------------------------
TypeOK ==
  /\ started \in BOOLEAN /\ stop \in {"no", "waiting", "returned"}
  /\ term \in 0 .. MaxTerm /\ role \in {"Follower", "Candidate", "Leader"}
  /\ log \in Seq(Nat)
  /\ first \in Nat \ {0} /\ commitIndex \in 0 .. Len(log)
  /\ lastApplied \in 0 .. commitIndex
  /\ nextIndex \in Nat \ {0} /\ matchIndex \in Nat /\ common \in Nat
  /\ ticker \in {None, "running"}
  /\ applier \in {None, "top", "waiting", "sending"} /\ batch \in Seq(Nat)
  /\ loops \in [Term -> {None, "top", "select"}]
  /\ kickCh \in 0 .. MaxTerm /\ kicks \subseteq Term
  /\ calls \in [Call -> [pc : {None, "start", "call", "replied"},
                         kind : {"vote", "append"}, term : 0 .. MaxTerm, prev : Nat,
                         count : Nat, size : Nat, ok : BOOLEAN, seen : 0 .. MaxTerm]]
  /\ received \in Seq(Nat) /\ consuming \in BOOLEAN /\ covered \in Nat

(* The consumer gets the committed entries by index, each once and none    *)
(* left out, over all batches of the applier and whatever commits while a  *)
(* batch is on its way; and lastApplied is what it got whenever the        *)
(* applier is not amid a batch.                                            *)
DeliveredInOrder ==
  /\ \A i \in 1 .. Len(received) : received[i] = i
  /\ Len(received) <= commitIndex
  /\ applier \in {"top", "waiting"} => lastApplied = Len(received)

(* A commit is never overlooked: an applier that waits has nothing to      *)
(* deliver.  Every change of commitIndex must broadcast.                   *)
NoMissedWakeup == applier = "waiting" => ~Stopped /\ lastApplied = commitIndex

(* The leader's loop never sleeps on a proposal: when it waits with no     *)
(* kick pending, its last round of replicateTo was started with all of the *)
(* log there.  Propose's kick must survive a busy loop and loops of older  *)
(* leaderships.                                                            *)
KickNotLost ==
  role = "Leader" /\ ~Stopped =>
    /\ loops[term] # None
    /\ loops[term] = "select" /\ term \notin kicks => covered = Len(log)

(* After Stop is called no goroutine changes the Raft state, and once Stop *)
(* has returned nothing more reaches the consumer.                         *)
StoppedForGood ==
  [][/\ Stopped => UNCHANGED raft
     /\ stop = "returned" => UNCHANGED <<received, calls, loops>>]_vars

(* Stop returns: whatever the goroutines are at, each of them notices. It  *)
(* does not need the consumer to receive.                                  *)
StopEnds == stop = "waiting" ~> stop = "returned"

(* What a leader has in its log reaches its consumer, unless it stops      *)
(* leading, stops, or the consumer quits: over lost calls, replies in any  *)
(* order and a peer whose log has to be searched back.                     *)
ProposedDelivered ==
  \A i \in Index :
    role = "Leader" /\ i <= Len(log)
      ~> Len(received) >= i \/ role # "Leader" \/ Stopped \/ ~consuming

=============================================================================

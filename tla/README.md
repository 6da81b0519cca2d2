# A verification of the fraud scoring platform

TLA+ specifications of `src/raft`, the consensus library of the repository, and of
its score server, with model-checking runs (TLC) and machine-checked proofs
(TLAPS).

## The system

The repository has two parts that do not call each other yet.

* **`src/raft`**, a Raft implementation meant to replicate the model registry.
  A `Node` has one mutex. Its goroutines are a ticker that starts elections
  (`election.go`), one goroutine per outgoing RPC, a loop per leadership that
  sends heartbeats and reacts to kicks (`replication.go`), and an applier that
  delivers committed entries on a channel (`apply.go`). `persist.go` saves term,
  vote and log through the `Storage` interface before any reply that depends on
  them; `filestorage.go` is the implementation on disk; `httptransport` carries
  RPCs as HTTP POSTs.
* **The score server** (`cmd/score-server`, `internal/httpapi`,
  `internal/scoring`, `internal/model`, `internal/config`): a stateless HTTP
  service that validates a JSON request strictly and scores it with a model
  loaded at start. `training/*.py` are offline scripts.

What is hard to test is mostly in `src/raft`: replies that are used after the mutex
was given up, crashes between saves, messages that are lost, repeated and
overtaken, goroutines that have to wake up, to go on and to end. In the score
server it is the agreement of two passes over one request body, and the race of
requests, signals and timers at the exit.

## Modules

| Module | Models | State and actions |
|---|---|---|
| `Raft` | `node.go`, `election.go`, `role.go`, `replication.go`, `log.go`, `persist.go`, `message.go` | a cluster: what each node has in memory and on disk, its role and progress, messages in the network; one action per handler and per half of an RPC |
| `ReplicatedLog` | the use of `applyCh` by the whole cluster | the abstract promise: one sequence of committed entries, of which each node has learnt a prefix; `Commit`, `Learn`, `Stop`, `Start`; a node that has stopped has forgotten what it had learnt, one that runs learns only more |
| `RaftLedger` | | `Raft` as an implementation of `ReplicatedLog` |
| `RaftInv`, `RaftLogInv` | | the inductive invariants used by the proofs |
| `RaftPanic` | `persist.go:109-118` under `httptransport.Handler` | `Raft` plus saves that fail inside a handler |
| `Storage` | the interface in `persist.go:23-35` | the abstract promise: `Load`, `Save`, its success and failure, a crash |
| `FileStorage` | `filestorage.go` | each system call of `Save` as an action; the page cache and the disk |
| `NodeLoops` | `node.go` (`Start`, `Stop`, `Propose`, `kick`, `spawn`), `apply.go`, `leaderLoop`, `replicateTo`, `requestVote`, `httptransport` | the goroutines of one node, the consumer of `applyCh` and the outcome of each call |
| `ScoreAPI` | `internal/httpapi`, `internal/scoring`, `internal/model` | no state: the answer to a request as operators, and next to it what `Readme.md` promises |
| `ScoreServer` | `cmd/score-server`, `internal/config` | the process: start-up, connections and requests, the `select`, the exit. Uses `ScoreAPI` for the answers |
| `MCRaft`, `MCRaftPanic`, `MCNodeLoops`, `MCScoreServer` | | the values of the constants: elections, bounds, requests; reachable states to start from |
| `RaftLemmas`, `RaftProofs`, `RaftLogSteps`, `RaftLogCommits`, `RaftLogProofs`, `NodeLoopsProofs`, `ScoreServerProofs`, `FileStorageProofs` | | proofs |

### How `Raft` corresponds to the code

* Every handler runs under `Node.mu`, so it is one action, with everything it
  calls: `HandleRequestVote` includes `observeTerm`, `becomeFollower` and the
  saves; `BecomeLeader` includes the no-op, `persist` and `advanceCommitIndex`.
* `requestVote` and `replicateTo` release the mutex around the RPC. The first
  half is `ElectionTimeout` or `ReplicateTo`; the second is
  `RequestVoteReplied`, `AppendSucceeded`, `AppendRefused` or
  `ReplyWithNewerTerm`. A reply carries its request, as the goroutine that waits
  for it does.
* The network is a set of requests and a set of replies per kind of RPC. A
  message that is never received is lost, any order is possible. `RequestVote`
  is sent once per peer and election. `AppendEntries` is repeated by heartbeats,
  kicks and retries, so another copy of a handled request or used reply may stay
  (`Room`).
* `boot` numbers the incarnations of a process: a reply to a goroutine of a dead
  one goes nowhere.
* `disk` is what the `Storage` holds. `Persist` copies memory to it.
  `CrashBetweenSaves` stops a handler that saves twice after its first save.
  `Restart` is `New`: `Load` and `restoreState`.
* Time is left out: an election deadline may pass at any moment, a heartbeat may
  be sent at any moment. This allows every timing the code could see.
* Terms and indexes are `uint64` in the code and naturals here; a term grows by
  one per election, and no run of a cluster gets near 2^64.
* `ballots`, `leaders` and `committed` are history: they record what happened so
  that properties can speak of it, and no action reads them.

### How `FileStorage` corresponds to the code

`Save` is `Open`, `Write`, `Sync` (all of `writeAndSync`), `Rename`, `SyncDir`.
Each may fail (`SaveFails`), and the process or the machine may stop in between
(`Crash`). The file system is external and modelled from its use: a rename is
atomic; data and directory changes are certain to survive a power failure only
once synced; a file whose data was not synced may hold part of it; a dead process
loses nothing of the page cache. `onDisk` is the set of contents that `state`
may have after a power failure. The state saved is opaque: that gob encodes it
and decodes it again is assumed, that it cannot decode part of it is not.
`quiet` is history.

### How `NodeLoops` corresponds to the code

`Raft` has the whole cluster and lets every handler and every half of an RPC run
at any time. `NodeLoops` has one node and asks whether they do run: who wakes
whom, who waits for whom, what ends.

* What a goroutine does between taking and giving up `Node.mu` is one action. It
  gives it up in `applyCond.Wait` (`applier = "waiting"`), while it sends on
  `applyCh`, in the `select` of `leaderLoop`, and around an RPC.
* `calls` are the goroutines of `requestVote` and `replicateTo`: `start`, `call`
  (the RPC is under way), `replied`. `CallServed` is an answer of the peer or a
  400, `CallFails` everything that `call` returns an error for. A failed call may
  have been handled.
* The wait group is not a counter: `StopReturns` asks that no goroutine is left.
* A kick channel is named by its term, `kicks` are the full ones, so that a kick
  can reach the wrong loop if the channel is the wrong one.
* The node and one peer are a quorum. A third member appears only as the sender
  of requests (`HandleRequestVote`, `HandleAppendEntries`); the goroutines that
  call it do what those do whose calls fail. Logs agree up to a last common entry
  and nowhere after it, which is `LogMatching` of `Raft`, so the peer's log is the
  number `common`; of an entry only the size counts. What a call leaves with the peer
  is `Taken`: a request whose entries the peer has already cuts nothing off.
* Another leader's request may leave the log alone, or replace what is not committed
  by an entry, a no-op or a command, and may commit any part of the log.
* `covered` is history: the log's length when the leader's loop last started a
  round. `bound` holds what is left of the bounds; only guards read it.

### How `ScoreAPI` and `ScoreServer` correspond to the code

* A body is a sequence of JSON tokens. Commas and colons carry nothing: a body
  where one is missing or misplaced has a token `Bad`. The
  recursive function `WalkJSON` follows the three functions of `score.go` that call
  one another (`Calls` are their arguments), with the position in the body for the decoder. `Decode` is `encoding/json` as the handler uses it:
  names without regard to case, the last of equal keys wins, null is as good as
  absent, out-of-range numbers refused.
* Floats are integers up to `FMax`, two infinities and NaN; products and sums
  overflow like theirs. The sigmoid is a function of the logit, and left out.
  `validate` refuses a model whose parameters are not finite (`FiniteParameters`).
* An answer is the status and, for a score, the logit. Messages are left out. A score
  that cannot be encoded is a 500 of `writeJSON` (`WriteJSON`). The 503 of `/readyz`
  is not there: it is for a server without a model, and `scoring.New` accepts none.
* `Promised` is written from `Readme.md` ("Validation", "Errors") and shares with
  the handler's side only the JSON grammar.
* The process goes through `config`, `load`, `listen`, `serving`, `shutdown`,
  `exited`. `net/http` is external: it reads a header, runs the handler, keeps
  the connection, and closes those that miss a deadline. What a handler leaves of a
  body it reads itself before it sends the answer, so every request passes `ReadBody`,
  also one that is answered 415. `Shutdown` closes idle
  connections, does not take one that was never used for idle, and waits for the
  others.
* Time is in ticks of 5 s, of which main.go's timeouts are multiples
  (1, 2, 1 and 1, docker's grace period 2). A tick does not pass a deadline or a
  step that waits for nobody.

## Runs

| Run | Question | Result |
|---|---|---|
| `raft_election` | three nodes, elections by each in two terms, one crash: one leader per term, true vote counts, no vote taken back | holds |
| `raft_replication` | a leader and its successor replicate two entries over a network that loses, repeats and reorders, and a node leads again while an answer to its earlier leadership is under way: true `matchIndex`, progress that falls only by one and on a refusal, acknowledged entries on disk, `nextIndex` in the log, `leaderID` elected, committed prefixes kept | holds |
| `raft_commit` | logs that diverged over two terms, an old leader that returns, a rival, one crash: log matching, committed entries on a quorum of disks, leader completeness, state machine safety; does the cluster implement `ReplicatedLog`? | holds |
| `raft_single` | a cluster of one, three elections, three crashes | holds |
| `panic_votes` | a failing save in a handler: one leader per term, no vote taken back | holds |
| `panic_log` | a failing save in a handler: is what was acknowledged on disk? | violated |
| `panic_term` | a failing save in a leader's `becomeFollower`: state machine safety? | violated |
| `node_loops` | the goroutines of a node: delivery in order and once, no missed wake-up, no lost kick, nothing after `Stop`; `Stop` returns, a leader's entries are delivered | holds |
| `node_limit` | commands that fit the body limit only one by one: are they delivered? | violated |
| `score_server` | is a request answered as `Readme.md` says, never with 500; is exit status 0 clean, does a signal end the process, and in time? | holds |
| `file_crash` | does `FileStorage` implement `Storage`? | holds |
| `file_kill` | do two `Load`s with no `Save` between them agree? | violated |

### The bounds

Three nodes are the smallest cluster in which a quorum is not everybody.
`Campaigns` lists the elections that may start, as pairs of node and term; it
bounds terms without limiting who may do what in them.

* `raft_election` lets everyone run in terms 1 and 2, so elections split, overlap
  and leave late votes to the next one. No entry is proposed and no AppendEntries
  is sent there (`MaxLogLen`, `MaxInFlight` 0); the no-ops of the leaders still
  make logs differ.
* `raft_replication` starts when n1 has just been elected, n3's vote still under
  way, and lets n2 run in term 2. Two AppendEntries messages at a time suffice
  to overtake and to repeat. It also starts when n1 has led term 3 and n2 leads term
  4, with an answer that n3 gave n1 in term 3 still under way, about entries that n1
  no longer has, and lets n1 run in term 5: a leader that took this answer would
  count entries that n3 does not share. 1,464,261 states.
* `raft_commit` starts from the disks that two leaders without followers leave
  behind, the first part of the history in which an entry of an older term
  reaches a quorum. It then lets n1 lead term 3 and n2 run in term 4. With one
  entry per message, the old entry is replicated before the new one, which is
  the case the rule in `advanceCommitIndex` is for.
* `raft_single` reaches all its states with four entries and three crashes.
* `panic_votes` has two rivals in one term, one failing save and one crash:
  what it takes to forget a vote.
* `file_crash` and `file_kill` are not bounded: three states to save, any number
  of saves, failures and crashes.
* `panic_term` starts when n1 has just been elected and lets n2 run in term 2, with
  one failing save.
* `node_loops` is a union of six small behaviours, each with its own bounds
  (`Behaviours`), since one with all of them at once is out of reach: a loop left
  over from an older leadership (three terms); `Stop` amid elections and calls, or
  with a consumer that has quit; entries of another leader; two calls at a time,
  also on a log that the peer may not share. 115,253 states.
* `node_limit` has two commands of size 1 and a body limit of 1.
* `score_server` has three scenes. `documents`: every body that is one token
  replaced, left out, inserted, or a stretch repeated or dropped away from three
  good or nested ones, about 2,000, on a model with a small and one with steep
  weights. `life`: two connections, three requests, good and bad addresses and
  model files, a signal, a failing `Serve`, slow clients, time. `kinds`: the other
  routes, a wrong content type, a body over the limit.

`CHECK_DEADLOCK` is off in the Raft runs: once the bounded elections, crashes and
proposals are used up, a cluster without a leader has nothing left to do. It is
off in `node_loops` and `score_server`: a stopped node and an exited process have
no further step.
Symmetry is used only in `raft_election`, whose initial state and bounds treat
all nodes alike; its action property is symmetric too, and no liveness is
checked with it.

### Fairness

Only the liveness properties use it; everything else holds without.

* `NodeLoops`: a goroutine that can go on does (weak fairness of each of its
  actions), as the Go scheduler and mutex see to. Every call comes to an end, as
  `RPCTimeout` is on its context. A peer that is called again and again answers
  again and again (strong fairness of `CallServed`), which is an assumption on the
  network and the peer and not on the code; without it no leader can promise
  anything. The consumer receives until it quits. Nobody has to call `Start`,
  `Stop` or `Propose`, and no election has to happen.
* `ScoreServer`: main goes on when it can, time passes, deadlines of `net/http`
  fire, a handler that has its request answers. No client and no signal has to
  do anything.

### What the violations show

* `panic_log`: a failing `Save` panics, and the server goroutine of `net/http`
  recovers panics. The follower keeps the entries in memory only. When the leader
  retries, the follower finds them in its log, saves nothing and answers success.
  The comment on `persist` says that such a node "must not keep taking part in
  the cluster". In the node's own goroutines (ticker, RPC replies) the panic does
  end the process.
* `panic_term`: `becomeFollower` sets the term, saves, and sets the role last. If
  the save fails in a handler, a leader stays `Leader` in a term in which another
  node is then elected. Its loops end, as they compare terms
  (`LoopsKeepToTheirTerm`), but `Propose` appends an entry of that term. The elected
  leader's entry at this index has the same term, so the node takes it for the one
  it has and acknowledges it. The two nodes then apply different commands there.
* `node_limit`: entries are batched by number, and the body limit is on bytes. A
  refused batch is retried as it is, for ever, and blocks what comes after it.
  `maxBodyBytes` is commented "a full AppendEntries batch fits easily", but commands
  have no size limit.
* `file_kill`: the process is killed after the rename and before the directory
  sync, restarts, and loads the new state from the page cache. A power failure
  may then bring the old state back. `LoadStaysAfterPowerFailures` proves that
  both kinds of stop are needed.

## Proofs

All theorems hold for every value of the constants: clusters of any size, any
elections, any number of crashes and messages. The assumptions are
`ConstantsAssumption` (a finite, non-empty cluster; `Nobody` is no node; at least
one entry per message), `FailuresAssumption` (the bound on failing saves is a natural
number), `LoopsAssumption` (sizes and bounds are natural numbers),
`FileAssumption` (`NoFile` and `Partial` are not states), and for the score server
`TokenAssumption`, `APIAssumption`, `TimeoutAssumption` and `SceneAssumption` (a JSON
token is of one kind; numbers in a document and in a model file are finite floats, or
the decoder refuses them; the timeouts are ordered as in main.go, that of `Shutdown`
below docker's grace period).

**Raft, elections** (`RaftProofs`): `TypeCorrect`, `NextIndexStaysInLog`,
`NamedLeaderElected`, `OneLeaderPerTerm`, `VotesAreKept`, `CountsAreTrue`.

`ElectionSafety` is not inductive: nothing in it says that a second leader of a
term would need votes that are already given. The invariant `Inv` of `RaftInv`
has two layers.

1. `StructureInv`: memory and disk of a running node agree (`Synced`); who leads
   is recorded as elected and who runs is not (`LeadersKnown`); every
   AppendEntries comes from an elected leader and stays within its log while it
   leads (`AppendsFromLeaders`); `nextIndex` stays in the log; a named leader was
   elected.
2. `ElectionInv`: a node's disk remembers its last ballot and there is one ballot
   per node and term (`BallotsKept`); a granted vote in the network was saved
   before (`GrantsSaved`); one RequestVote call is one message (`CallsOnce`);
   and what a candidate has counted is a set of nodes that voted for it and from
   which it has nothing more to expect (`CountsTrue`), so that no vote counts
   twice.

Two leaders of a term then have two quorums of ballots. Two quorums have a node
in common (`QuorumsMeet`), and that node has one ballot.

`RaftLemmas` has the facts about the operators on logs and proves the types;
`RaftProofs` says what a step does to role, log, disk and votes, and that both
layers are kept.

**Raft, elections when saves fail** (`RaftProofs`): `OneLeaderWhenSavesFail`,
`VotesKeptWhenSavesFail`, `StatusTrueWhenSavesFail`, all about `PanicSpec` of
`RaftPanic`: any number of saves fail inside handlers, before or after the file is
replaced, and the node goes on with what it has in memory. The log guarantees are
lost then (`panic_log`, `panic_term`), the election guarantees are not, and why is
not obvious. `Synced` is false, a leader may be in a term in which it was not elected,
and a count may belong to an older term than the node is in. `PanicInv` keeps what is
left of each:

* `Saved`: the disk of a running node is not ahead of its memory, and in one term it
  has no other vote than memory, though it may have none. A vote that is only in
  memory was never answered, so a crash that forgets it takes nothing back;
* `LeadersSaved`: a disk knows the terms its node led, and who still runs was not
  elected. That a leader was elected in its own term is no longer said. One that was
  not sends nothing (`LoopsKeepToTheirTerm`);
* `CountsSound`: what a candidate counted was given to it in its term, or it is in a
  term for which it never asked for votes and will hear of none.

The steps of `Raft` keep this weaker invariant too, so the lemmas on them are stated
with it and serve both specifications; `HandlerPanicsStep` adds the three handlers that
panic.

**Raft, progress** (`RaftLogProofs`): `ProgressIsKept`. While a node leads a term, its
`matchIndex` for a peer never falls, and `nextIndex` falls only by one and on a refusal
of the entry before it. `RaftLemmas` has what each step does to both
(`SuccessAdvances`, `SelfAdvances`); no invariant but the types is needed.

**Raft, logs** (`RaftLogProofs`): `LogsMatch`, `CountedIsOnDisk`,
`AcknowledgedIsKept`, `CommittedIsDurable`, `LeadersAreComplete`,
`StateMachinesAgree`, `CommittedPrefixIsKept`. They hold under everything the
cluster may do in `Raft`: any number of crashes, also between two saves of one
handler, and AppendEntries that are lost, repeated and overtaken.

None of these is inductive, and no invariant over the variables alone is handy:
the argument is about logs of leaders that may have crashed since. `LogInv` of
`RaftLogInv` adds to `Inv` that there are three histories which explain the state
(`Explained`): `H[t]`, the log of the leader of term `t`; `C[n][t]`, the log with
which `n` asked for votes in `t`; `A[v][t]`, how much of `H[t]` node `v`
acknowledged in `t`. They explain it when

* up to an entry of term `t` every log is `H[t]`, and its terms do not decrease
  (`LogsGrounded`);
* the histories belong to whom they should: `H` to the elected, `C` to candidates
  and to the vote requests in the network (`Owners`);
* every AppendEntries carries a section of `H` of its term (`Sections`);
* what a node acknowledged in its term is in its log, and leaders count nothing
  else (`Acknowledged`);
* an entry of term `t` that a quorum may still acknowledge is in the log of every
  later leader, of every node that acknowledged it, and of every candidate that
  such a node voted for later (`Preserved`). "May still": no quorum has moved to a
  later term without acknowledging it (`Dead`);
* a committed entry is at or below one of its leader's own term that a quorum
  acknowledged, and a commit index covers nothing else (`Commits`).

Every step of a node moves the histories at most at one node and one term
(`Successors`), and `RaftLogSteps`, `RaftLogCommits` and the first part of
`RaftLogProofs` show that the moved ones explain the next state. The core is `PreservedInLeaders`: a
new leader has a quorum of votes. If the entry is not `Dead`, one of the voters
acknowledged it before it voted, so the candidate's log has it. That the voter's
log is no more up to date than the candidate's turns into the entry itself by
`UpToDateHolds`. That `advanceCommitIndex` commits by counting only entries of the
current term is what `NewAnchor` needs. `CommittedPrefixIsKept` follows since a
merge cuts the log only where it differs from the leader's, and the leader has
what the node knows to be committed (`KnownMerged`).

**Raft as one log** (`RaftLogProofs`): `RaftImplementsLog`, that is
`Spec => Abstract!Spec`. This is what a user of the library relies on: however many
nodes, leaders and crashes there are, `applyCh` shows one sequence. `chosen` is what
was committed, in the order of its indexes, and `learnt[n]` the log of `n` up to its
commit index. What was committed has no gaps (`Gapless`), since a commit index moves
over everything below it (`CommitMoves`). `StateMachineSafety`, before the step and
after it, then makes `chosen` a sequence that only grows at its end and each
`learnt[n]` a prefix of it (`ChosenIs`). A step of a leader that raises its commit
index is `Commit` or, when all of it was already committed, `Learn`; a follower that
hears of a higher one does `Learn`; `running` is `up`, a crash is `Stop` and a restart
`Start`; all else is a stutter (`NodeStepsLog`). A node that runs on forgets nothing
(`SelfRuns`), so what `applyCh` has shown is taken back by a stop only.

**NodeLoops** (`NodeLoopsProofs`): `LoopTypesCorrect`, `DeliveryInOrder`,
`NoWakeupMissed`, `NoKickLost`, `StopIsFinal`, for any number of terms, proposals,
goroutines and requests. None of the five is inductive. `LoopsInv` adds

* what the applier holds (`ApplierInv`): amid a batch, what is received and what is
  still to be sent are together the indexes up to some point that is committed. An
  applier outside of a batch has `lastApplied` where the consumer is. Every step
  outside the applier either leaves `commitIndex` and `stopped` alone or broadcasts
  (`ApplierFrame`);
* that the kick channel of a leader is the one of its term (`LeaderInv`);
* that no goroutine is left when `Stop` has returned (`ReturnedInv`), so that no
  action is enabled that could change anything (`NothingAfterStop`);
* where the indexes point (`IndexInv`). What is applied is committed and
  what is committed is in the log. This is not clear, as `HandleAppendEntries` cuts
  the log of a node whose `replicateTo` goroutines still wait for answers. A late
  answer counts only in the term of its call. In that term the node still leads, so
  its log has only grown since, and what the call sent is in it (`InLog`).

That the size of a body is a number (`BodySizeType`) is an induction over its entries,
done by taking the least length at which it fails (`LeastNumber`).

**ScoreServer** (`ScoreServerProofs`): `ServerTypes`, `ContentNeverFailsServer`,
`CleanExits`, `GoneWithinGrace`, `RequestsAnsweredAsPromised`, for any connections,
requests, model files and
timeouts. `ServerInv` adds to the types that a model that is served has passed
`validate` (`ModelInv`), that only a signal leads to `Shutdown` and only the exit cuts
requests (`ExitInv`), and that after a signal time passes only in `Shutdown`, under
its timer (`ClockInv`).

**ScoreAPI** (also `ScoreServerProofs`): `LogitExact`, `ScoreIsExact`,
`TokenPassIsExact` and `HandlerKeepsPromise`, on which `RequestsAnsweredAsPromised`
rests. They are about every body, of any length and any nesting.

* What `Model.Score` adds up is the exact logit, or not finite if anything on the way
  was out of range (`LogitExact`). An infinity could meet its opposite, but the sum is
  NaN then and stays so. The answer is therefore 400 in just these cases
  (`ScoreIsExact`), and never one that `writeJSON` cannot encode (`ScoreIsWritten`).
  "Exact" is said of integers: range, overflow and NaN are those of floats, the
  rounding of a `float64` sum is not in the model. Both are inductions over the
  features, from the first one at which the sum with overflow and the exact one differ.
* The token pass accepts just the scalars and the objects of the grammar that have no
  key twice in any object and no field but the two at the top (`TokenPassIsExact`).
  The grammar (`WellFormed`, `ProperObject`) speaks of the whole document, by the depth
  of its tokens and by which bracket each is directly inside of; the three functions
  of `score.go` see one token at a time and a set of keys. What they
  do from a position is put in the grammar's terms. `Span(d, p, k)`: the value at `p`
  ends before `k`, where the depth is first the same again. `Region(d, o, p)`: at `p`
  the next child or the end of the bracket at `o` is due. `GoodTokens(d, p, k)`: each
  token keeps the rules. Then `ValueOK`, `ObjectOK` and `ArrayOK` say that the
  function gives `k` just when there is such a span and its tokens are good, the set
  of seen keys being that of the keys of `o` before `p`. `ValueStep`, `ObjectStep` and
  `ArrayStep` show each of them from the others further on, and `WalkOK` is the
  induction, from the last position at which one fails.
* That the recursion ends is part of this: a function that satisfies the equations of
  `WalkJSON` has to exist before anything can be said of it. It is built from the end
  of the document backwards (`WalkBack`, `WalkExists`), as every call is of a later
  position or, from an array, of a value at the same one (`ConsumeOnward`,
  `ConsumeLocal`).
* In an object with an even number of children every key is followed by its value and
  every value follows a key (`KeyHasValue`, `ValueHasKey`); with no key twice it does not
  matter which of equal keys the decoder takes (`LookupIs`); what it takes for the two
  fields is what the document has under these names (`DecodeIs`); and `vectorFor` finds
  no error just when the names are those of the model and the values numbers
  (`FeaturesAre`). The decoder also refuses a number that is out of range anywhere:
  with only numbers inside `features` there is none left to refuse (`TwoObjects`).
* `Promised` adds the terms as a set, `Model.Score` in the model's order:
  `SumIs` shows that the fold over the set comes to the same.

**FileStorage** (`FileStorageProofs`): `FileTypeCorrect`, `FileNeverTorn`, the refinement
`FileKeepsPromise` (`Spec => Promise!Spec`, where `stored` is the set of states
that `Load` may find now or after a power failure) and
`LoadStaysAfterPowerFailures`. The invariant is `NeverTorn`: `state.tmp` is whole
and synced before it is renamed, so no content that `state` may take is partial.

**Only model-checked**: the liveness properties
`StopEnds`, `ProposedDelivered` and `SignalEnds`, which rest on fairness.

## Not modelled

* `lastIndexOfTerm`, `compactTo` and `reset` of `log.go`: no code uses them.
* `Status` and the `String` methods: they only read. `MemoryStorage` of
  `persist.go` is a variable; `Storage` is what it promises.
* The sigmoid and the rounding of sums: floating-point arithmetic.
* Which of several wrong features a 400 names, and all other wording.
* The parent directory of the storage directory, which `NewFileStorage` does not
  sync: it is outside the file system that `FileStorage` models.
* Elections that have to succeed: with randomized deadlines that is a matter of
  probability, and no fairness that the code gives implies it.
* What a second caller of `Stop` may expect (it returns at once), and the answer
  to a request whose body took longer to read than `writeTimeout` (it cannot be
  sent): the model has both, and no document of the repository to hold them to.
* A lower end for `nextIndex`. Refusals that arrive late can move it down again, one
  by one, even to `matchIndex` and below, as each is compared with `nextIndex` only.
  It costs a repeated transfer. The comment "never move backwards" in `replicateTo` is
  about successes; `ProgressKept` says what holds of both, and `NextIndexInLog` and
  `ProposedDelivered` hold with it.
* A wait of `Stop` with the mutex held: what is done under the mutex is one action.
* `internal/testfixtures` and `training/*.py`: test data and offline scripts.

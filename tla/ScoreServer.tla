----------------------------- MODULE ScoreServer -----------------------------
(***************************************************************************)
(* The score-server process: start-up, requests on its connections, and    *)
(* the way to its exit, as main.go has it.  What a request is answered is  *)
(* ScoreAPI's.                                                             *)
(*                                                                         *)
(* The time is in ticks of 5 s, the least of main.go's timeouts; whatever  *)
(* is not a wait for a client or for a timer takes none.                   *)
(***************************************************************************)
EXTENDS ScoreAPI

CONSTANTS
  Conn,             \* connections
  Scenes,           \* name -> what a behaviour is about: the addresses, model
                    \* files, connections and requests, how many of these, and
                    \* whether time passes, signals come and Serve may fail
  ReadHeaderTimeout, ReadTimeout,   \* in ticks
  WriteTimeout,
  ShutdownTimeout,
  Grace             \* docker stop's, before it kills

(* main.go's constants: a header has less time than the whole request, and *)
(* "shutdownTimeout < docker stop's 10s grace period".                     *)
ASSUME TimeoutAssumption ==
  /\ {ReadHeaderTimeout, ReadTimeout, WriteTimeout, ShutdownTimeout, Grace} \subseteq Nat
  /\ ReadHeaderTimeout <= ReadTimeout
  /\ ShutdownTimeout < Grace

(* Bodies are any tokens, and artifacts whatever the file may hold. *)
ASSUME SceneAssumption ==
  \A s \in DOMAIN Scenes :
    /\ Scenes[s].conns \subseteq Conn /\ Scenes[s].requests \in Nat
    /\ \A r \in Scenes[s].bodies : r.body \in Seq(Token)
    /\ \A m \in Scenes[s].models : Unmarshalled(m)

VARIABLES
  scene,        \* a name of Scenes
  phase,        \* where run() is
  exit,         \* the exit status, 0 or 1
  addr, model,  \* HTTP_ADDR; the artifact at MODEL_PATH
  signalled,    \* SIGINT or SIGTERM has come
  since,        \* ticks since then
  timer,        \* ticks since Shutdown was called
  serve,        \* the Serve goroutine
  conns,        \* connection -> its state, its last request and the age of
                \* that, and whether the handler's answer to it was sent
  sent,         \* requests so far
  cut           \* history: an accepted request lost its connection to the exit

proc == <<phase, exit, addr, model, serve>>
clock == <<signalled, since, timer>>
vars == <<scene, proc, clock, conns, sent, cut>>

NoRequestYet == [path |-> "", json |-> FALSE, large |-> FALSE, body |-> <<>>]
NoConn == [st |-> "none", req |-> NoRequestYet, age |-> 0, answered |-> FALSE]
InFlight(c) == conns[c].st \in {"reading", "scoring"}
Busy(c) == InFlight(c) \/ conns[c].st = "new"
Running == phase \in {"serving", "shutdown"}

Init ==
  /\ scene \in DOMAIN Scenes
  /\ phase = "config" /\ exit = 0
  /\ addr \in Scenes[scene].addrs /\ model \in Scenes[scene].models
  /\ signalled = FALSE /\ since = 0 /\ timer = 0
  /\ serve = "none"
  /\ conns = [c \in Conn |-> NoConn]
  /\ sent = 0 /\ cut = FALSE

-----------------------------------------------------------------------------
(* run() up to the select. *)

(* The process ends, and its connections with it. *)
Exit(status) ==
  /\ phase' = "exited" /\ exit' = status
  /\ conns' = [c \in Conn |-> [conns[c] EXCEPT !.st = "closed"]]
  /\ cut' = \E c \in Conn : InFlight(c)

(* validateTCPAddr of an address whose port is a number, or not. *)
ValidTCPAddr(a) == a.hostPort /\ a.number /\ a.port \in 0 .. 65535

(* One step of the start-up: it goes on, or the process exits. *)
StartupStep(at, ok, then) ==
  /\ phase = at
  /\ \/ ok /\ phase' = then /\ UNCHANGED <<exit, conns, cut>>
     \/ ~ok /\ Exit(1)
  /\ UNCHANGED <<scene, addr, model, clock, sent>>

LoadConfig == StartupStep("config", ValidTCPAddr(addr), "load") /\ UNCHANGED serve
LoadModel ==
  StartupStep("load", model.readable /\ Validate(model), "listen") /\ UNCHANGED serve

(* The port may be taken; if not, Serve gets its goroutine. *)
Listen ==
  \E free \in BOOLEAN :
    /\ StartupStep("listen", free, "serving")
    /\ serve' = IF free THEN "running" ELSE serve

-----------------------------------------------------------------------------
(* Connections and requests. *)
Unserved == <<scene, proc, clock, cut>>

Accept(c) ==
  /\ serve = "running" /\ phase # "exited"
  /\ c \in Scenes[scene].conns /\ conns[c].st = "none"
  /\ conns' = [conns EXCEPT ![c].st = "new"]
  /\ UNCHANGED <<Unserved, sent>>

(* A request's header is in. *)
Request(c) ==
  /\ Running /\ conns[c].st \in {"new", "idle"} /\ sent < Scenes[scene].requests
  /\ \E r \in Scenes[scene].bodies :
       conns' = [conns EXCEPT ![c] = [NoConn EXCEPT !.st = "reading", !.req = r]]
  /\ sent' = sent + 1
  /\ UNCHANGED Unserved

(* After an answer the connection is kept, unless the server shuts down. *)
After == IF phase = "shutdown" THEN "closed" ELSE "idle"

(* The body is read, to its end or to the limit, by scoreHandler or, where *)
(* a handler leaves it alone, by net/http, which does so before it sends   *)
(* the answer; or the client is too slow or gone, and the connection ends, *)
(* after a 400 of scoreHandler for it.                                     *)
ReadBody(c) ==
  /\ Running /\ conns[c].st = "reading"
  /\ \/ conns' = [conns EXCEPT ![c].st = "scoring"]
     \/ conns' = [conns EXCEPT ![c] = [NoConn EXCEPT !.st = "closed"]]
  /\ UNCHANGED <<Unserved, sent>>

(* The handler answers; past the write deadline nothing can be sent.  The  *)
(* model never changes: the answer is a function of the request.           *)
Reply(c) == Handle(model, conns[c].req)
Respond(c) ==
  /\ Running /\ conns[c].st = "scoring"
  /\ conns' = IF conns[c].age < WriteTimeout
              THEN [conns EXCEPT ![c].st = After, ![c].answered = TRUE]
              ELSE [conns EXCEPT ![c] = [NoConn EXCEPT !.st = "closed"]]
  /\ UNCHANGED <<Unserved, sent>>

(* A client that has no request under way goes, or is timed out. *)
Disconnect(c) ==
  /\ Running /\ conns[c].st \in {"new", "idle"}
  /\ conns' = [conns EXCEPT ![c] = [NoConn EXCEPT !.st = "closed"]]
  /\ UNCHANGED <<Unserved, sent>>

-----------------------------------------------------------------------------
(* The select, and the shutdown. *)
Signal ==
  /\ Scenes[scene].ends /\ ~signalled /\ phase # "exited"
  /\ signalled' = TRUE
  /\ UNCHANGED <<scene, proc, since, timer, conns, sent, cut>>

ServeFails ==
  /\ Scenes[scene].ends /\ serve = "running" /\ phase # "exited"
  /\ serve' = "failed"
  /\ UNCHANGED <<scene, phase, exit, addr, model, clock, conns, sent, cut>>

(* Shutdown closes the listener: Serve returns ErrServerClosed. *)
WrongSelectSignal ==
  /\ phase = "serving" /\ signalled /\ serve = "failed"
  /\ phase' = "shutdown" /\ timer' = 0
  /\ UNCHANGED <<scene, exit, addr, model, serve, signalled, since, conns, sent, cut>>
SelectSignal ==
  /\ phase = "serving" /\ signalled
  /\ phase' = "shutdown" /\ timer' = 0
  /\ serve' = IF serve = "running" THEN "closed" ELSE serve
  /\ UNCHANGED <<scene, exit, addr, model, signalled, since, conns, sent, cut>>

SelectServerErr ==
  /\ phase = "serving" /\ serve = "failed"
  /\ Exit(1)
  /\ UNCHANGED <<scene, addr, model, serve, clock, sent>>

(* Shutdown looks at the connections, closes the idle ones, and is done    *)
(* when no other is left; main then returns nil.  One that has not been    *)
(* used yet is not idle: net/http gives it 5 s.                            *)
WrongShutdown ==
  /\ phase = "shutdown"
  /\ Exit(0)
  /\ UNCHANGED <<scene, addr, model, serve, clock, sent>>
Shutdown ==
  /\ phase = "shutdown"
  /\ \/ /\ \E c \in Conn : Busy(c)
        /\ conns' = [c \in Conn |-> IF conns[c].st = "idle"
                       THEN [conns[c] EXCEPT !.st = "closed"] ELSE conns[c]]
        /\ UNCHANGED <<phase, exit, cut>>
     \/ /\ ~ \E c \in Conn : Busy(c)
        /\ Exit(0)
  /\ UNCHANGED <<scene, addr, model, serve, clock, sent>>

(* Its time is up: Close, and main returns the error. *)
WrongTimedOut == FALSE
TimedOut == timer >= ShutdownTimeout
ForceClose ==
  /\ phase = "shutdown" /\ TimedOut
  /\ Exit(1)
  /\ UNCHANGED <<scene, addr, model, serve, clock, sent>>

(* Time passes, but not past a step that takes none or a deadline: of      *)
(* main, of Shutdown, and of the reading of a request.                     *)
Tick ==
  /\ Running /\ Scenes[scene].ends
  /\ phase = "serving" => ~signalled /\ serve # "failed"
  /\ phase = "shutdown" => ~TimedOut /\ \E c \in Conn : Busy(c)
  /\ \A c \in Conn : conns[c].st # "scoring"
                     /\ (conns[c].st = "reading" => conns[c].age < ReadTimeout)
                     /\ (conns[c].st = "new" => conns[c].age < ReadHeaderTimeout)
  /\ \E c \in Conn : Busy(c)
  /\ since' = IF signalled /\ since < Grace THEN since + 1 ELSE since
  /\ timer' = IF phase = "shutdown" THEN timer + 1 ELSE timer
  /\ conns' = [c \in Conn |-> IF Busy(c) THEN [conns[c] EXCEPT !.age = @ + 1]
                              ELSE conns[c]]
  /\ UNCHANGED <<scene, proc, signalled, sent, cut>>

-----------------------------------------------------------------------------
Main == LoadConfig \/ LoadModel \/ Listen \/ SelectSignal \/ SelectServerErr
        \/ Shutdown \/ ForceClose

Next ==
  \/ LoadConfig \/ LoadModel \/ Listen
  \/ Signal \/ ServeFails \/ SelectSignal \/ SelectServerErr
  \/ Shutdown \/ ForceClose \/ Tick
  \/ \E c \in Conn : \/ Accept(c) \/ Request(c) \/ ReadBody(c)
                     \/ Respond(c) \/ Disconnect(c)

(* A deadline of net/http on a connection. *)
TimesOut(c) ==
  \/ conns[c].st = "reading" /\ conns[c].age = ReadTimeout /\ ReadBody(c)
  \/ conns[c].st = "new" /\ conns[c].age = ReadHeaderTimeout /\ Disconnect(c)

(* main goes on whenever it can, and time passes; no client and no signal  *)
(* is asked to do anything.                                                *)
Fairness ==
  /\ WF_vars(Main) /\ WF_vars(Tick)
  /\ \A c \in Conn : WF_vars(TimesOut(c)) /\ WF_vars(Respond(c))

Spec == Init /\ [][Next]_vars /\ Fairness

-----------------------------------------------------------------------------
TypeOK ==
  /\ scene \in DOMAIN Scenes
  /\ phase \in {"config", "load", "listen", "serving", "shutdown", "exited"}
  /\ exit \in {0, 1} /\ signalled \in BOOLEAN /\ cut \in BOOLEAN
  /\ addr \in Scenes[scene].addrs /\ model \in Scenes[scene].models
  /\ since \in 0 .. Grace /\ timer \in 0 .. ShutdownTimeout
  /\ serve \in {"none", "running", "failed", "closed"}
  /\ sent \in 0 .. Scenes[scene].requests
  /\ conns \in [Conn ->
       [st : {"none", "new", "idle", "reading", "scoring", "closed"},
        req : Scenes[scene].bodies \cup {NoRequestYet},
        age : 0 .. ReadTimeout, answered : BOOLEAN]]

(* A request to /v1/score gets the status that Readme.md promises for it,  *)
(* and a score is that of the features by name, whatever their order: the  *)
(* token pass, the decoder and vectorFor together let exactly the          *)
(* documented requests through.                                            *)
AnsweredAsPromised ==
  \A c \in Conn :
    conns[c].answered /\ conns[c].req.path = "/v1/score"
      => Reply(c) = Promised(model, conns[c].req)

(* "500: a server-side failure; never caused by request content": with a   *)
(* model that passed validate no request makes Score fail for another      *)
(* reason than its content.                                                *)
NoServerError == \A c \in Conn : conns[c].answered => Reply(c).status # 500

(* Exit status 0 means that a signal asked for the exit and that no        *)
(* request that the server had begun to read was cut off by it, however    *)
(* signal, requests and a failing Serve race.                              *)
ExitClean == phase = "exited" /\ exit = 0 => signalled /\ ~cut

(* The process is gone before docker stop's grace period is over, or       *)
(* "SIGKILL wins the race": also with a client that sends its body slowly. *)
StopsWithinGrace == since >= Grace => phase = "exited"

(* A signal ends the process, at whatever point of the start-up or of the  *)
(* serving of requests it comes, and whatever clients do.                  *)
SignalEnds == signalled ~> phase = "exited"

=============================================================================

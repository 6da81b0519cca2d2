------------------------- MODULE ScoreServerProofs --------------------------
(***************************************************************************)
(* Theorems about the score-server process, for any set of connections,    *)
(* requests, addresses and model files, and any timeouts that are ordered  *)
(* as main.go's are; about the score, for any model and features; and      *)
(* about the answer to a request, for any body of whatever length and      *)
(* nesting.                                                                *)
(***************************************************************************)
EXTENDS ScoreServer, FiniteSetTheorems, SequenceTheorems, WellFoundedInduction, TLAPS

USE ZenonT(30), SMTT(30)

(* A model that is served has passed validate. *)
ModelInv ==
  /\ phase \in {"listen", "serving", "shutdown"} => Validate(model)
  /\ \A c \in Conn : conns[c].answered => Validate(model)

(* Only a signal leads to the shutdown, and only the exit cuts requests. *)
ExitInv ==
  /\ phase = "shutdown" => signalled
  /\ phase # "exited" => ~ cut
  /\ phase = "exited" /\ exit = 0 => signalled /\ ~ cut

(* Once a signal has come, time passes in Shutdown only. *)
ClockInv ==
  /\ since > 0 => phase \in {"shutdown", "exited"}
  /\ phase = "shutdown" => since <= timer

(* What the theorems rest on; inductive. *)
ServerInv == TypeOK /\ ModelInv /\ ExitInv /\ ClockInv

-----------------------------------------------------------------------------
(* A score is always a number that writeJSON can marshal. *)
LEMMA ScoreIsWritten ==
  ASSUME NEW m, NEW features
  PROVE  WriteJSON(Score(m, features)) = Score(m, features)
<1>1. FMax \in Nat
  BY APIAssumption
<1>2. ~IsFinite(NaN) /\ NaN # 0
  BY SMTT(30), <1>1 DEF NaN, IsFinite
<1>3. \A z : [Answer(200) EXCEPT !.logit = z].logit = z
  BY SMTT(30) DEF Answer
<1>4. Answer(400).logit = 0 /\ Answer(500).logit = 0
  BY SMTT(30) DEF Answer
<1>5. PICK z : z = Logit(m, VectorFor(m, features))
  BY Zenon
<1>6. \/ Score(m, features) = Answer(400) \/ Score(m, features) = Answer(500)
      \/ IsFinite(z) /\ Score(m, features) = [Answer(200) EXCEPT !.logit = z]
  BY SMTT(30), <1>5 DEF Score
<1>7. Score(m, features).logit # NaN
  <2>1. CASE Score(m, features) = Answer(400) \/ Score(m, features) = Answer(500)
    BY Zenon, <1>2, <1>4, <2>1
  <2>2. CASE IsFinite(z) /\ Score(m, features) = [Answer(200) EXCEPT !.logit = z]
    <3>1. Score(m, features).logit = z
      BY Zenon, <1>3, <2>2
    <3> QED
      BY Zenon, <1>2, <2>2, <3>1
  <2> QED
    BY Zenon, <1>6, <2>1, <2>2
<1> QED
  BY Zenon, <1>7 DEF WriteJSON

(* With a model that passed validate, Score has no failure of its own:     *)
(* whatever it refuses is the request's fault.                             *)
LEMMA ScoreStatus ==
  ASSUME NEW m, NEW features, Validate(m)
  PROVE  Score(m, features).status \in {200, 400}
<1>1. Len(m.order) = Len(m.weights)
  BY DEF Validate
<1> QED
  BY SMTT(30), <1>1 DEF Score, Answer

(* No request makes the handler answer 500. *)
LEMMA HandleStatus ==
  ASSUME NEW m, NEW r, Validate(m)
  PROVE  Handle(m, r).status \in {200, 400, 404, 405, 413, 415}
<1>1. \A k : Answer(k).status = k
  BY DEF Answer
<1>2. ScoreHandler(m, r) \in
        {Answer(415), Answer(413), Answer(400), Score(m, Decode(r.body).features)}
  <2>1. ScoreHandler(m, r) \in {Answer(415), Answer(413), Answer(400),
                               WriteJSON(Score(m, Decode(r.body).features))}
    BY SMTT(30) DEF ScoreHandler
  <2>2. WriteJSON(Score(m, Decode(r.body).features)) = Score(m, Decode(r.body).features)
    BY Zenon, ScoreIsWritten
  <2> QED
    BY SMTT(30), <2>1, <2>2
<1>3. ScoreHandler(m, r).status \in {200, 400, 413, 415}
  BY SMTT(30), <1>1, <1>2, ScoreStatus
<1>4. Handle(m, r) \in {ScoreHandler(m, r), Answer(200), Answer(405), Answer(404)}
  BY SMTT(30) DEF Handle
<1> QED
  BY SMTT(30), <1>1, <1>3, <1>4

-----------------------------------------------------------------------------
ConnRec ==
  [st : {"none", "new", "idle", "reading", "scoring", "closed"},
   req : Scenes[scene].bodies \cup {NoRequestYet},
   age : 0 .. ReadTimeout, answered : BOOLEAN]

(* The initial state satisfies the invariant. *)
LEMMA ServerInit == Init => ServerInv
<1> SUFFICES ASSUME Init PROVE ServerInv
  OBVIOUS
<1>1. NoConn \in ConnRec
  BY TimeoutAssumption DEF NoConn, ConnRec
<1>2. TypeOK
  <2>1. conns \in [Conn -> ConnRec]
    BY <1>1 DEF Init
  <2>2. since \in 0 .. Grace /\ timer \in 0 .. ShutdownTimeout
    BY TimeoutAssumption DEF Init
  <2>3. sent \in 0 .. Scenes[scene].requests
    BY SceneAssumption DEF Init
  <2> QED
    BY <2>1, <2>2, <2>3 DEF Init, TypeOK, ConnRec
<1>3. \A c \in Conn : ~ conns[c].answered
  BY DEF Init, NoConn
<1> QED
  BY <1>2, <1>3 DEF Init, ServerInv, ModelInv, ExitInv, ClockInv

(* What a handler, a client or the exit makes of a connection is one. *)
LEMMA ConnTypes ==
  ASSUME TypeOK, NEW c \in Conn
  PROVE  /\ conns[c] \in ConnRec /\ [NoConn EXCEPT !.st = "closed"] \in ConnRec
         /\ \A st \in {"new", "idle", "scoring", "closed"} :
              [conns[c] EXCEPT !.st = st] \in ConnRec
         /\ \A st \in {"idle", "closed"} :
              [conns[c] EXCEPT !.st = st, !.answered = TRUE] \in ConnRec
         /\ \A r \in Scenes[scene].bodies :
              [NoConn EXCEPT !.st = "reading", !.req = r] \in ConnRec
<1>1. conns[c] \in ConnRec
  BY DEF TypeOK, ConnRec
<1>2. NoConn \in ConnRec
  BY TimeoutAssumption DEF NoConn, ConnRec
<1> QED
  BY <1>1, <1>2 DEF ConnRec

(* TypeOK, of the state after a step. *)
LEMMA TypesAfter ==
  ASSUME TypeOK, UNCHANGED <<scene, addr, model>>,
         phase' \in {"config", "load", "listen", "serving", "shutdown", "exited"},
         exit' \in {0, 1}, signalled' \in BOOLEAN, cut' \in BOOLEAN,
         since' \in 0 .. Grace, timer' \in 0 .. ShutdownTimeout,
         serve' \in {"none", "running", "failed", "closed"},
         sent' \in 0 .. Scenes[scene].requests, conns' \in [Conn -> ConnRec]
  PROVE  TypeOK'
BY DEF TypeOK, ConnRec

(* The exit closes every connection. *)
LEMMA ExitTypes ==
  ASSUME TypeOK, NEW status \in {0, 1}, Exit(status)
  PROVE  /\ phase' = "exited" /\ exit' = status /\ cut' \in BOOLEAN
         /\ conns' \in [Conn -> ConnRec]
         /\ \A c \in Conn : conns'[c].answered = conns[c].answered
<1>1. \A c \in Conn : conns[c] \in ConnRec /\ [conns[c] EXCEPT !.st = "closed"] \in ConnRec
  BY ConnTypes
<1>2. \A c \in Conn : [conns[c] EXCEPT !.st = "closed"].answered = conns[c].answered
  BY <1>1 DEF ConnRec
<1> QED
  BY <1>1, <1>2 DEF Exit

(* A start-up step that fails ends the process with status 1. *)
LEMMA StartupTypes ==
  ASSUME TypeOK, NEW at, NEW ok, NEW then \in {"load", "listen", "serving"},
         StartupStep(at, ok, then), serve' \in {"none", "running", "failed", "closed"}
  PROVE  TypeOK'
<1>1. CASE Exit(1)
  BY <1>1, ExitTypes, TypesAfter DEF StartupStep, clock, TypeOK
<1>2. CASE phase' = then /\ UNCHANGED <<exit, conns, cut>>
  BY <1>2, TypesAfter DEF StartupStep, clock, TypeOK, ConnRec
<1> QED
  BY <1>1, <1>2 DEF StartupStep

(* An answer, a request or a client's leaving changes one connection. *)
LEMMA OneConnTypes ==
  ASSUME TypeOK, NEW c \in Conn, UNCHANGED Unserved,
         sent' \in 0 .. Scenes[scene].requests,
         NEW r \in ConnRec, conns' = [conns EXCEPT ![c] = r]
  PROVE  TypeOK'
<1>1. conns' \in [Conn -> ConnRec]
  BY DEF TypeOK, ConnRec
<1> QED
  BY <1>1, TypesAfter DEF TypeOK, Unserved, proc, clock

(* Every step on a connection keeps the types. *)
LEMMA ConnStepTypes ==
  ASSUME TypeOK, NEW c \in Conn,
         Accept(c) \/ Request(c) \/ ReadBody(c) \/ Respond(c) \/ Disconnect(c)
  PROVE  TypeOK'
<1>1. DOMAIN conns = Conn /\ conns[c] \in ConnRec /\ sent \in 0 .. Scenes[scene].requests
  BY ConnTypes DEF TypeOK
<1>2. CASE Accept(c)
  <2>1. conns' = [conns EXCEPT ![c] = [conns[c] EXCEPT !.st = "new"]]
    BY <1>2 DEF Accept
  <2> QED
    BY <1>1, <1>2, <2>1, ConnTypes, OneConnTypes DEF Accept
<1>3. CASE Request(c)
  <2>1. PICK r \in Scenes[scene].bodies :
          conns' = [conns EXCEPT ![c] = [NoConn EXCEPT !.st = "reading", !.req = r]]
    BY <1>3 DEF Request
  <2>2. sent' \in 0 .. Scenes[scene].requests
    <3>1. sent' = sent + 1 /\ sent < Scenes[scene].requests
      BY <1>3 DEF Request
    <3>2. Scenes[scene].requests \in Nat
      BY SceneAssumption DEF TypeOK
    <3> QED
      BY <1>1, <3>1, <3>2
  <2> QED
    BY <1>3, <2>1, <2>2, ConnTypes, OneConnTypes DEF Request
<1>4. CASE ReadBody(c)
  <2>1. \/ conns' = [conns EXCEPT ![c] = [conns[c] EXCEPT !.st = "scoring"]]
        \/ conns' = [conns EXCEPT ![c] = [NoConn EXCEPT !.st = "closed"]]
    BY <1>4 DEF ReadBody
  <2> QED
    BY <1>1, <1>4, <2>1, ConnTypes, OneConnTypes DEF ReadBody
<1>5. CASE Respond(c)
  <2>1. \/ conns' = [conns EXCEPT ![c] = [conns[c] EXCEPT !.st = After, !.answered = TRUE]]
        \/ conns' = [conns EXCEPT ![c] = [NoConn EXCEPT !.st = "closed"]]
    BY <1>1, <1>5 DEF Respond, ConnRec
  <2>2. After \in {"idle", "closed"}
    BY DEF After
  <2> QED
    BY <1>1, <1>5, <2>1, <2>2, ConnTypes, OneConnTypes DEF Respond
<1>6. CASE Disconnect(c)
  BY <1>1, <1>6, ConnTypes, OneConnTypes DEF Disconnect
<1> QED
  BY <1>2, <1>3, <1>4, <1>5, <1>6

(* Time stays below the deadlines. *)
LEMMA TickTypes ==
  ASSUME TypeOK, Tick
  PROVE  TypeOK' /\ \A c \in Conn : conns'[c].answered = conns[c].answered
<1>1. ASSUME NEW c \in Conn
      PROVE  /\ conns'[c] \in ConnRec /\ conns'[c].answered = conns[c].answered
  <2>1. conns[c] \in ConnRec
    BY ConnTypes
  <2>2. conns'[c] = IF Busy(c) THEN [conns[c] EXCEPT !.age = conns[c].age + 1] ELSE conns[c]
    BY DEF Tick
  <2>3. CASE Busy(c)
    <3>1. conns[c].age < ReadTimeout
      BY SMTT(30), <2>1, <2>3, TimeoutAssumption DEF Tick, Busy, InFlight, ConnRec
    <3>2. conns[c].age + 1 \in 0 .. ReadTimeout
      BY SMTT(30), <2>1, <3>1, TimeoutAssumption DEF ConnRec
    <3> QED
      BY <2>1, <2>2, <2>3, <3>2 DEF ConnRec
  <2> QED
    BY <2>1, <2>2, <2>3
<1>2. conns' \in [Conn -> ConnRec]
  BY <1>1 DEF Tick
<1>3. since' \in 0 .. Grace
  BY SMTT(30), TimeoutAssumption DEF Tick, TypeOK
<1>4. timer' \in 0 .. ShutdownTimeout
  BY SMTT(30), TimeoutAssumption DEF Tick, TypeOK, TimedOut
<1> QED
  BY <1>1, <1>2, <1>3, <1>4, TypesAfter DEF Tick, TypeOK, proc

(* Every step keeps the types. *)
LEMMA TypeStep == TypeOK /\ [Next]_vars => TypeOK'
<1> SUFFICES ASSUME TypeOK, [Next]_vars PROVE TypeOK'
  OBVIOUS
<1>1. CASE LoadConfig
  BY <1>1, StartupTypes DEF LoadConfig, TypeOK
<1>2. CASE LoadModel
  BY <1>2, StartupTypes DEF LoadModel, TypeOK
<1>3. CASE Listen
  BY <1>3, StartupTypes DEF Listen, TypeOK
<1>4. CASE Signal
  BY <1>4, TypesAfter DEF Signal, TypeOK, proc, ConnRec
<1>5. CASE ServeFails
  BY <1>5, TypesAfter DEF ServeFails, TypeOK, clock, ConnRec
<1>6. CASE SelectSignal
  BY SMTT(30), <1>6, TypesAfter, TimeoutAssumption DEF SelectSignal, TypeOK, ConnRec
<1>7. CASE SelectServerErr
  BY <1>7, ExitTypes, TypesAfter DEF SelectServerErr, TypeOK, clock
<1>8. CASE Shutdown
  <2>1. CASE Exit(0)
    BY <1>8, <2>1, ExitTypes, TypesAfter DEF Shutdown, TypeOK, clock
  <2>2. CASE /\ conns' = [c \in Conn |-> IF conns[c].st = "idle"
                            THEN [conns[c] EXCEPT !.st = "closed"] ELSE conns[c]]
             /\ UNCHANGED <<phase, exit, cut>>
    <3>1. conns' \in [Conn -> ConnRec]
      BY <2>2, ConnTypes
    <3> QED
      BY <1>8, <2>2, <3>1, TypesAfter DEF Shutdown, TypeOK, clock
  <2> QED
    BY <1>8, <2>1, <2>2 DEF Shutdown
<1>9. CASE ForceClose
  BY <1>9, ExitTypes, TypesAfter DEF ForceClose, TypeOK, clock
<1>10. CASE Tick
  BY <1>10, TickTypes
<1>11. ASSUME NEW c \in Conn, Accept(c) \/ Request(c) \/ ReadBody(c)
                               \/ Respond(c) \/ Disconnect(c)
       PROVE  TypeOK'
  BY <1>11, ConnStepTypes
<1>12. CASE UNCHANGED vars
  BY <1>12 DEF vars, proc, clock, TypeOK
<1> QED
  BY <1>1, <1>2, <1>3, <1>4, <1>5, <1>6, <1>7, <1>8, <1>9, <1>10, <1>11, <1>12 DEF Next

-----------------------------------------------------------------------------
(* What a step does to the answers: none is taken back but with its        *)
(* connection, and only a running server gives one.                        *)
LEMMA AnswersStep ==
  ASSUME TypeOK, [Next]_vars, NEW c \in Conn, conns'[c].answered
  PROVE  conns[c].answered \/ Running
<1>1. conns[c] \in ConnRec /\ DOMAIN conns = Conn
  BY ConnTypes DEF TypeOK
<1>2. CASE \E status \in {0, 1} : Exit(status)
  BY <1>2, ExitTypes
<1>3. CASE UNCHANGED conns
  BY <1>3
<1>4. CASE Running
  BY <1>4
<1>5. ASSUME NEW d \in Conn, Accept(d)
      PROVE  conns[c].answered
  <2>1. conns'[c] = conns[c] \/ conns'[c] = [conns[c] EXCEPT !.st = "new"]
    BY <1>1, <1>5 DEF Accept
  <2> QED
    BY <1>1, <2>1 DEF ConnRec
<1>6. CASE LoadConfig \/ LoadModel \/ Listen
  BY <1>2, <1>3, <1>6 DEF LoadConfig, LoadModel, Listen, StartupStep
<1>7. CASE Signal \/ ServeFails \/ UNCHANGED vars
  BY <1>3, <1>7 DEF Signal, ServeFails, vars
<1>8. CASE SelectSignal \/ SelectServerErr \/ Shutdown \/ ForceClose \/ Tick
  BY <1>4, <1>8 DEF SelectSignal, SelectServerErr, Shutdown, ForceClose, Tick, Running
<1>9. ASSUME NEW d \in Conn, Request(d) \/ ReadBody(d) \/ Respond(d) \/ Disconnect(d)
      PROVE  Running
  BY <1>9 DEF Request, ReadBody, Respond, Disconnect
<1> QED
  BY <1>5, <1>6, <1>7, <1>8, <1>9 DEF Next

(* A step of a connection leaves the process and its clocks alone. *)
LEMMA ServedAlone ==
  ASSUME NEW c \in Conn,
         Accept(c) \/ Request(c) \/ ReadBody(c) \/ Respond(c) \/ Disconnect(c)
  PROVE  UNCHANGED Unserved
BY DEF Accept, Request, ReadBody, Respond, Disconnect

(* The model is validated on the way to "listen", and never replaced. *)
LEMMA ModelStep == TypeOK /\ ModelInv /\ [Next]_vars => ModelInv'
<1> SUFFICES ASSUME TypeOK, ModelInv, [Next]_vars PROVE ModelInv'
  OBVIOUS
<1>1. model' = model
  BY ServedAlone DEF Next, vars, proc, Unserved, LoadConfig, LoadModel, Listen, StartupStep,
     Signal, ServeFails, SelectSignal, SelectServerErr, Shutdown, ForceClose, Tick
<1>2. Validate(model)' <=> Validate(model)
  BY <1>1
<1>3. phase' \in {"listen", "serving", "shutdown"} => Validate(model)
  BY ServedAlone DEF Next, vars, proc, Unserved, LoadConfig, LoadModel, Listen, StartupStep,
     Signal, ServeFails, SelectSignal, SelectServerErr, Shutdown, ForceClose, Tick, ModelInv, Exit
<1>4. \A c \in Conn : conns'[c].answered => Validate(model)
  BY AnswersStep DEF ModelInv, Running
<1> QED
  BY <1>2, <1>3, <1>4 DEF ModelInv

(* Status 0 is Shutdown's, when it finds no request under way. *)
LEMMA ExitStep == TypeOK /\ ExitInv /\ [Next]_vars => ExitInv'
<1> SUFFICES ASSUME TypeOK, ExitInv, [Next]_vars PROVE ExitInv'
  OBVIOUS
<1>0. Exit(1) => phase' = "exited" /\ exit' # 0
  BY SMTT(30) DEF Exit
<1>1. CASE LoadConfig \/ LoadModel \/ Listen
  BY <1>0, <1>1 DEF LoadConfig, LoadModel, Listen, StartupStep, ExitInv, clock
<1>2. CASE Signal \/ ServeFails \/ SelectSignal \/ SelectServerErr \/ ForceClose \/ Tick
  BY SMTT(30), <1>0, <1>2 DEF Signal, ServeFails, SelectSignal, SelectServerErr, ForceClose, Tick,
     ExitInv, clock, proc
<1>3. CASE Shutdown
  <2>1. CASE Exit(0) /\ ~ \E c \in Conn : Busy(c)
    BY <1>3, <2>1 DEF Shutdown, ExitInv, Exit, Busy, clock
  <2>2. CASE UNCHANGED <<phase, exit, cut>>
    BY <1>3, <2>2 DEF Shutdown, ExitInv, clock
  <2> QED
    BY <1>3, <2>1, <2>2 DEF Shutdown
<1>4. ASSUME NEW c \in Conn, Accept(c) \/ Request(c) \/ ReadBody(c)
                              \/ Respond(c) \/ Disconnect(c)
      PROVE  ExitInv'
  BY <1>4, ServedAlone DEF Unserved, proc, clock, ExitInv
<1>5. CASE UNCHANGED vars
  BY <1>5 DEF vars, proc, clock, ExitInv
<1> QED
  BY <1>1, <1>2, <1>3, <1>4, <1>5 DEF Next

(* Time that passes after a signal passes for Shutdown's timer as well. *)
LEMMA ClockStep == TypeOK /\ ClockInv /\ [Next]_vars => ClockInv'
<1> SUFFICES ASSUME TypeOK, ClockInv, [Next]_vars PROVE ClockInv'
  OBVIOUS
<1>1. since \in Nat /\ timer \in Nat
  BY SMTT(30), TimeoutAssumption DEF TypeOK
<1>2. CASE UNCHANGED <<since, timer>> /\ (phase' = phase \/ phase' = "exited")
  BY <1>2 DEF ClockInv
<1>3. CASE LoadConfig \/ LoadModel \/ Listen
  <2>1. UNCHANGED <<since, timer>> /\ phase \notin {"shutdown", "exited"} /\ phase' # "shutdown"
    BY <1>3 DEF LoadConfig, LoadModel, Listen, StartupStep, Exit, clock
  <2> QED
    BY <2>1 DEF ClockInv
<1>4. CASE Signal \/ ServeFails \/ SelectServerErr \/ Shutdown \/ ForceClose
  BY <1>2, <1>4 DEF Signal, ServeFails, SelectServerErr, Shutdown, ForceClose, Exit, clock, proc
<1>5. CASE SelectSignal
  <2>1. phase = "serving" /\ phase' = "shutdown" /\ timer' = 0 /\ since' = since
    BY <1>5 DEF SelectSignal
  <2>2. ~ (since > 0)
    BY <2>1 DEF ClockInv
  <2> QED
    BY SMTT(30), <1>1, <2>1, <2>2 DEF ClockInv
<1>6. CASE Tick
  <2>1. CASE phase = "shutdown"
    <3>1. since <= timer /\ timer' = timer + 1 /\ phase' = "shutdown"
      BY <1>6, <2>1 DEF Tick, ClockInv, proc
    <3>2. since' = since + 1 \/ since' = since
      BY <1>6 DEF Tick
    <3> QED
      BY SMTT(30), <1>1, <3>1, <3>2 DEF ClockInv
  <2>2. CASE phase = "serving"
    <3>1. UNCHANGED <<since, timer, phase>>
      BY <1>6, <2>2 DEF Tick, proc
    <3> QED
      BY <1>2, <3>1
  <2> QED
    BY <1>6, <2>1, <2>2 DEF Tick, Running
<1>7. ASSUME NEW c \in Conn, Accept(c) \/ Request(c) \/ ReadBody(c)
                              \/ Respond(c) \/ Disconnect(c)
      PROVE  ClockInv'
  BY <1>2, <1>7, ServedAlone DEF Unserved, proc, clock
<1>8. CASE UNCHANGED vars
  BY <1>2, <1>8 DEF vars, proc, clock
<1> QED
  BY <1>3, <1>4, <1>5, <1>6, <1>7, <1>8 DEF Next

-----------------------------------------------------------------------------
(* The invariant is one of every behaviour. *)
THEOREM ServerInvariant == Spec => []ServerInv
<1>1. ServerInv /\ [Next]_vars => ServerInv'
  BY TypeStep, ModelStep, ExitStep, ClockStep DEF ServerInv
<1> QED
  BY <1>1, ServerInit, PTL DEF Spec

(* Every variable of the process keeps its type: the timer stays within    *)
(* Shutdown's timeout and no request is read for longer than ReadTimeout.  *)
THEOREM ServerTypes == Spec => []TypeOK
<1>1. ServerInv => TypeOK
  BY DEF ServerInv
<1> QED
  BY <1>1, ServerInvariant, PTL

(* No answer is a 500, for any model file that passes validate and any     *)
(* request: what Score can refuse is what score.go answers with a 400.     *)
THEOREM ContentNeverFailsServer == Spec => []NoServerError
<1>1. ServerInv => NoServerError
  <2> SUFFICES ASSUME ServerInv, NEW c \in Conn, conns[c].answered
               PROVE  Reply(c).status # 500
    BY DEF NoServerError
  <2>1. Validate(model)
    BY DEF ServerInv, ModelInv
  <2>2. Reply(c).status \in {200, 400, 404, 405, 413, 415}
    BY SMTT(30), <2>1, HandleStatus DEF Reply
  <2> QED
    BY SMTT(30), <2>2
<1> QED
  BY <1>1, ServerInvariant, PTL

(* The process exits with status 0 only after a signal, and only when no   *)
(* request it had begun to read was cut off.                               *)
THEOREM CleanExits == Spec => []ExitClean
<1>1. ServerInv => ExitClean
  BY DEF ServerInv, ExitInv, ExitClean
<1> QED
  BY <1>1, ServerInvariant, PTL

(* With a Shutdown timeout below the grace period the process never lives  *)
(* to its end, however many connections are slow.                          *)
THEOREM GoneWithinGrace == Spec => []StopsWithinGrace
<1>1. ServerInv => StopsWithinGrace
  <2> SUFFICES ASSUME ServerInv, since >= Grace PROVE phase = "exited"
    BY DEF StopsWithinGrace
  <2>1. /\ since \in Nat /\ timer \in 0 .. ShutdownTimeout
        /\ Grace \in Nat /\ ShutdownTimeout \in Nat /\ ShutdownTimeout < Grace
    BY SMTT(30), TimeoutAssumption DEF ServerInv, TypeOK
  <2>2. since > 0 /\ ~ (since <= timer)
    BY SMTT(30), <2>1
  <2> QED
    BY <2>2 DEF ServerInv, ClockInv
<1> QED
  BY <1>1, ServerInvariant, PTL

-----------------------------------------------------------------------------
(* A non-empty set of numbers has a least element. *)
LEMMA LeastNumber ==
  ASSUME NEW S \in SUBSET Nat, S # {}
  PROVE  \E m \in S : \A x \in S : m <= x
<1> DEFINE R == {p \in Nat \X Nat : p[1] < p[2]}
<1>1. IsWellFoundedOn(R, Nat)
  BY NatLessThanWellFounded DEF OpToRel
<1>2. PICK m \in S : \A x \in S : <<x, m>> \notin R
  <2> HIDE DEF R
  <2> QED
    BY <1>1, WFMin
<1>3. ASSUME NEW x \in S PROVE m <= x
  <2>1. <<x, m>> \in Nat \X Nat
    OBVIOUS
  <2> QED
    BY SMTT(30), <1>2, <2>1
<1> QED
  BY <1>3

(* What a loop accumulates in n rounds, the i-th of which turns x into     *)
(* g[i][x].                                                                *)
Rounds(f, a, g, n) == f[0] = a /\ \A i \in 1 .. n : f[i] = g[i][f[i - 1]]

(* The rounds of a loop come to an end: a least number of rounds without a *)
(* result would have one, a round after that of one fewer.                 *)
LEMMA RoundsExist ==
  ASSUME NEW S, NEW a \in S, NEW n \in Nat, NEW g \in [1 .. n -> [S -> S]]
  PROVE  \E f \in [0 .. n -> S] : Rounds(f, a, g, n)
<1> DEFINE T == {m \in 0 .. n : ~ \E f \in [0 .. m -> S] : Rounds(f, a, g, m)}
<1> SUFFICES ASSUME T # {} PROVE FALSE
  BY SMTT(30)
<1>1. PICK m \in T : \A x \in T : m <= x
  <2>1. T \in SUBSET Nat
    BY SMTT(30)
  <2> QED
    BY <2>1, LeastNumber
<1>2. m \in 0 .. n /\ ~ \E f \in [0 .. m -> S] : Rounds(f, a, g, m)
  BY <1>1
<1>3. CASE m = 0
  <2>1. Rounds([i \in 0 .. 0 |-> a], a, g, 0) /\ [i \in 0 .. 0 |-> a] \in [0 .. 0 -> S]
    BY SMTT(30) DEF Rounds
  <2> QED
    BY <1>2, <1>3, <2>1
<1>4. CASE m # 0
  <2>1. m - 1 \in 0 .. n /\ ~ (m <= m - 1) /\ m - 1 \in 0 .. m - 1 /\ m \in 1 .. n
    BY SMTT(30), <1>2, <1>4
  <2>2. PICK f \in [0 .. m - 1 -> S] : Rounds(f, a, g, m - 1)
    BY <1>1, <2>1
  <2> DEFINE h == [i \in 0 .. m |-> IF i < m THEN f[i] ELSE g[m][f[m - 1]]]
  <2>3. h \in [0 .. m -> S]
    BY SMTT(30), <2>1
  <2>4. h[0] = a
    BY SMTT(30), <2>1, <2>2 DEF Rounds
  <2>5. ASSUME NEW i \in 1 .. m PROVE h[i] = g[i][h[i - 1]]
    <3>1. CASE i = m
      BY SMTT(30), <2>1, <3>1
    <3>2. CASE i # m
      <4>1. i \in 1 .. m - 1 /\ i < m /\ i - 1 < m /\ i \in 0 .. m /\ i - 1 \in 0 .. m
        BY SMTT(30), <1>2, <3>2
      <4>2. h[i] = f[i] /\ h[i - 1] = f[i - 1]
        BY <4>1
      <4> QED
        BY <2>2, <4>1, <4>2 DEF Rounds
    <3> QED
      BY <3>1, <3>2
  <2> HIDE DEF h
  <2> QED
    BY <1>2, <2>3, <2>4, <2>5 DEF Rounds
<1> QED
  BY <1>3, <1>4

-----------------------------------------------------------------------------
(* The float64 values. *)
Float == -FMax .. FMax \cup {Inf, -Inf, NaN}

(* Rounding keeps what is in range, and the rest out of it. *)
LEMMA RoundIs ==
  ASSUME NEW x \in Int
  PROVE  /\ Round(x) \in Float /\ (IsFinite(Round(x)) <=> IsFinite(x))
         /\ IsFinite(x) => Round(x) = x /\ x \in Float
<1>1. FMax \in Nat
  BY APIAssumption
<1> QED
  BY SMTT(30), <1>1 DEF Round, Float, IsFinite, Inf, NaN

(* A sum of finite values is rounded; no other sum is finite. *)
LEMMA PlusIs ==
  ASSUME NEW x \in Float, NEW y \in Float
  PROVE  /\ Plus(x, y) \in Float /\ x \in Int /\ y \in Int
         /\ IsFinite(x) /\ IsFinite(y) => Plus(x, y) = Round(x + y)
         /\ ~IsFinite(x) \/ ~IsFinite(y) => ~IsFinite(Plus(x, y))
<1>1. FMax \in Nat
  BY APIAssumption
<1>2. x \in Int /\ y \in Int /\ x + y \in Int
  BY SMTT(30), <1>1 DEF Float, Inf, NaN
<1>3. IsFinite(x) /\ IsFinite(y) => Plus(x, y) = Round(x + y)
  BY SMTT(30), <1>1 DEF Plus, IsFinite, Inf, NaN
<1>4. ASSUME ~IsFinite(x) \/ ~IsFinite(y)
      PROVE  Plus(x, y) \in Float /\ ~IsFinite(Plus(x, y))
  <2>1. NaN \in Float /\ ~IsFinite(NaN)
    BY SMTT(30), <1>1 DEF Float, IsFinite, NaN
  <2> QED
    BY SMTT(30), <1>4, <2>1 DEF Plus
<1> QED
  BY <1>2, <1>3, <1>4, RoundIs

-----------------------------------------------------------------------------
(* A model and a vector as vectorFor makes it. *)
Fits(m, v) ==
  /\ m.intercept \in -FMax .. FMax /\ m.weights \in Seq(Int) /\ v \in Seq(Int)
  /\ Len(m.weights) = Len(v)

(* The logit without rounding, after each feature. *)
Exact(m, v) ==
  LET x[i \in 0 .. Len(v)] ==
        IF i = 0 THEN m.intercept ELSE x[i - 1] + v[i] * m.weights[i]
  IN  x

(* Something of it is out of range. *)
Overflow(m, v, i) ==
  ~IsFinite(v[i] * m.weights[i]) \/ ~IsFinite(Exact(m, v)[i])

(* The products and the intercept are numbers, and this one is finite. *)
LEMMA Products ==
  ASSUME NEW m, NEW v, Fits(m, v)
  PROVE  /\ Len(v) \in Nat /\ \A i \in 1 .. Len(v) : v[i] * m.weights[i] \in Int
         /\ m.intercept \in Int /\ m.intercept \in Float /\ IsFinite(m.intercept)
<1>1. Len(v) \in Nat /\ \A i \in 1 .. Len(v) : v[i] \in Int /\ m.weights[i] \in Int
  BY SMTT(30), LenProperties, ElementOfSeq DEF Fits
<1>2. \A x, y \in Int : x * y \in Int
  BY SMTT(30)
<1>3. m.intercept \in Int /\ m.intercept \in Float /\ IsFinite(m.intercept)
  <2>1. FMax \in Nat
    BY APIAssumption
  <2>2. \A x \in -FMax .. FMax : x \in Int /\ x \in Float /\ IsFinite(x)
    BY SMTT(30), <2>1 DEF Float, IsFinite
  <2> QED
    BY <2>2 DEF Fits
<1> QED
  BY <1>1, <1>2, <1>3

(* The exact logit starts at the intercept and adds one product after the  *)
(* other.                                                                  *)
LEMMA ExactIs ==
  ASSUME NEW m, NEW v, Fits(m, v)
  PROVE  /\ Exact(m, v) \in [0 .. Len(v) -> Int]
         /\ Exact(m, v)[0] = m.intercept
         /\ \A i \in 1 .. Len(v) :
              Exact(m, v)[i] = Exact(m, v)[i - 1] + v[i] * m.weights[i]
<1> DEFINE n == Len(v)
           a == m.intercept
           p == [i \in 1 .. n |-> v[i] * m.weights[i]]
           g == [i \in 1 .. n |-> [y \in Int |-> y + p[i]]]
<1>1. n \in Nat /\ p \in [1 .. n -> Int] /\ a \in Int
  BY SMTT(30), Products
<1>2. PICK x : x = CHOOSE f : f = [i \in 0 .. n |-> IF i = 0 THEN a
                                    ELSE f[i - 1] + v[i] * m.weights[i]]
  OBVIOUS
<1>3. Exact(m, v) = x
  BY <1>2 DEF Exact
<1> HIDE DEF n
<1>4. \E f \in [0 .. n -> Int] :
        f = [i \in 0 .. n |-> IF i = 0 THEN a ELSE f[i - 1] + v[i] * m.weights[i]]
  <2>1. g \in [1 .. n -> [Int -> Int]]
    BY SMTT(30), <1>1
  <2>2. PICK f \in [0 .. n -> Int] : Rounds(f, a, g, n)
    BY <1>1, <2>1, RoundsExist
  <2>3. \A i \in 1 .. n : i - 1 \in 0 .. n /\ f[i - 1] \in Int
    BY SMTT(30), <1>1
  <2>4. \A i \in 1 .. n : f[i] = f[i - 1] + v[i] * m.weights[i]
    BY <2>2, <2>3 DEF Rounds
  <2>5. \A i \in 0 .. n : i # 0 => i \in 1 .. n
    BY SMTT(30), <1>1
  <2>6. f[0] = a
    BY <2>2 DEF Rounds
  <2>7. \A i \in 0 .. n : f[i] = IF i = 0 THEN a ELSE f[i - 1] + v[i] * m.weights[i]
    BY <2>4, <2>5, <2>6
  <2>8. f = [i \in 0 .. n |-> f[i]]
    OBVIOUS
  <2>9. [i \in 0 .. n |-> f[i]] =
          [i \in 0 .. n |-> IF i = 0 THEN a ELSE f[i - 1] + v[i] * m.weights[i]]
    BY <2>7
  <2> QED
    BY <2>8, <2>9
<1>5. x = [i \in 0 .. n |-> IF i = 0 THEN a ELSE x[i - 1] + v[i] * m.weights[i]]
  BY <1>2, <1>4
<1>6. \A i \in 0 .. n : x[i] = IF i = 0 THEN a ELSE x[i - 1] + v[i] * m.weights[i]
  BY <1>5
<1>7. \A i \in 1 .. n : i \in 0 .. n /\ i # 0 /\ i - 1 \in 0 .. n
  BY SMTT(30), <1>1
<1>8. x[0] = a /\ \A i \in 1 .. n : x[i] = x[i - 1] + p[i]
  <2>1. 0 \in 0 .. n
    BY SMTT(30), <1>1
  <2>2. \A i \in 1 .. n : p[i] = v[i] * m.weights[i]
    OBVIOUS
  <2> QED
    BY <1>6, <1>7, <2>1, <2>2
<1> HIDE DEF p, a
<1>9. \A i \in 0 .. n : x[i] \in Int
  <2> DEFINE T == {i \in 0 .. n : x[i] \notin Int}
  <2> SUFFICES ASSUME T # {} PROVE FALSE
    OBVIOUS
  <2>1. PICK k \in T : \A y \in T : k <= y
    <3>1. T \in SUBSET Nat
      BY SMTT(30), <1>1
    <3> QED
      BY <3>1, LeastNumber
  <2>2. k \in 0 .. n /\ x[k] \notin Int
    BY <2>1
  <2>3. k # 0
    BY <1>1, <1>8, <2>2
  <2>4. k \in 1 .. n /\ k - 1 \in 0 .. n /\ ~(k <= k - 1)
    BY SMTT(30), <1>1, <2>2, <2>3
  <2>5. x[k - 1] \in Int
    BY <2>1, <2>4
  <2>6. x[k] = x[k - 1] + p[k] /\ p[k] \in Int
    BY <1>1, <1>8, <2>4
  <2> HIDE DEF T
  <2> QED
    BY SMTT(30), <2>2, <2>5, <2>6
<1>10. x \in [0 .. n -> Int]
  BY <1>5, <1>9
<1> QED
  BY <1>3, <1>8, <1>10 DEF n, a, p

(* Model.Score does the same in float64. *)
LEMMA LogitIs ==
  ASSUME NEW m, NEW v, Fits(m, v)
  PROVE  \E z \in [0 .. Len(v) -> Float] :
           /\ Logit(m, v) = z[Len(v)] /\ z[0] = m.intercept
           /\ \A i \in 1 .. Len(v) : z[i] = Plus(z[i - 1], Round(v[i] * m.weights[i]))
<1> DEFINE n == Len(v)
           a == m.intercept
           p == [i \in 1 .. n |-> Round(v[i] * m.weights[i])]
           g == [i \in 1 .. n |-> [y \in Float |-> Plus(y, p[i])]]
<1>1. n \in Nat /\ a \in Float
  BY Products
<1>2. p \in [1 .. n -> Float]
  BY Products, RoundIs
<1>3. PICK z : z = CHOOSE f : f = [i \in 0 .. n |-> IF i = 0 THEN a
                                    ELSE Plus(f[i - 1], Round(v[i] * m.weights[i]))]
  OBVIOUS
<1>4. Logit(m, v) = z[n]
  BY <1>3 DEF Logit
<1> HIDE DEF n
<1>5. \E f \in [0 .. n -> Float] :
        f = [i \in 0 .. n |-> IF i = 0 THEN a
                              ELSE Plus(f[i - 1], Round(v[i] * m.weights[i]))]
  <2>1. g \in [1 .. n -> [Float -> Float]]
    BY <1>1, <1>2, PlusIs
  <2>2. PICK f \in [0 .. n -> Float] : Rounds(f, a, g, n)
    BY <1>1, <2>1, RoundsExist
  <2>3. \A i \in 1 .. n : i - 1 \in 0 .. n /\ f[i - 1] \in Float
    BY SMTT(30), <1>1
  <2>4. \A i \in 1 .. n : f[i] = Plus(f[i - 1], Round(v[i] * m.weights[i]))
    BY <2>2, <2>3 DEF Rounds
  <2>5. \A i \in 0 .. n : i # 0 => i \in 1 .. n
    BY SMTT(30), <1>1
  <2>6. f[0] = a
    BY <2>2 DEF Rounds
  <2>7. \A i \in 0 .. n : f[i] = IF i = 0 THEN a
                                 ELSE Plus(f[i - 1], Round(v[i] * m.weights[i]))
    BY <2>4, <2>5, <2>6
  <2>8. f = [i \in 0 .. n |-> f[i]]
    OBVIOUS
  <2>9. [i \in 0 .. n |-> f[i]] =
          [i \in 0 .. n |-> IF i = 0 THEN a
                            ELSE Plus(f[i - 1], Round(v[i] * m.weights[i]))]
    BY <2>7
  <2> QED
    BY <2>8, <2>9
<1>6. z = [i \in 0 .. n |-> IF i = 0 THEN a
                            ELSE Plus(z[i - 1], Round(v[i] * m.weights[i]))]
  BY <1>3, <1>5
<1>7. \A i \in 0 .. n : z[i] = IF i = 0 THEN a
                               ELSE Plus(z[i - 1], Round(v[i] * m.weights[i]))
  BY <1>6
<1>8. 0 \in 0 .. n /\ \A i \in 1 .. n : i \in 0 .. n /\ i # 0
  BY SMTT(30), <1>1
<1>9. z[0] = a /\ \A i \in 1 .. n : z[i] = Plus(z[i - 1], p[i])
  BY <1>7, <1>8
<1> HIDE DEF p, a
<1>10. \A i \in 0 .. n : z[i] \in Float
  <2> DEFINE T == {i \in 0 .. n : z[i] \notin Float}
  <2> SUFFICES ASSUME T # {} PROVE FALSE
    OBVIOUS
  <2>1. PICK k \in T : \A y \in T : k <= y
    <3>1. T \in SUBSET Nat
      BY SMTT(30), <1>1
    <3> QED
      BY <3>1, LeastNumber
  <2>2. k \in 0 .. n /\ z[k] \notin Float /\ k # 0
    BY <1>1, <1>9, <2>1
  <2>3. k \in 1 .. n /\ k - 1 \in 0 .. n /\ ~(k <= k - 1)
    BY SMTT(30), <1>1, <2>2
  <2>4. z[k - 1] \in Float /\ p[k] \in Float
    BY <1>2, <2>1, <2>3
  <2> QED
    BY <1>9, <2>2, <2>3, <2>4, PlusIs
<1>11. z \in [0 .. n -> Float]
  BY <1>6, <1>10
<1> QED
  BY <1>4, <1>9, <1>11 DEF n, a, p

-----------------------------------------------------------------------------
(* A score is the exact logit.  It is finite just when no weighted feature *)
(* and no partial sum on the way is out of range: an infinity that was met *)
(* on the way never cancels out.                                           *)
THEOREM LogitExact ==
  ASSUME NEW m, NEW v, Fits(m, v)
  PROVE  /\ IsFinite(Logit(m, v)) <=> ~ \E i \in 1 .. Len(v) : Overflow(m, v, i)
         /\ IsFinite(Logit(m, v)) => Logit(m, v) = Exact(m, v)[Len(v)]
<1> DEFINE n == Len(v)
           a == m.intercept
           x == Exact(m, v)
           p == [i \in 1 .. n |-> v[i] * m.weights[i]]
           Fine(i) == IsFinite(p[i]) /\ IsFinite(x[i])
<1>1. n \in Nat /\ a \in Float /\ a \in Int /\ IsFinite(a) /\ p \in [1 .. n -> Int]
  BY Products
<1>2. PICK z \in [0 .. n -> Float] :
        /\ Logit(m, v) = z[n] /\ z[0] = a
        /\ \A i \in 1 .. n : z[i] = Plus(z[i - 1], Round(p[i]))
  BY LogitIs
<1>3. /\ x \in [0 .. n -> Int] /\ x[0] = a
      /\ \A i \in 1 .. n : x[i] = x[i - 1] + p[i]
  BY ExactIs
<1>4. \A i \in 1 .. n : Overflow(m, v, i) <=> ~Fine(i)
  BY DEF Overflow
<1> HIDE DEF n, a, x, p
<1>5. ASSUME NEW k \in 0 .. n, \A i \in 1 .. k : Fine(i)
      PROVE  z[k] = x[k] /\ IsFinite(x[k])
  <2> DEFINE T == {i \in 0 .. k : ~(z[i] = x[i] /\ IsFinite(x[i]))}
  <2>0. k \in 0 .. k /\ k \in Nat /\ k <= n
    BY SMTT(30), <1>1
  <2> SUFFICES ASSUME T # {} PROVE FALSE
    BY <2>0
  <2>1. PICK j \in T : \A y \in T : j <= y
    <3>1. T \in SUBSET Nat
      BY SMTT(30), <2>0
    <3> QED
      BY <3>1, LeastNumber
  <2>2. j \in 0 .. k /\ ~(z[j] = x[j] /\ IsFinite(x[j])) /\ j # 0
    BY <1>1, <1>2, <1>3, <2>1
  <2>3. j \in 1 .. k /\ j \in 1 .. n /\ j - 1 \in 0 .. k /\ j - 1 \in 0 .. n /\ ~(j <= j - 1)
    BY SMTT(30), <1>1, <2>0, <2>2
  <2>4. z[j - 1] = x[j - 1] /\ IsFinite(x[j - 1])
    BY <2>1, <2>3
  <2>5. Fine(j) /\ x[j - 1] \in Float /\ p[j] \in Int /\ x[j] \in Int
    BY SMTT(30), <1>1, <1>2, <1>3, <1>5, <2>3, <2>4
  <2>6. Round(p[j]) = p[j] /\ p[j] \in Float
    BY <2>5, RoundIs
  <2>7. Plus(x[j - 1], p[j]) = Round(x[j])
    BY <1>3, <2>3, <2>4, <2>5, <2>6, PlusIs
  <2>8. z[j] = x[j]
    BY SMTT(30), <1>2, <2>3, <2>4, <2>5, <2>6, <2>7, RoundIs
  <2> QED
    BY <2>2, <2>5, <2>8
<1>6. ASSUME NEW k \in 1 .. n, ~Fine(k), \A i \in 1 .. n : ~Fine(i) => k <= i
      PROVE  ~IsFinite(z[n])
  <2>0. k \in Nat /\ k - 1 \in 0 .. n /\ k \in 0 .. n /\ k <= n /\ n \in 0 .. n
    BY SMTT(30), <1>1
  <2>1. z[k - 1] = x[k - 1] /\ IsFinite(x[k - 1])
    <3>1. \A i \in 1 .. k - 1 : i \in 1 .. n /\ ~(k <= i)
      BY SMTT(30), <1>1, <2>0
    <3> QED
      BY <1>5, <1>6, <2>0, <3>1
  <2>2. ~IsFinite(z[k])
    <3>1. z[k] = Plus(x[k - 1], Round(p[k])) /\ p[k] \in Int /\ x[k] \in Int
          /\ x[k - 1] \in Float /\ x[k] = x[k - 1] + p[k]
      BY <1>1, <1>2, <1>3, <2>0, <2>1
    <3>2. CASE ~IsFinite(p[k])
      BY SMTT(30), <3>1, <3>2, RoundIs, PlusIs
    <3>3. CASE IsFinite(p[k])
      <4>1. Round(p[k]) = p[k] /\ p[k] \in Float /\ ~IsFinite(x[k])
        BY <1>6, <3>1, <3>3, RoundIs
      <4>2. z[k] = Round(x[k])
        BY <2>1, <3>1, <3>3, <4>1, PlusIs
      <4> QED
        BY <3>1, <4>1, <4>2, RoundIs
    <3> QED
      BY <3>2, <3>3
  <2> DEFINE T == {i \in k .. n : IsFinite(z[i])}
  <2> SUFFICES ASSUME IsFinite(z[n]) PROVE FALSE
    OBVIOUS
  <2>3. T # {} /\ T \in SUBSET Nat
    BY SMTT(30), <1>1, <2>0
  <2>4. PICK j \in T : \A y \in T : j <= y
    BY <2>3, LeastNumber
  <2>5. j \in k .. n /\ IsFinite(z[j]) /\ j # k
    BY <2>2, <2>4
  <2>6. j \in 1 .. n /\ j - 1 \in k .. n /\ j - 1 \in 0 .. n /\ ~(j <= j - 1)
    BY SMTT(30), <1>1, <2>0, <2>5
  <2>7. ~IsFinite(z[j - 1])
    BY <2>4, <2>6
  <2>8. z[j] = Plus(z[j - 1], Round(p[j])) /\ z[j - 1] \in Float /\ Round(p[j]) \in Float
    BY <1>1, <1>2, <2>6, RoundIs
  <2> QED
    BY <2>5, <2>7, <2>8, PlusIs
<1>7. CASE \A i \in 1 .. n : Fine(i)
  <2>1. n \in 0 .. n
    BY SMTT(30), <1>1
  <2>2. z[n] = x[n] /\ IsFinite(x[n])
    BY <1>5, <1>7, <2>1
  <2> QED
    BY <1>2, <1>4, <1>7, <2>2 DEF n, x
<1>8. CASE ~ \A i \in 1 .. n : Fine(i)
  <2> DEFINE T == {i \in 1 .. n : ~Fine(i)}
  <2>1. T # {} /\ T \in SUBSET Nat
    BY SMTT(30), <1>1, <1>8
  <2>2. PICK k \in T : \A y \in T : k <= y
    BY <2>1, LeastNumber
  <2>3. ~IsFinite(z[n])
    BY <1>6, <2>2
  <2> QED
    BY <1>2, <1>4, <1>8, <2>3 DEF n
<1> QED
  BY <1>7, <1>8

(* vectorFor makes a vector of the model's length. *)
LEMMA VectorFits ==
  ASSUME NEW m, NEW features, Unmarshalled(m), Validate(m), ~FeatureError(m, features)
  PROVE  LET v == VectorFor(m, features)
         IN  /\ Fits(m, v) /\ Len(m.order) = Len(m.weights) /\ Len(v) = Len(m.order)
             /\ Len(m.order) \in Nat /\ DOMAIN m.order = 1 .. Len(m.order)
<1> DEFINE v == VectorFor(m, features)
<1>1. Len(m.order) \in Nat /\ DOMAIN m.order = 1 .. Len(m.order)
  BY SMTT(30) DEF Unmarshalled
<1>2. \A i \in 1 .. Len(m.order) : v[i] \in Int
  <2>1. \A t \in DOMAIN Num : Num[t] \in Int
    <3>1. FMax \in Nat /\ \A t \in DOMAIN Num : Num[t] \in -FMax .. FMax
      BY APIAssumption
    <3> QED
      BY SMTT(30), <3>1
  <2>2. \A i \in 1 .. Len(m.order) : features[m.order[i]] \in DOMAIN Num
    BY <1>1 DEF FeatureError
  <2> QED
    BY <1>1, <2>1, <2>2 DEF VectorFor
<1>3. v = [i \in 1 .. Len(m.order) |-> v[i]]
  BY <1>1 DEF VectorFor
<1> HIDE DEF v
<1>4. v \in Seq(Int) /\ Len(v) = Len(m.order)
  <2>1. \A n \in Nat : \A u \in [1 .. n -> Int] : u \in Seq(Int) /\ Len(u) = n
    BY SMTT(30)
  <2>2. v \in [1 .. Len(m.order) -> Int]
    BY <1>2, <1>3
  <2> QED
    BY <1>1, <2>1, <2>2
<1>5. m.weights \in Seq(Int)
  <2>1. PICK w \in Seq(-FMax .. FMax) : w = m.weights
    BY DEF Unmarshalled
  <2>2. FMax \in Nat
    BY APIAssumption
  <2>3. Len(w) \in Nat /\ \A i \in 1 .. Len(w) : w[i] \in Int
    BY SMTT(30), <2>2, LenProperties, ElementOfSeq
  <2>4. w = [i \in 1 .. Len(w) |-> w[i]]
    BY SMTT(30)
  <2>5. w \in Seq(Int)
    BY SMTT(30), <2>3, <2>4
  <2> QED
    BY <2>1, <2>5
<1>6. Fits(m, v) /\ Len(m.order) = Len(m.weights)
  <2>1. m.intercept \in -FMax .. FMax
    BY DEF Unmarshalled
  <2>2. Len(m.weights) = Len(m.order)
    BY DEF Validate
  <2> QED
    BY <1>4, <1>5, <2>1, <2>2 DEF Fits
<1> QED
  BY <1>1, <1>4, <1>6 DEF v

(* What Service.Score answers, for every model that validate lets through  *)
(* and all features: 400 for a missing, unknown or non-numeric feature,    *)
(* 400 when the logit leaves the range of a float64 at any feature, and    *)
(* the exact logit otherwise.                                              *)
THEOREM ScoreIsExact ==
  ASSUME NEW m, NEW features, Unmarshalled(m), Validate(m)
  PROVE  LET v == VectorFor(m, features)
         IN  Score(m, features) =
               IF \/ FeatureError(m, features)
                  \/ \E i \in 1 .. Len(v) : Overflow(m, v, i)
               THEN Answer(400)
               ELSE [Answer(200) EXCEPT !.logit = Exact(m, v)[Len(v)]]
<1> DEFINE v == VectorFor(m, features)
<1>1. CASE FeatureError(m, features)
  BY <1>1 DEF Score
<1>2. CASE ~FeatureError(m, features)
  <2>1. Fits(m, v) /\ Len(m.order) = Len(m.weights)
    BY <1>2, VectorFits
  <2> HIDE DEF v
  <2>2. Score(m, features) = IF ~IsFinite(Logit(m, v)) THEN Answer(400)
                             ELSE [Answer(200) EXCEPT !.logit = Logit(m, v)]
    BY <1>2, <2>1 DEF Score, v
  <2>3. /\ IsFinite(Logit(m, v)) <=> ~ \E i \in 1 .. Len(v) : Overflow(m, v, i)
        /\ IsFinite(Logit(m, v)) => Logit(m, v) = Exact(m, v)[Len(v)]
    BY <2>1, LogitExact
  <2> QED
    BY <1>2, <2>2, <2>3 DEF v
<1> QED
  BY <1>1, <1>2

(* A non-empty set of numbers that has a bound has a greatest element, and *)
(* this is its Max.                                                        *)
LEMMA GreatestNumber ==
  ASSUME NEW n \in Nat, NEW S \in SUBSET (0 .. n), S # {}
  PROVE  Max(S) \in S /\ \A x \in S : x <= Max(S)
<1> DEFINE T == {n - x : x \in S}
<1>0. \A x \in S : n - x \in Nat
  BY SMTT(30)
<1>1. T \in SUBSET Nat /\ T # {}
  BY <1>0
<1>2. PICK t \in T : \A y \in T : t <= y
  BY <1>1, LeastNumber
<1>3. PICK m \in S : t = n - m
  OBVIOUS
<1>4. \A x \in S : m >= x
  <2> SUFFICES ASSUME NEW x \in S PROVE m >= x
    OBVIOUS
  <2>1. t <= n - x
    BY <1>2
  <2> QED
    BY SMTT(30), <1>3, <2>1
<1>5. Max(S) \in S /\ \A x \in S : Max(S) >= x
  BY <1>4 DEF Max
<1> QED
  BY SMTT(30), <1>5

(* And the least element of a set is its Min. *)
LEMMA MinIs ==
  ASSUME NEW S \in SUBSET Nat, S # {}
  PROVE  Min(S) \in S /\ \A x \in S : Min(S) <= x
BY LeastNumber DEF Min

-----------------------------------------------------------------------------
(* The tokens of a document, and what is known of the kinds. *)
LEMMA Tokens ==
  ASSUME NEW d \in Seq(Token)
  PROVE  /\ Len(d) \in Nat /\ DOMAIN d = 1 .. Len(d)
         /\ \A i \in 1 .. Len(d) : d[i] \in Token /\ ~(d[i] \in Open /\ d[i] \in Close)
<1>1. Open \cap Close = {}
  BY DEF Open, Close
<1> QED
  BY <1>1, LenProperties, ElementOfSeq

(* The depth starts at 0, and only brackets change it. *)
LEMMA DepthStep ==
  ASSUME NEW d \in Seq(Token)
  PROVE  /\ Depth(d, 1) = 0
         /\ \A i \in 1 .. Len(d) + 1 : Depth(d, i) \in Int
         /\ \A i \in 1 .. Len(d) :
              Depth(d, i + 1) = IF d[i] \in Open THEN Depth(d, i) + 1
                                ELSE IF d[i] \in Close THEN Depth(d, i) - 1
                                ELSE Depth(d, i)
<1> DEFINE Before(K, i) == {j \in 1 .. i - 1 : d[j] \in K}
<1>1. Len(d) \in Nat
  BY Tokens
<1>2. ASSUME NEW K, NEW i \in 1 .. Len(d) + 1
      PROVE  IsFiniteSet(Before(K, i)) /\ Cardinality(Before(K, i)) \in Nat
  <2>1. IsFiniteSet(1 .. i - 1)
    BY SMTT(30), <1>1, FS_Interval
  <2>2. Before(K, i) \subseteq 1 .. i - 1
    OBVIOUS
  <2> QED
    BY <2>1, <2>2, FS_Subset, FS_CardinalityType
<1>3. ASSUME NEW K, NEW i \in 1 .. Len(d)
      PROVE  Cardinality(Before(K, i + 1)) =
               IF d[i] \in K THEN Cardinality(Before(K, i)) + 1 ELSE Cardinality(Before(K, i))
  <2>1. i \notin Before(K, i) /\ i \in 1 .. Len(d) + 1
    BY SMTT(30), <1>1
  <2>2. Before(K, i + 1) = IF d[i] \in K THEN Before(K, i) \cup {i} ELSE Before(K, i)
    BY SMTT(30), <1>1
  <2>3. IsFiniteSet(Before(K, i))
    BY <1>2, <2>1
  <2> HIDE DEF Before
  <2>4. Cardinality(Before(K, i) \cup {i}) = Cardinality(Before(K, i)) + 1
    BY <2>1, <2>3, FS_AddElement
  <2> QED
    BY <2>2, <2>4
<1>4. \A i : Depth(d, i) = Cardinality(Before(Open, i)) - Cardinality(Before(Close, i))
  BY DEF Depth
<1>5. Depth(d, 1) = 0
  <2>1. Before(Open, 1) = {} /\ Before(Close, 1) = {}
    BY SMTT(30)
  <2>2. Cardinality({}) = 0
    BY FS_EmptySet
  <2> HIDE DEF Before
  <2>3. Depth(d, 1) = 0 - 0
    BY <1>4, <2>1, <2>2
  <2> QED
    BY SMTT(30), <2>3
<1> HIDE DEF Before
<1>6. \A i \in 1 .. Len(d) + 1 : Depth(d, i) \in Int
  BY SMTT(30), <1>2, <1>4
<1>7. ASSUME NEW i \in 1 .. Len(d)
      PROVE  Depth(d, i + 1) = IF d[i] \in Open THEN Depth(d, i) + 1
                               ELSE IF d[i] \in Close THEN Depth(d, i) - 1
                               ELSE Depth(d, i)
  <2>1. i \in 1 .. Len(d) + 1 /\ ~(d[i] \in Open /\ d[i] \in Close)
    BY SMTT(30), <1>1, Tokens
  <2>2. Cardinality(Before(Open, i)) \in Nat /\ Cardinality(Before(Close, i)) \in Nat
    BY <1>2, <2>1
  <2>3. Cardinality(Before(Open, i + 1)) =
          IF d[i] \in Open THEN Cardinality(Before(Open, i)) + 1 ELSE Cardinality(Before(Open, i))
    BY <1>3
  <2>4. Cardinality(Before(Close, i + 1)) =
          IF d[i] \in Close THEN Cardinality(Before(Close, i)) + 1 ELSE Cardinality(Before(Close, i))
    BY <1>3
  <2> QED
    BY SMTT(30), <1>4, <2>1, <2>2, <2>3, <2>4
<1> QED
  BY <1>5, <1>6, <1>7

(* The bracket that a token is inside of: of those that are one level up,  *)
(* the last one before it.                                                 *)
Around(d, i) ==
  {0} \cup {j \in 1 .. i - 1 : d[j] \in Open /\ Depth(d, j) = Depth(d, i) - 1}

LEMMA Tabulate ==
  ASSUME NEW n \in Nat, NEW S, NEW f \in [1 .. n -> S]
  PROVE  Tabulated(f) = f
<1>1. f \in Seq(S)
  BY SMTT(30)
<1> QED
  BY <1>1, ConcatEmptySeq DEF Tabulated

LEMMA ParentMax ==
  ASSUME NEW d \in Seq(Token), NEW i \in 1 .. Len(d)
  PROVE  /\ Parent(d)[i] = Max(Around(d, i))
         /\ Parent(d)[i] \in Around(d, i) /\ \A j \in Around(d, i) : j <= Parent(d)[i]
<1> DEFINE n == Len(d)
           depth == [j \in 1 .. n |-> Depth(d, j)]
           parent == [j \in 1 .. n |->
             Max({0} \cup {k \in 1 .. j - 1 : d[k] \in Open /\ Tabulated(depth)[k] = Tabulated(depth)[j] - 1})]
<1>1. n \in Nat
  BY Tokens
<1>2. depth \in [1 .. n -> {Depth(d, j) : j \in 1 .. n}]
  OBVIOUS
<1>3. Tabulated(depth) = depth
  <2> HIDE DEF depth
  <2> QED
    BY <1>1, <1>2, Tabulate
<1>4. Parent(d) = Tabulated(parent)
  BY DEF Parent
<1>5. parent \in [1 .. n -> {parent[j] : j \in 1 .. n}]
  OBVIOUS
<1>6. Tabulated(parent) = parent
  <2> HIDE DEF parent
  <2> QED
    BY <1>1, <1>5, Tabulate
<1>7. parent[i] = Max(Around(d, i))
  <2>1. {k \in 1 .. i - 1 : d[k] \in Open /\ Tabulated(depth)[k] = Tabulated(depth)[i] - 1}
          = {j \in 1 .. i - 1 : d[j] \in Open /\ Depth(d, j) = Depth(d, i) - 1}
    BY SMTT(30), <1>1, <1>3
  <2>2. parent[i] = Max({0} \cup {k \in 1 .. i - 1 : d[k] \in Open /\ Tabulated(depth)[k] = Tabulated(depth)[i] - 1})
    OBVIOUS
  <2> QED
    BY <2>1, <2>2 DEF Around
<1>8. Around(d, i) \in SUBSET (0 .. n) /\ Around(d, i) # {}
  BY SMTT(30), <1>1 DEF Around
<1> QED
  BY <1>1, <1>4, <1>6, <1>7, <1>8, GreatestNumber

(* Between a bracket and a token inside of it the depth is above that of   *)
(* the bracket, and this says which bracket it is.                         *)
Inside(d, o, i) ==
  /\ o \in 1 .. Len(d) /\ o < i /\ d[o] \in Open
  /\ \A j \in o + 1 .. i : Depth(d, j) > Depth(d, o)

LEMMA ParentIs ==
  ASSUME NEW d \in Seq(Token), NEW i \in 1 .. Len(d), NEW o,
         Inside(d, o, i), Depth(d, i) = Depth(d, o) + 1
  PROVE  Parent(d)[i] = o
<1>1. Len(d) \in Nat /\ o \in Nat /\ o \in 1 .. i - 1 /\ o \in 1 .. Len(d) + 1
  BY SMTT(30), Tokens DEF Inside
<1>2. Depth(d, o) \in Int
  BY <1>1, DepthStep
<1>3. o \in Around(d, i)
  BY SMTT(30), <1>1, <1>2 DEF Around, Inside
<1>4. ASSUME NEW j \in Around(d, i), j > o PROVE FALSE
  <2>1. j \in 1 .. i - 1 /\ Depth(d, j) = Depth(d, i) - 1
    BY SMTT(30), <1>1, <1>4 DEF Around
  <2>2. j \in o + 1 .. i
    BY SMTT(30), <1>1, <1>4, <2>1
  <2>3. Depth(d, j) > Depth(d, o)
    BY <2>2 DEF Inside
  <2> QED
    BY SMTT(30), <1>2, <2>1, <2>3
<1>5. Parent(d)[i] \in Around(d, i) /\ o <= Parent(d)[i]
  BY <1>3, ParentMax
<1>6. Parent(d)[i] \in Int
  BY SMTT(30), <1>1, <1>5 DEF Around
<1> QED
  BY SMTT(30), <1>1, <1>4, <1>5, <1>6

LEMMA ParentOf ==
  ASSUME NEW d \in Seq(Token), NEW i \in 1 .. Len(d)
  PROVE  /\ Parent(d)[i] \in 0 .. i - 1
         /\ Parent(d)[i] # 0 => /\ Inside(d, Parent(d)[i], i)
                                /\ Depth(d, i) = Depth(d, Parent(d)[i]) + 1
         /\ Parent(d)[i] = 0 => Depth(d, i) <= 0
<1> DEFINE n == Len(d)
           D == [j \in 1 .. n + 1 |-> Depth(d, j)]
           o == Parent(d)[i]
<1>1. n \in Nat /\ i \in Nat /\ i \in 1 .. n + 1
  BY SMTT(30), Tokens
<1>2. D \in [1 .. n + 1 -> Int] /\ D[1] = 0
  BY SMTT(30), <1>1, DepthStep
<1>3. \A j \in 1 .. n : D[j + 1] <= D[j] \/ (D[j + 1] = D[j] + 1 /\ d[j] \in Open)
  <2> SUFFICES ASSUME NEW j \in 1 .. n
               PROVE  D[j + 1] <= D[j] \/ (D[j + 1] = D[j] + 1 /\ d[j] \in Open)
    OBVIOUS
  <2>1. j \in 1 .. n + 1 /\ j + 1 \in 1 .. n + 1
    BY SMTT(30), <1>1
  <2>2. D[j] = Depth(d, j) /\ D[j + 1] = Depth(d, j + 1) /\ D[j] \in Int
    BY <1>2, <2>1
  <2>3. Depth(d, j + 1) = IF d[j] \in Open THEN Depth(d, j) + 1
                          ELSE IF d[j] \in Close THEN Depth(d, j) - 1 ELSE Depth(d, j)
    BY DepthStep
  <2> HIDE DEF D
  <2> QED
    BY SMTT(30), <2>2, <2>3
<1>4. o \in 0 .. i - 1 /\ (o # 0 => d[o] \in Open /\ D[o] = D[i] - 1 /\ o \in 1 .. n)
  <2>1. o \in {0} \cup {j \in 1 .. i - 1 : d[j] \in Open /\ Depth(d, j) = Depth(d, i) - 1}
    BY ParentMax DEF Around
  <2> QED
    BY SMTT(30), <1>1, <2>1
<1>5. ASSUME NEW j \in 1 .. i - 1, d[j] \in Open, D[j] = D[i] - 1
      PROVE  j <= o
  <2>1. j \in 1 .. n + 1
    BY SMTT(30), <1>1
  <2>2. j \in Around(d, i)
    BY SMTT(30), <1>1, <1>5, <2>1 DEF Around
  <2> QED
    BY <2>2, ParentMax
(* The last position with a depth below that of i opens what i is in. *)
<1>6. ASSUME NEW a \in 1 .. i - 1, D[a] < D[i]
      PROVE  a <= o /\ o # 0
  <2> DEFINE T == {j \in 1 .. i - 1 : D[j] < D[i]}
  <2>1. T \in SUBSET (0 .. i) /\ T # {} /\ a \in T
    BY SMTT(30), <1>1, <1>6
  <2>2. PICK k \in T : \A j \in T : j <= k
    BY <1>1, <2>1, GreatestNumber
  <2>3. k \in 1 .. i - 1 /\ D[k] < D[i] /\ a <= k
    BY <2>1, <2>2
  <2>4. k \in 1 .. n /\ k \in 1 .. n + 1 /\ k + 1 \in 1 .. n + 1 /\ k + 1 \in 1 .. i /\ ~(k + 1 <= k)
    BY SMTT(30), <1>1, <2>3
  <2>5. D[k + 1] >= D[i]
    <3>1. CASE k + 1 = i
      BY SMTT(30), <1>1, <1>2, <3>1
    <3>2. CASE k + 1 # i
      <4>1. k + 1 \in 1 .. i - 1
        BY SMTT(30), <1>1, <2>4, <3>2
      <4>2. ~(D[k + 1] < D[i])
        BY <2>2, <2>4, <4>1
      <4>3. D[k + 1] \in Int /\ D[i] \in Int
        BY <1>1, <1>2, <2>4
      <4> HIDE DEF D
      <4> QED
        BY SMTT(30), <4>2, <4>3
    <3> QED
      BY <3>1, <3>2
  <2> HIDE DEF D, T, o, n
  <2>6. d[k] \in Open /\ D[k] = D[i] - 1
    BY SMTT(30), <1>1, <1>2, <1>3, <2>3, <2>4, <2>5
  <2> QED
    BY SMTT(30), <1>1, <1>4, <1>5, <2>3, <2>6
<1>7. CASE o = 0
  <2>1. \A a \in 1 .. i - 1 : ~(D[a] < D[i])
    BY <1>6, <1>7
  <2>2. D[i] = Depth(d, i)
    BY <1>1
  <2>3. D[i] <= 0
    <3> HIDE DEF D, n, o
    <3> QED
      BY SMTT(30), <1>1, <1>2, <2>1
  <2> QED
    BY <1>4, <1>7, <2>2, <2>3
<1>8. CASE o # 0
  <2>1. o \in 1 .. n /\ o \in 1 .. n + 1 /\ o < i /\ D[o] = D[i] - 1 /\ D[o] \in Int /\ D[i] \in Int
    <3> HIDE DEF D, o
    <3> QED
      BY SMTT(30), <1>1, <1>2, <1>4, <1>8
  <2>2. ASSUME NEW j \in o + 1 .. i PROVE D[j] > D[o]
    <3>1. j \in Int /\ j > o /\ j \in 1 .. n + 1
      BY SMTT(30), <1>1, <2>1
    <3>2. CASE j = i
      <4> HIDE DEF D
      <4> QED
        BY SMTT(30), <2>1, <3>2
    <3>3. CASE j # i
      <4>1. j \in 1 .. i - 1 /\ ~(j <= o)
        BY SMTT(30), <1>1, <2>1, <3>1, <3>3
      <4>2. ~(D[j] < D[i]) /\ D[j] \in Int
        BY <1>2, <1>6, <3>1, <4>1
      <4> HIDE DEF D
      <4> QED
        BY SMTT(30), <2>1, <4>2
    <3> QED
      BY <3>2, <3>3
  <2>3. \A j \in o + 1 .. i : D[j] = Depth(d, j)
    BY SMTT(30), <1>1, <2>1
  <2>4. D[o] = Depth(d, o) /\ D[i] = Depth(d, i)
    BY <1>1, <2>1
  <2>5. Inside(d, o, i)
    BY <1>4, <1>8, <2>1, <2>2, <2>3, <2>4 DEF Inside
  <2>6. Depth(d, i) = Depth(d, o) + 1
    <3> HIDE DEF D, o
    <3> QED
      BY SMTT(30), <2>1, <2>4
  <2> QED
    BY <1>4, <1>8, <2>5, <2>6
<1> QED
  BY <1>7, <1>8

-----------------------------------------------------------------------------
(* A value: the tokens from one that closes nothing to where the depth is  *)
(* the same again.                                                         *)
Span(d, p, k) ==
  /\ p \in 1 .. Len(d) /\ k \in p + 1 .. Len(d) + 1 /\ d[p] \notin Close
  /\ Depth(d, k) = Depth(d, p)
  /\ \A j \in p + 1 .. k - 1 : Depth(d, j) > Depth(d, p)

(* What is inside of a bracket, and what of it is before a position. *)
Kids(d, o) == Children(d, Parent(d), o)
KidsBefore(d, o, p) == {i \in Kids(d, o) : i < p}
KeysOf(d, o) == Keys(Kids(d, o))

(* Directly inside of a bracket: where its next child or its end is. *)
Region(d, o, p) ==
  p \in 1 .. Len(d) + 1 /\ Inside(d, o, p) /\ Depth(d, p) = Depth(d, o) + 1

(* Facts on positions and depths, in one place. *)
LEMMA Positions ==
  ASSUME NEW d \in Seq(Token)
  PROVE  /\ Len(d) \in Nat
         /\ \A i \in 1 .. Len(d) + 1 : i \in Nat /\ Depth(d, i) \in Int
         /\ \A i \in 1 .. Len(d) : i \in 1 .. Len(d) + 1 /\ i + 1 \in 1 .. Len(d) + 1
<1>1. Len(d) \in Nat
  BY Tokens
<1>2. \A i \in 1 .. Len(d) + 1 : i \in Nat
  BY SMTT(30), <1>1
<1>3. \A i \in 1 .. Len(d) : i \in 1 .. Len(d) + 1 /\ i + 1 \in 1 .. Len(d) + 1
  BY SMTT(30), <1>1
<1> QED
  BY <1>1, <1>2, <1>3, DepthStep

LEMMA KidIs ==
  ASSUME NEW d \in Seq(Token), NEW o \in 1 .. Len(d), NEW i \in 1 .. Len(d)
  PROVE  i \in Kids(d, o) <=> d[i] \notin Close /\ Region(d, o, i)
<1>1. i \in Kids(d, o) <=> Parent(d)[i] = o /\ d[i] \notin Close
  BY DEF Kids, Children
<1>2. o # 0 /\ i \in 1 .. Len(d) + 1
  BY SMTT(30), Positions
<1>3. Parent(d)[i] = o <=> Region(d, o, i)
  BY <1>2, ParentIs, ParentOf DEF Region
<1> QED
  BY <1>1, <1>3

LEMMA KidsFinite ==
  ASSUME NEW d \in Seq(Token), NEW o
  PROVE  /\ Kids(d, o) \subseteq 1 .. Len(d) /\ IsFiniteSet(Kids(d, o))
         /\ Kids(d, o) \in SUBSET Nat
         /\ \A p : IsFiniteSet(KidsBefore(d, o, p)) /\ Cardinality(KidsBefore(d, o, p)) \in Nat
<1>1. Kids(d, o) \subseteq 1 .. Len(d)
  BY DEF Kids, Children
<1>2. IsFiniteSet(1 .. Len(d)) /\ 1 .. Len(d) \subseteq Nat
  BY SMTT(30), Positions, FS_Interval
<1>3. \A p : KidsBefore(d, o, p) \subseteq Kids(d, o)
  BY DEF KidsBefore
<1>4. IsFiniteSet(Kids(d, o))
  BY <1>1, <1>2, FS_Subset
<1>5. \A p : IsFiniteSet(KidsBefore(d, o, p))
  BY <1>3, <1>4, FS_Subset
<1> QED
  BY <1>1, <1>2, <1>4, <1>5, FS_CardinalityType

(* After a bracket one is inside of it. *)
LEMMA RegionStarts ==
  ASSUME NEW d \in Seq(Token), NEW o \in 1 .. Len(d), d[o] \in Open
  PROVE  Region(d, o, o + 1) /\ KidsBefore(d, o, o + 1) = {}
<1>1. Len(d) \in Nat /\ o \in Nat /\ Depth(d, o) \in Int /\ o + 1 \in 1 .. Len(d) + 1
  BY Positions
<1>2. Depth(d, o + 1) = Depth(d, o) + 1
  BY DepthStep
<1>3. Region(d, o, o + 1)
  BY SMTT(30), <1>1, <1>2 DEF Region, Inside
<1>4. ASSUME NEW i \in KidsBefore(d, o, o + 1) PROVE FALSE
  <2>1. i \in 1 .. Len(d) /\ i \in Kids(d, o) /\ i < o + 1
    BY KidsFinite DEF KidsBefore
  <2>2. o < i
    BY <2>1, KidIs DEF Region, Inside
  <2> QED
    BY SMTT(30), <1>1, <2>1, <2>2
<1> QED
  BY <1>3, <1>4

(* A value inside of a bracket is one child, and after it one is still     *)
(* inside.                                                                 *)
LEMMA RegionSpan ==
  ASSUME NEW d \in Seq(Token), NEW o, NEW p, NEW k, Region(d, o, p), Span(d, p, k)
  PROVE  /\ Region(d, o, k) /\ p \in Kids(d, o)
         /\ KidsBefore(d, o, k) = KidsBefore(d, o, p) \cup {p}
         /\ Cardinality(KidsBefore(d, o, k)) = Cardinality(KidsBefore(d, o, p)) + 1
<1>1. /\ Len(d) \in Nat /\ p \in 1 .. Len(d) /\ k \in p + 1 .. Len(d) + 1 /\ d[p] \notin Close
      /\ Depth(d, k) = Depth(d, p)
      /\ \A j \in p + 1 .. k - 1 : Depth(d, j) > Depth(d, p)
  BY Positions DEF Span
<1>2. /\ o \in 1 .. Len(d) /\ o < p /\ d[o] \in Open /\ Depth(d, p) = Depth(d, o) + 1
      /\ \A j \in o + 1 .. p : Depth(d, j) > Depth(d, o)
  BY DEF Region, Inside
<1>3. k \in 1 .. Len(d) + 1 /\ o \in 1 .. Len(d) + 1 /\ p \in 1 .. Len(d) + 1
      /\ o \in Nat /\ p \in Nat /\ k \in Nat
  BY SMTT(30), <1>1, <1>2
<1>4. Depth(d, o) \in Int /\ Depth(d, p) \in Int
  BY <1>3, Positions
<1>5. ASSUME NEW j \in o + 1 .. k
      PROVE  Depth(d, j) > Depth(d, o) /\ (j \in p + 1 .. k - 1 => Depth(d, j) > Depth(d, o) + 1)
  <2>1. j \in Nat /\ j \in 1 .. Len(d) + 1
    BY SMTT(30), <1>1, <1>3
  <2>2. Depth(d, j) \in Int
    BY <2>1, Positions
  <2>3. j \in o + 1 .. p \/ j \in p + 1 .. k - 1 \/ j = k
    BY SMTT(30), <1>3, <2>1
  <2>4. j \in o + 1 .. p => j \notin p + 1 .. k - 1
    BY SMTT(30), <1>3
  <2>5. j \in p + 1 .. k - 1 => Depth(d, j) > Depth(d, p)
    BY <1>1
  <2>6. j \in o + 1 .. p => Depth(d, j) > Depth(d, o)
    BY <1>2
  <2> QED
    BY SMTT(30), <1>1, <1>2, <1>4, <2>2, <2>3, <2>5, <2>6
<1>6. Region(d, o, k)
  <2>1. o < k
    BY SMTT(30), <1>1, <1>2, <1>3
  <2> QED
    BY <1>1, <1>2, <1>3, <1>5, <2>1 DEF Region, Inside
<1>7. p \in Kids(d, o)
  BY <1>1, <1>2, KidIs
<1>8. ASSUME NEW i \in KidsBefore(d, o, k), i # p PROVE i < p
  <2>1. i \in 1 .. Len(d) /\ i \in Kids(d, o) /\ i < k
    BY KidsFinite DEF KidsBefore
  <2>2. Depth(d, i) = Depth(d, o) + 1 /\ o < i
    BY <1>2, <2>1, KidIs DEF Region, Inside
  <2>3. i \in o + 1 .. k
    BY SMTT(30), <1>1, <1>3, <2>1, <2>2
  <2>4. i \notin p + 1 .. k - 1
    BY SMTT(30), <1>4, <1>5, <2>2, <2>3
  <2> QED
    BY SMTT(30), <1>1, <1>3, <1>8, <2>1, <2>4
<1>9. KidsBefore(d, o, k) = KidsBefore(d, o, p) \cup {p}
  <2>1. \A i \in Nat : i < p => i < k
    BY SMTT(30), <1>1, <1>3
  <2>2. p < k /\ Kids(d, o) \subseteq Nat
    BY SMTT(30), <1>1, <1>3, KidsFinite
  <2> QED
    BY <1>7, <1>8, <2>1, <2>2 DEF KidsBefore
<1>10. p \notin KidsBefore(d, o, p)
  BY SMTT(30), <1>3 DEF KidsBefore
<1> QED
  BY <1>6, <1>7, <1>9, <1>10, KidsFinite, FS_AddElement

(* A value that the bracket begins ends after all that is inside of it. *)
LEMMA SpanPassesRegion ==
  ASSUME NEW d \in Seq(Token), NEW o, NEW p, NEW k, Region(d, o, p), Span(d, o, k)
  PROVE  p < k /\ p \in 1 .. Len(d)
<1>1. /\ Len(d) \in Nat /\ k \in o + 1 .. Len(d) + 1 /\ Depth(d, k) = Depth(d, o)
      /\ o \in 1 .. Len(d) /\ o < p /\ p \in 1 .. Len(d) + 1
      /\ \A j \in o + 1 .. p : Depth(d, j) > Depth(d, o)
  BY Positions DEF Region, Inside, Span
<1>2. Depth(d, o) \in Int
  BY <1>1, Positions
<1>3. k \notin o + 1 .. p
  BY SMTT(30), <1>1, <1>2
<1> QED
  BY SMTT(30), <1>1, <1>3

(* A closing bracket ends the value of the bracket that one is inside of,  *)
(* and this has no further child.                                          *)
LEMMA RegionEnds ==
  ASSUME NEW d \in Seq(Token), NEW o, NEW p \in 1 .. Len(d), Region(d, o, p), d[p] \in Close
  PROVE  /\ Span(d, o, p + 1) /\ Parent(d)[p] = o /\ Kids(d, o) = KidsBefore(d, o, p)
         /\ \A k : Span(d, o, k) => k = p + 1
<1>1. /\ Len(d) \in Nat /\ p \in Nat /\ Depth(d, p) \in Int /\ p + 1 \in 1 .. Len(d) + 1
      /\ p \in 1 .. Len(d) + 1
  BY Positions
<1>2. /\ o \in 1 .. Len(d) /\ o < p /\ d[o] \in Open /\ Depth(d, p) = Depth(d, o) + 1
      /\ \A j \in o + 1 .. p : Depth(d, j) > Depth(d, o)
  BY DEF Region, Inside
<1>3. o \in Nat /\ Depth(d, o) \in Int /\ d[o] \notin Close
  BY <1>2, Positions, Tokens
<1>4. Depth(d, p + 1) = Depth(d, o)
  <2>1. Depth(d, p + 1) = Depth(d, p) - 1
    BY DepthStep, Tokens
  <2> QED
    BY SMTT(30), <1>2, <1>3, <2>1
<1>5. Span(d, o, p + 1)
  <2>1. p + 1 \in o + 1 .. Len(d) + 1 /\ \A j \in o + 1 .. p + 1 - 1 : j \in o + 1 .. p
    BY SMTT(30), <1>1, <1>2, <1>3
  <2> QED
    BY SMTT(30), <1>2, <1>3, <1>4, <2>1 DEF Span
<1>6. Parent(d)[p] = o
  BY <1>2, ParentIs DEF Region
<1>7. ASSUME NEW i \in Kids(d, o) PROVE i < p
  <2>1. i \in 1 .. Len(d) /\ d[i] \notin Close /\ o < i /\ \A j \in o + 1 .. i : Depth(d, j) > Depth(d, o)
    BY <1>2, KidsFinite, KidIs DEF Region, Inside
  <2>2. i # p
    BY <2>1
  <2>3. p + 1 \notin o + 1 .. i
    BY SMTT(30), <1>3, <1>4, <2>1
  <2> QED
    BY SMTT(30), <1>1, <1>2, <1>3, <2>1, <2>2, <2>3
<1>8. Kids(d, o) = KidsBefore(d, o, p)
  BY <1>7 DEF KidsBefore
<1>9. ASSUME NEW k, Span(d, o, k) PROVE k = p + 1
  <2>1. p < k
    BY <1>9, SpanPassesRegion
  <2>2. k \in o + 1 .. Len(d) + 1 /\ \A j \in o + 1 .. k - 1 : Depth(d, j) > Depth(d, o)
    BY <1>9 DEF Span
  <2>3. p + 1 \notin o + 1 .. k - 1
    BY SMTT(30), <1>3, <1>4, <2>2
  <2> QED
    BY SMTT(30), <1>1, <1>2, <1>3, <2>1, <2>2, <2>3
<1> QED
  BY <1>5, <1>6, <1>8, <1>9

(* Inside of a bracket whose value has an end, whatever closes nothing     *)
(* begins a value that has one before.                                     *)
LEMMA RegionGoesOn ==
  ASSUME NEW d \in Seq(Token), NEW o, NEW p, NEW k,
         Region(d, o, p), Span(d, o, k), d[p] \notin Close
  PROVE  \E e \in 1 .. Len(d) + 1 : Span(d, p, e) /\ e < k
<1> DEFINE T == {e \in p + 1 .. k : Depth(d, e) <= Depth(d, p)}
<1>1. /\ Len(d) \in Nat /\ p \in 1 .. Len(d) /\ p < k /\ k \in 1 .. Len(d) + 1
      /\ Depth(d, k) = Depth(d, o) /\ Depth(d, p) = Depth(d, o) + 1 /\ o \in 1 .. Len(d) + 1
      /\ p \in Nat /\ k \in Nat /\ p \in 1 .. Len(d) + 1
  <2>1. p < k /\ p \in 1 .. Len(d)
    BY SpanPassesRegion
  <2>2. k \in o + 1 .. Len(d) + 1 /\ o \in 1 .. Len(d) /\ Depth(d, k) = Depth(d, o)
    BY DEF Span
  <2> QED
    BY SMTT(30), <2>1, <2>2, Positions DEF Region
<1>2. Depth(d, p) \in Int /\ Depth(d, o) \in Int
  BY <1>1, Positions
<1>3. T \in SUBSET Nat /\ k \in T
  BY SMTT(30), <1>1, <1>2
<1>4. PICK e \in T : \A x \in T : e <= x
  BY <1>3, LeastNumber
<1>5. e \in p + 1 .. k /\ Depth(d, e) <= Depth(d, p) /\ e \in Nat /\ e \in 1 .. Len(d) + 1
      /\ e - 1 \in 1 .. Len(d) /\ e - 1 + 1 = e
  BY SMTT(30), <1>1, <1>4
<1>6. ASSUME NEW j \in p + 1 .. e - 1 PROVE Depth(d, j) > Depth(d, p)
  <2>1. j \in p + 1 .. k /\ ~(e <= j) /\ j \in 1 .. Len(d) + 1
    BY SMTT(30), <1>1, <1>5
  <2>2. ~(Depth(d, j) <= Depth(d, p)) /\ Depth(d, j) \in Int
    BY <1>4, <2>1, Positions
  <2> QED
    BY SMTT(30), <1>2, <2>2
<1>7. Depth(d, e) = Depth(d, p)
  <2>1. Depth(d, e) = IF d[e - 1] \in Open THEN Depth(d, e - 1) + 1
                      ELSE IF d[e - 1] \in Close THEN Depth(d, e - 1) - 1
                      ELSE Depth(d, e - 1)
    BY <1>5, DepthStep
  <2>2. Depth(d, e - 1) \in Int /\ Depth(d, e) \in Int
    BY <1>5, Positions
  <2>3. CASE e - 1 = p
    BY SMTT(30), <1>2, <1>5, <2>1, <2>2, <2>3
  <2>4. CASE e - 1 # p
    <3>1. e - 1 \in p + 1 .. e - 1
      BY SMTT(30), <1>1, <1>5, <2>4
    <3>2. Depth(d, e - 1) > Depth(d, p)
      BY <1>6, <3>1
    <3> QED
      BY SMTT(30), <1>2, <1>5, <2>1, <2>2, <3>2
  <2> QED
    BY <2>3, <2>4
<1>8. e # k
  BY SMTT(30), <1>1, <1>2, <1>7
<1>9. e \in p + 1 .. Len(d) + 1 /\ e < k
  BY SMTT(30), <1>1, <1>5, <1>8
<1> QED
  BY <1>1, <1>5, <1>6, <1>7, <1>9 DEF Span

-----------------------------------------------------------------------------
(* The rules of the grammar, and those on keys, token by token. *)
GoodObject(d, o) ==
  /\ Cardinality(Kids(d, o)) % 2 = 0
  /\ \A i \in KeysOf(d, o) : d[i] \in Str
  /\ \A i, k \in KeysOf(d, o) : d[i] = d[k] => i = k
GoodToken(d, i) ==
  /\ d[i] # Bad
  /\ d[i] \in Close => Parent(d)[i] # 0 /\ d[i] = Matching(d[Parent(d)[i]])
  /\ d[i] = "{" => GoodObject(d, i)
GoodTokens(d, p, k) == \A i \in p .. k - 1 : GoodToken(d, i)
TopKeys(d, o) == \A i \in KeysOf(d, o) : d[i] \in TopLevel

(* The keys that the walk has seen when it is at p. *)
SeenBefore(d, o, p) == {d[i] : i \in {j \in KeysOf(d, o) : j < p}}
KeysGoodBefore(d, o, p, topLevel) ==
  /\ Cardinality(KidsBefore(d, o, p)) % 2 = 0
  /\ \A i \in KeysOf(d, o) : i < p => d[i] \in Str /\ (topLevel => d[i] \in TopLevel)
  /\ \A i, k \in KeysOf(d, o) : i < p /\ k < p /\ d[i] = d[k] => i = k

(* What the three functions have to give from position p: the end of the   *)
(* value, if the tokens up to it are good, and Refused otherwise.          *)
Walks(f, d) == f = [call \in Calls |-> Consume(f, d, call)]
ValueOK(f, d, p) ==
  \A topLevel \in BOOLEAN : \A k :
    f["value", p, topLevel, {}] = k /\ k # Refused
      <=> /\ Span(d, p, k) /\ GoodTokens(d, p, k)
          /\ topLevel => d[p] # "[" /\ (d[p] = "{" => TopKeys(d, p))
ObjectOK(f, d, p) ==
  \A o : \A topLevel \in BOOLEAN :
    Region(d, o, p) /\ d[o] = "{" /\ KeysGoodBefore(d, o, p, topLevel) =>
      \A k : f["object", p, topLevel, SeenBefore(d, o, p)] = k /\ k # Refused
               <=> /\ Span(d, o, k) /\ GoodTokens(d, p, k) /\ GoodObject(d, o)
                   /\ topLevel => TopKeys(d, o)
ArrayOK(f, d, p) ==
  \A o : Region(d, o, p) /\ d[o] = "[" =>
    \A k : f["array", p, FALSE, {}] = k /\ k # Refused
             <=> Span(d, o, k) /\ GoodTokens(d, p, k)

(* The equations of the walk. *)
LEMMA WalkEquations ==
  ASSUME NEW f, NEW d, Walks(f, d), NEW i \in Nat, NEW topLevel \in BOOLEAN,
         NEW seen \in SUBSET Str
  PROVE  /\ f["value", i, topLevel, seen] = ConsumeJSONValue(f, d, i, topLevel)
         /\ f["object", i, topLevel, seen] = ConsumeJSONObject(f, d, i, topLevel, seen)
         /\ f["array", i, topLevel, seen] = ConsumeJSONArray(f, d, i)
<1>1. ASSUME NEW call \in Calls PROVE f[call] = Consume(f, d, call)
  BY DEF Walks
<1>2. /\ <<"value", i, topLevel, seen>> \in Calls /\ <<"object", i, topLevel, seen>> \in Calls
      /\ <<"array", i, topLevel, seen>> \in Calls
  BY DEF Calls
<1>3. /\ Consume(f, d, <<"value", i, topLevel, seen>>) = ConsumeJSONValue(f, d, i, topLevel)
      /\ Consume(f, d, <<"object", i, topLevel, seen>>) = ConsumeJSONObject(f, d, i, topLevel, seen)
      /\ Consume(f, d, <<"array", i, topLevel, seen>>) = ConsumeJSONArray(f, d, i)
  BY DEF Consume
<1> QED
  BY <1>1, <1>2, <1>3

(* Good tokens, taken apart. *)
LEMMA GoodApart ==
  ASSUME NEW d \in Seq(Token), NEW p \in Nat, NEW e \in Nat, NEW k \in Nat, p <= e, e <= k
  PROVE  GoodTokens(d, p, k) <=> GoodTokens(d, p, e) /\ GoodTokens(d, e, k)
<1>1. \A i : i \in p .. k - 1 <=> i \in p .. e - 1 \/ i \in e .. k - 1
  BY SMTT(30)
<1> QED
  BY <1>1 DEF GoodTokens

LEMMA GoodOne ==
  ASSUME NEW d \in Seq(Token), NEW p \in Nat
  PROVE  GoodTokens(d, p, p + 1) <=> GoodToken(d, p)
<1>1. p \in p .. p + 1 - 1 /\ \A i \in p .. p + 1 - 1 : i = p
  BY SMTT(30)
<1>2. GoodTokens(d, p, p + 1) => GoodToken(d, p)
  BY <1>1 DEF GoodTokens
<1>3. ASSUME GoodToken(d, p), NEW i \in p .. p + 1 - 1 PROVE GoodToken(d, i)
  <2>1. i = p
    BY <1>1
  <2> QED
    BY <1>3, <2>1
<1> QED
  BY <1>2, <1>3 DEF GoodTokens

LEMMA KeysAreKids ==
  ASSUME NEW d, NEW o
  PROVE  KeysOf(d, o) \subseteq Kids(d, o)
BY DEF KeysOf, Keys

LEMMA KeyIs ==
  ASSUME NEW d, NEW o, NEW i \in Kids(d, o)
  PROVE  i \in KeysOf(d, o) <=> Cardinality(KidsBefore(d, o, i)) % 2 = 0
BY DEF KeysOf, Keys, KidsBefore

(* consumeJSONValue, given what the other two do one token further. *)
LEMMA ValueStep ==
  ASSUME NEW d \in Seq(Token), NEW f, Walks(f, d), NEW p \in 1 .. Len(d) + 1,
         p <= Len(d) => ObjectOK(f, d, p + 1) /\ ArrayOK(f, d, p + 1)
  PROVE  ValueOK(f, d, p)
<1> SUFFICES ASSUME NEW topLevel \in BOOLEAN, NEW k
             PROVE  f["value", p, topLevel, {}] = k /\ k # Refused
                      <=> /\ Span(d, p, k) /\ GoodTokens(d, p, k)
                          /\ topLevel => d[p] # "[" /\ (d[p] = "{" => TopKeys(d, p))
  BY DEF ValueOK
<1>1. Len(d) \in Nat /\ p \in Nat /\ Depth(d, p) \in Int
  BY Positions
<1>2. f["value", p, topLevel, {}] = ConsumeJSONValue(f, d, p, topLevel)
  BY <1>1, WalkEquations
<1>3. Span(d, p, k) => p \in 1 .. Len(d) /\ d[p] \notin Close /\ k \in Nat /\ p + 1 <= k /\ k # 0
  BY SMTT(30), <1>1 DEF Span
<1>4. CASE ~ More(d, p)
  <2>1. f["value", p, topLevel, {}] = Refused
    BY <1>2, <1>4 DEF ConsumeJSONValue
  <2>2. ~ Span(d, p, k)
    BY SMTT(30), <1>3, <1>4 DEF More
  <2> QED
    BY <2>1, <2>2
<1>5. CASE More(d, p)
  <2>1. p \in 1 .. Len(d) /\ p <= Len(d) /\ d[p] \notin Close /\ p + 1 \in Nat
    BY SMTT(30), <1>1, <1>5 DEF More
  <2>2. Span(d, p, k) => (GoodTokens(d, p, k) <=> GoodToken(d, p) /\ GoodTokens(d, p + 1, k))
    <3> SUFFICES ASSUME Span(d, p, k)
                 PROVE  GoodTokens(d, p, k) <=> GoodToken(d, p) /\ GoodTokens(d, p + 1, k)
      OBVIOUS
    <3>1. p <= p + 1 /\ p + 1 <= k /\ k \in Nat
      BY SMTT(30), <1>1, <1>3
    <3>2. GoodTokens(d, p, k) <=> GoodTokens(d, p, p + 1) /\ GoodTokens(d, p + 1, k)
      BY <1>1, <2>1, <3>1, GoodApart
    <3> QED
      BY <1>1, <3>2, GoodOne
  <2>3. CASE d[p] = Bad
    <3>1. f["value", p, topLevel, {}] = Refused
      BY <1>2, <1>5, <2>3 DEF ConsumeJSONValue, Bad
    <3>2. ~ GoodToken(d, p)
      BY <2>3 DEF GoodToken
    <3> QED
      BY <2>2, <3>1, <3>2
  <2>4. CASE d[p] = "{"
    <3>1. f["value", p, topLevel, {}] = f["object", p + 1, topLevel, {}]
      BY <1>2, <1>5, <2>4 DEF ConsumeJSONValue, Bad
    <3>2. Region(d, p, p + 1) /\ KidsBefore(d, p, p + 1) = {}
      BY <2>1, <2>4, RegionStarts DEF Open
    <3>3. {j \in KeysOf(d, p) : j < p + 1} = {}
      BY <3>2, KeysAreKids DEF KidsBefore
    <3>4. SeenBefore(d, p, p + 1) = {}
      BY <3>3 DEF SeenBefore
    <3>5. Cardinality({}) % 2 = 0
      <4>1. Cardinality({}) = 0
        BY FS_EmptySet
      <4> QED
        BY SMTT(30), <4>1
    <3>6. KeysGoodBefore(d, p, p + 1, topLevel)
      BY <3>2, <3>3, <3>5 DEF KeysGoodBefore
    <3>7. f["object", p + 1, topLevel, {}] = k /\ k # Refused
            <=> /\ Span(d, p, k) /\ GoodTokens(d, p + 1, k) /\ GoodObject(d, p)
                /\ topLevel => TopKeys(d, p)
      BY <2>1, <2>4, <3>2, <3>4, <3>6 DEF ObjectOK
    <3>8. GoodToken(d, p) <=> GoodObject(d, p)
      BY <2>1, <2>4 DEF GoodToken, Bad
    <3> QED
      BY <2>2, <2>4, <3>1, <3>7, <3>8
  <2>5. CASE d[p] = "["
    <3>1. f["value", p, topLevel, {}] =
            IF topLevel THEN Refused ELSE f["array", p + 1, FALSE, {}]
      BY <1>2, <1>5, <2>5 DEF ConsumeJSONValue, Bad
    <3>2. Region(d, p, p + 1)
      BY <2>1, <2>5, RegionStarts DEF Open
    <3>3. f["array", p + 1, FALSE, {}] = k /\ k # Refused
            <=> Span(d, p, k) /\ GoodTokens(d, p + 1, k)
      BY <2>1, <2>5, <3>2 DEF ArrayOK
    <3>4. GoodToken(d, p)
      BY <2>1, <2>5 DEF GoodToken, Bad
    <3>5. CASE topLevel
      BY <2>5, <3>1, <3>5
    <3>6. CASE ~topLevel
      BY <2>2, <3>1, <3>3, <3>4, <3>6
    <3> QED
      BY <3>5, <3>6
  <2>6. CASE d[p] \notin {Bad, "{", "["}
    <3>0. p + 1 # Refused
      BY SMTT(30), <1>1 DEF Refused
    <3>1. f["value", p, topLevel, {}] = p + 1
      BY <1>2, <1>5, <2>6 DEF ConsumeJSONValue
    <3>2. Depth(d, p + 1) = Depth(d, p)
      BY <2>1, <2>6, DepthStep DEF Open
    <3>3. Span(d, p, p + 1)
      BY SMTT(30), <1>1, <2>1, <3>2 DEF Span
    <3>4. Span(d, p, k) => k = p + 1
      <4> SUFFICES ASSUME Span(d, p, k), k # p + 1 PROVE FALSE
        OBVIOUS
      <4>1. p + 1 \in p + 1 .. k - 1
        BY SMTT(30), <1>1, <1>3
      <4>2. Depth(d, p + 1) > Depth(d, p)
        BY <4>1 DEF Span
      <4> QED
        BY SMTT(30), <1>1, <3>2, <4>2
    <3>5. GoodToken(d, p) /\ GoodTokens(d, p, p + 1)
      BY <1>1, <2>1, <2>6, GoodOne DEF GoodToken
    <3> QED
      BY <2>6, <3>0, <3>1, <3>3, <3>4, <3>5
  <2> QED
    BY <2>3, <2>4, <2>5, <2>6
<1> QED
  BY <1>4, <1>5

(* consumeJSONArray, given what it does further on. *)
LEMMA ArrayStep ==
  ASSUME NEW d \in Seq(Token), NEW f, Walks(f, d), NEW p \in 1 .. Len(d) + 1,
         ValueOK(f, d, p), \A q \in p + 1 .. Len(d) + 1 : ArrayOK(f, d, q)
  PROVE  ArrayOK(f, d, p)
<1> SUFFICES ASSUME NEW o, Region(d, o, p), d[o] = "[", NEW k
             PROVE  f["array", p, FALSE, {}] = k /\ k # Refused
                      <=> Span(d, o, k) /\ GoodTokens(d, p, k)
  BY DEF ArrayOK
<1>1. Len(d) \in Nat /\ p \in Nat
  BY Positions
<1>2. f["array", p, FALSE, {}] = ConsumeJSONArray(f, d, p)
  BY <1>1, WalkEquations
<1>3. Span(d, o, k) => p \in 1 .. Len(d) /\ k \in Nat /\ p < k
  <2>1. Span(d, o, k) => p < k /\ p \in 1 .. Len(d)
    BY SpanPassesRegion
  <2>2. Span(d, o, k) => k \in Nat
    BY SMTT(30), <1>1 DEF Span
  <2> QED
    BY <2>1, <2>2
<1>4. CASE p > Len(d)
  <2>0. ~ (p <= Len(d))
    BY SMTT(30), <1>1, <1>4
  <2>1. f["array", p, FALSE, {}] = Refused
    BY <1>2, <2>0 DEF ConsumeJSONArray, More, Closed
  <2>2. ~ Span(d, o, k)
    BY SMTT(30), <1>1, <1>3, <1>4
  <2> QED
    BY <2>1, <2>2
<1>5. CASE p <= Len(d) /\ d[p] \in Close
  <2>1. f["array", p, FALSE, {}] = IF d[p] = "]" THEN p + 1 ELSE Refused
    BY <1>2, <1>5 DEF ConsumeJSONArray, More, Closed
  <2>2. p \in 1 .. Len(d) /\ p + 1 # Refused
    BY SMTT(30), <1>1, <1>5 DEF Refused
  <2>3. Span(d, o, p + 1) /\ Parent(d)[p] = o /\ \A e : Span(d, o, e) => e = p + 1
    BY <1>5, <2>2, RegionEnds
  <2>4. GoodToken(d, p) <=> d[p] = "]"
    <3>1. o # 0
      BY SMTT(30), <1>1 DEF Region, Inside
    <3>2. d[p] # Bad /\ d[p] # "{"
      BY <1>5 DEF Close, Bad
    <3> QED
      BY <1>5, <2>3, <3>1, <3>2 DEF GoodToken, Matching
  <2>5. GoodTokens(d, p, p + 1) <=> d[p] = "]"
    BY <1>1, <2>4, GoodOne
  <2> QED
    BY <2>1, <2>2, <2>3, <2>5
<1>6. CASE p <= Len(d) /\ d[p] \notin Close
  <2> DEFINE next == f["value", p, FALSE, {}]
  <2>1. f["array", p, FALSE, {}] =
          IF next = Refused THEN Refused ELSE f["array", next, FALSE, {}]
    BY <1>2, <1>6 DEF ConsumeJSONArray, More
  <2>2. \A e : next = e /\ e # Refused <=> Span(d, p, e) /\ GoodTokens(d, p, e)
    BY DEF ValueOK
  <2> HIDE DEF next
  <2>3. CASE next = Refused
    <3>1. ASSUME Span(d, o, k), GoodTokens(d, p, k) PROVE FALSE
      <4>1. PICK e \in 1 .. Len(d) + 1 : Span(d, p, e) /\ e < k
        BY <1>6, <3>1, RegionGoesOn
      <4>2. e \in Nat /\ p <= e /\ e <= k /\ k \in Nat
        BY SMTT(30), <1>1, <1>3, <3>1, <4>1 DEF Span
      <4>3. GoodTokens(d, p, e)
        BY <1>1, <3>1, <4>2, GoodApart
      <4> QED
        BY <2>2, <2>3, <4>1, <4>3
    <3> QED
      BY <2>1, <2>3, <3>1
  <2>4. CASE next # Refused
    <3>1. Span(d, p, next) /\ GoodTokens(d, p, next)
      BY <2>2, <2>4
    <3>2. Region(d, o, next)
      BY <3>1, RegionSpan
    <3>3. next \in p + 1 .. Len(d) + 1 /\ next \in Nat /\ p <= next
      BY SMTT(30), <1>1, <3>1 DEF Span
    <3>4. f["array", next, FALSE, {}] = k /\ k # Refused
            <=> Span(d, o, k) /\ GoodTokens(d, next, k)
      BY <3>2, <3>3 DEF ArrayOK
    <3>5. Span(d, o, k) => next < k
      BY <3>2, SpanPassesRegion
    <3>6. Span(d, o, k) => (GoodTokens(d, p, k) <=> GoodTokens(d, next, k))
      <4>1. Span(d, o, k) => next <= k
        BY SMTT(30), <1>3, <3>3, <3>5
      <4> QED
        BY <1>1, <1>3, <3>1, <3>3, <4>1, GoodApart
    <3> QED
      BY <2>1, <2>4, <3>4, <3>6
  <2> QED
    BY <2>3, <2>4
<1>7. p <= Len(d) \/ p > Len(d)
  BY SMTT(30), <1>1
<1> QED
  BY <1>4, <1>5, <1>6, <1>7

(* An object with one more key and its value. *)
LEMMA KeyAndValue ==
  ASSUME NEW d \in Seq(Token), NEW o, NEW p \in 1 .. Len(d), NEW e, NEW topLevel \in BOOLEAN,
         Region(d, o, p), d[p] \notin Close, KeysGoodBefore(d, o, p, topLevel),
         ~ KeyRefused(d[p], SeenBefore(d, o, p), topLevel), Span(d, p + 1, e)
  PROVE  /\ Region(d, o, e) /\ KeysGoodBefore(d, o, e, topLevel)
         /\ SeenBefore(d, o, e) = SeenBefore(d, o, p) \cup {d[p]}
<1> DEFINE K == KeysOf(d, o)
<1>1. Len(d) \in Nat /\ p \in Nat /\ e \in Nat /\ p + 1 < e /\ Depth(d, p) \in Int
  <2>1. Len(d) \in Nat /\ p \in 1 .. Len(d) + 1
    BY Positions
  <2> QED
    BY SMTT(30), <2>1, Positions DEF Span
<1>2. d[p] \in Str /\ d[p] \notin SeenBefore(d, o, p) /\ (topLevel => d[p] \in TopLevel)
  BY DEF KeyRefused
<1>3. d[p] \notin Open
  BY <1>2, TokenAssumption
<1>4. Span(d, p, p + 1)
  <2>1. Depth(d, p + 1) = Depth(d, p)
    BY <1>3, DepthStep
  <2> QED
    BY SMTT(30), <1>1, <2>1 DEF Span
<1>5. /\ Region(d, o, p + 1) /\ p \in Kids(d, o)
      /\ KidsBefore(d, o, p + 1) = KidsBefore(d, o, p) \cup {p}
      /\ Cardinality(KidsBefore(d, o, p + 1)) = Cardinality(KidsBefore(d, o, p)) + 1
  BY SMTT(30), <1>4, RegionSpan
<1>6. /\ Region(d, o, e) /\ p + 1 \in Kids(d, o)
      /\ KidsBefore(d, o, e) = KidsBefore(d, o, p + 1) \cup {p + 1}
      /\ Cardinality(KidsBefore(d, o, e)) = Cardinality(KidsBefore(d, o, p + 1)) + 1
  BY SMTT(30), <1>5, RegionSpan
<1>7. Cardinality(KidsBefore(d, o, p)) \in Nat /\ Cardinality(KidsBefore(d, o, p)) % 2 = 0
  BY KidsFinite DEF KeysGoodBefore
<1>8. Cardinality(KidsBefore(d, o, p + 1)) % 2 # 0 /\ Cardinality(KidsBefore(d, o, e)) % 2 = 0
  BY SMTT(30), <1>5, <1>6, <1>7
<1>9. p \in K /\ p + 1 \notin K
  BY <1>5, <1>6, <1>7, <1>8, KeyIs
<1>10. \A i \in K : i < e <=> i < p \/ i = p
  <2> SUFFICES ASSUME NEW i \in K PROVE i < e <=> i < p \/ i = p
    OBVIOUS
  <2>1. i \in Kids(d, o) /\ i \in Nat
    BY KeysAreKids, KidsFinite
  <2>2. i < e => i \in KidsBefore(d, o, p) \cup {p, p + 1}
    BY <1>5, <1>6, <2>1 DEF KidsBefore
  <2>3. i < e => i < p \/ i = p
    BY <1>9, <2>2 DEF KidsBefore
  <2>4. i < p \/ i = p => i < e
    BY SMTT(30), <1>1, <2>1
  <2> QED
    BY <2>3, <2>4
<1>11. {j \in K : j < e} = {j \in K : j < p} \cup {p}
  BY <1>9, <1>10
<1>12. SeenBefore(d, o, e) = SeenBefore(d, o, p) \cup {d[p]}
  BY <1>11 DEF SeenBefore
<1>13. ASSUME NEW i \in K, i < e PROVE d[i] \in Str /\ (topLevel => d[i] \in TopLevel)
  BY <1>2, <1>10, <1>13 DEF KeysGoodBefore
<1>14. ASSUME NEW i \in K, NEW k \in K, i < e, k < e, d[i] = d[k] PROVE i = k
  <2>1. (i < p \/ i = p) /\ (k < p \/ k = p)
    BY <1>10, <1>14
  <2>2. i < p => d[i] \in SeenBefore(d, o, p)
    BY DEF SeenBefore
  <2>3. k < p => d[k] \in SeenBefore(d, o, p)
    BY DEF SeenBefore
  <2> QED
    BY <1>2, <1>14, <2>1, <2>2, <2>3 DEF KeysGoodBefore
<1> QED
  BY <1>6, <1>8, <1>12, <1>13, <1>14 DEF KeysGoodBefore

(* consumeJSONObject, given what it and consumeJSONValue do further on. *)
LEMMA ObjectStep ==
  ASSUME NEW d \in Seq(Token), NEW f, Walks(f, d), NEW p \in 1 .. Len(d) + 1,
         \A q \in p + 1 .. Len(d) + 1 : ValueOK(f, d, q) /\ ObjectOK(f, d, q)
  PROVE  ObjectOK(f, d, p)
<1>0. SUFFICES ASSUME NEW o, NEW topLevel, topLevel \in BOOLEAN, Region(d, o, p), d[o] = "{",
                      KeysGoodBefore(d, o, p, topLevel), NEW k
               PROVE  f["object", p, topLevel, SeenBefore(d, o, p)] = k /\ k # Refused
                        <=> /\ Span(d, o, k) /\ GoodTokens(d, p, k) /\ GoodObject(d, o)
                            /\ topLevel => TopKeys(d, o)
  BY DEF ObjectOK
<1> DEFINE seen == SeenBefore(d, o, p)
           Object(i, s) == f["object", i, topLevel, s]
<1>1. Len(d) \in Nat /\ p \in Nat /\ Region(d, o, p) /\ o \in 1 .. Len(d) /\ o # 0
  <2>1. Len(d) \in Nat /\ p \in Nat
    BY Positions
  <2>2. Region(d, o, p) /\ o \in 1 .. Len(d)
    BY <1>0 DEF Region, Inside
  <2>3. o # 0
    BY SMTT(30), <2>2
  <2> QED
    BY <2>1, <2>2, <2>3
<1>2. seen \in SUBSET Str
  BY <1>0 DEF SeenBefore, KeysGoodBefore
<1>3. Object(p, seen) = ConsumeJSONObject(f, d, p, topLevel, seen)
  BY <1>0, <1>1, <1>2, WalkEquations
<1>4. Span(d, o, k) => p \in 1 .. Len(d) /\ k \in Nat /\ p < k
  <2>1. Span(d, o, k) => p < k /\ p \in 1 .. Len(d)
    BY <1>1, SpanPassesRegion
  <2>2. Span(d, o, k) => k \in Nat
    BY SMTT(30), <1>1 DEF Span
  <2> QED
    BY <2>1, <2>2
<1>5. CASE p > Len(d)
  <2>0. ~ (p <= Len(d))
    BY SMTT(30), <1>1, <1>5
  <2>1. Object(p, seen) = Refused
    BY <1>3, <2>0 DEF ConsumeJSONObject, More, Closed
  <2>2. ~ Span(d, o, k)
    BY SMTT(30), <1>1, <1>4, <1>5
  <2> QED
    BY <2>1, <2>2
<1>6. CASE p <= Len(d) /\ d[p] \in Close
  <2>1. Object(p, seen) = IF d[p] = "}" THEN p + 1 ELSE Refused
    BY <1>3, <1>6 DEF ConsumeJSONObject, More, Closed
  <2>2. p \in 1 .. Len(d) /\ p + 1 # Refused
    BY SMTT(30), <1>1, <1>6 DEF Refused
  <2>3. /\ Span(d, o, p + 1) /\ Parent(d)[p] = o /\ Kids(d, o) = KidsBefore(d, o, p)
        /\ \A e : Span(d, o, e) => e = p + 1
    BY <1>1, <1>6, <2>2, RegionEnds
  <2>4. GoodToken(d, p) <=> d[p] = "}"
    <3>2. d[p] # Bad /\ d[p] # "{"
      BY <1>6 DEF Close, Bad
    <3> QED
      BY <1>0, <1>1, <1>6, <2>3, <3>2 DEF GoodToken, Matching
  <2>5. GoodTokens(d, p, p + 1) <=> d[p] = "}"
    BY <1>1, <2>4, GoodOne
  <2>6. \A i \in KeysOf(d, o) : i < p
    BY <2>3, KeysAreKids DEF KidsBefore
  <2>7. GoodObject(d, o) /\ (topLevel => TopKeys(d, o))
    BY <1>0, <2>3, <2>6 DEF GoodObject, KeysGoodBefore, TopKeys
  <2> QED
    BY <2>1, <2>2, <2>3, <2>5, <2>7
<1>7. CASE p <= Len(d) /\ d[p] \notin Close
  <2> DEFINE next == f["value", p + 1, FALSE, {}]
  <2>1. p \in 1 .. Len(d) /\ p + 1 \in Nat /\ p + 1 \in p + 1 .. Len(d) + 1
        /\ p + 1 \in 1 .. Len(d) + 1
    BY SMTT(30), <1>1, <1>7
  <2>2. p \in KeysOf(d, o)
    <3>1. p \in Kids(d, o)
      BY <1>1, <1>7, <2>1, KidIs
    <3> QED
      BY <1>0, <3>1, KeyIs DEF KeysGoodBefore
  <2>3. CASE KeyRefused(d[p], seen, topLevel)
    <3>1. Object(p, seen) = Refused
      BY <1>3, <1>7, <2>3 DEF ConsumeJSONObject, More
    <3>2. ASSUME GoodObject(d, o), topLevel => TopKeys(d, o) PROVE FALSE
      <4>1. d[p] \in Str /\ (topLevel => d[p] \in TopLevel)
        BY <2>2, <3>2 DEF GoodObject, TopKeys
      <4>2. PICK i \in KeysOf(d, o) : i < p /\ d[i] = d[p]
        BY <2>3, <4>1 DEF KeyRefused, SeenBefore
      <4>3. i = p
        BY <2>2, <3>2, <4>2 DEF GoodObject
      <4> QED
        BY SMTT(30), <1>1, <4>2, <4>3
    <3> QED
      BY <3>1, <3>2
  <2>4. CASE ~ KeyRefused(d[p], seen, topLevel)
    <3>1. Object(p, seen) = IF next = Refused THEN Refused ELSE Object(next, seen \cup {d[p]})
      BY <1>3, <1>7, <2>4 DEF ConsumeJSONObject, More
    <3>2. \A e : next = e /\ e # Refused <=> Span(d, p + 1, e) /\ GoodTokens(d, p + 1, e)
      BY <2>1 DEF ValueOK
    <3> HIDE DEF next
    <3>3. d[p] \in Str
      BY <2>4 DEF KeyRefused
    <3>4. GoodToken(d, p) /\ d[p] \notin Open
      <4>1. d[p] # Bad /\ d[p] \notin Open
        BY <3>3, TokenAssumption
      <4> QED
        BY <1>7, <4>1 DEF GoodToken, Open
    <3>5. Span(d, p, p + 1)
      <4>1. Depth(d, p + 1) = Depth(d, p)
        BY <1>7, <2>1, <3>4, DepthStep
      <4> QED
        BY SMTT(30), <1>1, <1>7, <2>1, <4>1 DEF Span
    <3>6. /\ Region(d, o, p + 1)
          /\ Cardinality(KidsBefore(d, o, p + 1)) = Cardinality(KidsBefore(d, o, p)) + 1
      BY SMTT(30), <1>1, <3>5, RegionSpan
    <3>7. CASE next = Refused
      <4>1. ASSUME Span(d, o, k), GoodTokens(d, p, k), GoodObject(d, o) PROVE FALSE
        <5>1. p + 1 \in 1 .. Len(d)
          BY <3>6, <4>1, SpanPassesRegion
        <5>2. d[p + 1] \notin Close
          <6> SUFFICES ASSUME d[p + 1] \in Close PROVE FALSE
            OBVIOUS
          <6>1. Kids(d, o) = KidsBefore(d, o, p + 1)
            BY <3>6, <5>1, RegionEnds
          <6>2. Cardinality(KidsBefore(d, o, p)) \in Nat /\ Cardinality(KidsBefore(d, o, p)) % 2 = 0
            BY <1>0, KidsFinite DEF KeysGoodBefore
          <6>3. (Cardinality(KidsBefore(d, o, p)) + 1) % 2 = 0
            BY <3>6, <4>1, <6>1 DEF GoodObject
          <6> QED
            BY SMTT(30), <6>2, <6>3
        <5>3. PICK e \in 1 .. Len(d) + 1 : Span(d, p + 1, e) /\ e < k
          BY <3>6, <4>1, <5>2, RegionGoesOn
        <5>4. e \in Nat /\ p <= p + 1 /\ p + 1 <= e /\ e <= k /\ k \in Nat /\ p + 1 <= k
          BY SMTT(30), <1>1, <1>4, <4>1, <5>3 DEF Span
        <5>5. GoodTokens(d, p + 1, k)
          BY <1>1, <2>1, <4>1, <5>4, GoodApart
        <5>6. GoodTokens(d, p + 1, e)
          BY <2>1, <5>4, <5>5, GoodApart
        <5> QED
          BY <3>2, <3>7, <5>3, <5>6
      <4> QED
        BY <3>1, <3>7, <4>1
    <3>8. CASE next # Refused
      <4>1. Span(d, p + 1, next) /\ GoodTokens(d, p + 1, next)
        BY <3>2, <3>8
      <4>2. /\ Region(d, o, next) /\ KeysGoodBefore(d, o, next, topLevel)
            /\ SeenBefore(d, o, next) = seen \cup {d[p]}
        <5>1. topLevel \in BOOLEAN /\ KeysGoodBefore(d, o, p, topLevel)
          BY <1>0
        <5>2. p \in 1 .. Len(d) /\ d[p] \notin Close /\ Region(d, o, p)
          BY <1>1, <1>7, <2>1
        <5>3. ~ KeyRefused(d[p], SeenBefore(d, o, p), topLevel)
          BY <2>4
        <5> HIDE DEF Object
        <5> QED
          BY ZenonT(60), <4>1, <5>1, <5>2, <5>3, KeyAndValue
      <4>3. next \in p + 1 .. Len(d) + 1 /\ next \in Nat /\ p <= p + 1 /\ p + 1 <= next /\ p <= next
        BY SMTT(30), <1>1, <4>1 DEF Span
      <4>4. Object(next, seen \cup {d[p]}) = k /\ k # Refused
              <=> /\ Span(d, o, k) /\ GoodTokens(d, next, k) /\ GoodObject(d, o)
                  /\ topLevel => TopKeys(d, o)
        BY <1>0, <4>2, <4>3 DEF ObjectOK
      <4>5. GoodTokens(d, p, next)
        BY <1>1, <2>1, <3>4, <4>1, <4>3, GoodApart, GoodOne
      <4>6. Span(d, o, k) => (GoodTokens(d, p, k) <=> GoodTokens(d, next, k))
        <5>1. Span(d, o, k) => next < k
          BY <4>2, SpanPassesRegion
        <5>2. Span(d, o, k) => next <= k
          BY SMTT(30), <1>4, <4>3, <5>1
        <5> QED
          BY <1>1, <1>4, <4>3, <4>5, <5>2, GoodApart
      <4> QED
        BY <3>1, <3>8, <4>4, <4>6
    <3> QED
      BY <3>7, <3>8
  <2> QED
    BY <2>3, <2>4
<1>8. p <= Len(d) \/ p > Len(d)
  BY SMTT(30), <1>1
<1> QED
  BY <1>5, <1>6, <1>7, <1>8

(* The walk, from the end of the document back to its start. *)
LEMMA WalkOK ==
  ASSUME NEW d \in Seq(Token), NEW f, Walks(f, d), NEW p \in 1 .. Len(d) + 1
  PROVE  ValueOK(f, d, p)
<1> DEFINE n == Len(d) + 1
           OK(q) == ValueOK(f, d, q) /\ ObjectOK(f, d, q) /\ ArrayOK(f, d, q)
           T == {i \in 0 .. n - 1 : ~ OK(n - i)}
<1>1. n \in Nat /\ n - 1 \in Nat /\ n - p \in 0 .. n - 1 /\ n - (n - p) = p
  BY SMTT(30), Positions
<1> SUFFICES ASSUME T # {} PROVE FALSE
  BY <1>1
<1>2. T \in SUBSET Nat
  BY SMTT(30), <1>1
<1>3. PICK i \in T : \A j \in T : i <= j
  BY <1>2, LeastNumber
<1> DEFINE q == n - i
<1>4. i \in 0 .. n - 1 /\ ~ OK(q)
  BY <1>3
<1>5. q \in 1 .. Len(d) + 1 /\ (q <= Len(d) => q + 1 \in q + 1 .. n)
  BY SMTT(30), <1>1, <1>4
<1>6. ASSUME NEW r \in q + 1 .. n PROVE OK(r)
  <2>1. n - r \in 0 .. n - 1 /\ ~(i <= n - r) /\ n - (n - r) = r
    BY SMTT(30), <1>1, <1>4
  <2> HIDE DEF OK
  <2>2. OK(n - (n - r))
    BY <1>3, <2>1
  <2> QED
    BY <2>1, <2>2
<1> HIDE DEF q
<1>7. ValueOK(f, d, q)
  BY <1>5, <1>6, ValueStep
<1>8. ObjectOK(f, d, q)
  BY <1>5, <1>6, ObjectStep
<1>9. ArrayOK(f, d, q)
  BY <1>5, <1>6, <1>7, ArrayStep
<1> QED
  BY <1>4, <1>7, <1>8, <1>9

-----------------------------------------------------------------------------
(* That the three functions call each other to an end: a walk that is      *)
(* defined from position m on is built up, from the end of the document    *)
(* back to its start.                                                      *)
Onward(f) == f \in [Calls -> Nat] /\ \A c \in Calls : f[c] = Refused \/ f[c] > c[2]
WalksFrom(f, d, m) ==
  Onward(f) /\ \A c \in Calls : c[2] >= m => f[c] = Consume(f, d, c)

LEMMA Further ==
  ASSUME NEW i \in Nat
  PROVE  /\ i + 1 \in Nat /\ i + 1 > i /\ i + 1 >= i /\ i >= i /\ i + 1 # 0
         /\ \A x \in Nat : (x > i => x >= i) /\ (x > i + 1 => x > i)
         /\ \A j, x \in Nat : j >= i /\ x > j => x > i
BY SMTT(30)

LEMMA CallIs ==
  ASSUME NEW c \in Calls
  PROVE  /\ c[1] \in {"value", "object", "array"} /\ c[2] \in Nat /\ c[3] \in BOOLEAN
         /\ c[4] \in SUBSET Str /\ c = <<c[1], c[2], c[3], c[4]>>
BY DEF Calls

LEMMA IsCall ==
  ASSUME NEW w \in {"value", "object", "array"}, NEW i \in Nat, NEW b \in BOOLEAN,
         NEW s \in SUBSET Str
  PROVE  /\ <<w, i, b, s>> \in Calls /\ <<w, i, b, s>>[1] = w /\ <<w, i, b, s>>[2] = i
BY DEF Calls

LEMMA ConsumeIs ==
  ASSUME NEW f, NEW d, NEW c \in Calls
  PROVE  /\ c[1] = "value" => Consume(f, d, c) = ConsumeJSONValue(f, d, c[2], c[3])
         /\ c[1] = "object" => Consume(f, d, c) = ConsumeJSONObject(f, d, c[2], c[3], c[4])
         /\ c[1] = "array" => Consume(f, d, c) = ConsumeJSONArray(f, d, c[2])
BY CallIs DEF Consume

(* A call goes forward if those that it makes do. *)
LEMMA ConsumeOnward ==
  ASSUME NEW d, NEW f, Onward(f), NEW c \in Calls
  PROVE  Consume(f, d, c) \in Nat /\ (Consume(f, d, c) = Refused \/ Consume(f, d, c) > c[2])
<1> DEFINE Fine(x) == x \in Nat /\ (x = Refused \/ x > c[2])
<1> SUFFICES Fine(Consume(f, d, c))
  OBVIOUS
<1>1. c[2] \in Nat /\ c[3] \in BOOLEAN /\ c[4] \in SUBSET Str
  BY CallIs
<1>2. c[2] + 1 \in Nat /\ Fine(Refused) /\ Fine(c[2] + 1)
  BY <1>1, Further DEF Refused
<1>3. ASSUME NEW w \in {"value", "object", "array"}, NEW i \in Nat, i >= c[2],
             NEW b \in BOOLEAN, NEW s \in SUBSET Str
      PROVE  Fine(f[w, i, b, s])
  <2>0. <<w, i, b, s>> \in Calls /\ <<w, i, b, s>>[2] = i
    BY IsCall
  <2>1. f[w, i, b, s] \in Nat /\ (f[w, i, b, s] = Refused \/ f[w, i, b, s] > i)
    BY <2>0 DEF Onward
  <2>2. \A x \in Nat : x > i => x > c[2]
    BY <1>1, <1>3, Further
  <2> QED
    BY <2>1, <2>2
<1>4. c[2] + 1 >= c[2] /\ c[2] >= c[2] /\ \A x \in Nat : x > c[2] => x >= c[2]
  BY <1>1, Further
<1>5. \A bracket : Fine(Closed(d, c[2], bracket))
  BY <1>2 DEF Closed
<1>6. {} \in SUBSET Str /\ FALSE \in BOOLEAN
  OBVIOUS
<1> HIDE DEF Fine
<1>7. CASE c[1] = "value"
  <2>1. Fine(f["object", c[2] + 1, c[3], {}])
    BY <1>1, <1>2, <1>3, <1>4, <1>6
  <2>2. Fine(f["array", c[2] + 1, FALSE, {}])
    BY <1>1, <1>2, <1>3, <1>4, <1>6
  <2>3. Fine(ConsumeJSONValue(f, d, c[2], c[3]))
    BY <1>2, <2>1, <2>2 DEF ConsumeJSONValue, Bad
  <2> QED
    BY <1>7, <2>3, ConsumeIs
<1>8. CASE c[1] = "object"
  <2> DEFINE next == f["value", c[2] + 1, FALSE, {}]
  <2>1. Fine(next)
    BY <1>1, <1>2, <1>3, <1>4, <1>6
  <2> HIDE DEF next
  <2>2. ASSUME next # Refused, d[c[2]] \in Str PROVE Fine(f["object", next, c[3], c[4] \cup {d[c[2]]}])
    <3>1. next \in Nat /\ next >= c[2]
      BY <1>4, <2>1, <2>2 DEF Fine
    <3>2. c[4] \cup {d[c[2]]} \in SUBSET Str
      BY <1>1, <2>2
    <3> QED
      BY <1>1, <1>3, <3>1, <3>2
  <2>3. ~ KeyRefused(d[c[2]], c[4], c[3]) => d[c[2]] \in Str
    BY DEF KeyRefused
  <2>4. Fine(ConsumeJSONObject(f, d, c[2], c[3], c[4]))
    BY <1>2, <1>5, <2>2, <2>3 DEF ConsumeJSONObject, next
  <2> QED
    BY <1>8, <2>4, ConsumeIs
<1>9. CASE c[1] = "array"
  <2> DEFINE next == f["value", c[2], FALSE, {}]
  <2>1. Fine(next)
    BY <1>1, <1>3, <1>4, <1>6
  <2> HIDE DEF next
  <2>2. ASSUME next # Refused PROVE Fine(f["array", next, FALSE, {}])
    <3>1. next \in Nat /\ next >= c[2]
      BY <1>4, <2>1, <2>2 DEF Fine
    <3> QED
      BY <1>3, <1>6, <3>1
  <2>3. Fine(ConsumeJSONArray(f, d, c[2]))
    BY <1>2, <1>5, <2>2 DEF ConsumeJSONArray, next
  <2> QED
    BY <1>9, <2>3, ConsumeIs
<1> QED
  BY <1>7, <1>8, <1>9, CallIs

(* A call depends on calls further on only, and that of an array on the    *)
(* value at the same place.                                                *)
Agree(f, g, c) ==
  /\ \A x \in Calls : x[2] > c[2] => f[x] = g[x]
  /\ c[1] = "array" => f["value", c[2], FALSE, {}] = g["value", c[2], FALSE, {}]

LEMMA ConsumeLocal ==
  ASSUME NEW d, NEW f, NEW g, Onward(f), NEW c \in Calls, Agree(f, g, c)
  PROVE  Consume(f, d, c) = Consume(g, d, c)
<1>1. c[2] \in Nat /\ c[3] \in BOOLEAN /\ c[4] \in SUBSET Str
  BY CallIs
<1>2. c[2] + 1 \in Nat /\ c[2] + 1 > c[2] /\ \A x \in Nat : x > c[2] + 1 => x > c[2]
  BY <1>1, Further
<1>3. ASSUME NEW w \in {"value", "object", "array"}, NEW i \in Nat, i > c[2],
             NEW b \in BOOLEAN, NEW s \in SUBSET Str
      PROVE  f[w, i, b, s] = g[w, i, b, s]
  <2>1. <<w, i, b, s>> \in Calls /\ <<w, i, b, s>>[2] = i
    BY IsCall
  <2> QED
    BY <1>3, <2>1 DEF Agree
<1>4. ASSUME NEW i \in Nat, f["value", i, FALSE, {}] # Refused
      PROVE  f["value", i, FALSE, {}] \in Nat /\ f["value", i, FALSE, {}] > i
  <2>1. <<"value", i, FALSE, {}>> \in Calls /\ <<"value", i, FALSE, {}>>[2] = i
    BY IsCall
  <2> QED
    BY <1>4, <2>1 DEF Onward
<1>6. {} \in SUBSET Str /\ FALSE \in BOOLEAN
  OBVIOUS
<1>7. CASE c[1] = "value"
  <2>1. f["object", c[2] + 1, c[3], {}] = g["object", c[2] + 1, c[3], {}]
    BY <1>1, <1>2, <1>3, <1>6
  <2>2. f["array", c[2] + 1, FALSE, {}] = g["array", c[2] + 1, FALSE, {}]
    BY <1>1, <1>2, <1>3, <1>6
  <2>3. ConsumeJSONValue(f, d, c[2], c[3]) = ConsumeJSONValue(g, d, c[2], c[3])
    BY <2>1, <2>2 DEF ConsumeJSONValue, Bad
  <2> QED
    BY <1>7, <2>3, ConsumeIs
<1>8. CASE c[1] = "object"
  <2> DEFINE next == f["value", c[2] + 1, FALSE, {}]
  <2>1. next = g["value", c[2] + 1, FALSE, {}]
    BY <1>1, <1>2, <1>3, <1>6
  <2>2. ASSUME next # Refused, d[c[2]] \in Str
        PROVE  f["object", next, c[3], c[4] \cup {d[c[2]]}] = g["object", next, c[3], c[4] \cup {d[c[2]]}]
    <3>1. next \in Nat /\ next > c[2]
      BY <1>2, <1>4, <2>2
    <3>2. c[4] \cup {d[c[2]]} \in SUBSET Str
      BY <1>1, <2>2
    <3> HIDE DEF next
    <3> QED
      BY <1>1, <1>3, <3>1, <3>2
  <2>3. ~ KeyRefused(d[c[2]], c[4], c[3]) => d[c[2]] \in Str
    BY DEF KeyRefused
  <2>4. ConsumeJSONObject(f, d, c[2], c[3], c[4]) = ConsumeJSONObject(g, d, c[2], c[3], c[4])
    BY <2>1, <2>2, <2>3 DEF ConsumeJSONObject
  <2> QED
    BY <1>8, <2>4, ConsumeIs
<1>9. CASE c[1] = "array"
  <2> DEFINE next == f["value", c[2], FALSE, {}]
  <2>1. next = g["value", c[2], FALSE, {}]
    BY <1>9 DEF Agree
  <2>2. ASSUME next # Refused PROVE f["array", next, FALSE, {}] = g["array", next, FALSE, {}]
    <3>1. next \in Nat /\ next > c[2]
      BY <1>1, <1>4, <2>2
    <3> HIDE DEF next
    <3> QED
      BY <1>3, <1>6, <3>1
  <2>3. ConsumeJSONArray(f, d, c[2]) = ConsumeJSONArray(g, d, c[2])
    BY <2>1, <2>2 DEF ConsumeJSONArray
  <2> QED
    BY <1>9, <2>3, ConsumeIs
<1> QED
  BY <1>7, <1>8, <1>9, CallIs

(* One position back: first the values and objects there, then arrays. *)
LEMMA WalkBack ==
  ASSUME NEW d, NEW m \in Nat, NEW g, WalksFrom(g, d, m + 1)
  PROVE  \E f : WalksFrom(f, d, m)
<1> DEFINE h == [c \in Calls |-> IF c[2] = m /\ c[1] # "array" THEN Consume(g, d, c) ELSE g[c]]
           f == [c \in Calls |-> IF c[2] = m /\ c[1] = "array" THEN Consume(h, d, c) ELSE h[c]]
<1>1. Onward(g) /\ \A c \in Calls : c[2] >= m + 1 => g[c] = Consume(g, d, c)
  BY DEF WalksFrom
<1>2. Onward(h)
  <2>1. ASSUME NEW c \in Calls PROVE h[c] \in Nat /\ (h[c] = Refused \/ h[c] > c[2])
    <3>1. h[c] = IF c[2] = m /\ c[1] # "array" THEN Consume(g, d, c) ELSE g[c]
      OBVIOUS
    <3>2. g[c] \in Nat /\ (g[c] = Refused \/ g[c] > c[2])
      BY <1>1 DEF Onward
    <3> QED
      BY <1>1, <3>1, <3>2, ConsumeOnward
  <2>2. h = [c \in Calls |-> h[c]]
    OBVIOUS
  <2> HIDE DEF h
  <2> QED
    BY <2>1, <2>2 DEF Onward
<1>3. Onward(f)
  <2>1. ASSUME NEW c \in Calls PROVE f[c] \in Nat /\ (f[c] = Refused \/ f[c] > c[2])
    <3>1. f[c] = IF c[2] = m /\ c[1] = "array" THEN Consume(h, d, c) ELSE h[c]
      OBVIOUS
    <3> HIDE DEF h
    <3>2. h[c] \in Nat /\ (h[c] = Refused \/ h[c] > c[2])
      BY <1>2 DEF Onward
    <3> QED
      BY <1>2, <3>1, <3>2, ConsumeOnward
  <2>2. f = [c \in Calls |-> f[c]]
    OBVIOUS
  <2> HIDE DEF f
  <2> QED
    BY <2>1, <2>2 DEF Onward
<1>4. \A c \in Calls : (c[2] # m => f[c] = h[c] /\ h[c] = g[c])
                       /\ (c[1] # "array" => f[c] = h[c])
                       /\ (c[2] = m /\ c[1] # "array" => h[c] = Consume(g, d, c))
                       /\ (c[2] = m /\ c[1] = "array" => f[c] = Consume(h, d, c))
  OBVIOUS
<1> HIDE DEF f, h
<1>5. ASSUME NEW c \in Calls, c[2] >= m PROVE f[c] = Consume(f, d, c)
  <2>1. c[2] \in Nat
    BY CallIs
  <2>2. ASSUME NEW x \in Calls, x[2] > c[2] PROVE f[x] = g[x] /\ f[x] = h[x]
    <3>1. x[2] \in Nat
      BY CallIs
    <3>2. x[2] # m
      BY SMTT(30), <1>5, <2>1, <2>2, <3>1
    <3> QED
      BY <1>4, <3>2
  <2>7. \A x \in Calls : x[2] > c[2] => f[x] = g[x]
    BY <2>2
  <2>8. \A x \in Calls : x[2] > c[2] => f[x] = h[x]
    BY <2>2
  <2>3. <<"value", c[2], FALSE, {}>> \in Calls /\ <<"value", c[2], FALSE, {}>>[1] = "value"
        /\ <<"value", c[2], FALSE, {}>>[2] = c[2]
    BY <2>1, IsCall
  <2>4. CASE c[2] # m
    <3>1. c[2] >= m + 1
      BY SMTT(30), <1>5, <2>1, <2>4
    <3>2. f[c] = Consume(g, d, c)
      BY <1>1, <1>4, <2>4, <3>1
    <3>3. f["value", c[2], FALSE, {}] = g["value", c[2], FALSE, {}]
      BY <1>4, <2>3, <2>4
    <3>4. Agree(f, g, c)
      BY <2>7, <3>3 DEF Agree
    <3>5. Consume(f, d, c) = Consume(g, d, c)
      BY SMTT(30), <1>3, <3>4, ConsumeLocal
    <3> QED
      BY <3>2, <3>5
  <2>5. CASE c[2] = m /\ c[1] # "array"
    <3>1. f[c] = Consume(g, d, c)
      BY <1>4, <2>5
    <3>2. Agree(f, g, c)
      BY <2>7, <2>5 DEF Agree
    <3>3. Consume(f, d, c) = Consume(g, d, c)
      BY SMTT(30), <1>3, <3>2, ConsumeLocal
    <3> QED
      BY <3>1, <3>3
  <2>6. CASE c[2] = m /\ c[1] = "array"
    <3>1. f[c] = Consume(h, d, c)
      BY <1>4, <2>6
    <3>2. f["value", c[2], FALSE, {}] = h["value", c[2], FALSE, {}]
      <4>1. "value" # "array"
        OBVIOUS
      <4> QED
        BY <1>4, <2>3, <4>1
    <3>3. Agree(f, h, c)
      BY <2>8, <3>2 DEF Agree
    <3>4. Consume(f, d, c) = Consume(h, d, c)
      BY SMTT(30), <1>3, <3>3, ConsumeLocal
    <3> QED
      BY <3>1, <3>4
  <2> QED
    BY <2>4, <2>5, <2>6
<1> QED
  BY <1>3, <1>5 DEF WalksFrom

LEMMA WalkExists ==
  ASSUME NEW d \in Seq(Token)
  PROVE  \E f : Walks(f, d)
<1> DEFINE T == {m \in Nat : \E g : WalksFrom(g, d, m)}
           none == [c \in Calls |-> 0]
<1>1. Len(d) \in Nat /\ Len(d) + 1 \in Nat
  BY SMTT(30), Positions
<1>2. WalksFrom(none, d, Len(d) + 1)
  <2>1. none \in [Calls -> Nat] /\ \A c \in Calls : none[c] = Refused
    BY DEF Refused
  <2>2. ASSUME NEW c \in Calls, c[2] >= Len(d) + 1 PROVE Consume(none, d, c) = Refused
    <3>1. c[2] \in Nat
      BY CallIs
    <3>2. ~ (c[2] <= Len(d))
      BY SMTT(30), <1>1, <2>2, <3>1
    <3>3. ~ More(d, c[2]) /\ \A bracket : Closed(d, c[2], bracket) = Refused
      BY <3>2 DEF More, Closed
    <3>4. /\ ConsumeJSONValue(none, d, c[2], c[3]) = Refused
          /\ ConsumeJSONObject(none, d, c[2], c[3], c[4]) = Refused
          /\ ConsumeJSONArray(none, d, c[2]) = Refused
      BY <3>3 DEF ConsumeJSONValue, ConsumeJSONObject, ConsumeJSONArray
    <3> HIDE DEF none
    <3> QED
      BY <3>4, ConsumeIs, CallIs
  <2> HIDE DEF none
  <2> QED
    BY <2>1, <2>2 DEF WalksFrom, Onward
<1>3. T \in SUBSET Nat /\ T # {}
  BY <1>1, <1>2
<1>4. PICK m \in T : \A x \in T : m <= x
  BY <1>3, LeastNumber
<1>5. PICK g : WalksFrom(g, d, m)
  BY <1>4
<1>6. m = 0
  <2> SUFFICES ASSUME m # 0 PROVE FALSE
    OBVIOUS
  <2>1. m - 1 \in Nat /\ m - 1 + 1 = m /\ ~(m <= m - 1)
    BY SMTT(30), <1>4
  <2>2. WalksFrom(g, d, m - 1 + 1)
    BY <1>5, <2>1
  <2>3. \E f : WalksFrom(f, d, m - 1)
    BY <2>1, <2>2, WalkBack
  <2> QED
    BY <1>4, <2>1, <2>3
<1>7. \A c \in Calls : c[2] >= 0
  <2> SUFFICES ASSUME NEW c \in Calls PROVE c[2] >= 0
    OBVIOUS
  <2>1. c[2] \in Nat
    BY CallIs
  <2> QED
    BY SMTT(30), <2>1
<1>8. g \in [Calls -> Nat] /\ \A c \in Calls : g[c] = Consume(g, d, c)
  BY <1>5, <1>6, <1>7 DEF WalksFrom, Onward
<1>9. g = [c \in Calls |-> g[c]]
  BY <1>8
<1>10. [c \in Calls |-> g[c]] = [c \in Calls |-> Consume(g, d, c)]
  BY <1>8
<1> QED
  BY <1>9, <1>10 DEF Walks

(* So the walk of a document is one that satisfies the equations. *)
LEMMA WalkIs ==
  ASSUME NEW d \in Seq(Token)
  PROVE  \E f : Walks(f, d) /\ WalkJSON(d) = f["value", 1, TRUE, {}]
<1> DEFINE walk == CHOOSE f : f = [call \in Calls |-> Consume(f, d, call)]
<1>1. Walks(walk, d)
  BY WalkExists DEF Walks
<1>2. WalkJSON(d) = walk["value", 1, TRUE, {}]
  BY DEF WalkJSON
<1> QED
  BY <1>1, <1>2

-----------------------------------------------------------------------------
(* ProperObject, in the words of the lemmas above. *)
LEMMA ProperIs ==
  ASSUME NEW d \in Seq(Token)
  PROVE  ProperObject(d) <=>
           /\ d[1] = "{" /\ GoodTokens(d, 1, Len(d) + 1) /\ TopKeys(d, 1)
           /\ \A i \in 1 .. Len(d) + 1 : Depth(d, i) >= 0
           /\ Depth(d, Len(d) + 1) = 0 /\ Cardinality(Kids(d, 0)) = 1
<1>1. Len(d) + 1 - 1 = Len(d)
  BY SMTT(30), Positions
<1>2. GoodTokens(d, 1, Len(d) + 1) <=> \A i \in 1 .. Len(d) : GoodToken(d, i)
  BY <1>1 DEF GoodTokens
<1>3. WellFormed(d) <=>
        /\ \A i \in 1 .. Len(d) : d[i] # Bad
        /\ \A i \in 1 .. Len(d) + 1 : Depth(d, i) >= 0
        /\ Depth(d, Len(d) + 1) = 0
        /\ \A i \in 1 .. Len(d) : d[i] \in Close =>
             Parent(d)[i] # 0 /\ d[i] = Matching(d[Parent(d)[i]])
        /\ Cardinality(Kids(d, 0)) = 1
        /\ \A j \in 1 .. Len(d) : d[j] = "{" =>
             /\ Cardinality(Kids(d, j)) % 2 = 0
             /\ \A i \in KeysOf(d, j) : d[i] \in Str
  BY DEF WellFormed, Kids, KeysOf
<1>4. ProperObject(d) <=>
        /\ WellFormed(d) /\ d[1] = "{"
        /\ \A j \in 1 .. Len(d) : d[j] = "{" =>
             \A i, k \in KeysOf(d, j) : d[i] = d[k] => i = k
        /\ TopKeys(d, 1)
  BY DEF ProperObject, Kids, KeysOf, TopKeys
<1>5. (\A i \in 1 .. Len(d) : GoodToken(d, i)) <=>
        /\ \A i \in 1 .. Len(d) : d[i] # Bad
        /\ \A i \in 1 .. Len(d) : d[i] \in Close =>
             Parent(d)[i] # 0 /\ d[i] = Matching(d[Parent(d)[i]])
        /\ \A j \in 1 .. Len(d) : d[j] = "{" =>
             /\ Cardinality(Kids(d, j)) % 2 = 0
             /\ \A i \in KeysOf(d, j) : d[i] \in Str
        /\ \A j \in 1 .. Len(d) : d[j] = "{" =>
             \A i, k \in KeysOf(d, j) : d[i] = d[k] => i = k
  BY DEF GoodToken, GoodObject
<1> QED
  BY <1>2, <1>3, <1>4, <1>5

(* A text is one value when nothing but its first token is outside of all  *)
(* brackets.                                                               *)
LEMMA OneValue ==
  ASSUME NEW d \in Seq(Token), d[1] \notin Close
  PROVE  Span(d, 1, Len(d) + 1) <=>
           /\ \A i \in 1 .. Len(d) + 1 : Depth(d, i) >= 0
           /\ Depth(d, Len(d) + 1) = 0 /\ Cardinality(Kids(d, 0)) = 1
<1> DEFINE n == Len(d)
<1>1. n \in Nat /\ Depth(d, 1) = 0
  BY Positions, DepthStep
<1>2. ASSUME n >= 1 PROVE 1 \in Kids(d, 0)
  <2>1. 1 \in 1 .. n
    BY SMTT(30), <1>1, <1>2
  <2>2. Parent(d)[1] \in 0 .. 1 - 1
    BY <2>1, ParentOf
  <2>3. Parent(d)[1] = 0
    BY SMTT(30), <2>2
  <2> QED
    BY <1>1, <2>1, <2>3 DEF Kids, Children
<1>3. ASSUME Span(d, 1, n + 1)
      PROVE  /\ \A i \in 1 .. n + 1 : Depth(d, i) >= 0
             /\ Depth(d, n + 1) = 0 /\ Cardinality(Kids(d, 0)) = 1
  <2>1. /\ 1 \in 1 .. n /\ Depth(d, n + 1) = 0
        /\ \A j \in 1 + 1 .. n + 1 - 1 : Depth(d, j) > 0
    BY SMTT(30), <1>1, <1>3 DEF Span
  <2>2. n >= 1
    BY SMTT(30), <1>1, <2>1
  <2>3. ASSUME NEW i \in 1 .. n + 1 PROVE Depth(d, i) >= 0 /\ (i \in 1 .. n /\ i # 1 => ~(Depth(d, i) <= 0))
    <3>1. Depth(d, i) \in Int
      BY Positions
    <3>2. i = 1 \/ i = n + 1 \/ i \in 1 + 1 .. n + 1 - 1
      BY SMTT(30), <1>1
    <3>3. i = n + 1 => i \notin 1 .. n
      BY SMTT(30), <1>1
    <3> QED
      BY SMTT(30), <1>1, <2>1, <3>1, <3>2, <3>3
  <2>4. ASSUME NEW i \in Kids(d, 0) PROVE i = 1
    <3>1. i \in 1 .. n /\ i \in 1 .. n + 1 /\ Parent(d)[i] = 0
      BY KidsFinite, Positions DEF Kids, Children
    <3>2. Depth(d, i) <= 0
      BY <3>1, ParentOf
    <3> QED
      BY <2>3, <3>1, <3>2
  <2>5. Kids(d, 0) = {1}
    BY <1>2, <2>2, <2>4
  <2>6. Cardinality({1}) = 1
    BY FS_Singleton
  <2> QED
    BY <2>1, <2>3, <2>5, <2>6
<1>4. ASSUME \A i \in 1 .. n + 1 : Depth(d, i) >= 0, Depth(d, n + 1) = 0,
             Cardinality(Kids(d, 0)) = 1
      PROVE  Span(d, 1, n + 1)
  <2>1. PICK x : Kids(d, 0) = {x}
    BY <1>4, KidsFinite, FS_Singleton
  <2>2. n >= 1
    <3>1. x \in 1 .. n
      BY <2>1, KidsFinite
    <3> QED
      BY SMTT(30), <1>1, <3>1
  <2>3. ASSUME NEW j \in 1 + 1 .. n + 1 - 1 PROVE Depth(d, j) > 0
    <3>1. j \in 1 .. n /\ j \in 1 .. n + 1 /\ j + 1 \in 1 .. n + 1 /\ j # 1
      BY SMTT(30), <1>1
    <3>2. Depth(d, j) \in Int /\ Depth(d, j) >= 0 /\ Depth(d, j + 1) >= 0
      BY <1>4, <3>1, Positions
    <3> SUFFICES ASSUME Depth(d, j) = 0 PROVE FALSE
      BY SMTT(30), <3>2
    <3>3. d[j] \notin Close
      <4> SUFFICES ASSUME d[j] \in Close PROVE FALSE
        OBVIOUS
      <4>1. Depth(d, j + 1) = Depth(d, j) - 1
        BY <3>1, DepthStep, Tokens
      <4> QED
        BY SMTT(30), <3>2, <4>1
    <3>4. Parent(d)[j] = 0
      <4> SUFFICES ASSUME Parent(d)[j] # 0 PROVE FALSE
        OBVIOUS
      <4>1. Parent(d)[j] \in 1 .. n /\ Depth(d, j) = Depth(d, Parent(d)[j]) + 1
        BY <3>1, ParentOf DEF Inside
      <4>2. Depth(d, Parent(d)[j]) >= 0 /\ Depth(d, Parent(d)[j]) \in Int
        BY <1>4, <4>1, Positions
      <4> QED
        BY SMTT(30), <4>1, <4>2
    <3>5. j \in Kids(d, 0)
      BY <3>1, <3>3, <3>4 DEF Kids, Children
    <3> QED
      BY <1>2, <2>1, <2>2, <3>1, <3>5
  <2>4. 1 \in 1 .. n /\ n + 1 \in 1 + 1 .. n + 1
    BY SMTT(30), <1>1, <2>2
  <2> QED
    BY SMTT(30), <1>1, <1>4, <2>3, <2>4 DEF Span
<1> QED
  BY <1>3, <1>4

(* The token pass accepts just the texts of one value that are a scalar,   *)
(* or an object in which brackets match, keys are strings and no object    *)
(* has a key twice, with no field but the two at the top: a walk over the  *)
(* tokens with a set of seen keys finds what the grammar says of the whole *)
(* document, at any depth of nesting.                                      *)
THEOREM TokenPassIsExact ==
  ASSUME NEW d \in Seq(Token)
  PROVE  ValidateJSONStructure(d) <=>
           \/ ProperObject(d)
           \/ Len(d) = 1 /\ d[1] \notin Open \cup Close \cup {Bad}
<1>1. PICK f : Walks(f, d) /\ WalkJSON(d) = f["value", 1, TRUE, {}]
  BY WalkIs
<1>2. Len(d) \in Nat /\ 1 \in 1 .. Len(d) + 1 /\ Len(d) + 1 # Refused /\ 1 \in Nat
  BY SMTT(30), Positions DEF Refused
<1>3. ValueOK(f, d, 1)
  BY <1>1, <1>2, WalkOK
<1>4. ValidateJSONStructure(d) <=>
        /\ Span(d, 1, Len(d) + 1) /\ GoodTokens(d, 1, Len(d) + 1)
        /\ d[1] # "[" /\ (d[1] = "{" => TopKeys(d, 1))
  BY <1>1, <1>2, <1>3 DEF ValueOK, ValidateJSONStructure
<1>5. CASE d[1] = "{"
  <2>1. d[1] \in Open /\ d[1] \notin Close
    BY <1>5 DEF Open, Close
  <2> QED
    BY <1>4, <1>5, <2>1, ProperIs, OneValue
<1>6. CASE d[1] # "{"
  <2>1. ~ ProperObject(d)
    BY <1>6, ProperIs
  <2>2. ASSUME ValidateJSONStructure(d)
        PROVE  Len(d) = 1 /\ d[1] \notin Open \cup Close \cup {Bad}
    <3>1. Span(d, 1, Len(d) + 1) /\ GoodTokens(d, 1, Len(d) + 1) /\ d[1] # "["
      BY <1>4, <2>2
    <3>2. 1 \in 1 .. Len(d) /\ d[1] \notin Close
      BY <3>1 DEF Span
    <3>3. GoodToken(d, 1)
      <4>1. 1 \in 1 .. Len(d) + 1 - 1
        BY SMTT(30), <1>2, <3>2
      <4> QED
        BY <3>1, <4>1 DEF GoodTokens
    <3>4. d[1] \notin Open \cup Close \cup {Bad}
      BY <1>6, <3>1, <3>2, <3>3 DEF GoodToken, Open
    <3>5. Depth(d, 1 + 1) = Depth(d, 1) /\ Depth(d, 1) \in Int
      BY <1>2, <3>2, <3>4, DepthStep
    <3>6. 1 + 1 \notin 1 + 1 .. Len(d) + 1 - 1
      <4> SUFFICES ASSUME 1 + 1 \in 1 + 1 .. Len(d) + 1 - 1 PROVE FALSE
        OBVIOUS
      <4>1. Depth(d, 1 + 1) > Depth(d, 1)
        BY <3>1 DEF Span
      <4> QED
        BY SMTT(30), <3>5, <4>1
    <3>7. Len(d) = 1
      <4>1. Len(d) \in Nat /\ 1 \in 1 .. Len(d)
        BY <1>2, <3>2
      <4>2. \A n \in Nat : 1 \in 1 .. n /\ 1 + 1 \notin 1 + 1 .. n + 1 - 1 => n = 1
        BY SMTT(30)
      <4> QED
        BY <3>6, <4>1, <4>2
    <3> QED
      BY <3>4, <3>7
  <2>3. ASSUME Len(d) = 1, d[1] \notin Open \cup Close \cup {Bad}
        PROVE  ValidateJSONStructure(d)
    <3>1. 1 \in 1 .. Len(d) /\ Len(d) + 1 = 1 + 1 /\ 1 + 1 \in 1 + 1 .. Len(d) + 1
      BY SMTT(30), <2>3
    <3>2. Depth(d, 1 + 1) = Depth(d, 1)
      BY <2>3, <3>1, DepthStep
    <3>3. \A j \in 1 + 1 .. 1 + 1 - 1 : FALSE
      BY SMTT(30)
    <3>4. Span(d, 1, 1 + 1)
      BY <2>3, <3>1, <3>2, <3>3 DEF Span
    <3>5. GoodToken(d, 1)
      BY <1>6, <2>3 DEF GoodToken
    <3>6. GoodTokens(d, 1, 1 + 1)
      BY <1>2, <3>5, GoodOne
    <3>7. d[1] # "["
      BY <2>3 DEF Open
    <3> QED
      BY <1>4, <1>6, <3>1, <3>4, <3>6, <3>7
  <2> QED
    BY <2>1, <2>2, <2>3
<1> QED
  BY <1>5, <1>6

-----------------------------------------------------------------------------
(* Of an even number of children the keys have their values: a key is      *)
(* followed by one, and what is not a key follows one.                     *)
Rank(S, i) == Cardinality({j \in S : j < i})

LEMMA PartFinite ==
  ASSUME NEW n \in Nat, NEW S \in SUBSET (1 .. n)
  PROVE  IsFiniteSet(S) /\ S \in SUBSET Nat /\ S \in SUBSET (0 .. n)
<1>1. IsFiniteSet(1 .. n)
  BY FS_Interval, SMTT(30)
<1>2. \A j \in 1 .. n : j \in Nat /\ j \in 0 .. n
  BY SMTT(30)
<1> QED
  BY <1>1, <1>2, FS_Subset

(* The next element has one more before it. *)
LEMMA RankOfNext ==
  ASSUME NEW n \in Nat, NEW S \in SUBSET (1 .. n), NEW k \in S, NEW v \in S, k < v,
         \A j \in S : j > k => v <= j
  PROVE  Rank(S, k) \in Nat /\ Rank(S, v) = Rank(S, k) + 1
<1> DEFINE B == {j \in S : j < k}
<1>1. S \subseteq Nat /\ k \in Nat /\ v \in Nat
  BY PartFinite
<1>2. {j \in S : j < v} = B \cup {k} /\ k \notin B
  <2>1. \A j \in S : j < v <=> j < k \/ j = k
    BY SMTT(30), <1>1
  <2>2. ~(k < k)
    BY SMTT(30), <1>1
  <2> QED
    BY <2>1, <2>2
<1>3. IsFiniteSet(B)
  <2>1. B \in SUBSET (1 .. n)
    OBVIOUS
  <2> QED
    BY <2>1, PartFinite
<1>4. Cardinality(B) \in Nat /\ Cardinality(B \cup {k}) = Cardinality(B) + 1
  BY <1>2, <1>3, FS_CardinalityType, FS_AddElement
<1> QED
  BY <1>2, <1>4 DEF Rank

LEMMA Parity ==
  ASSUME NEW x \in Nat
  PROVE  (x + 1) % 2 = 0 <=> x % 2 # 0
BY SMTT(30)

LEMMA KeyHasValue ==
  ASSUME NEW n \in Nat, NEW S \in SUBSET (1 .. n), Cardinality(S) % 2 = 0,
         NEW k \in Keys(S)
  PROVE  ValueAt(S, k) \in S /\ ValueAt(S, k) \notin Keys(S) /\ ValueAt(S, k) > k
<1> DEFINE L == {j \in S : j > k}
           B == {j \in S : j < k}
<1>1. S \subseteq Nat /\ k \in S /\ k \in Nat /\ Rank(S, k) % 2 = 0
  BY PartFinite DEF Keys, Rank
<1>2. IsFiniteSet(B)
  <2>1. B \in SUBSET (1 .. n)
    OBVIOUS
  <2> QED
    BY <2>1, PartFinite
<1>3. L # {}
  <2> SUFFICES ASSUME L = {} PROVE FALSE
    OBVIOUS
  <2>1. S = B \cup {k} /\ k \notin B
    <3>1. \A j \in S : j < k \/ j = k \/ j > k
      BY SMTT(30), <1>1
    <3>2. ~(k < k)
      BY SMTT(30), <1>1
    <3> QED
      BY <1>1, <3>1, <3>2
  <2>2. Cardinality(B) \in Nat /\ Cardinality(S) = Cardinality(B) + 1
    <3> HIDE DEF B, L
    <3>1. Cardinality(B) \in Nat /\ Cardinality(B \cup {k}) = Cardinality(B) + 1
      BY <1>2, <2>1, FS_CardinalityType, FS_AddElement
    <3> QED
      BY <2>1, <3>1
  <2>3. Cardinality(B) % 2 = 0
    BY <1>1 DEF Rank
  <2> QED
    BY <2>2, <2>3, Parity
<1>4. L \in SUBSET Nat
  BY <1>1
<1>5. Min(L) \in L /\ \A x \in L : Min(L) <= x
  BY <1>3, <1>4, MinIs
<1>6. ValueAt(S, k) = Min(L)
  BY DEF ValueAt
<1> HIDE DEF L, B
<1> DEFINE v == Min(L)
<1>7. v \in S /\ v > k /\ \A j \in S : j > k => v <= j
  BY <1>5 DEF L
<1> HIDE DEF v
<1>8. k < v
  BY SMTT(30), <1>1, <1>7
<1>9. Rank(S, k) \in Nat /\ Rank(S, v) = Rank(S, k) + 1
  BY <1>1, <1>7, <1>8, RankOfNext
<1>10. Rank(S, v) % 2 # 0
  BY <1>1, <1>9, Parity
<1>11. v \notin Keys(S)
  BY <1>10 DEF Keys, Rank
<1> QED
  BY <1>6, <1>7, <1>11 DEF v

LEMMA ValueHasKey ==
  ASSUME NEW n \in Nat, NEW S \in SUBSET (1 .. n), NEW v \in S, v \notin Keys(S)
  PROVE  \E k \in Keys(S) : ValueAt(S, k) = v
<1> DEFINE B == {j \in S : j < v}
<1>1. S \subseteq Nat /\ v \in Nat /\ Rank(S, v) % 2 # 0
  BY PartFinite DEF Keys, Rank
<1>2. B # {}
  <2> SUFFICES ASSUME B = {} PROVE FALSE
    OBVIOUS
  <2>1. Rank(S, v) = 0
    BY FS_EmptySet DEF Rank
  <2> QED
    BY SMTT(30), <1>1, <2>1
<1>3. B \in SUBSET (0 .. n)
  BY PartFinite
<1> HIDE DEF B
<1>4. Max(B) \in B /\ \A x \in B : x <= Max(B)
  BY <1>2, <1>3, GreatestNumber
<1> DEFINE k == Max(B)
<1>5. k \in S /\ k < v /\ \A j \in S : j < v => j <= k
  BY <1>4 DEF B
<1> HIDE DEF k
<1>6. k \in Nat /\ \A j \in S : j > k => v <= j
  BY SMTT(30), <1>1, <1>5
<1>7. Rank(S, k) \in Nat /\ Rank(S, v) = Rank(S, k) + 1
  BY <1>5, <1>6, RankOfNext
<1>8. k \in Keys(S)
  <2>1. Rank(S, k) % 2 = 0
    BY <1>1, <1>7, Parity
  <2> QED
    BY <1>5, <2>1 DEF Keys, Rank
<1>9. ValueAt(S, k) = v
  <2> DEFINE L == {j \in S : j > k}
  <2>1. L \in SUBSET Nat /\ v \in L
    <3>1. v > k
      BY SMTT(30), <1>1, <1>5, <1>6
    <3> QED
      BY <1>1, <3>1
  <2>2. Min(L) \in L /\ \A x \in L : Min(L) <= x
    <3> HIDE DEF L
    <3>1. L # {}
      BY <2>1
    <3> QED
      BY <2>1, <3>1, MinIs
  <2>3. Min(L) \in Nat /\ Min(L) <= v /\ v <= Min(L)
    BY <1>6, <2>1, <2>2
  <2>4. Min(L) = v
    <3> HIDE DEF L
    <3> QED
      BY SMTT(30), <1>1, <2>3
  <2> QED
    BY <2>4 DEF ValueAt
<1> QED
  BY <1>8, <1>9

-----------------------------------------------------------------------------
(* What the decoder makes of a proper object. *)
At(d, o, name) == {k \in KeysOf(d, o) : d[k] = name}

(* With no key twice it does not matter which of equal keys wins. *)
LEMMA LookupIs ==
  ASSUME NEW d \in Seq(Token), NEW o, GoodObject(d, o), NEW name
  PROVE  /\ At(d, o, name) = {} => Lookup(d, o, name) = 0
         /\ \A k \in KeysOf(d, o) : d[k] = name =>
              /\ At(d, o, name) = {k} /\ Max(At(d, o, name)) = k
              /\ Lookup(d, o, name) = ValueAt(Kids(d, o), k)
              /\ Lookup(d, o, name) \in Kids(d, o) /\ Lookup(d, o, name) \in 1 .. Len(d)
              /\ Lookup(d, o, name) # 0
<1>1. Lookup(d, o, name) = IF At(d, o, name) = {} THEN 0
                           ELSE ValueAt(Kids(d, o), Min(At(d, o, name)))
  BY DEF Lookup, At, Kids, KeysOf
<1>2. ASSUME NEW k \in KeysOf(d, o), d[k] = name
      PROVE  /\ At(d, o, name) = {k} /\ Max(At(d, o, name)) = k
             /\ Lookup(d, o, name) = ValueAt(Kids(d, o), k)
             /\ Lookup(d, o, name) \in Kids(d, o) /\ Lookup(d, o, name) \in 1 .. Len(d)
             /\ Lookup(d, o, name) # 0
  <2>1. At(d, o, name) = {k}
    BY <1>2 DEF At, GoodObject
  <2>2. Len(d) \in Nat /\ Kids(d, o) \in SUBSET (1 .. Len(d)) /\ k \in Kids(d, o) /\ k \in 1 .. Len(d)
    BY KidsFinite, KeysAreKids, Positions
  <2>3. {k} \in SUBSET (1 .. Len(d)) /\ {k} # {}
    BY <2>2
  <2>4. {k} \in SUBSET Nat /\ {k} \in SUBSET (0 .. Len(d))
    BY <2>2, <2>3, PartFinite
  <2>5. Max({k}) = k /\ Min({k}) = k
    BY <2>2, <2>3, <2>4, GreatestNumber, MinIs
  <2>6. ValueAt(Kids(d, o), k) \in Kids(d, o)
    BY <2>2, KeyHasValue DEF GoodObject, KeysOf
  <2>7. \A i \in 1 .. Len(d) : i # 0
    BY SMTT(30), <2>2
  <2>8. Lookup(d, o, name) = ValueAt(Kids(d, o), k)
    BY <1>1, <2>1, <2>3, <2>5
  <2> QED
    BY <2>1, <2>2, <2>5, <2>6, <2>7, <2>8
<1> QED
  BY <1>1, <1>2

(* No number of a document is out of range. *)
NoneHuge(d) == \A i \in 1 .. Len(d) : d[i] \notin Huge

(* Decode, with its fields and values named as above. *)
DecodedField(d, name) == {k \in KeysOf(d, 1) : Fold[d[k]] = name}
DecodedAt(d, name) == ValueAt(Kids(d, 1), Max(DecodedField(d, name)))
DecodedGiven(d, name) == DecodedField(d, name) # {} /\ d[DecodedAt(d, name)] # "null"
LEMMA DecodeFields ==
  ASSUME NEW d, d[1] = "{"
  PROVE  LET f == DecodedAt(d, "features")
         IN  Decode(d) =
           [ok |-> /\ \A k \in KeysOf(d, 1) : Fold[d[k]] \in TopLevel
                   /\ \A i \in 1 .. Len(d) : d[i] \notin Huge
                   /\ DecodedGiven(d, "transaction_id") => d[DecodedAt(d, "transaction_id")] \in Str
                   /\ DecodedGiven(d, "features") => d[f] = "{",
            txn |-> IF DecodedGiven(d, "transaction_id")
                    THEN d[DecodedAt(d, "transaction_id")] ELSE "",
            hasFeatures |-> DecodedGiven(d, "features"),
            features |-> IF DecodedGiven(d, "features") /\ d[f] = "{"
                         THEN [name \in {d[k] : k \in KeysOf(d, f)} |->
                                 d[ValueAt(Kids(d, f), Max(At(d, f, name)))]]
                         ELSE <<>>]
<1>1. d[1] # "null" /\ ~(d[1] \notin {"null", "{"})
  OBVIOUS
<1> QED
  BY <1>1 DEF Decode, DecodedField, DecodedAt, DecodedGiven, At, KeysOf, Kids

(* A proper object is at the first token, and all its objects are good. *)
LEMMA ProperObjects ==
  ASSUME NEW d \in Seq(Token), ProperObject(d)
  PROVE  /\ 1 \in 1 .. Len(d) /\ d[1] = "{"
         /\ \A o \in 1 .. Len(d) : d[o] = "{" => GoodObject(d, o)
<1>1. d[1] = "{" /\ GoodTokens(d, 1, Len(d) + 1) /\ Cardinality(Kids(d, 0)) = 1
  BY ProperIs
<1>2. 1 \in 1 .. Len(d)
  <2>1. PICK x : Kids(d, 0) = {x}
    BY <1>1, KidsFinite, FS_Singleton
  <2>2. x \in 1 .. Len(d) /\ Len(d) \in Nat
    BY <2>1, KidsFinite, Positions
  <2> QED
    BY SMTT(30), <2>2
<1>3. Len(d) + 1 - 1 = Len(d)
  BY SMTT(30), Positions
<1>4. \A o \in 1 .. Len(d) : GoodToken(d, o)
  <2>1. GoodTokens(d, 1, Len(d) + 1)
    BY <1>1
  <2>2. \A o \in 1 .. Len(d) + 1 - 1 : GoodToken(d, o)
    BY <2>1 DEF GoodTokens
  <2> QED
    BY <1>3, <2>2
<1>5. \A o \in 1 .. Len(d) : d[o] = "{" => GoodObject(d, o)
  BY <1>4 DEF GoodToken
<1> QED
  BY <1>1, <1>2, <1>5

(* The decoder goes by the same keys as Lookup: the top-level names are    *)
(* their own folded form.                                                  *)
LEMMA DecodedIsLookup ==
  ASSUME NEW d \in Seq(Token), ProperObject(d), NEW name
  PROVE  /\ DecodedField(d, name) = At(d, 1, name)
         /\ At(d, 1, name) # {} => DecodedAt(d, name) = Lookup(d, 1, name)
         /\ At(d, 1, name) = {} <=> Lookup(d, 1, name) = 0
         /\ Lookup(d, 1, name) # 0 => Lookup(d, 1, name) \in 1 .. Len(d)
<1>1. TopKeys(d, 1)
  BY ProperIs
<1>3. GoodObject(d, 1)
  BY ProperObjects
<1>4. \A k \in KeysOf(d, 1) : Fold[d[k]] = d[k]
  BY <1>1, APIAssumption DEF TopKeys
<1>5. DecodedField(d, name) = At(d, 1, name)
  BY <1>4 DEF DecodedField, At
<1>6. ASSUME At(d, 1, name) # {}
      PROVE  /\ DecodedAt(d, name) = Lookup(d, 1, name) /\ Lookup(d, 1, name) # 0
             /\ Lookup(d, 1, name) \in 1 .. Len(d)
  <2>1. PICK k \in KeysOf(d, 1) : d[k] = name
    BY <1>6 DEF At
  <2> QED
    BY <1>3, <1>5, <2>1, LookupIs DEF DecodedAt
<1>7. At(d, 1, name) = {} => Lookup(d, 1, name) = 0
  BY <1>3, LookupIs
<1> QED
  BY <1>5, <1>6, <1>7

(* A proper object is decoded to its fields, and the handler goes on to    *)
(* the service just when both are there and of their types.                *)
LEMMA DecodeIs ==
  ASSUME NEW d \in Seq(Token), ProperObject(d)
  PROVE  LET T == Lookup(d, 1, "transaction_id")
             F == Lookup(d, 1, "features")
             req == Decode(d)
             fine == /\ T # 0 /\ d[T] \in Str \ (Long \cup {""})
                     /\ F # 0 /\ d[F] = "{"
         IN  /\ ~(~req.ok \/ req.txn = "" \/ req.txn \in Long \/ ~req.hasFeatures)
                  <=> fine /\ NoneHuge(d)
             /\ fine => req.features = [name \in {d[k] : k \in KeysOf(d, F)} |->
                                          d[Lookup(d, F, name)]]
<1> DEFINE T == Lookup(d, 1, "transaction_id")
           F == Lookup(d, 1, "features")
           GivenT == T # 0 /\ d[T] # "null"
           GivenF == F # 0 /\ d[F] # "null"
<1>1. d[1] = "{" /\ TopKeys(d, 1)
  BY ProperIs
<1>2. /\ DecodedGiven(d, "transaction_id") <=> GivenT
      /\ DecodedGiven(d, "features") <=> GivenF
  BY DecodedIsLookup DEF DecodedGiven
<1>3. /\ GivenT => DecodedAt(d, "transaction_id") = T
      /\ GivenF => DecodedAt(d, "features") = F
  BY DecodedIsLookup
<1>4. \A k \in KeysOf(d, 1) : Fold[d[k]] \in TopLevel
  BY <1>1, APIAssumption DEF TopKeys
<1>5. "null" \notin Str /\ "{" # "null"
  BY TokenAssumption
<1> DEFINE f == DecodedAt(d, "features")
           ok == /\ \A k \in KeysOf(d, 1) : Fold[d[k]] \in TopLevel
                 /\ \A i \in 1 .. Len(d) : d[i] \notin Huge
                 /\ DecodedGiven(d, "transaction_id") => d[DecodedAt(d, "transaction_id")] \in Str
                 /\ DecodedGiven(d, "features") => d[f] = "{"
           txn == IF DecodedGiven(d, "transaction_id")
                  THEN d[DecodedAt(d, "transaction_id")] ELSE ""
           has == DecodedGiven(d, "features")
           features == IF DecodedGiven(d, "features") /\ d[f] = "{"
                       THEN [name \in {d[k] : k \in KeysOf(d, f)} |->
                               d[ValueAt(Kids(d, f), Max(At(d, f, name)))]]
                       ELSE <<>>
<1>6. Decode(d) = [ok |-> ok, txn |-> txn, hasFeatures |-> has, features |-> features]
  BY <1>1, DecodeFields
<1>7. ok <=> /\ NoneHuge(d) /\ (GivenT => d[T] \in Str) /\ (GivenF => d[F] = "{")
  BY <1>2, <1>3, <1>4 DEF NoneHuge
<1>8. /\ txn = (IF GivenT THEN d[T] ELSE "") /\ (has <=> GivenF)
  BY <1>2, <1>3
<1>9. ASSUME F # 0, d[F] = "{"
      PROVE  features = [name \in {d[k] : k \in KeysOf(d, F)} |-> d[Lookup(d, F, name)]]
  <2>1. DecodedGiven(d, "features") /\ f = F
    BY <1>2, <1>3, <1>5, <1>9
  <2>2. GoodObject(d, F)
    <3>1. F \in 1 .. Len(d)
      BY <1>9, DecodedIsLookup
    <3> QED
      BY <1>9, <3>1, ProperObjects
  <2> HIDE DEF F
  <2>3. \A name \in {d[k] : k \in KeysOf(d, F)} :
          d[ValueAt(Kids(d, F), Max(At(d, F, name)))] = d[Lookup(d, F, name)]
    BY <2>2, LookupIs
  <2>4. features = [name \in {d[k] : k \in KeysOf(d, F)} |->
                      d[ValueAt(Kids(d, F), Max(At(d, F, name)))]]
    BY <1>9, <2>1
  <2> QED
    BY <2>3, <2>4
<1> HIDE DEF ok, txn, has, features, T, F
<1>10. /\ Decode(d).ok = ok /\ Decode(d).txn = txn /\ Decode(d).hasFeatures = has
       /\ Decode(d).features = features
  BY SMTT(30), <1>6
<1>11. ~(~ok \/ txn = "" \/ txn \in Long \/ ~has)
         <=> /\ T # 0 /\ d[T] \in Str \ (Long \cup {""})
             /\ F # 0 /\ d[F] = "{" /\ NoneHuge(d)
  BY <1>5, <1>7, <1>8
<1> QED
  BY <1>9, <1>10, <1>11 DEF T, F

(* The service finds the features in order just when they are as promised. *)
LEMMA FeaturesAre ==
  ASSUME NEW d \in Seq(Token), NEW F, GoodObject(d, F), NEW m
  PROVE  LET features == [name \in {d[k] : k \in KeysOf(d, F)} |-> d[Lookup(d, F, name)]]
         IN  /\ FeatureError(m, features) <=> ~ProperFeatures(m, d, F)
             /\ ProperFeatures(m, d, F) =>
                  \A i \in DOMAIN m.order :
                    /\ features[m.order[i]] = d[Lookup(d, F, m.order[i])]
                    /\ d[Lookup(d, F, m.order[i])] \in DOMAIN Num
<1> DEFINE Names == {d[k] : k \in KeysOf(d, F)}
           features == [name \in Names |-> d[Lookup(d, F, name)]]
<1>1. \A k \in KeysOf(d, F) : Lookup(d, F, d[k]) = ValueAt(Kids(d, F), k)
  BY LookupIs
<1>2. ProperFeatures(m, d, F) <=>
        /\ Names = {m.order[i] : i \in DOMAIN m.order}
        /\ \A k \in KeysOf(d, F) : d[ValueAt(Kids(d, F), k)] \in DOMAIN Num
  BY DEF ProperFeatures, Kids, KeysOf
<1>3. (\A k \in KeysOf(d, F) : d[ValueAt(Kids(d, F), k)] \in DOMAIN Num)
        <=> \A name \in Names : d[Lookup(d, F, name)] \in DOMAIN Num
  BY <1>1
<1>4. DOMAIN features = Names /\ \A name \in Names : features[name] = d[Lookup(d, F, name)]
  OBVIOUS
<1> HIDE DEF Names, features
<1>5. ASSUME ~FeatureError(m, features) PROVE ProperFeatures(m, d, F)
  <2>1. \A i \in DOMAIN m.order : m.order[i] \in Names /\ features[m.order[i]] \in DOMAIN Num
    BY <1>4, <1>5 DEF FeatureError
  <2>2. \A name \in Names : \E i \in DOMAIN m.order : m.order[i] = name
    BY <1>4, <1>5 DEF FeatureError
  <2>3. Names = {m.order[i] : i \in DOMAIN m.order}
    BY <2>1, <2>2
  <2>4. \A name \in Names : d[Lookup(d, F, name)] \in DOMAIN Num
    <3> TAKE name \in Names
    <3>1. PICK i \in DOMAIN m.order : m.order[i] = name
      BY <2>2
    <3>2. features[name] \in DOMAIN Num
      BY <2>1, <3>1
    <3>3. features[name] = d[Lookup(d, F, name)]
      BY <1>4
    <3> QED
      BY <3>2, <3>3
  <2> QED
    BY <1>2, <1>3, <2>3, <2>4
<1>6. ASSUME ProperFeatures(m, d, F)
      PROVE  /\ ~FeatureError(m, features)
             /\ \A i \in DOMAIN m.order :
                  /\ features[m.order[i]] = d[Lookup(d, F, m.order[i])]
                  /\ d[Lookup(d, F, m.order[i])] \in DOMAIN Num
  <2>1. Names = {m.order[i] : i \in DOMAIN m.order}
    BY <1>2, <1>6
  <2>2. \A name \in Names : d[Lookup(d, F, name)] \in DOMAIN Num
    BY <1>2, <1>3, <1>6
  <2>3. \A i \in DOMAIN m.order : m.order[i] \in Names
    BY <2>1
  <2>4. \A i \in DOMAIN m.order :
          /\ features[m.order[i]] = d[Lookup(d, F, m.order[i])]
          /\ d[Lookup(d, F, m.order[i])] \in DOMAIN Num
    BY <1>4, <2>2, <2>3
  <2>5. \A name \in DOMAIN features : \E i \in DOMAIN m.order : m.order[i] = name
    BY <1>4, <2>1
  <2>6. \A i \in DOMAIN m.order :
          m.order[i] \in DOMAIN features /\ features[m.order[i]] \in DOMAIN Num
    BY <1>4, <2>3, <2>4
  <2> QED
    BY <2>4, <2>5, <2>6 DEF FeatureError
<1> QED
  BY <1>5, <1>6 DEF Names, features

LEMMA Earlier ==
  ASSUME NEW n \in Nat, NEW i \in 1 .. n
  PROVE  /\ i # 1 => i \in 1 + 1 .. (n + 1) - 1
         /\ \A o \in 0 .. i - 1 : o # 0 => o \in 1 .. n /\ ~(i <= o)
BY SMTT(30)

LEMMA Enclosed ==
  ASSUME NEW d, NEW k, Span(d, 1, k), NEW i \in 1 + 1 .. k - 1
  PROVE  Depth(d, i) > Depth(d, 1)
BY DEF Span

LEMMA Positive ==
  ASSUME NEW x \in Int, x > 0
  PROVE  ~(x <= 0)
BY SMTT(30)

(* With nothing but strings and numbers directly inside of the two         *)
(* objects there are no more objects and arrays, and no other tokens.      *)
LEMMA TwoObjects ==
  ASSUME NEW d \in Seq(Token), ProperObject(d), NEW m,
         d[Lookup(d, 1, "transaction_id")] \in Str, Lookup(d, 1, "features") # 0,
         d[Lookup(d, 1, "features")] = "{",
         ProperFeatures(m, d, Lookup(d, 1, "features"))
  PROVE  NoneHuge(d)
<1> DEFINE T == Lookup(d, 1, "transaction_id")
           F == Lookup(d, 1, "features")
           n == Len(d)
<1>1. /\ n \in Nat /\ 1 \in 1 .. n /\ F \in 1 .. n /\ d[1] = "{"
      /\ GoodObject(d, 1) /\ GoodObject(d, F) /\ TopKeys(d, 1)
  <2>1. F \in 1 .. n
    BY DecodedIsLookup
  <2> QED
    BY <2>1, ProperObjects, ProperIs, Positions
<1>2. \A i \in 1 .. n : i # 1 => Parent(d)[i] # 0
  <2>1. Span(d, 1, n + 1)
    <3>1. d[1] \notin Close
      BY <1>1 DEF Close
    <3> QED
      BY <3>1, ProperIs, OneValue
  <2>2. \A i \in 1 .. n : i # 1 => i \in 1 + 1 .. (n + 1) - 1
    BY <1>1, Earlier
  <2>3. \A i \in 1 .. n : i # 1 => Depth(d, i) > Depth(d, 1)
    <3> SUFFICES ASSUME NEW i \in 1 .. n, i # 1 PROVE Depth(d, i) > Depth(d, 1)
      OBVIOUS
    <3>1. i \in 1 + 1 .. (n + 1) - 1
      BY <2>2
    <3> QED
      BY <2>1, <3>1, Enclosed
  <2>4. Depth(d, 1) = 0 /\ \A i \in 1 .. n : Depth(d, i) \in Int
    BY DepthStep, Positions
  <2>5. \A i \in 1 .. n : i # 1 => ~(Depth(d, i) <= 0)
    <3> TAKE i \in 1 .. n
    <3>1. i # 1 => Depth(d, i) > 0 /\ Depth(d, i) \in Int
      BY <2>3, <2>4
    <3> QED
      BY <3>1, Positive
  <2> QED
    BY <2>5, ParentOf
<1>3. ASSUME NEW o \in {1, F}, NEW i \in Kids(d, o)
      PROVE  i = F \/ d[i] \in Str \cup DOMAIN Num
  <2>1. GoodObject(d, o) /\ Kids(d, o) \in SUBSET (1 .. n)
    BY <1>1, KidsFinite
  <2>2. CASE i \in KeysOf(d, o)
    BY <2>1, <2>2 DEF GoodObject
  <2>3. CASE i \notin KeysOf(d, o)
    <3>1. PICK k \in KeysOf(d, o) : ValueAt(Kids(d, o), k) = i
      BY <1>1, <2>1, <2>3, ValueHasKey DEF KeysOf
    <3>2. Lookup(d, o, d[k]) = i
      BY <2>1, <3>1, LookupIs
    <3>3. CASE o = 1
      <4>1. d[k] \in TopLevel
        BY <1>1, <3>1, <3>3 DEF TopKeys
      <4> QED
        BY <3>2, <3>3, <4>1 DEF TopLevel
    <3>4. CASE o = F
      <4>1. \A j \in KeysOf(d, F) : d[ValueAt(Kids(d, F), j)] \in DOMAIN Num
        BY DEF ProperFeatures, KeysOf, Kids
      <4> QED
        BY <3>1, <3>4, <4>1
    <3> QED
      BY <3>3, <3>4
  <2> QED
    BY <2>2, <2>3
<1>4. (Str \cup DOMAIN Num) \cap (Open \cup Close \cup Huge) = {}
  BY TokenAssumption
<1>5. \A i \in 1 .. n : d[i] \in Open => i \in {1, F}
  <2> DEFINE S == {i \in 1 .. n : d[i] \in Open /\ i \notin {1, F}}
  <2> SUFFICES ASSUME S # {} PROVE FALSE
    OBVIOUS
  <2>1. S \in SUBSET Nat
    <3>1. S \in SUBSET (1 .. n)
      OBVIOUS
    <3> HIDE DEF S
    <3> QED
      BY <1>1, <3>1, PartFinite
  <2>2. PICK i \in S : \A x \in S : i <= x
    BY <2>1, LeastNumber
  <2>3. i \in 1 .. n /\ d[i] \in Open /\ i # 1 /\ i # F
    BY <2>2
  <2> DEFINE o == Parent(d)[i]
  <2>4. o # 0 /\ o \in 0 .. i - 1 /\ Inside(d, o, i)
    BY <1>2, <2>3, ParentOf
  <2>5. o \in 1 .. n /\ ~(i <= o) /\ d[o] \in Open
    <3>1. d[o] \in Open
      BY <2>4 DEF Inside
    <3> HIDE DEF o, n, S
    <3>2. n \in Nat /\ i \in 1 .. n /\ o # 0 /\ o \in 0 .. i - 1
      BY <1>1, <2>3, <2>4
    <3>3. o \in 1 .. n /\ ~(i <= o)
      BY <3>2, Earlier
    <3> QED
      BY <3>1, <3>3
  <2>6. o \in {1, F}
    BY <2>2, <2>5
  <2>7. i \in Kids(d, o)
    <3>1. d[i] \notin Close
      BY <2>3 DEF Open, Close
    <3> QED
      BY <2>3, <3>1 DEF Kids, Children
  <2> QED
    BY <1>3, <1>4, <2>3, <2>6, <2>7
<1>6. ASSUME NEW i \in 1 .. n PROVE d[i] \notin Huge
  <2>1. CASE d[i] \in Open \cup Close
    BY <2>1, TokenAssumption
  <2>2. CASE d[i] \notin Open \cup Close
    <3> DEFINE o == Parent(d)[i]
    <3>1. i # 1 /\ i # F
      BY <1>1, <2>2 DEF Open
    <3>2. o # 0 /\ Inside(d, o, i) /\ o \in 0 .. i - 1
      BY <1>2, <3>1, ParentOf
    <3>3. d[o] \in Open /\ o \in 1 .. n
      <4>1. d[o] \in Open
        BY <3>2 DEF Inside
      <4> HIDE DEF o, n
      <4>2. n \in Nat /\ i \in 1 .. n /\ o # 0 /\ o \in 0 .. i - 1
        BY <1>1, <3>2
      <4>3. o \in 1 .. n
        BY <4>2, Earlier
      <4> QED
        BY <4>1, <4>3
    <3>4. i \in Kids(d, o)
      BY <2>2 DEF Kids, Children
    <3> QED
      BY <1>3, <1>4, <1>5, <3>1, <3>3, <3>4
  <2> QED
    BY <2>1, <2>2
<1> QED
  BY <1>6 DEF NoneHuge

-----------------------------------------------------------------------------
(* Sum adds the terms as a set, in no order; Logit adds them one by one.   *)

(* The sums of the first terms, and of those of some of the terms. *)
Totals(f, g, n) == f[0] = 0 /\ \A i \in 1 .. n : f[i] = f[i - 1] + g[i]
Some(g, n, s) == [i \in 1 .. n |-> IF i \in s THEN g[i] ELSE 0]
Total(g, n) == CHOOSE f \in [0 .. n -> Int] : Totals(f, g, n)
TotalOf(g, n, s) == Total(Some(g, n, s), n)[n]

LEMMA TotalIs ==
  ASSUME NEW n \in Nat, NEW g \in [1 .. n -> Int]
  PROVE  Total(g, n) \in [0 .. n -> Int] /\ Totals(Total(g, n), g, n)
<1> DEFINE h == [i \in 1 .. n |-> [y \in Int |-> y + g[i]]]
<1>1. h \in [1 .. n -> [Int -> Int]]
  BY SMTT(30)
<1>2. \A i \in 1 .. n : \A y \in Int : h[i][y] = y + g[i]
  OBVIOUS
<1> HIDE DEF h
<1>3. PICK f \in [0 .. n -> Int] : Rounds(f, 0, h, n)
  <2>1. 0 \in Int
    BY SMTT(30)
  <2> QED
    BY <1>1, <2>1, RoundsExist
<1>4. Totals(f, g, n)
  <2>1. \A i \in 1 .. n : i - 1 \in 0 .. n
    BY SMTT(30)
  <2>2. \A i \in 1 .. n : f[i - 1] \in Int
    BY <2>1
  <2> QED
    BY <1>2, <1>3, <2>2 DEF Rounds, Totals
<1> QED
  BY <1>4 DEF Total

LEMMA SomeType ==
  ASSUME NEW n \in Nat, NEW g \in [1 .. n -> Int], NEW s
  PROVE  Some(g, n, s) \in [1 .. n -> Int]
         /\ \A i \in 1 .. n : Some(g, n, s)[i] = IF i \in s THEN g[i] ELSE 0
BY SMTT(30) DEF Some

(* A term more, a sum larger by that term. *)
LEMMA TotalOfOneMore ==
  ASSUME NEW n \in Nat, NEW t \in [1 .. n -> Int], NEW s \in SUBSET (1 .. n), NEW x \in s
  PROVE  TotalOf(t, n, s) = t[x] + TotalOf(t, n, s \ {x})
<1> DEFINE u == s \ {x}
           a == t[x]
           g == Some(t, n, s)
           h == Some(t, n, u)
           f == Total(g, n)
           e == Total(h, n)
<1>1. x \in 1 .. n /\ a \in Int
  OBVIOUS
<1>2. g \in [1 .. n -> Int] /\ h \in [1 .. n -> Int]
  BY SomeType
<1>3. ASSUME NEW i \in 1 .. n, i # x PROVE g[i] = h[i]
  <2>1. i \in s <=> i \in u
    BY <1>3
  <2> HIDE DEF u
  <2> QED
    BY SMTT(30), <2>1, SomeType
<1>4. g[x] = h[x] + a
  <2>1. x \in s /\ x \notin u
    OBVIOUS
  <2> HIDE DEF u
  <2>2. g[x] = a /\ h[x] = 0
    BY SMTT(30), <1>1, <2>1, SomeType
  <2> HIDE DEF g, h, a
  <2> QED
    BY SMTT(30), <1>1, <2>2
<1> HIDE DEF u, a, g, h
<1>5. /\ f \in [0 .. n -> Int] /\ Totals(f, g, n)
      /\ e \in [0 .. n -> Int] /\ Totals(e, h, n)
  BY <1>2, TotalIs
<1> HIDE DEF f, e
<1> DEFINE At0(i) == f[i] = e[i] + (IF x <= i THEN a ELSE 0)
           S == {i \in 0 .. n : ~At0(i)}
<1>6. ASSUME S # {} PROVE FALSE
  <2>1. S \in SUBSET Nat
    BY SMTT(30)
  <2>2. PICK i \in S : \A y \in S : i <= y
    BY <1>6, <2>1, LeastNumber
  <2>3. i \in 0 .. n /\ ~At0(i)
    BY <2>2
  <2>4. i # 0
    BY SMTT(30), <1>1, <1>5, <2>3 DEF Totals
  <2>5. i \in 1 .. n /\ i - 1 \in 0 .. n /\ ~(i <= i - 1)
    BY SMTT(30), <2>3, <2>4
  <2>6. At0(i - 1)
    BY <2>2, <2>5
  <2>7. f[i] = f[i - 1] + g[i] /\ e[i] = e[i - 1] + h[i]
    BY <1>5, <2>5 DEF Totals
  <2>8. /\ f[i - 1] \in Int /\ e[i - 1] \in Int /\ g[i] \in Int /\ h[i] \in Int
        /\ f[i] \in Int /\ e[i] \in Int
    BY <1>2, <1>5, <2>5, <2>3
  <2>9. CASE i = x
    BY SMTT(30), <1>1, <1>4, <2>3, <2>5, <2>6, <2>7, <2>8, <2>9
  <2>10. CASE i # x
    <3>1. g[i] = h[i]
      BY <1>3, <2>5, <2>10
    <3>2. x <= i <=> x <= i - 1
      BY SMTT(30), <1>1, <2>5, <2>10
    <3>3. CASE x <= i
      <4>1. f[i - 1] = e[i - 1] + a /\ ~(f[i] = e[i] + a)
        BY <2>3, <2>6, <3>2, <3>3
      <4> QED
        BY SMTT(30), <1>1, <2>7, <2>8, <3>1, <4>1
    <3>4. CASE ~(x <= i)
      <4>1. f[i - 1] = e[i - 1] + 0 /\ ~(f[i] = e[i] + 0)
        BY <2>3, <2>6, <3>2, <3>4
      <4> QED
        BY SMTT(30), <1>1, <2>7, <2>8, <3>1, <4>1
    <3> QED
      BY <3>3, <3>4
  <2> QED
    BY <2>9, <2>10
<1>7. n \in 0 .. n /\ x <= n
  BY SMTT(30), <1>1
<1>8. f[n] = e[n] + a
  BY <1>6, <1>7
<1>9. f[n] = a + e[n]
  <2>1. e[n] \in Int
    BY <1>5, <1>7
  <2> QED
    BY SMTT(30), <1>1, <1>8, <2>1
<1> QED
  BY <1>9 DEF TotalOf, f, e, g, h, u, a

LEMMA TotalOfNone ==
  ASSUME NEW n \in Nat, NEW g \in [1 .. n -> Int]
  PROVE  TotalOf(g, n, {}) = 0
<1> DEFINE h == Some(g, n, {})
           f == Total(h, n)
           S == {i \in 0 .. n : f[i] # 0}
<1>1. h \in [1 .. n -> Int] /\ \A i \in 1 .. n : h[i] = 0
  BY SMTT(30), SomeType
<1> HIDE DEF h
<1>2. f \in [0 .. n -> Int] /\ Totals(f, h, n)
  BY <1>1, TotalIs
<1> HIDE DEF f
<1>3. ASSUME S # {} PROVE FALSE
  <2>1. S \in SUBSET Nat
    BY SMTT(30)
  <2>2. PICK i \in S : \A y \in S : i <= y
    BY <1>3, <2>1, LeastNumber
  <2>3. i \in 0 .. n /\ f[i] # 0
    BY <2>2
  <2>4. i # 0
    BY <1>2, <2>3 DEF Totals
  <2>5. i \in 1 .. n /\ i - 1 \in 0 .. n /\ ~(i <= i - 1)
    BY SMTT(30), <2>3, <2>4
  <2>6. f[i - 1] = 0
    BY <2>2, <2>5
  <2>7. f[i] = f[i - 1] + h[i] /\ h[i] = 0
    BY <1>1, <1>2, <2>5 DEF Totals
  <2> QED
    BY SMTT(30), <2>3, <2>6, <2>7
<1>4. n \in 0 .. n
  BY SMTT(30)
<1> QED
  BY <1>3, <1>4 DEF TotalOf, f, h

(* The fold of MapThenSumSet, over the subsets of the terms. *)
Chosen(s) == CHOOSE y \in s : TRUE
Folded(it, g, n) ==
  it = [s \in SUBSET (1 .. n) |-> IF s = {} THEN 0 ELSE g[Chosen(s)] + it[s \ {Chosen(s)}]]

LEMMA FoldedExists ==
  ASSUME NEW n \in Nat, NEW g \in [1 .. n -> Int]
  PROVE  \E it : Folded(it, g, n)
<1> DEFINE it == [s \in SUBSET (1 .. n) |-> TotalOf(g, n, s)]
<1>1. ASSUME NEW s \in SUBSET (1 .. n)
      PROVE  it[s] = IF s = {} THEN 0 ELSE g[Chosen(s)] + it[s \ {Chosen(s)}]
  <2>1. CASE s = {}
    BY <2>1, TotalOfNone
  <2>2. CASE s # {}
    <3>1. Chosen(s) \in s
      BY <2>2 DEF Chosen
    <3>2. s \ {Chosen(s)} \in SUBSET (1 .. n)
      OBVIOUS
    <3>3. TotalOf(g, n, s) = g[Chosen(s)] + TotalOf(g, n, s \ {Chosen(s)})
      <4>1. \A x \in s : TotalOf(g, n, s) = g[x] + TotalOf(g, n, s \ {x})
        BY TotalOfOneMore
      <4> QED
        BY <3>1, <4>1
    <3> QED
      BY <2>2, <3>2, <3>3
  <2> QED
    BY <2>1, <2>2
<1>2. it = [s \in SUBSET (1 .. n) |-> it[s]]
  OBVIOUS
<1> HIDE DEF it
<1>3. Folded(it, g, n)
  BY <1>1, <1>2 DEF Folded
<1> QED
  BY <1>3

LEMMA FoldedIs ==
  ASSUME NEW n \in Nat, NEW g \in [1 .. n -> Int], NEW it, Folded(it, g, n)
  PROVE  \A s \in SUBSET (1 .. n) : it[s] = TotalOf(g, n, s)
<1> DEFINE W == {s \in SUBSET (1 .. n) : it[s] # TotalOf(g, n, s)}
           S == {Cardinality(s) : s \in W}
<1>1. \A s \in SUBSET (1 .. n) : IsFiniteSet(s) /\ Cardinality(s) \in Nat
  BY PartFinite, FS_CardinalityType
<1>2. S \in SUBSET Nat
  BY <1>1
<1>3. ASSUME W # {} PROVE FALSE
  <2>1. S # {}
    BY <1>3
  <2>2. PICK c \in S : \A y \in S : c <= y
    BY <1>2, <2>1, LeastNumber
  <2>3. PICK s \in W : c = Cardinality(s)
    BY <2>2
  <2>4. s \in SUBSET (1 .. n) /\ it[s] # TotalOf(g, n, s)
    BY <2>3
  <2>5. it[s] = IF s = {} THEN 0 ELSE g[Chosen(s)] + it[s \ {Chosen(s)}]
    BY <2>4 DEF Folded
  <2>6. s # {}
    BY <2>4, <2>5, TotalOfNone
  <2>7. Chosen(s) \in s
    BY <2>6 DEF Chosen
  <2> DEFINE u == s \ {Chosen(s)}
  <2>8. u \in SUBSET (1 .. n)
    BY <2>4
  <2>9. Cardinality(u) = Cardinality(s) - 1
    BY <1>1, <2>4, <2>7, FS_RemoveElement
  <2>10. ~(c <= Cardinality(u))
    <3>1. Cardinality(s) \in Nat
      BY <1>1, <2>4
    <3> HIDE DEF u, S, W
    <3> QED
      BY SMTT(30), <2>3, <2>9, <3>1
  <2>11. u \notin W
    BY <2>2, <2>10
  <2>12. it[u] = TotalOf(g, n, u)
    BY <2>8, <2>11
  <2>13. TotalOf(g, n, s) = g[Chosen(s)] + TotalOf(g, n, u)
    <3>1. \A x \in s : TotalOf(g, n, s) = g[x] + TotalOf(g, n, s \ {x})
      BY <2>4, TotalOfOneMore
    <3> QED
      BY <2>7, <3>1
  <2> QED
    BY <2>4, <2>5, <2>6, <2>12, <2>13
<1> QED
  BY <1>3

(* Added one after the other from the intercept, the terms make the same   *)
(* as added to it all at once.                                             *)
LEMMA TotalIsExact ==
  ASSUME NEW m, NEW v, Fits(m, v), NEW n \in 0 .. Len(v), NEW g \in [1 .. n -> Int],
         \A i \in 1 .. n : g[i] = v[i] * m.weights[i]
  PROVE  Exact(m, v)[n] = m.intercept + TotalOf(g, n, 1 .. n)
<1> DEFINE f == Total(g, n)
           x == Exact(m, v)
           a == m.intercept
           p == [i \in 1 .. Len(v) |-> v[i] * m.weights[i]]
           S == {i \in 0 .. n : x[i] # a + f[i]}
<1>1. Len(v) \in Nat /\ n \in Nat /\ a \in Int
  <2>1. Len(v) \in Nat /\ a \in Int
    BY Products
  <2> QED
    BY SMTT(30), <2>1
<1>2. f \in [0 .. n -> Int] /\ Totals(f, g, n)
  BY <1>1, TotalIs
<1>3. /\ x \in [0 .. Len(v) -> Int] /\ x[0] = a
      /\ \A i \in 1 .. Len(v) : x[i] = x[i - 1] + p[i]
  BY ExactIs
<1>4. \A i \in 1 .. n : i \in 1 .. Len(v) /\ i - 1 \in 0 .. n /\ i - 1 \in 0 .. Len(v)
  BY SMTT(30), <1>1
<1>5. \A i \in 1 .. n : g[i] = p[i]
  BY <1>4
<1>6. TotalOf(g, n, 1 .. n) = f[n]
  <2>1. Some(g, n, 1 .. n) = g
    BY SMTT(30) DEF Some
  <2> QED
    BY <2>1 DEF TotalOf
<1> HIDE DEF f, x, p, a
<1>7. ASSUME S # {} PROVE FALSE
  <2>1. S \in SUBSET Nat
    BY SMTT(30), <1>1
  <2>2. PICK i \in S : \A y \in S : i <= y
    BY <1>7, <2>1, LeastNumber
  <2>3. i \in 0 .. n /\ x[i] # a + f[i]
    BY <2>2
  <2>4. i # 0
    BY SMTT(30), <1>1, <1>2, <1>3, <2>3 DEF Totals
  <2>5. i \in 1 .. n /\ ~(i <= i - 1)
    BY SMTT(30), <1>1, <2>3, <2>4
  <2>6. i - 1 \in 0 .. n /\ i \in 1 .. Len(v) /\ i - 1 \in 0 .. Len(v)
    BY <1>4, <2>5
  <2>7. x[i - 1] = a + f[i - 1]
    BY <2>2, <2>5, <2>6
  <2>8. x[i] = x[i - 1] + g[i] /\ f[i] = f[i - 1] + g[i]
    BY <1>2, <1>3, <1>5, <2>5, <2>6 DEF Totals
  <2>9. x[i - 1] \in Int /\ g[i] \in Int /\ f[i - 1] \in Int
    BY <1>2, <1>3, <2>5, <2>6
  <2> HIDE DEF S
  <2> QED
    BY SMTT(30), <1>1, <2>3, <2>7, <2>8, <2>9
<1>8. n \in 0 .. n
  BY SMTT(30), <1>1
<1> QED
  BY <1>6, <1>7, <1>8 DEF x, a

LEMMA SumIs ==
  ASSUME NEW m, NEW v, Fits(m, v), NEW n \in 0 .. Len(v), NEW d, NEW F,
         \A i \in 1 .. Len(v) : Term(m, d, F, i) = v[i] * m.weights[i]
  PROVE  Sum(m, d, F, n) = Exact(m, v)[n]
<1> DEFINE g == [i \in 1 .. n |-> Term(m, d, F, i)]
           P(it) == it = [s \in SUBSET (1 .. n) |->
                            IF s = {} THEN 0
                            ELSE LET x == CHOOSE y \in s : TRUE
                                 IN  Term(m, d, F, x) + it[s \ {x}]]
           c == CHOOSE it : P(it)
<1>1. Len(v) \in Nat /\ n \in Nat
  <2>1. Len(v) \in Nat
    BY Products
  <2> QED
    BY SMTT(30), <2>1
<1>2. \A i \in 1 .. n : i \in 1 .. Len(v)
  BY SMTT(30), <1>1
<1>3. g \in [1 .. n -> Int] /\ \A i \in 1 .. n : g[i] = v[i] * m.weights[i]
  <2>1. \A i \in 1 .. n : Term(m, d, F, i) = v[i] * m.weights[i] /\ Term(m, d, F, i) \in Int
    BY <1>2, Products
  <2> QED
    BY <2>1
<1>4. ASSUME NEW it PROVE P(it) <=> Folded(it, g, n)
  <2> DEFINE q(s) == IF s = {} THEN 0
                     ELSE LET x == CHOOSE y \in s : TRUE IN Term(m, d, F, x) + it[s \ {x}]
             r(s) == IF s = {} THEN 0 ELSE g[Chosen(s)] + it[s \ {Chosen(s)}]
  <2>1. ASSUME NEW s \in SUBSET (1 .. n) PROVE q(s) = r(s)
    <3>1. CASE s = {}
      BY <3>1
    <3>2. CASE s # {}
      <4>1. Chosen(s) \in 1 .. n
        BY <3>2 DEF Chosen
      <4>2. g[Chosen(s)] = Term(m, d, F, Chosen(s))
        BY <4>1
      <4>3. q(s) = Term(m, d, F, Chosen(s)) + it[s \ {Chosen(s)}]
        BY <3>2 DEF Chosen
      <4>4. r(s) = g[Chosen(s)] + it[s \ {Chosen(s)}]
        BY <3>2
      <4> HIDE DEF q, r, g
      <4> QED
        BY <4>2, <4>3, <4>4
    <3> QED
      BY <3>1, <3>2
  <2>2. [s \in SUBSET (1 .. n) |-> q(s)] = [s \in SUBSET (1 .. n) |-> r(s)]
    <3> HIDE DEF q, r
    <3> QED
      BY <2>1
  <2> QED
    BY <2>2 DEF Folded
<1>5. MapThenSumSet(LAMBDA i : Term(m, d, F, i), 1 .. n) = c[1 .. n]
  BY DEF MapThenSumSet, MapThenFoldSet
<1> HIDE DEF P, g
<1>6. Folded(c, g, n)
  <2>1. PICK it : Folded(it, g, n)
    BY <1>1, <1>3, FoldedExists
  <2>2. P(c)
    BY <1>4, <2>1
  <2> QED
    BY <1>4, <2>2
<1> HIDE DEF c
<1>7. c[1 .. n] = TotalOf(g, n, 1 .. n)
  <2>1. \A s \in SUBSET (1 .. n) : c[s] = TotalOf(g, n, s)
    BY <1>1, <1>3, <1>6, FoldedIs
  <2> QED
    BY <2>1
<1>8. Exact(m, v)[n] = m.intercept + TotalOf(g, n, 1 .. n)
  BY <1>3, TotalIsExact
<1> QED
  BY <1>5, <1>7, <1>8 DEF Sum

-----------------------------------------------------------------------------
(* The whole of a scoring request. *)

(* The token pass lets scalars through; the decoder makes no request of    *)
(* them.                                                                   *)
LEMMA ScalarRefused ==
  ASSUME NEW d, d[1] # "{"
  PROVE  Decode(d).txn = ""
<1>1. NoRequest.txn = "" /\ [NoRequest EXCEPT !.ok = TRUE].txn = ""
  BY DEF NoRequest
<1>2. CASE d[1] = "null"
  <2>1. Decode(d) = [NoRequest EXCEPT !.ok = TRUE]
    BY <1>2 DEF Decode
  <2> QED
    BY <1>1, <2>1
<1>3. CASE d[1] # "null"
  <2>1. d[1] \notin {"null", "{"}
    BY <1>3
  <2>2. Decode(d) = NoRequest
    BY <1>3, <2>1 DEF Decode
  <2> QED
    BY <1>1, <2>2
<1> QED
  BY <1>2, <1>3

(* The answer to features that are as promised. *)
LEMMA ScoreByName ==
  ASSUME NEW m, NEW d \in Seq(Token), NEW F, Unmarshalled(m), Validate(m),
         GoodObject(d, F), ProperFeatures(m, d, F)
  PROVE  Score(m, [name \in {d[k] : k \in KeysOf(d, F)} |-> d[Lookup(d, F, name)]]) =
           IF Overflows(m, d, F) THEN Answer(400)
           ELSE [Answer(200) EXCEPT !.logit = Sum(m, d, F, Len(m.order))]
<1> DEFINE features == [name \in {d[k] : k \in KeysOf(d, F)} |-> d[Lookup(d, F, name)]]
           v == VectorFor(m, features)
<1>1. /\ ~FeatureError(m, features)
      /\ \A i \in DOMAIN m.order : features[m.order[i]] = d[Lookup(d, F, m.order[i])]
  BY FeaturesAre
<1> HIDE DEF features
<1>2. /\ Fits(m, v) /\ Len(v) = Len(m.order)
      /\ Len(m.order) \in Nat /\ DOMAIN m.order = 1 .. Len(m.order)
  BY <1>1, VectorFits
<1>3. Score(m, features) = IF \E i \in 1 .. Len(v) : Overflow(m, v, i) THEN Answer(400)
                           ELSE [Answer(200) EXCEPT !.logit = Exact(m, v)[Len(v)]]
  BY <1>1, ScoreIsExact
<1>4. \A i \in 1 .. Len(v) : Term(m, d, F, i) = v[i] * m.weights[i]
  <2> SUFFICES ASSUME NEW i \in 1 .. Len(v) PROVE Term(m, d, F, i) = v[i] * m.weights[i]
    OBVIOUS
  <2>1. i \in DOMAIN m.order
    BY <1>2
  <2>2. v[i] = Num[features[m.order[i]]]
    BY <2>1 DEF VectorFor
  <2>3. v[i] = Num[d[Lookup(d, F, m.order[i])]]
    BY <1>1, <2>1, <2>2
  <2> HIDE DEF v
  <2> QED
    BY <2>3 DEF Term
<1> HIDE DEF v
<1>5. \A i \in 1 .. Len(v) : i \in 0 .. Len(v)
  BY SMTT(30), <1>2
<1>6. Len(v) \in 0 .. Len(v)
  BY SMTT(30), <1>2
<1>7. \A n \in 0 .. Len(v) : Sum(m, d, F, n) = Exact(m, v)[n]
  BY <1>2, <1>4, SumIs
<1>8. \A i \in 1 .. Len(v) :
        Overflow(m, v, i) <=> ~IsFinite(Term(m, d, F, i)) \/ ~IsFinite(Sum(m, d, F, i))
  <2> SUFFICES ASSUME NEW i \in 1 .. Len(v)
               PROVE  Overflow(m, v, i) <=>
                        ~IsFinite(Term(m, d, F, i)) \/ ~IsFinite(Sum(m, d, F, i))
    OBVIOUS
  <2>1. Sum(m, d, F, i) = Exact(m, v)[i] /\ Term(m, d, F, i) = v[i] * m.weights[i]
    BY <1>4, <1>5, <1>7
  <2> QED
    BY <2>1 DEF Overflow
<1>9. Overflows(m, d, F) <=> \E i \in 1 .. Len(v) : Overflow(m, v, i)
  <2>1. DOMAIN m.order = 1 .. Len(v)
    BY <1>2
  <2> QED
    BY <1>8, <2>1 DEF Overflows
<1>10. Sum(m, d, F, Len(m.order)) = Exact(m, v)[Len(v)]
  BY <1>2, <1>6, <1>7
<1> QED
  BY <1>3, <1>9, <1>10 DEF features

(* The token pass, the decoder, the checks of the handler, vectorFor and   *)
(* Model.Score together answer every body as Readme.md promises: however   *)
(* it is nested, whatever the order of its keys, and with a model of any   *)
(* number of features.                                                     *)
THEOREM HandlerKeepsPromise ==
  ASSUME NEW m, NEW r, r.body \in Seq(Token), Unmarshalled(m), Validate(m)
  PROVE  ScoreHandler(m, r) = Promised(m, r)
<1> DEFINE d == r.body
           T == Lookup(d, 1, "transaction_id")
           F == Lookup(d, 1, "features")
           req == Decode(d)
           bad == ~req.ok \/ req.txn = "" \/ req.txn \in Long \/ ~req.hasFeatures
           fine == /\ T # 0 /\ d[T] \in Str \ (Long \cup {""})
                   /\ F # 0 /\ d[F] = "{"
           features == [name \in {d[k] : k \in KeysOf(d, F)} |-> d[Lookup(d, F, name)]]
           score == [Answer(200) EXCEPT !.logit = Sum(m, d, F, Len(m.order))]
<1>1. CASE ~r.json
  BY <1>1 DEF ScoreHandler, Promised
<1>2. CASE r.json /\ r.large
  BY <1>2 DEF ScoreHandler, Promised
<1>3. CASE r.json /\ ~r.large
  <2>1. /\ ~ValidateJSONStructure(d) \/ bad => ScoreHandler(m, r) = Answer(400)
        /\ ValidateJSONStructure(d) /\ ~bad => ScoreHandler(m, r) = Score(m, req.features)
    <3>1. WriteJSON(Score(m, req.features)) = Score(m, req.features)
      BY Zenon, ScoreIsWritten
    <3> QED
      BY <1>3, <3>1 DEF ScoreHandler
  <2>2. /\ ~ProperObject(d) => Promised(m, r) = Answer(400)
        /\ ~fine => Promised(m, r) = Answer(400)
        /\ ~ProperFeatures(m, d, F) => Promised(m, r) = Answer(400)
        /\ Overflows(m, d, F) => Promised(m, r) = Answer(400)
        /\ ProperObject(d) /\ fine /\ ProperFeatures(m, d, F) /\ ~Overflows(m, d, F)
             => Promised(m, r) = score
    <3> DEFINE proper == /\ ProperObject(d)
                         /\ T # 0 /\ d[T] \in Str \ (Long \cup {""})
                         /\ F # 0 /\ d[F] = "{"
                         /\ ProperFeatures(m, d, F)
    <3>1. Promised(m, r) = IF ~proper \/ Overflows(m, d, F) THEN Answer(400) ELSE score
      BY <1>3 DEF Promised
    <3>2. proper <=> ProperObject(d) /\ fine /\ ProperFeatures(m, d, F)
      OBVIOUS
    <3> HIDE DEF proper, fine, score
    <3> QED
      BY <3>1, <3>2
  <2>3. CASE ~ProperObject(d)
    <3>1. ~ValidateJSONStructure(d) \/ d[1] # "{"
      BY <2>3, TokenPassIsExact DEF Open
    <3>2. ~ValidateJSONStructure(d) \/ bad
      BY <3>1, ScalarRefused
    <3> QED
      BY <2>1, <2>2, <2>3, <3>2
  <2>4. CASE ProperObject(d)
    <3>1. ValidateJSONStructure(d)
      BY <2>4, TokenPassIsExact
    <3>2. (~bad <=> fine /\ NoneHuge(d)) /\ (fine => req.features = features)
      BY <2>4, DecodeIs
    <3>3. CASE ~fine
      BY <2>1, <2>2, <3>2, <3>3
    <3>4. CASE fine
      <4>1. GoodObject(d, F)
        BY <2>4, <3>4, DecodedIsLookup, ProperObjects
      <4>2. CASE ~ProperFeatures(m, d, F)
        <5>1. FeatureError(m, features)
          BY <4>1, <4>2, FeaturesAre
        <5>2. Score(m, features) = Answer(400)
          BY <5>1 DEF Score
        <5> HIDE DEF features, score, bad, fine, req
        <5> QED
          BY <2>1, <2>2, <3>1, <3>2, <3>4, <4>2, <5>2
      <4>3. CASE ProperFeatures(m, d, F)
        <5>1. NoneHuge(d)
          BY <2>4, <3>4, <4>3, TwoObjects
        <5>2. Score(m, features) = IF Overflows(m, d, F) THEN Answer(400) ELSE score
          BY <4>1, <4>3, ScoreByName
        <5> HIDE DEF features, score, bad, fine, req
        <5> QED
          BY <2>1, <2>2, <2>4, <3>1, <3>2, <3>4, <4>3, <5>1, <5>2
      <4> QED
        BY <4>2, <4>3
    <3> QED
      BY <3>3, <3>4
  <2> QED
    BY <2>3, <2>4
<1> QED
  BY <1>1, <1>2, <1>3

(* In every behaviour of the server a request to /v1/score is answered as  *)
(* Readme.md promises: only a model that validate let through is served.   *)
THEOREM RequestsAnsweredAsPromised == Spec => []AnsweredAsPromised
<1>1. ServerInv => AnsweredAsPromised
  <2> SUFFICES ASSUME ServerInv, NEW c \in Conn, conns[c].answered,
                      conns[c].req.path = "/v1/score"
               PROVE  Reply(c) = Promised(model, conns[c].req)
    BY DEF AnsweredAsPromised
  <2> DEFINE r == conns[c].req
  <2>1. r.body \in Seq(Token)
    <3>1. scene \in DOMAIN Scenes /\ r \in Scenes[scene].bodies \cup {NoRequestYet}
      BY SMTT(30) DEF ServerInv, TypeOK
    <3>2. NoRequestYet.body = <<>> /\ <<>> \in Seq(Token)
      BY SMTT(30) DEF NoRequestYet
    <3> HIDE DEF r
    <3> QED
      BY <3>1, <3>2, SceneAssumption
  <2>2. Unmarshalled(model)
    BY SceneAssumption DEF ServerInv, TypeOK
  <2>3. Validate(model)
    BY DEF ServerInv, ModelInv
  <2>4. Reply(c) = ScoreHandler(model, r)
    BY DEF Reply, Handle
  <2> QED
    BY <2>1, <2>2, <2>3, <2>4, HandlerKeepsPromise
<1> QED
  BY <1>1, ServerInvariant, PTL

=============================================================================

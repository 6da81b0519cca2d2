------------------------------ MODULE ScoreAPI -------------------------------
(***************************************************************************)
(* POST /v1/score: what the handler answers to a request, with the scoring *)
(* service and the model behind it.  Nothing here has state: the server    *)
(* around it is ScoreServer.                                               *)
(*                                                                         *)
(* A body is a sequence of JSON tokens.  Commas and colons are left out:   *)
(* where one is missing or misplaced, or a character starts no token, the  *)
(* body has the token Bad.  A number is a name that Num gives its value.   *)
(* Floats are integers up to FMax in size, the infinities and NaN.         *)
(***************************************************************************)
EXTENDS Integers, Sequences, FiniteSets, FiniteSetsExt

CONSTANTS
  Str,      \* the string tokens
  Long,     \* those of more than maxTransactionID bytes
  Fold,     \* a string without upper case
  Num,      \* number token -> value
  Huge,     \* number tokens that are out of the range of a float64
  FMax      \* the largest float64

Bad == "!"
Open == {"{", "["}
Close == {"}", "]"}
TopLevel == {"transaction_id", "features"}  \* allowedTopLevelFields

Token == Str \cup DOMAIN Num \cup Huge \cup Open \cup Close \cup {Bad, "null", "true", "false"}

(* A token is of one kind. *)
ASSUME TokenAssumption ==
  /\ Str \cap (Open \cup Close \cup {Bad, "null"}) = {}
  /\ Huge \cap (Str \cup DOMAIN Num \cup Open \cup Close) = {}
  /\ DOMAIN Num \cap (Open \cup Close) = {}

ASSUME APIAssumption ==
  /\ TopLevel \subseteq Str /\ "" \in Str /\ Long \subseteq Str
  /\ Fold \in [Str -> Str] /\ \A s \in TopLevel : Fold[s] = s
  /\ FMax \in Nat /\ \A t \in DOMAIN Num : Num[t] \in -FMax .. FMax

-----------------------------------------------------------------------------
(* validateJSONStructure: a walk over the tokens.  Each step gives the     *)
(* position after what it consumed, or Refused.                            *)
Refused == 0

(* dec.More: not at a closing bracket of either kind, nor at the end. *)
More(d, i) == i <= Len(d) /\ d[i] \notin Close

(* The three functions call each other: walk is what they give for any     *)
(* arguments, and WalkJSON ties the knot.                                  *)
ConsumeJSONValue(walk, d, i, topLevel) ==
  IF ~More(d, i) THEN Refused
  ELSE CASE d[i] = Bad -> Refused
         [] d[i] = "{" -> walk["object", i + 1, topLevel, {}]
         [] d[i] = "[" -> IF topLevel THEN Refused ELSE walk["array", i + 1, FALSE, {}]
         [] OTHER -> i + 1

(* The closing token: the decoder refuses the wrong bracket and the end. *)
Closed(d, i, bracket) == IF i <= Len(d) /\ d[i] = bracket THEN i + 1 ELSE Refused

WrongKeyRefused(key, seen, topLevel) ==
  key \notin Str \/ (topLevel /\ (key \in seen \/ key \notin TopLevel))
KeyRefused(key, seen, topLevel) ==
  key \notin Str \/ key \in seen \/ (topLevel /\ key \notin TopLevel)

ConsumeJSONObject(walk, d, i, topLevel, seen) ==
  IF ~More(d, i) THEN Closed(d, i, "}")
  ELSE IF KeyRefused(d[i], seen, topLevel) THEN Refused
  ELSE LET next == walk["value", i + 1, FALSE, {}]
       IN  IF next = Refused THEN Refused
           ELSE walk["object", next, topLevel, seen \cup {d[i]}]

ConsumeJSONArray(walk, d, i) ==
  IF ~More(d, i) THEN Closed(d, i, "]")
  ELSE LET next == walk["value", i, FALSE, {}]
       IN  IF next = Refused THEN Refused ELSE walk["array", next, FALSE, {}]

(* A call: which of the three, from which token, and what it is given. *)
Calls == {"value", "object", "array"} \X Nat \X BOOLEAN \X SUBSET Str
Consume(walk, d, call) ==
  CASE call[1] = "value" -> ConsumeJSONValue(walk, d, call[2], call[3])
    [] call[1] = "object" -> ConsumeJSONObject(walk, d, call[2], call[3], call[4])
    [] call[1] = "array" -> ConsumeJSONArray(walk, d, call[2])
WalkJSON(d) ==
  LET walk[call \in Calls] == Consume(walk, d, call)
  IN  walk[<<"value", 1, TRUE, {}>>]

(* One value, and after it the end. *)
ValidateJSONStructure(d) == WalkJSON(d) = Len(d) + 1

-----------------------------------------------------------------------------
(* The JSON grammar, as encoding/json has it: which token is inside which. *)
Depth(d, i) == Cardinality({j \in 1 .. i - 1 : d[j] \in Open})
                 - Cardinality({j \in 1 .. i - 1 : d[j] \in Close})

(* A sequence, given by its elements (TLC then evaluates each once). *)
Tabulated(f) == f \o <<>>

(* The bracket that a token is inside of, 0 for none. *)
Parent(d) ==
  LET depth == Tabulated([i \in 1 .. Len(d) |-> Depth(d, i)])
  IN  Tabulated([i \in 1 .. Len(d) |->
        Max({0} \cup {j \in 1 .. i - 1 : d[j] \in Open /\ depth[j] = depth[i] - 1})])

Children(d, parent, j) ==
  {i \in 1 .. Len(d) : parent[i] = j /\ d[i] \notin Close}

(* Of the children of an object every other one is a key. *)
Keys(children) ==
  {i \in children : Cardinality({j \in children : j < i}) % 2 = 0}
ValueAt(children, key) == Min({j \in children : j > key})

Matching(open) == IF open = "{" THEN "}" ELSE "]"

(* A text of exactly one value. *)
WellFormed(d) ==
  LET parent == Parent(d)
      Inside(j) == Children(d, parent, j)
  IN  /\ \A i \in 1 .. Len(d) : d[i] # Bad
      /\ \A i \in 1 .. Len(d) + 1 : Depth(d, i) >= 0
      /\ Depth(d, Len(d) + 1) = 0
      /\ \A i \in 1 .. Len(d) : d[i] \in Close =>
           parent[i] # 0 /\ d[i] = Matching(d[parent[i]])
      /\ Cardinality(Inside(0)) = 1
      /\ \A j \in 1 .. Len(d) : d[j] = "{" =>
           /\ Cardinality(Inside(j)) % 2 = 0
           /\ \A i \in Keys(Inside(j)) : d[i] \in Str

(* Decode into a scoreRequest: names match without regard to case, the     *)
(* last of equal keys wins, null is as good as absent, unknown fields and  *)
(* values of the wrong type or range are refused.                          *)
NoRequest == [ok |-> FALSE, txn |-> "", hasFeatures |-> FALSE, features |-> <<>>]
Decode(d) ==
  LET parent == Parent(d)
      Inside(j) == Children(d, parent, j)
      Field(name) == {k \in Keys(Inside(1)) : Fold[d[k]] = name}
      Value(j, k) == ValueAt(Inside(j), k)
      Given(name) == Field(name) # {} /\ d[Value(1, Max(Field(name)))] # "null"
      txn == d[Value(1, Max(Field("transaction_id")))]
      f == Value(1, Max(Field("features")))
      Named(name) == {k \in Keys(Inside(f)) : d[k] = name}
      features == [name \in {d[k] : k \in Keys(Inside(f))} |->
                     d[Value(f, Max(Named(name)))]]
  IN  CASE d[1] = "null" -> [NoRequest EXCEPT !.ok = TRUE]
        [] d[1] \notin {"null", "{"} -> NoRequest
        [] d[1] = "{" ->
             [ok |-> /\ \A k \in Keys(Inside(1)) : Fold[d[k]] \in TopLevel
                     /\ \A i \in 1 .. Len(d) : d[i] \notin Huge
                     /\ Given("transaction_id") => txn \in Str
                     /\ Given("features") => d[f] = "{",
              txn |-> IF Given("transaction_id") THEN txn ELSE "",
              hasFeatures |-> Given("features"),
              features |-> IF Given("features") /\ d[f] = "{" THEN features ELSE <<>>]

-----------------------------------------------------------------------------
(* Floats. *)
Inf == FMax + 1
NaN == FMax + 2
IsFinite(x) == x \in -FMax .. FMax
Round(x) == IF x > FMax THEN Inf ELSE IF x < -FMax THEN -Inf ELSE x
Plus(x, y) ==
  IF NaN \in {x, y} \/ {x, y} = {Inf, -Inf} THEN NaN
  ELSE IF IsFinite(x) /\ IsFinite(y) THEN Round(x + y)
  ELSE IF IsFinite(x) THEN y ELSE x

(* The model: feature_order and weights are sequences. *)
FiniteParameters(m) ==
  (\A i \in DOMAIN m.weights : IsFinite(m.weights[i])) /\ IsFinite(m.intercept)
WrongValidate(m) == m.version # "" /\ Len(m.order) > 0 /\ FiniteParameters(m)
Validate(m) ==
  /\ m.version # "" /\ Len(m.order) > 0 /\ Len(m.weights) = Len(m.order)
  /\ FiniteParameters(m)

(* What json.Unmarshal makes of an artifact: names, and finite numbers. *)
Unmarshalled(m) ==
  /\ m.order \in Seq(Str) /\ m.weights \in Seq(-FMax .. FMax)
  /\ m.intercept \in -FMax .. FMax

(* Model.Score, up to the sigmoid: the logit accumulated in order. *)
Logit(m, vector) ==
  LET z[i \in 0 .. Len(vector)] ==
        IF i = 0 THEN m.intercept
        ELSE Plus(z[i - 1], Round(vector[i] * m.weights[i]))
  IN  z[Len(vector)]

(* vectorFor: every feature of the model is a number (a decoded one is     *)
(* finite), and there are no others; the vector is in the model's order.   *)
FeatureError(m, features) ==
  \/ \E i \in DOMAIN m.order :
       \/ m.order[i] \notin DOMAIN features
       \/ features[m.order[i]] \notin DOMAIN Num
  \/ \E name \in DOMAIN features : \A i \in DOMAIN m.order : m.order[i] # name
VectorFor(m, features) == [i \in DOMAIN m.order |-> Num[features[m.order[i]]]]

-----------------------------------------------------------------------------
(* An answer: the status, and the logit of a score. *)
Answer(status) == [status |-> status, logit |-> 0]

(* Service.Score, with the handler's reading of its errors. *)
Score(m, features) ==
  LET z == Logit(m, VectorFor(m, features))
  IN  IF FeatureError(m, features) THEN Answer(400)
      ELSE IF Len(m.order) # Len(m.weights) THEN Answer(500)
      ELSE IF ~IsFinite(z) THEN Answer(400)
      ELSE [Answer(200) EXCEPT !.logit = z]

(* writeJSON: json.Marshal refuses a score that is not a number, and the    *)
(* answer is then a 500 (the sigmoid of an infinity is 0 or 1).            *)
WriteJSON(a) == IF a.logit = NaN THEN Answer(500) ELSE a

(* scoreHandler, once the body is read.  A request is the path, whether it *)
(* is sent as JSON, whether its body is over maxRequestBody, and the body. *)
ScoreHandler(m, r) ==
  LET req == Decode(r.body)
  IN  IF ~r.json THEN Answer(415)
      ELSE IF r.large THEN Answer(413)
      ELSE IF ~ValidateJSONStructure(r.body) THEN Answer(400)
      ELSE IF ~req.ok \/ req.txn = "" \/ req.txn \in Long \/ ~req.hasFeatures
      THEN Answer(400)
      ELSE WriteJSON(Score(m, req.features))

(* The routes of New; a running server has a model, so it is ready.  The   *)
(* mux answers the other paths, and other methods on these.                *)
Handle(m, r) ==
  CASE r.path = "/v1/score" -> ScoreHandler(m, r)
    [] r.path \in {"/healthz", "/readyz"} -> Answer(200)
    [] r.path = "other method" -> Answer(405)
    [] OTHER -> Answer(404)

-----------------------------------------------------------------------------
(* What Readme.md promises of a request to /v1/score. *)

(* One JSON object, no key twice in any object, and no field but the two. *)
ProperObject(d) ==
  LET parent == Parent(d)
      KeysOf(j) == Keys(Children(d, parent, j))
  IN  /\ WellFormed(d) /\ d[1] = "{"
      /\ \A j \in 1 .. Len(d) : d[j] = "{" =>
           \A i, k \in KeysOf(j) : d[i] = d[k] => i = k
      /\ \A k \in KeysOf(1) : d[k] \in TopLevel

(* The token that is the value of a key inside the object at j. *)
Lookup(d, j, name) ==
  LET children == Children(d, Parent(d), j)
      at == {k \in Keys(children) : d[k] = name}
  IN  IF at = {} THEN 0 ELSE ValueAt(children, Min(at))

(* The features are numbers, one for each name of the model. *)
ProperFeatures(m, d, f) ==
  LET children == Children(d, Parent(d), f)
  IN  /\ {d[k] : k \in Keys(children)} = {m.order[i] : i \in DOMAIN m.order}
      /\ \A k \in Keys(children) : d[ValueAt(children, k)] \in DOMAIN Num

(* The terms of the logit, by name. *)
Term(m, d, f, i) == Num[d[Lookup(d, f, m.order[i])]] * m.weights[i]
Sum(m, d, f, n) == m.intercept + MapThenSumSet(LAMBDA i : Term(m, d, f, i), 1 .. n)
Overflows(m, d, f) ==
  \E n \in DOMAIN m.order : ~IsFinite(Term(m, d, f, n)) \/ ~IsFinite(Sum(m, d, f, n))

Promised(m, r) ==
  LET d == r.body
      txn == Lookup(d, 1, "transaction_id")
      f == Lookup(d, 1, "features")
      proper == /\ ProperObject(d)
                /\ txn # 0 /\ d[txn] \in Str \ (Long \cup {""})
                /\ f # 0 /\ d[f] = "{"
                /\ ProperFeatures(m, d, f)
  IN  IF ~r.json THEN Answer(415)
      ELSE IF r.large THEN Answer(413)
      ELSE IF ~proper \/ Overflows(m, d, f) THEN Answer(400)
      ELSE [Answer(200) EXCEPT !.logit = Sum(m, d, f, Len(m.order))]

=============================================================================

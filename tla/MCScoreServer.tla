---------------------------- MODULE MCScoreServer ----------------------------
(***************************************************************************)
(* An instance of ScoreServer for TLC: one scene for the documents, one    *)
(* for the life of the process.                                            *)
(***************************************************************************)
EXTENDS ScoreServer

CONSTANTS c1, c2

Strings == {"transaction_id", "features", "Features", "t1", "long", "", "a", "b"}
Lower == [s \in Strings |-> IF s = "Features" THEN "features" ELSE s]
Numbers == [x \in {"1", "2", "-3"} |->
              CASE x = "1" -> 1 [] x = "2" -> 2 [] x = "-3" -> -3]
Tokens == Strings \cup DOMAIN Numbers \cup Open \cup Close
            \cup {"1e999", "null", "true", Bad}

Obj(fields) == <<"{">> \o fields \o <<"}">>
Good == Obj(<<"transaction_id", "t1", "features">> \o Obj(<<"a", "1", "b", "2">>))
Swapped == Obj(<<"features">> \o Obj(<<"b", "2", "a", "1">>)
                 \o <<"transaction_id", "t1">>)
Nested == Obj(<<"transaction_id", "t1", "features">>
                \o Obj(<<"a", "1", "b", "[", "{", "a", "1", "b", "2", "}", "]">>))

(* A document with one token replaced, left out, put in or sent twice. *)
Edits(d) ==
  LET Before(i) == SubSeq(d, 1, i - 1)
      From(i) == SubSeq(d, i, Len(d))
  IN  {d}
      \cup {Before(i) \o <<t>> \o From(i + 1) : i \in 1 .. Len(d), t \in Tokens}
      \cup {Before(i) \o <<t>> \o From(i) : i \in 1 .. Len(d) + 1, t \in Tokens}
      \cup {Before(i) \o From(j) : i, j \in 1 .. Len(d) + 1}
Documents ==
  Edits(Good) \cup Edits(Swapped) \cup Edits(Nested) \cup {<<>>, <<"null">>, <<"1">>}

Post(body) == [path |-> "/v1/score", json |-> TRUE, large |-> FALSE, body |-> body]
Plain(path) == [path |-> path, json |-> FALSE, large |-> FALSE, body |-> <<>>]

Artifact(order, weights, intercept) ==
  [readable |-> TRUE, version |-> "v1", order |-> order, weights |-> weights,
   intercept |-> intercept]
Fine == Artifact(<<"b", "a">>, <<2, -1>>, 1)
Steep == Artifact(<<"b", "a">>, <<3, 2>>, 0)
Broken ==
  {[Fine EXCEPT !.readable = FALSE], [Fine EXCEPT !.version = ""],
   Artifact(<<>>, <<>>, 0), Artifact(<<"b", "a">>, <<2>>, 1)}

Addr(hostPort, number, port) ==
  [hostPort |-> hostPort, number |-> number, port |-> port]
Local == Addr(TRUE, TRUE, 8080)
BadAddrs == {Addr(FALSE, FALSE, 0), Addr(TRUE, FALSE, 0), Addr(TRUE, TRUE, -1),
             Addr(TRUE, TRUE, 65536)}

Scene ==
  [documents |-> [addrs |-> {Local}, models |-> {Fine, Steep}, requests |-> 1,
                  conns |-> {c1}, bodies |-> {Post(d) : d \in Documents}, ends |-> FALSE],
   life |-> [addrs |-> {Local, Addr(TRUE, TRUE, 0)} \cup BadAddrs,
             models |-> {Fine} \cup Broken, requests |-> 3,
             conns |-> Conn, bodies |-> {Post(Good), Plain("/readyz")}, ends |-> TRUE],
   kinds |-> [addrs |-> {Local}, models |-> {Fine}, requests |-> 2,
              conns |-> {c1}, ends |-> FALSE,
              bodies |-> {Plain(path) : path \in {"/healthz", "/other", "other method",
                                                   "/v1/score"}}
                           \cup {[Post(Good) EXCEPT !.large = TRUE]}]]

=============================================================================

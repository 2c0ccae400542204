--------------------------------- MODULE MCReports ---------------------------------
(* The instance of Reports for TLC. *)
EXTENDS Reports, TLC

CONSTANTS w1, w2, v1, v2, d1, m1, m2, p1, p2, u1, u2, a1, a2, h1, h2, q1, q2, k1, la, lb, lc

(* Sources give one of two objects, propagators take one and give one, sinks
   take one, and may be typed by host.                                        *)
Blank == [source |-> FALSE, sink |-> FALSE, takes |-> {}, gives |-> {}, host |-> "untyped", ranges |-> "tainted"]
Objects == {h1, h2}
MCCalls ==
  {[Blank EXCEPT !.source = TRUE, !.gives = {h}] : h \in Objects} \cup
  {[Blank EXCEPT !.takes = {h}, !.gives = {g}, !.ranges = r] : h \in Objects, g \in Objects, r \in {"tainted", "empty"}} \cup
  {[Blank EXCEPT !.sink = TRUE, !.takes = {h}] : h \in Objects} \cup
  {[Blank EXCEPT !.sink = TRUE, !.host = k] : k \in Objects \cup {"none"}}

\* One push of a finding that fits one or both vulnerabilities, with one or both marks.
MCPushes == {[dast |-> d1, fits |-> {v1}, marks |-> {m1}],
             [dast |-> d1, fits |-> {v1, v2}, marks |-> {m1, m2}]}
MCSettings == [on : BOOLEAN, strategies : {{v1}}]

\* A user who sees one project and one who sees both.
MCSees == [u \in {u1, u2} |-> IF u = u1 THEN {p1} ELSE {p1, p2}]
MCProjectOf == [v \in {1, 2} |-> IF v = 1 THEN p1 ELSE p2]
MCAgentsOf == [u \in {u1} |-> {a1}]

(* Requests with up to two holes for the value in the path, two parameters, a
   body, a header and a cookie; one of the names is encoded.               *)
Text(x) == [word |-> x, times |-> 0]
Holes(n) == [word |-> Hole, times |-> n]
Item(n, vs) == [name |-> [word |-> n, times |-> IF n = la THEN 1 ELSE 0], value |-> vs]
Parameters == {<<>>, <<Item(la, <<Holes(1)>>)>>, <<Item(lb, <<Text(lc)>>), Item(la, <<Text(lc), Holes(1)>>)>>,
          <<Item(la, <<Holes(2)>>), Item(lb, <<Holes(1)>>)>>, <<Item(la, <<Holes(1)>>), Item(la, <<Text(lc)>>)>>}
MCTemplates ==
  [path: {<<Text(lc)>>, <<Text(lc), Holes(1)>>, <<Holes(1), Text(lc)>>, <<Holes(1), Holes(1)>>}, query: Parameters,
   body: [kind: {"form", "object", "list"}, items: Parameters] \cup [kind: {"value"}, items: {<<Item(la, <<Holes(0)>>)>>}],
   header: {<<>>, <<Item(lb, <<Holes(0)>>)>>}, cookie: {<<>>, <<Item(lb, <<Text(lc)>>), Item(la, <<Holes(0)>>)>>},
   locations: {{"GET", "POST", "HEADER", "PATH", "COOKIE"}, {"GET"}, {"PATH", "POST"}}]

\* One payload for the one vulnerability.
MCPayloads == [v \in {v1} |-> 1]
================================================================================

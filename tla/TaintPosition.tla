----------------------------- MODULE TaintPosition -----------------------------
(***************************************************************************)
(* Where in a request a tainted value came from, and the pattern of the     *)
(* address: the two parts of the key under which save_vul looks a           *)
(* vulnerability up.  A request is a template whose holes carry the value.  *)
(***************************************************************************)
EXTENDS Naturals, Sequences, FiniteSets

CONSTANTS
  Templates, \* requests with holes
  Value,     \* values sent in the holes; none of them is a word of a template
  Special,   \* those that a client encodes in a query, a form or a path
  Hole, Whole, NoName

VARIABLES
  template,  \* what the application under test is sent, again and again
  found      \* what parse_taint_position and get_original_url made of it

vars == <<template, found>>

(* A word, and how many times it is still encoded.                            *)
Text(w) == [word |-> w, times |-> 0]
Unquote(x) == [x EXCEPT !.times = IF @ = 0 THEN 0 ELSE @ - 1]

Nowhere   == [name |-> NoName, index |-> 0]
Named(x)  == [name |-> x, index |-> 0]
Indexed(i) == [name |-> NoName, index |-> i]

FirstOf(S) == CHOOSE i \in S : \A j \in S : i <= j

--------------------------------------------------------------------------------
(* The parsers.  An item is a name and the words its value is made of, which
   were joined by "=".                                                        *)

UnquoteItems(I) ==
  [i \in DOMAIN I |-> [name |-> Unquote(I[i].name), value |-> [j \in DOMAIN I[i].value |-> Unquote(I[i].value[j])]]]

(* A QueryDict lists each name where it came first, with its last value.      *)
Firsts(I) == {i \in DOMAIN I : \A j \in 1..(i - 1) : I[j].name # I[i].name}
LastValue(I, name) == I[CHOOSE i \in DOMAIN I : I[i].name = name /\ \A j \in DOMAIN I : j > i => I[j].name # name].value

(* The first item with the value or the name x.  Of the items with a "=" in
   their value ParamDict also matches what precedes and follows each "=".     *)
MatchItem(I, x)  == {i \in Firsts(I) : x = I[i].name \/ LastValue(I, I[i].name) = <<x>>}
MatchExtended(I, x) ==
  {i \in Firsts(I) : LET v == LastValue(I, I[i].name) IN Len(v) > 1 /\ x \in {I[i].name, v[Len(v)]}}

\* Mutant: the parameters are matched as they were sent.
ParseParams_Raw(I, x) ==
  LET M == MatchItem(I, x) IN IF M = {} THEN Nowhere ELSE Named(I[FirstOf(M)].name)

(* parse_params: the query is decoded when it is parsed, and parsed again after
   it was decoded; a later match replaces an earlier one.                     *)
ParseParams(I, x) ==
  LET once  == UnquoteItems(I)
      twice == UnquoteItems(once)
      Ms    == <<MatchExtended(twice, x), MatchItem(twice, x), MatchExtended(once, x), MatchItem(once, x)>>
      matched == {k \in DOMAIN Ms : Ms[k] # {}}
      last  == FirstOf(matched)
  IN IF matched = {} THEN Nowhere
     ELSE Named((IF last <= 2 THEN twice ELSE once)[FirstOf(Ms[last])].name)

(* parse_body: a JSON object, a list, a single value, or else a form.         *)
MatchBody(b, x) ==
  {i \in DOMAIN b.items : b.items[i].value = <<x>> \/ (b.kind = "object" /\ b.items[i].name = x)}

ParseBody(b, x) ==
  LET M == MatchBody(b, x)
  IN IF b.kind = "form" THEN ParseParams(b.items, x)
     ELSE IF M = {} THEN Nowhere
     ELSE CASE b.kind = "object" -> Named(b.items[FirstOf(M)].name)
            [] b.kind = "list"   -> Indexed(FirstOf(M))
            [] b.kind = "value"  -> Named(Whole)

(* parse_header and parse_cookie: a header by its value or name, a cookie by
   its value.                                                                 *)
ParseHeader(I, x) ==
  LET M == {i \in DOMAIN I : x = I[i].name \/ I[i].value = <<x>>}
  IN IF M = {} THEN Nowhere ELSE Named(I[FirstOf(M)].name)

ParseCookie(I, x) ==
  LET M == {i \in DOMAIN I : I[i].value = <<x>>}
  IN IF M = {} THEN Nowhere ELSE Named(I[FirstOf(M)].name)

(* parse_path: the address is not decoded.                                    *)
ParsePath(path, x) ==
  LET M == {i \in DOMAIN path : path[i] = x} IN IF M = {} THEN Nowhere ELSE Indexed(FirstOf(M))

(* get_location_parser and get_http_locationstr.                              *)
Locate(location, r, x) ==
  CASE location = "GET"    -> ParseParams(r.query, x)
    [] location = "POST"   -> ParseBody(r.body, x)
    [] location = "HEADER" -> ParseHeader(r.header, x)
    [] location = "PATH"   -> ParsePath(r.path, x)
    [] location = "COOKIE" -> ParseCookie(r.cookie, x)

ParseTaintPosition(r, X) ==
  {p \in {<<l, Locate(l, r, x)>> : l \in r.locations, x \in X} : p[2] # Nowhere}

GetOriginalUrl(path, names) ==
  [i \in DOMAIN path |-> IF <<"PATH", Indexed(i)>> \in names THEN Text(Hole) ELSE path[i]]

--------------------------------------------------------------------------------

(* The request that carries v: it is encoded where the client encodes it, which
   does not do so in JSON.                                                    *)
FillText(x, v) == IF x.word # Hole THEN x ELSE [word |-> v, times |-> IF v \in Special THEN x.times ELSE 0]
FillItems(I, v) == [i \in DOMAIN I |-> [name |-> I[i].name, value |-> [j \in DOMAIN I[i].value |-> FillText(I[i].value[j], v)]]]
Plain(I) ==
  [i \in DOMAIN I |-> [name |-> Text(I[i].name.word), value |-> [j \in DOMAIN I[i].value |-> Text(I[i].value[j].word)]]]
Fill(t, v) ==
  [t EXCEPT !.path = [i \in DOMAIN @ |-> FillText(@[i], v)], !.query = FillItems(@, v),
            !.body.items = FillItems(IF t.body.kind = "form" THEN @ ELSE Plain(@), v), !.header = FillItems(@, v), !.cookie = FillItems(@, v)]

Init == template \in Templates /\ found = {}

(* save_vul for a request that carried v, of which the application saw v.     *)
SaveVul(v) ==
  LET r == Fill(template, v)
      names == ParseTaintPosition(r, {Text(v)})
  IN /\ found' = found \cup {[value |-> v, names |-> names, uri |-> GetOriginalUrl(r.path, names)]}
     /\ UNCHANGED template

Next == \E v \in Value : SaveVul(v)
Spec == Init /\ [][Next]_vars

--------------------------------------------------------------------------------
Holds(I) == \E i \in DOMAIN I : LastValue(I, I[i].name)[Len(LastValue(I, I[i].name))].word = Hole

(* A weakness is stored under one key, whatever value uncovered it: neither the
   names nor the pattern of the address tell plain values apart, if they stand at
   most once in the path and the path is searched, and an encoded value leads
   to the same parameter as a plain one.                                      *)
OneKey ==
  \A a, b \in found :
    /\ Cardinality({i \in DOMAIN template.path : template.path[i].word = Hole}) <= IF "PATH" \in template.locations THEN 1 ELSE 0
    /\ a.value \notin Special
    => /\ b.value \notin Special => a.names = b.names /\ a.uri = b.uri
       /\ \A l \in {"GET", "POST"}, p \in {q[2] : q \in a.names} : <<l, p>> \in a.names <=> <<l, p>> \in b.names

(* A parameter that carried the value is found, though it was encoded, though
   others stand before it, and though its value has a "=" in it.              *)
ParameterFound ==
  "GET" \in template.locations /\ Holds(template.query) => \A a \in found : \E p \in a.names : p[1] = "GET"

\* What is promised of the keys together.
KeysStable == OneKey /\ ParameterFound
================================================================================

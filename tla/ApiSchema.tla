------------------------------- MODULE ApiSchema -------------------------------
(***************************************************************************)
(* The parameters of an API that an agent reports: schemas refer to each    *)
(* other; replace_ref puts the schemas in place of the references, and      *)
(* _para_schema_to_list lists the result as rows that name their parent.    *)
(* A schema is given as                                                     *)
(*   [kind |-> "plain"], [kind |-> "ref", to |-> name],                     *)
(*   [kind |-> "array", "set" or "map", items |-> schema],                  *)
(*   [kind |-> "object", fields |-> sequence of names and schemas].         *)
(* Replacing leaves a "stub" where a reference is not followed again, and a *)
(* "leaf" where it is to something that is no object.                       *)
(***************************************************************************)
EXTENDS Naturals, Sequences, SequencesExt

CONSTANTS Components, \* what components may be: schemas by name
          Parameters  \* what the parameters may be: names and schemas

VARIABLES components, parameters,
          listed \* rows of iast_api_route_v2.parameters

vars == <<components, parameters, listed>>

Init == components \in Components /\ parameters \in Parameters /\ listed = << >>

Collection == {"array", "set", "map"}

--------------------------------------------------------------------------------
(* _replace_ref_item: the schema, and ref_set, which is one set for all calls
   below a schema.  A reference adds the name it follows, an object and a
   collection the name they are called by.  A set or a map that was replaced
   before is no array and has no additionalProperties: it loses its items.    *)
RECURSIVE Replace(_, _, _, _)

ReplaceFields(fields, schemas, seen) ==
  FoldLeft(LAMBDA done, f : LET r == Replace(f[1], f[2], schemas, done[2])
                            IN  <<Append(done[1], <<f[1], r[1]>>), r[2]>>,
           <<<< >>, seen>>, fields)

Replace(name, schema, schemas, seen) ==
  CASE schema.kind = "ref" /\ schema.to \in seen -> <<[kind |-> "stub"], seen>>
    [] schema.kind = "ref" /\ schema.to \notin seen ->
         LET r == Replace(schema.to, schemas[schema.to], schemas, seen \cup {schema.to})
         IN  IF r[1].kind = "object" THEN r ELSE <<[kind |-> "leaf"], r[2]>>
    [] schema.kind = "object" ->
         LET r == ReplaceFields(schema.fields, schemas, seen \cup {name})
         IN  <<[schema EXCEPT !.fields = r[1]], r[2]>>
    [] schema.kind \in Collection ->
         LET r == Replace(name, schema.items, schemas, seen \cup {name})
         IN  <<[kind |-> IF schema.kind = "array" THEN "array" ELSE "replaced", items |-> r[1]], r[2]>>
    [] schema.kind = "replaced" -> <<[kind |-> "lost"], seen>>
    [] OTHER -> <<schema, seen>>

\* Mutant: one ref_set for all components.
Replaced_OneSet(schemas) == [n \in DOMAIN schemas |-> Replace(n, schemas[n], schemas, DOMAIN schemas)[1]]

Replaced(schemas) == [n \in DOMAIN schemas |-> Replace(n, schemas[n], schemas, {})[1]]

(* A parameter is replaced with the components that were replaced before.     *)
Expanded(name, schema) == Replace(name, schema, Replaced(components), {})[1]

--------------------------------------------------------------------------------
(* _para_schema_to_list: the rows of a schema, the first of which gets id.    *)

Row(name, schema, parent, id, leaf) ==
  [name |-> name, parent |-> parent, id |-> id, leaf |-> leaf, format |-> schema.kind \in {"leaf", "lost", "array", "replaced"}]

(* A collection hides its items if they are one row without a format.         *)
Hidden(rows) == Len(rows) = 1 /\ ~rows[1].format

RECURSIVE Rows(_, _, _, _)

FieldRows(name, schema, parent, id) ==
  FoldLeft(LAMBDA rows, f : rows \o Rows(f[1], f[2], IF name = "" THEN parent ELSE id, id + Len(rows)),
           IF name = "" THEN << >> ELSE <<Row(name, schema, parent, id, FALSE)>>, schema.fields)

Rows(name, schema, parent, id) ==
  IF schema.kind \in {"array", "replaced"}
  THEN LET rows == Rows("", schema.items, id, id + 1)
       IN  IF Hidden(rows) THEN <<Row(name, schema, parent, id, TRUE)>>
                           ELSE <<Row(name, schema, parent, id, FALSE)>> \o rows
  ELSE IF schema.kind = "object" THEN FieldRows(name, schema, parent, id)
                                 ELSE <<Row(name, schema, parent, id, TRUE)>>

(* _build_path_parameter: the request body is a parameter without a name.     *)
BuildPathParameter ==
  /\ listed = << >>
  /\ listed' = FoldLeft(LAMBDA rows, p : rows \o Rows(p[1], Expanded(p[1], p[2]), 0, Len(rows) + 1),
                        << >>, parameters)
  /\ UNCHANGED <<components, parameters>>

Next == BuildPathParameter

Spec == Init /\ [][Next]_vars

--------------------------------------------------------------------------------
(* Ids are the places in the list, and a row's parent comes before it and is
   no leaf; so the rows are a forest, however schemas refer to each other.     *)
RowsAreForest ==
  \A i \in DOMAIN listed : /\ listed[i].id = i
                           /\ listed[i].parent < i
                           /\ listed[i].parent # 0 => ~listed[listed[i].parent].leaf

RECURSIVE Refs(_)
Refs(schema) ==
  CASE schema.kind = "ref"       -> {schema.to}
    [] schema.kind \in Collection -> Refs(schema.items)
    [] schema.kind = "object"    -> UNION {Refs(schema.fields[i][2]) : i \in DOMAIN schema.fields}
    [] OTHER                     -> {}

Reachable == {n \in DOMAIN components : \A S \in SUBSET DOMAIN components :
  /\ UNION {Refs(parameters[k][2]) : k \in DOMAIN parameters} \subseteq S
  /\ \A x \in S : Refs(components[x]) \subseteq S
  => n \in S}

RECURSIVE Arrays(_)
\* The schema has no sets and no maps, and its objects more than one field.
Arrays(schema) ==
  /\ schema.kind \in {"plain", "ref", "array", "object"}
  /\ schema.kind = "array" => Arrays(schema.items)
  /\ schema.kind = "object" => Len(schema.fields) > 1 /\ \A i \in DOMAIN schema.fields : Arrays(schema.fields[i][2])

(* Every field of a schema that the parameters refer to, at whatever distance,
   is listed, though each schema is followed once only: if the components are
   objects of at least two fields, without sets and maps.                     *)
FieldsListed ==
  listed # << >> /\ (\A n \in DOMAIN components : components[n].kind = "object" /\ Arrays(components[n])) =>
    \A n \in Reachable : \A f \in ToSet(components[n].fields) :
      \E i \in DOMAIN listed : listed[i].name = f[1]

\* What is promised of the rows together.
ParametersListed == RowsAreForest /\ FieldsListed
================================================================================

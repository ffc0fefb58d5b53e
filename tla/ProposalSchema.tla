---------------------------- MODULE ProposalSchema ----------------------------
(***************************************************************************)
(* Proposal schemas: references, the normalizer, the proof of the dialect, *)
(* and what a schema admits.                                               *)
(*                                                                         *)
(* A schema node is a function from its keywords to their values; `type`   *)
(* is the sequence of the types named ("a single string" is a sequence of  *)
(* one), `enum` the sequence of its values, `required` a set (in what the  *)
(* normalizer leaves it is the sorted list of the properties, so nothing is *)
(* lost), `ref` a reference, `defs` stands for `$defs`, `other` for any    *)
(* keyword outside the dialect, and a Boolean schema is a node without     *)
(* keywords; a description has its `prose`, and its notes (see             *)
(* SchemaLowering) under their keywords.  A JSON value is a record whose one *)
(* field is its type: `integer` a number written as an integer, `number` a *)
(* whole number written with a fraction, as 1.0; others are left out.      *)
(***************************************************************************)
EXTENDS Naturals, Sequences, FiniteSets
LOCAL INSTANCE SequencesExt
LOCAL INSTANCE Functions
LOCAL INSTANCE TLC

CONSTANT Nothing  \* a value that is not there: Option::None

Has(map, key)       == key \in DOMAIN map
Without(map, keys)  == Restrict(map, DOMAIN map \ keys)
With(map, key, val) == (key :> val) @@ Without(map, {key})

-----------------------------------------------------------------------------
(* References.  A definition's name is a sequence of characters. *)

Replaced(name, char, escape) ==
    FlattenSeq([i \in DOMAIN name |-> IF name[i] = char THEN escape ELSE <<name[i]>>])

Encode(name) == Replaced(Replaced(name, "~", <<"~", "0">>), "/", <<"~", "1">>)

Escaped(token, i) == i > 1 /\ token[i - 1] = "~"

Decode(token) ==
    IF \A i \in DOMAIN token :
          /\ token[i] # "/"
          /\ token[i] = "~" => i < Len(token) /\ token[i + 1] \in {"0", "1"}
    THEN FlattenSeq([i \in DOMAIN token |->
            CASE token[i] = "~"                      -> <<>>
              [] Escaped(token, i) /\ token[i] = "0" -> <<"~">>
              [] Escaped(token, i) /\ token[i] = "1" -> <<"/">>
              [] OTHER                               -> <<token[i]>>])
    ELSE Nothing

DefinitionReference(name) == [local |-> TRUE, token |-> Encode(name)]

ReferencedDefinition(reference) ==
    IF reference.local THEN Decode(reference.token) ELSE Nothing

-----------------------------------------------------------------------------
(* The normalizer *)

\* (The variant drops a bound with the metadata.)
DropKeywordsAndBounds == {"title", "default", "format", "minimum"}

DropKeywords == {"title", "default", "format"}

ConstToEnum(node) ==
    IF Has(node, "const") THEN With(Without(node, {"const"}), "enum", <<node.const>>) ELSE node

\* The non-null branch takes every keyword but the description with it.
RewriteNullable(node) ==
    IF Has(node, "type") /\ Len(node.type) = 2 /\ "null" \in ToSet(node.type)
    THEN LET nonNull == CHOOSE type \in ToSet(node.type) : type # "null"
             branch  == With(Without(node, {"description"}), "type", <<nonNull>>)
         IN  With(Restrict(node, DOMAIN node \cap {"description"}),
                  "anyOf", <<branch, [type |-> <<"null">>]>>)
    ELSE node

RewriteDescribedRef(node) ==
    IF Has(node, "ref") /\ DOMAIN node # {"ref"}
    THEN With(Without(node, {"ref"}), "anyOf", <<[ref |-> node.ref]>>)
    ELSE node

StrengthenRequired(node) ==
    IF Has(node, "properties") THEN With(node, "required", DOMAIN node.properties) ELSE node

Converted(node) ==
    StrengthenRequired(RewriteDescribedRef(RewriteNullable(
        ConstToEnum(Without(node, DropKeywords)))))

\* Only what bears schemas is entered.
RECURSIVE NormalizeNode(_)
NormalizeNode(node) ==
    LET map == Converted(node)
        Normalized(keyword) ==
            CASE keyword = "items" -> NormalizeNode(map.items)
              [] keyword = "defs" /\ map.defs = Nothing -> Nothing
              [] keyword \in {"properties", "anyOf", "defs"} ->
                    [key \in DOMAIN map[keyword] |-> NormalizeNode(map[keyword][key])]
              [] OTHER -> map[keyword]
    IN  [keyword \in DOMAIN map |-> Normalized(keyword)]

-----------------------------------------------------------------------------
(* The dialect *)

Keywords(node, allowed) == DOMAIN node \subseteq {"type", "description"} \cup allowed
Numeric == {"integer", "number"}
Scalars == {"string", "boolean", "null"} \cup Numeric

TypeOf(value) == CHOOSE type \in DOMAIN value : TRUE
IsOf(value, type) == TypeOf(value) = type \/ (type = "number" /\ TypeOf(value) = "integer")

ValidReference(node, names) ==
    DOMAIN node = {"ref"} /\ ReferencedDefinition(node.ref) \in names

ValidScalar(node, type) ==
    /\ Keywords(node, {"enum"} \cup IF type \in Numeric THEN {"minimum", "maximum"} ELSE {})
    /\ Has(node, "enum") => /\ node.enum # <<>>
                            /\ \A i \in DOMAIN node.enum : IsOf(node.enum[i], type)

ClosedObject(node, allowed) ==
    /\ Keywords(node, {"properties", "required", "additionalProperties"} \cup allowed)
    /\ Has(node, "additionalProperties") /\ node.additionalProperties = FALSE
    /\ Has(node, "properties") /\ Has(node, "required")
    /\ node.required = DOMAIN node.properties

RECURSIVE ValidNode(_, _)
ValidNode(node, names) ==
    CASE Has(node, "ref") -> ValidReference(node, names)
      [] ~Has(node, "ref") /\ Has(node, "anyOf") ->
            /\ DOMAIN node \subseteq {"anyOf", "description"}
            /\ node.anyOf # <<>>
            /\ \A i \in DOMAIN node.anyOf : ValidNode(node.anyOf[i], names)
      [] ~Has(node, "ref") /\ ~Has(node, "anyOf") ->
            /\ Has(node, "type") /\ Len(node.type) = 1
            /\ CASE node.type[1] = "object" ->
                      /\ ClosedObject(node, {})
                      /\ \A name \in DOMAIN node.properties : ValidNode(node.properties[name], names)
                 [] node.type[1] = "array" ->
                      /\ Keywords(node, {"items", "minItems", "maxItems"})
                      /\ Has(node, "items") /\ ValidNode(node.items, names)
                 [] OTHER -> node.type[1] \in Scalars /\ ValidScalar(node, node.type[1])

\* collect_refs: the definitions a node names, at any depth.
RECURSIVE References(_)
References(node) ==
    LET Below(keyword) ==
            CASE keyword = "ref"   -> {ReferencedDefinition(node.ref)} \ {Nothing}
              [] keyword = "items" -> References(node.items)
              [] keyword \in {"properties", "anyOf"} ->
                    UNION {References(node[keyword][key]) : key \in DOMAIN node[keyword]}
              [] OTHER -> {}
    IN  UNION {Below(keyword) : keyword \in DOMAIN node}

\* A depth-first visit: which definitions are on the path (1), which are done
\* (2), and whether the path was met again.
RECURSIVE HasCycle(_, _, _)
HasCycle(names, edges, visit) ==
    IF names = <<>> \/ visit.cyclic THEN visit
    ELSE LET name  == Head(names)
             mark  == visit.state[name]
             below == HasCycle(SetToSeq(edges[name]), edges, [visit EXCEPT !.state[name] = 1])
             next  == CASE mark = 1 -> [visit EXCEPT !.cyclic = TRUE]
                        [] mark = 2 -> visit
                        [] mark = 0 /\ below.cyclic -> below
                        [] mark = 0 /\ ~below.cyclic -> [below EXCEPT !.state[name] = 2]
         IN  HasCycle(Tail(names), edges, next)

\* (The variant finds only a definition that names itself.)
AcyclicAtOnce(defs) == \A name \in DOMAIN defs : name \notin References(defs[name])

Acyclic(defs) ==
    LET edges == [name \in DOMAIN defs |-> References(defs[name])]
        fresh == [cyclic |-> FALSE, state |-> [name \in DOMAIN defs |-> 0]]
    IN  ~HasCycle(SetToSeq(DOMAIN defs), edges, fresh).cyclic

\* validate_dialect, of a root whose $defs are an object.
ValidateDialect(root) ==
    LET defs == IF Has(root, "defs") THEN root.defs ELSE <<>>
    IN  /\ Has(root, "defs") => defs # <<>>
        /\ ~Has(root, "ref") /\ ~Has(root, "anyOf")
        /\ Has(root, "type") /\ root.type = <<"object">>
        /\ ClosedObject(root, {"defs"})
        /\ \A name \in DOMAIN root.properties : ValidNode(root.properties[name], DOMAIN defs)
        /\ \A name \in DOMAIN defs : ValidNode(defs[name], DOMAIN defs)
        /\ Acyclic(defs)

-----------------------------------------------------------------------------
(* What a schema admits, by the meaning JSON Schema gives its keywords, for *)
(* a reader that leaves some of them aside.  A number is an integer if it   *)
(* has no fractional part, however it is written.                           *)

Equal(v, w) ==
    \/ v = w
    \/ {TypeOf(v), TypeOf(w)} \subseteq Numeric /\ v[TypeOf(v)] = w[TypeOf(w)]

InstanceOf(value, type) == TypeOf(value) = type \/ {TypeOf(value), type} \subseteq Numeric

RECURSIVE Admits(_, _, _, _)
Admits(node, defs, value, ignored) ==
    LET type == TypeOf(value)
        Meets(keyword) ==
            CASE keyword = "type" -> \E i \in DOMAIN node.type : InstanceOf(value, node.type[i])
              [] keyword = "enum" -> \E i \in DOMAIN node.enum : Equal(value, node.enum[i])
              [] keyword = "const" -> Equal(value, node.const)
              [] keyword = "ref" ->
                    Admits(defs[ReferencedDefinition(node.ref)], defs, value, ignored)
              [] keyword = "anyOf" ->
                    \E i \in DOMAIN node.anyOf : Admits(node.anyOf[i], defs, value, ignored)
              [] keyword = "minimum" /\ type \in Numeric -> value[type] >= node.minimum
              [] keyword = "maximum" /\ type \in Numeric -> value[type] <= node.maximum
              [] keyword = "items" /\ type = "array" ->
                    \A i \in DOMAIN value.array : Admits(node.items, defs, value.array[i], ignored)
              [] keyword = "minItems" /\ type = "array" -> Len(value.array) >= node.minItems
              [] keyword = "maxItems" /\ type = "array" -> Len(value.array) <= node.maxItems
              [] keyword = "properties" /\ type = "object" ->
                    \A name \in DOMAIN node.properties \cap DOMAIN value.object :
                        Admits(node.properties[name], defs, value.object[name], ignored)
              [] keyword = "required" /\ type = "object" ->
                    node.required \subseteq DOMAIN value.object
              [] keyword = "additionalProperties" /\ type = "object" ->
                    node.additionalProperties \/ DOMAIN value.object \subseteq DOMAIN node.properties
              [] OTHER -> TRUE
    IN  \A keyword \in DOMAIN node \ ignored : Meets(keyword)
=============================================================================

----------------------------- MODULE PlanRegistry -----------------------------
(***************************************************************************)
(* The Operation registry: an application registers Operation types under  *)
(* discriminators and finishes the registry; from then on the one Plan     *)
(* schema it composed is what models are shown, and its decoder is what    *)
(* their proposals pass through.                                           *)
(***************************************************************************)
EXTENDS ProposalSchema
LOCAL INSTANCE Integers
LOCAL INSTANCE SequencesExt
LOCAL INSTANCE Functions
LOCAL INSTANCE TLC

CONSTANTS
    OperationTypes,  \* [def_name, raw, rust, refinements]: a type's schema name and
                     \* emitted schema, its fields in Rust, and the keywords its author
                     \* added to the schema, which the fields do not say
    Profile,         \* those of them inside the documented authoring profile
    MachineIntegers, \* the integers of the integer type their fields have
    Calls,           \* the discriminators an application may give, "" among them
    Maxima,          \* the values max_operations may have, Nothing among them
    Envelopes,       \* the JSON objects a model may propose
    Payloads,        \* the operands, JSON objects, the schemas are compared on
    MaxBranches      \* bounds the registrations of a run

ASSUME MachineIntegersAssumption == MachineIntegers \subseteq Int

VARIABLES
    pc,        \* "building", "failed" or "built"
    branches,  \* the branches registered so far, in order
    registry,  \* [max, schema] once built, or Nothing
    decoded    \* the last proposal decoded and what came of it, or Nothing

vars == <<pc, branches, registry, decoded>>

-----------------------------------------------------------------------------
(* Registration *)

ByCall(call) ==
    IF \E i \in DOMAIN branches : branches[i].call = call
    THEN CHOOSE i \in DOMAIN branches : branches[i].call = call
    ELSE Nothing

CallNode(call) == [type |-> <<"string">>, enum |-> <<[string |-> call]>>]

Properties(schema) == IF Has(schema, "properties") THEN schema.properties ELSE <<>>

\* inject_call: Nothing where the schema is no object or has the field.
InjectCall(schema, call) ==
    IF \/ ~Has(schema, "type") \/ schema.type # <<"object">>
       \/ Has(Properties(schema), "call")
    THEN Nothing
    ELSE StrengthenRequired(With(schema, "properties",
                                 With(Properties(schema), "call", CallNode(call))))

NestedDefs(schema) == IF Has(schema, "defs") THEN schema.defs ELSE <<>>

\* register, or Nothing.
Branch(type, call) ==
    LET schema == NormalizeNode(type.raw)
        nested == NestedDefs(schema)
        body   == InjectCall(Without(schema, {"defs"}), call)
    IN  IF call = "" \/ ByCall(call) # Nothing \/ nested = Nothing \/ body = Nothing
        THEN Nothing
        ELSE [type |-> type, call |-> call, def_name |-> type.def_name,
              def_body |-> body, nested_defs |-> nested]

\* A failed registration takes the builder with it.
Register ==
    /\ pc = "building"
    /\ Len(branches) < MaxBranches
    /\ \E type \in OperationTypes, call \in Calls :
          LET branch == Branch(type, call)
          IN  IF branch = Nothing
              THEN pc' = "failed" /\ UNCHANGED branches
              ELSE branches' = Append(branches, branch) /\ UNCHANGED pc
    /\ UNCHANGED <<registry, decoded>>

-----------------------------------------------------------------------------
(* Composition *)

OwnDefs(branch) == With(branch.nested_defs, branch.def_name, branch.def_body)

\* merge_def, branch by branch: equal definitions are shared, and Nothing is
\* composed of unequal ones of the same name.
Merged(bs) ==
    LET Merge(defs, branch) ==
            LET own == OwnDefs(branch)
            IN  IF \/ defs = Nothing
                   \/ Has(branch.nested_defs, branch.def_name) /\
                         branch.nested_defs[branch.def_name] # branch.def_body
                   \/ \E name \in DOMAIN defs \cap DOMAIN own : defs[name] # own[name]
                THEN Nothing
                ELSE defs @@ own
    IN  FoldLeft(Merge, <<>>, bs)

Items(bs) ==
    LET Reference(i) == [ref |-> DefinitionReference(bs[i].def_name)]
    IN  IF Len(bs) = 1 THEN Reference(1) ELSE [anyOf |-> [i \in DOMAIN bs |-> Reference(i)]]

Envelope(bs, max) ==
    LET bounded == IF max = Nothing THEN <<>> ELSE [maxItems |-> max]
        operations == [type |-> <<"array">>, items |-> Items(bs), minItems |-> 1] @@ bounded
    IN  [type |-> <<"object">>, properties |-> [operations |-> operations],
         additionalProperties |-> FALSE, required |-> {"operations"}, defs |-> Merged(bs)]

Builds(bs, max) ==
    /\ bs # <<>>
    /\ max # Nothing => max >= 1
    /\ Merged(bs) # Nothing
    /\ ValidateDialect(Envelope(bs, max))

Build ==
    /\ pc = "building"
    /\ \E max \in Maxima :
          IF Builds(branches, max)
          THEN pc' = "built" /\ registry' = [max |-> max, schema |-> Envelope(branches, max)]
          ELSE pc' = "failed" /\ UNCHANGED registry
    /\ UNCHANGED <<branches, decoded>>

-----------------------------------------------------------------------------
(* Decoding *)

Failed(kind, index) == [ok |-> FALSE, kind |-> kind, index |-> index]

\* The fields by name; an array gives them by their position.
Given(rust, value) ==
    IF TypeOf(value) = "object" THEN value.object
    ELSE [name \in ToSet(rust.names) |->
             value.array[CHOOSE i \in DOMAIN rust.names : rust.names[i] = name]]

\* Serde's typed decode of a JSON value, as the JSON of what it made, or Nothing.
\* It knows the Rust type and nothing of the schema.
RECURSIVE Deserialized(_, _)
Deserialized(rust, value) ==
    LET type   == TypeOf(value)
        Whole(kind, parts) ==
            IF \E key \in DOMAIN parts : parts[key] = Nothing THEN Nothing ELSE kind :> parts
        Field(name) ==
            CASE Has(Given(rust, value), name) ->
                    Deserialized(rust.of[name], Given(rust, value)[name])
              [] ~Has(Given(rust, value), name) /\ rust.of[name].kind = "option" ->
                    [null |-> "null"]
              [] OTHER -> Nothing
    IN  CASE rust.kind = "integer" /\ type = "integer" /\ value.integer \in MachineIntegers -> value
          [] rust.kind = "string" /\ type = "string" -> value
          [] rust.kind = "unit enum" /\ type = "string" /\ value.string \in rust.variants -> value
          [] rust.kind = "unit enum" /\ type = "object"
                /\ \E variant \in rust.variants : value.object = variant :> [null |-> "null"] ->
                    [string |-> CHOOSE variant \in rust.variants : Has(value.object, variant)]
          [] rust.kind = "option" ->
                IF type = "null" THEN value ELSE Deserialized(rust.some, value)
          [] rust.kind = "vec" /\ type = "array" ->
                Whole("array",
                      [i \in DOMAIN value.array |-> Deserialized(rust.item, value.array[i])])
          [] rust.kind = "struct"
                /\ \/ type = "object" /\ DOMAIN value.object \subseteq ToSet(rust.names)
                   \/ type = "array" /\ Len(value.array) = Len(rust.names) ->
                Whole("object", [name \in ToSet(rust.names) |-> Field(name)])
          [] OTHER -> Nothing

Payload(item) == [object |-> Without(item.object, {"call"})]

\* Nothing, or the kind of the failure.
DecodeFailure(item) ==
    IF TypeOf(item) # "object" THEN "malformed_operation"
    ELSE IF ~Has(item.object, "call") THEN "missing_call"
    ELSE IF TypeOf(item.object.call) # "string" THEN "call_not_string"
    ELSE LET branch == ByCall(item.object.call.string)
         IN  IF branch = Nothing THEN "unknown_call"
             ELSE IF Deserialized(branches[branch].type.rust, Payload(item)) = Nothing
                  THEN "invalid_payload"
             ELSE Nothing

\* Each step gets an identity of its own; its position stands for it.
DecodeEach(array) ==
    IF \A i \in DOMAIN array : DecodeFailure(array[i]) = Nothing
    THEN [ok |-> TRUE,
          steps |-> [i \in DOMAIN array |->
                        LET branch == branches[ByCall(array[i].object.call.string)]
                        IN  [op_id |-> i, call |-> branch.call, type |-> branch.type,
                             operation |-> Deserialized(branch.type.rust, Payload(array[i]))]]]
    ELSE LET first == CHOOSE i \in DOMAIN array :
                         /\ DecodeFailure(array[i]) # Nothing
                         /\ \A j \in 1..(i - 1) : DecodeFailure(array[j]) = Nothing
         IN  Failed(DecodeFailure(array[first]), first)

\* (The variant admits one operation too many.)
TooManyOffByOne(array) == registry.max # Nothing /\ Len(array) > registry.max + 1

TooMany(array) == registry.max # Nothing /\ Len(array) > registry.max

DecodeEnvelope(envelope) ==
    IF DOMAIN envelope.object \ {"operations"} # {} THEN Failed("unknown_envelope_field", 0)
    ELSE IF ~Has(envelope.object, "operations") THEN Failed("missing_operations", 0)
    ELSE LET operations == envelope.object.operations
         IN  IF TypeOf(operations) # "array" THEN Failed("operations_not_array", 0)
             ELSE IF operations.array = <<>> THEN Failed("empty_operations", 0)
             ELSE IF TooMany(operations.array) THEN Failed("too_many_operations", 0)
             ELSE DecodeEach(operations.array)

DecodeProposal ==
    /\ pc = "built"
    /\ \E envelope \in Envelopes :
          decoded' = [envelope |-> envelope, outcome |-> DecodeEnvelope(envelope)]
    /\ UNCHANGED <<pc, branches, registry>>

-----------------------------------------------------------------------------
Init ==
    /\ pc = "building"
    /\ branches = <<>>
    /\ registry = Nothing
    /\ decoded = Nothing

Next == Register \/ Build \/ DecodeProposal

Spec == Init /\ [][Next]_vars

-----------------------------------------------------------------------------
(* Properties *)

\* A type of the profile can always be registered alone and no other type can;
\* whether several can depends on no order and no chance, but only on whether
\* any two of them, with all they bring along, mean different things by one
\* name.  In what is built every reference resolves, escaped or not, and none
\* leads back to where it came from: no set of definitions only leads on into
\* itself.
RegistrySound ==
    LET Pairs(i)   == {<<branches[i].def_name, branches[i].def_body>>} \cup
                      {<<name, branches[i].nested_defs[name]>> :
                          name \in DOMAIN branches[i].nested_defs}
        pairs      == UNION {Pairs(i) : i \in DOMAIN branches}
        Functional == \A p, q \in pairs : p[1] = q[1] => p[2] = q[2]
        Sound(defs) ==
            /\ \A i \in DOMAIN branches : branches[i].def_name \in DOMAIN defs
            /\ \A name \in DOMAIN defs : References(defs[name]) \subseteq DOMAIN defs
            /\ \A lost \in SUBSET DOMAIN defs \ {{}} :
                  \E name \in lost : References(defs[name]) \cap lost = {}
    IN  \A max \in Maxima :
           /\ Builds(branches, max) <=>
                 /\ branches # <<>> /\ Functional /\ max # 0
                 /\ \A i \in DOMAIN branches : branches[i].type \in Profile
           /\ Builds(branches, max) => Sound(Merged(branches))

Operand(call, payload) == [object |-> With(payload.object, "call", [string |-> call])]

ShownToModels(item) ==
    Admits(registry.schema.properties.operations.items, registry.schema.defs, item, {})

AsAuthored(type, payload) == Admits(type.raw, NestedDefs(type.raw), payload, {})

\* What models are shown is what the application wrote: an operand goes through
\* under a discriminator exactly if the type registered under it, as emitted,
\* admits the operand, with every declared field in it.  (It is looked at where the
\* registry is new: decoding changes none of it.)
SchemaFaithful ==
    pc = "built" /\ decoded = Nothing =>
        \A call \in Calls, payload \in Payloads :
            LET branch == ByCall(call)
            IN  ShownToModels(Operand(call, payload)) <=>
                   /\ branch # Nothing
                   /\ AsAuthored(branches[branch].type, payload)
                   /\ DOMAIN payload.object = DOMAIN Properties(branches[branch].type.raw)

\* The normalizer never weakens what an application wrote ("The implementation
\* never weakens, repairs, or silently accepts the input").
AuthoredConstraintsKept ==
    pc = "built" =>
        \A i \in DOMAIN branches, payload \in Payloads :
            ShownToModels(Operand(branches[i].call, payload)) =>
                AsAuthored(branches[i].type, payload)

\* The numbers of a value, at every depth.
RECURSIVE Numbers(_)
Numbers(value) ==
    LET Parts(parts) == UNION {Numbers(parts[key]) : key \in DOMAIN parts}
    IN  CASE TypeOf(value) = "object" -> Parts(value.object)
          [] TypeOf(value) = "array"  -> Parts(value.array)
          [] TypeOf(value) \in Numeric -> {value}
          [] OTHER -> {}

\* The schema and the decoder, derived from one type by two libraries, drift no
\* further than their numbers.  A proposal that follows the schema decodes into
\* just what it says, unless an operation has a number that is no machine
\* integer, too large or written with a fraction, which the schema leaves open:
\* then the first such operation is the one refused.  And whatever form a
\* proposal has that decodes, there are as many steps as items, within the
\* limits; each step is of the type under its discriminator and has every field
\* of it, as the schema wants them but for the refinements that serde ignores,
\* and would decode into itself.
DecodeFollowsSchema ==
    decoded # Nothing =>
        LET envelope == decoded.envelope
            outcome  == decoded.outcome
            array    == envelope.object.operations.array
            machine  == {[integer |-> n] : n \in MachineIntegers}
            Unreadable == {i \in DOMAIN array : ~(Numbers(array[i]) \subseteq machine)}
        IN  /\ Admits(registry.schema, registry.schema.defs, envelope, {}) =>
                  IF Unreadable = {}
                  THEN /\ outcome.ok
                       /\ array = [i \in DOMAIN outcome.steps |->
                                      Operand(outcome.steps[i].call, outcome.steps[i].operation)]
                  ELSE /\ ~outcome.ok /\ outcome.kind = "invalid_payload"
                       /\ outcome.index \in Unreadable
                       /\ \A i \in Unreadable : outcome.index <= i
            /\ outcome.ok =>
                  /\ Len(outcome.steps) = Len(array) /\ array # <<>>
                  /\ registry.max # Nothing => Len(outcome.steps) <= registry.max
                  /\ \A i \in DOMAIN array :
                        LET step == outcome.steps[i]
                            type == step.type
                        IN  /\ \E b \in DOMAIN branches :
                                  branches[b].call = step.call /\ branches[b].type = type
                            /\ array[i].object.call = [string |-> step.call]
                            /\ Admits(type.raw, NestedDefs(type.raw), step.operation,
                                      type.refinements)
                            /\ DOMAIN step.operation.object = DOMAIN Properties(type.raw)
                            /\ Deserialized(type.rust, step.operation) = step.operation
=============================================================================

---------------------------- MODULE MCPlanRegistry ----------------------------
(***************************************************************************)
(* Operation types with one operand field `f`, for every form of field the *)
(* emitter produces, in the profile and out of it, and the model output    *)
(* that tells their schemas apart.                                         *)
(***************************************************************************)
EXTENDS SchemaLowering
LOCAL INSTANCE TLC

Int(n)   == [integer |-> n]
Text(t)  == [string |-> t]
Null     == [null |-> "null"]
Obj(f)   == [object |-> f]
Arr(s)   == [array |-> s]

\* Names, and what the emitter makes of one whose reference has to be escaped.
A == <<"A">>
B == <<"B">>
Color == <<"C", "~", "1", "/">>
Stone == <<"S">>
Quoted == <<"Q", "/">>
EscapedColor == <<"C", "~", "0", "1", "~", "1">>
Local(name) == [local |-> TRUE, token |-> IF name = Color THEN EscapedColor ELSE name]
Foreign == [local |-> FALSE, token |-> <<>>]

Closed(properties, required) ==
    [type |-> <<"object">>, properties |-> properties, required |-> required,
     additionalProperties |-> FALSE]

\* A field as the emitter shows it, as serde reads it, and as its author refined it.
Field(schema, rust, refinements) ==
    [schema |-> schema, rust |-> rust, refinements |-> refinements]

Integer        == [kind |-> "integer"]
UnitEnum       == [kind |-> "unit enum", variants |-> {"black", "white"}]
OptionOf(some) == [kind |-> "option", some |-> some]
VecOf(item)    == [kind |-> "vec", item |-> item]
StructOf(names, of) == [kind |-> "struct", names |-> names, of |-> of]

Type(def_name, field, required, defs) ==
    [def_name |-> def_name,
     raw |-> Closed([f |-> field.schema], required) @@ [title |-> "T"] @@
             IF defs = <<>> THEN <<>> ELSE [defs |-> defs],
     rust |-> StructOf(<<"f">>, [f |-> field.rust]),
     refinements |-> field.refinements]
Required(def_name, field, defs) == Type(def_name, field, {"f"}, defs)
Optional(def_name, field, defs) == Type(def_name, field, {}, defs)

\* A type that no registry is built with, by its schema alone.
Emitted(def_name, raw) ==
    [def_name |-> def_name, raw |-> raw, rust |-> Nothing, refinements |-> {}]
EmittedField(def_name, field, defs) ==
    Emitted(def_name, Required(def_name, Field(field, Nothing, {}), defs).raw)

UnsignedSchema == [type |-> <<"integer">>, format |-> "uint32", minimum |-> 0]
OneOf    == [type |-> <<"string">>, enum |-> <<Text("black"), Text("white")>>]
\* Its variants in another order.
OtherOne == [type |-> <<"string">>, enum |-> <<Text("white"), Text("black")>>]
\* Two structs by one name, one with a field that has the name of a keyword.
StoneX   == Closed([x |-> UnsignedSchema], {"x"})
StoneM   == Closed([minimum |-> UnsignedSchema], {"minimum"})
RustX    == StructOf(<<"x">>, [x |-> Integer])
RustM    == StructOf(<<"minimum">>, [minimum |-> Integer])
Ref(name)       == [ref |-> Local(name)]
Described(name) == [ref |-> Local(name), description |-> [prose |-> "d"]]

Unsigned == Field(UnsignedSchema, Integer, {})
MaybeSchema == [type |-> <<"integer", "null">>, format |-> "uint32", minimum |-> 1, maximum |-> 1,
                default |-> "null", description |-> [prose |-> "d"]]
Maybe    == Field(MaybeSchema, OptionOf(Integer), {"minimum", "maximum"})
Black    == Field([type |-> <<"string">>, const |-> Text("black")], [kind |-> "string"], {"const"})
OneColor == Field(Ref(Color), UnitEnum, {})
MaybeStone == Field([anyOf |-> <<Ref(Stone), [type |-> <<"null">>]>>], OptionOf(RustX), {})
AStone   == Field([type |-> <<"array">>, items |-> Ref(Stone), maxItems |-> 1], VecOf(RustX),
                  {"maxItems"})

InProfile ==
    {Required(A, Unsigned, <<>>), Optional(A, Maybe, <<>>), Required(B, Black, <<>>),
     Required(A, OneColor, Color :> OneOf), Required(A, OneColor, Color :> OtherOne),
     Required(B, [OneColor EXCEPT !.schema = Described(Color)], Color :> OneOf),
     Optional(B, MaybeStone, Stone :> StoneX), Required(A, AStone, Stone :> StoneX),
     Required(B, Field(Ref(Stone), RustM, {}), Stone :> StoneM),
     [Emitted(Stone, StoneX) EXCEPT !.rust = RustX],
     [Emitted(Quoted, Closed(<<>>, {})) EXCEPT !.rust = StructOf(<<>>, <<>>)]}

OutOfProfile ==
    {EmittedField(A, [type |-> <<"object">>, additionalProperties |-> TRUE], <<>>),
     EmittedField(A, <<>>, <<>>), EmittedField(A, [ref |-> Foreign], <<>>),
     EmittedField(B, [type |-> <<"string">>, other |-> "pattern"], <<>>),
     EmittedField(A, Ref(Stone), Stone :> Closed([x |-> Ref(Color)], {"x"}) @@
                                 Color :> Closed([y |-> Ref(Stone)], {"y"})),
     EmittedField(B, Ref(B), <<>>), EmittedField(B, Ref(B), B :> OneOf),
     Emitted(A, [type |-> <<"string">>]),
     Emitted(A, Closed([call |-> UnsignedSchema], {"call"})),
     Emitted(B, [Closed([f |-> UnsignedSchema], {"f"}) EXCEPT !.additionalProperties = TRUE]),
     Emitted(B, Closed([f |-> UnsignedSchema], {"f"}) @@ [defs |-> Nothing])}

MCTypes == InProfile \cup OutOfProfile

\* An optional field that its author restricted to one value.
OnlyOne == Field([MaybeSchema EXCEPT !.minimum = 0] @@ [enum |-> <<Int(1)>>], OptionOf(Integer),
                 {"minimum", "maximum", "enum"})
MCRestrictedTypes == InProfile \cup {Optional(A, OnlyOne, <<>>)}

\* Two bits for the thirty-two of a u32.
MCMachineIntegers == 0..3

MCCalls  == {"", "a", "b"}
MCMaxima == {Nothing, 0, 1, 2}

\* Also numbers that are no machine integers, and what serde reads otherwise than
\* the schema: an enum's variant from a map, a struct's fields from an array.
Fields ==
    {Null, Int(0), Int(1), Int(2), Int(4), [number |-> 1], Text("black"), Text("other"),
     Obj([black |-> Null]), Obj([x |-> Int(0)]), Obj([x |-> Int(4)]), Obj([minimum |-> Int(0)]),
     Obj([x |-> Int(0), minimum |-> Int(0)]), Arr(<<>>), Arr(<<Int(0)>>),
     Arr(<<Obj([x |-> Int(0)]), Arr(<<Int(1)>>)>>), Arr(<<Obj([x |-> Int(0)]), Null>>)}

MCPayloads ==
    {Obj(<<>>), Obj([x |-> Int(0)])} \cup {Obj([f |-> field]) : field \in Fields} \cup
    {Obj([f |-> Int(0), g |-> Int(0)])}

Under(call, payload) == Obj(payload.object @@ [call |-> Text(call)])

Some == {Obj(<<>>), Obj([f |-> Int(0)]), Obj([f |-> Text("black")])}

Proposals ==
    {<<Under("a", payload)>> : payload \in MCPayloads} \cup
    {<<Under("a", p), Under(call, q)>> : call \in {"a", "b"}, p \in Some, q \in Some} \cup
    {<<Under("a", p), Under("a", p), Under("b", p)>> : p \in Some} \cup
    {<<>>, <<Null>>, <<Obj([f |-> Int(0)])>>, <<Obj([call |-> Int(0)])>>,
     <<Under("c", Obj([f |-> Int(0)]))>>}

MCEnvelopes ==
    {Obj([operations |-> Arr(proposal)]) : proposal \in Proposals} \cup
    {Obj(<<>>), Obj([operations |-> Null]),
     Obj([operations |-> Arr(<<Under("a", Obj([f |-> Int(0)]))>>), run_id |-> Int(0)])}
=============================================================================

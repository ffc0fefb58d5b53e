---------------------------- MODULE SchemaLowering ----------------------------
(***************************************************************************)
(* What Anthropic is sent of a schema: the keywords its facility does not  *)
(* accept are moved into the description of their node, at every depth, of *)
(* a copy.                                                                 *)
(***************************************************************************)
EXTENDS PlanRegistry
LOCAL INSTANCE SequencesExt
LOCAL INSTANCE Functions
LOCAL INSTANCE TLC

MovedKeywords == {"minimum", "maximum", "maxItems"}

\* append_description: an empty description counts for none.
AppendDescription(map, notes) ==
    LET prose == IF Has(map, "description") /\ map.description # [prose |-> ""]
                 THEN map.description ELSE <<>>
    IN  With(map, "description", prose @@ notes)

Moved(node) ==
    LET notes == Restrict(node, DOMAIN node \cap MovedKeywords)
        rest  == Without(node, MovedKeywords)
    IN  IF notes = <<>> THEN rest ELSE AppendDescription(rest, notes)

\* (The variant stays out of the definitions.)
RECURSIVE LowerNodeInline(_)
LowerNodeInline(node) ==
    LET map == Moved(node)
        Lowered(keyword) ==
            CASE keyword = "items" -> LowerNodeInline(map.items)
              [] keyword \in {"properties", "anyOf"} ->
                    [key \in DOMAIN map[keyword] |-> LowerNodeInline(map[keyword][key])]
              [] OTHER -> map[keyword]
    IN  [keyword \in DOMAIN map |-> Lowered(keyword)]

RECURSIVE LowerNode(_)
LowerNode(node) ==
    LET map == Moved(node)
        Lowered(keyword) ==
            CASE keyword = "items" -> LowerNode(map.items)
              [] keyword \in {"properties", "anyOf", "defs"} ->
                    [key \in DOMAIN map[keyword] |-> LowerNode(map[keyword][key])]
              [] OTHER -> map[keyword]
    IN  [keyword \in DOMAIN map |-> Lowered(keyword)]

LowerForAnthropic(schema) == LowerNode(schema)

-----------------------------------------------------------------------------
(* Properties *)

\* A reader that puts the notes of every description back in their place.
RECURSIVE Raised(_)
Raised(node) ==
    LET said  == IF Has(node, "description") THEN node.description ELSE <<>>
        prose == Restrict(said, DOMAIN said \ MovedKeywords)
        notes == Restrict(said, DOMAIN said \cap MovedKeywords)
        bare  == Without(node, {"description"}) @@ notes
        map   == IF prose = <<>> THEN bare ELSE With(bare, "description", prose)
        Above(keyword) ==
            CASE keyword = "items" -> Raised(map.items)
              [] keyword \in {"properties", "anyOf", "defs"} ->
                    [key \in DOMAIN map[keyword] |-> Raised(map[keyword][key])]
              [] OTHER -> map[keyword]
    IN  [keyword \in DOMAIN map |-> Above(keyword)]

\* Of the schema of any registry, Anthropic's facility is sent one of the
\* dialect that demands everything but the bounds it does not accept, wherever
\* those were; and the model is still told every one of them, at its node:
\* a reader of the notes has the whole schema back.
LoweringFaithful ==
    pc = "built" /\ decoded = Nothing =>
        LET schema  == registry.schema
            lowered == LowerForAnthropic(schema)
            Demands(root, value, ignored) == Admits(root, root.defs, value, ignored)
        IN  /\ ValidateDialect(lowered)
            /\ Raised(lowered) = schema
            /\ \A call \in Calls, payload \in Payloads, n \in 0..3 :
                  LET array    == [i \in 1..n |-> Operand(call, payload)]
                      proposal == [object |-> [operations |-> [array |-> array]]]
                  IN  Demands(lowered, proposal, {}) <=> Demands(schema, proposal, MovedKeywords)
=============================================================================

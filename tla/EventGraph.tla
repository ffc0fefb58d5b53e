------------------------------ MODULE EventGraph ------------------------------
(***************************************************************************)
(* The values a host records beside its Runs: a graph of arrays and        *)
(* objects behind shared handles, each under a mutex of its own.  Threads  *)
(* that hold a handle go on writing to the graph, and drop and allocate    *)
(* containers, while record_app or record_user walks it: the walk clones   *)
(* the members of one container at a time and refuses a container whose    *)
(* address it is already inside of.                                        *)
(*                                                                         *)
(* A container is its address; born counts how often the address has been  *)
(* given out, so that the properties can tell a container from the next    *)
(* one at its place.  Members are functions from positions, whether array  *)
(* indices or the ranks of object keys, to values.                         *)
(***************************************************************************)
EXTENDS Naturals, FiniteSets, Sequences, SequencesExt

CONSTANTS
    Arrays, Objects,  \* addresses of RunRecordEventArray and -Object nodes
    Keys,             \* the ranks of the object keys in use
    Plain,            \* a value of a class that always converts
    Infinite,         \* a number that is not finite
    Absent,           \* no payload, or no container
    MaxWrites         \* how often the threads write or allocate

Containers == Arrays \cup Objects

ASSUME GraphAssumption ==
    /\ Arrays \cap Objects = {}
    /\ IsFiniteSet(Containers)
    /\ Keys \subseteq Nat \ {0} /\ IsFiniteSet(Keys)
    /\ Cardinality({Plain, Infinite, Absent}) = 3
    /\ {Plain, Infinite, Absent} \cap Containers = {}
    /\ MaxWrites \in Nat

VARIABLES
    members,  \* what each container holds: position |-> value
    born,     \* how many containers have been at each address
    handles,  \* the containers the host's threads have a handle of
    writes,   \* the writes so far
    stage,    \* "built", "walking" or "ended"
    root,     \* the event's payload
    path,     \* the containers the walk is inside of, with their clones
    payload,  \* the JSON value so far: path of positions |-> node
    outcome,  \* how the event ended
    held      \* history: what each container held since the walk began

graphVars == <<members, born, handles, writes>>
walkVars  == <<stage, root, path, payload, outcome>>
vars      == <<graphVars, walkVars, held>>

Value == {Plain, Infinite} \cup Containers

\* One container, as opposed to the next one at its address.
Instance(c) == <<c, born[c]>>

-----------------------------------------------------------------------------
(* Who keeps a container alive *)

MembersOf(f) == {f[p] : p \in DOMAIN f}

\* The walk owns the payload and the clones it took; dropping a handle or
\* replacing a member frees nothing of those.
WalkOwns == {root} \cup UNION {MembersOf(path[i].clone) : i \in DOMAIN path}

Holders(c) == {d \in Containers : c \in MembersOf(members[d])}

\* Reference counts: a container is freed when everything that has it is
\* freed, the least such set.  A cycle that nobody holds any more is never
\* freed.
Freed ==
    LET closed(D) == \A c \in Containers \ (handles \cup WalkOwns) :
                        Holders(c) \subseteq D => c \in D
    IN  {c \in Containers : \A D \in SUBSET Containers : closed(D) => c \in D}

-----------------------------------------------------------------------------
(* The host's threads *)

Remember(c) ==
    held' = IF stage = "walking" THEN held \cup {<<c, born'[c], members'[c]>>} ELSE held

\* RunRecordEventArray::push
Push(a, v) ==
    /\ a \in Arrays \cap handles
    /\ members' = [members EXCEPT ![a] = Append(@, v)]
    /\ UNCHANGED <<born, handles>>
    /\ Remember(a)

\* RunRecordEventObject::insert: a key is added or its value replaced.
Insert(o, k, v) ==
    /\ o \in Objects \cap handles
    /\ members' = [members EXCEPT ![o] =
                     [p \in DOMAIN @ \cup {k} |-> IF p = k THEN v ELSE @[p]]]
    /\ UNCHANGED <<born, handles>>
    /\ Remember(o)

\* A new container gets an address that is free.
Allocate(c) ==
    /\ c \in Freed
    /\ members' = [members EXCEPT ![c] = <<>>]
    /\ born' = [born EXCEPT ![c] = @ + 1]
    /\ handles' = handles \cup {c}
    /\ Remember(c)

Write ==
    /\ writes < MaxWrites /\ stage # "ended"
    /\ writes' = writes + 1
    /\ \/ \E c \in handles, v \in {Plain, Infinite} \cup handles :
            Push(c, v) \/ \E k \in Keys : Insert(c, k, v)
       \/ \E c \in Containers : Allocate(c)
    /\ UNCHANGED walkVars

Drop(c) ==
    /\ c \in handles /\ stage # "ended"
    /\ handles' = handles \ {c}
    /\ UNCHANGED <<members, born, writes, walkVars, held>>

-----------------------------------------------------------------------------
(* The event *)

Ends(how) == stage' = "ended" /\ outcome' = how

Verdict(why, c) == [why |-> why, at |-> c]

\* The name needs a character that is no space, an identifier one character.
Admits(name, runId, sceneId) == name # "blank" /\ runId # "empty" /\ sceneId # "empty"

\* Entering a container locks it and clones its members, all of them left to
\* convert; place leads to it from the payload.
Frame(c, place) == [at |-> c, born |-> born[c], clone |-> members[c],
                    left |-> DOMAIN members[c], place |-> place]
Node(c)         == [of |-> Instance(c), members |-> members[c]]

\* RunRecordEvent::new, RunRecordCorrelation::new, then into_json.
Record(name, runId, sceneId, value) ==
    /\ stage = "built"
    /\ IF ~Admits(name, runId, sceneId)
       THEN Ends(Verdict("validation", Absent)) /\ UNCHANGED <<root, path, payload, held>>
       ELSE IF value = Absent
       THEN /\ Ends(Verdict("recorded", Absent))
            /\ payload' = [place \in {<<>>} |-> [of |-> Absent, members |-> <<>>]]
            /\ UNCHANGED <<root, path, held>>
       ELSE /\ stage' = "walking" /\ root' = value
            /\ held' = {<<c, born[c], members[c]>> : c \in Containers}
            /\ path' = <<Frame(value, <<>>)>>
            /\ payload' = [place \in {<<>>} |-> Node(value)]
            /\ UNCHANGED outcome
    /\ UNCHANGED graphVars

-----------------------------------------------------------------------------
(* project_with *)

Walking == stage = "walking"
Top     == path[Len(path)]

\* The next member of the container the walk is in is the one at p.
Reaches(p) == Walking /\ p \in Top.left /\ \A q \in Top.left : p <= q

Below(p)    == Append(Top.place, p)
GoesPast(p) == [path EXCEPT ![Len(path)].left = @ \ {p}]

\* The children of a container are collected at its place.
PayloadWith(place, c) ==
    [q \in DOMAIN payload \cup {place} |-> IF q = place THEN Node(c) ELSE payload[q]]

\* HashSet::insert says whether the address was new to the active set.
Active == {path[i].at : i \in DOMAIN path}

\* (The variants: one keeps every address it has met; one leaves a container
\* it is inside of out of the result; one comes back to the same member.)
EntersOnce(p) ==
    /\ Reaches(p) /\ Top.clone[p] \in Containers
    /\ LET c == Top.clone[p] IN
       IF \E place \in DOMAIN payload : payload[place].of[1] = c
       THEN Ends(Verdict("cyclic", c)) /\ UNCHANGED <<path, payload>>
       ELSE /\ path' = Append(GoesPast(p), Frame(c, Below(p)))
            /\ payload' = PayloadWith(Below(p), c)
            /\ UNCHANGED <<stage, outcome>>
    /\ UNCHANGED <<graphVars, root, held>>

EntersOrSkips(p) ==
    /\ Reaches(p) /\ Top.clone[p] \in Containers
    /\ LET c == Top.clone[p] IN
       IF c \in Active
       THEN path' = GoesPast(p) /\ UNCHANGED payload
       ELSE /\ path' = Append(GoesPast(p), Frame(c, Below(p)))
            /\ payload' = PayloadWith(Below(p), c)
    /\ UNCHANGED <<graphVars, stage, root, outcome, held>>

EntersAgain(p) ==
    /\ Reaches(p) /\ Top.clone[p] \in Containers
    /\ LET c == Top.clone[p] IN
       IF c \in Active
       THEN Ends(Verdict("cyclic", c)) /\ UNCHANGED <<path, payload>>
       ELSE /\ path' = Append(path, Frame(c, Below(p)))
            /\ payload' = PayloadWith(Below(p), c)
            /\ UNCHANGED <<stage, outcome>>
    /\ UNCHANGED <<graphVars, root, held>>

Enters(p) ==
    /\ Reaches(p) /\ Top.clone[p] \in Containers
    /\ LET c == Top.clone[p] IN
       IF c \in Active
       THEN Ends(Verdict("cyclic", c)) /\ UNCHANGED <<path, payload>>
       ELSE /\ path' = Append(GoesPast(p), Frame(c, Below(p)))
            /\ payload' = PayloadWith(Below(p), c)
            /\ UNCHANGED <<stage, outcome>>
    /\ UNCHANGED <<graphVars, root, held>>

Converts(p) ==
    /\ Reaches(p) /\ Top.clone[p] \notin Containers
    /\ IF Top.clone[p] = Infinite
       THEN Ends(Verdict("non-finite", Top.at)) /\ UNCHANGED path
       ELSE path' = GoesPast(p) /\ UNCHANGED <<stage, outcome>>
    /\ UNCHANGED <<graphVars, root, payload, held>>

\* The last member is converted: the address leaves the active set, and the
\* container that holds this one goes on with its next member.
Leaves ==
    /\ Walking /\ Top.left = {}
    /\ IF Len(path) = 1
       THEN Ends(Verdict("recorded", Absent)) /\ UNCHANGED path
       ELSE path' = Front(path) /\ UNCHANGED <<stage, outcome>>
    /\ UNCHANGED <<graphVars, root, payload, held>>

-----------------------------------------------------------------------------

Init ==
    /\ members = [c \in Containers |-> <<>>]
    /\ born = [c \in Containers |-> 0]
    /\ handles = Containers
    /\ writes = 0
    /\ stage = "built" /\ root = Absent
    /\ path = <<>> /\ payload = <<>>
    /\ outcome = Verdict("none", Absent)
    /\ held = {}

Begin ==
    \E name \in {"blank", "named"} :
    \E runId, sceneId \in {"none", "empty", "given"} :
    \E value \in handles \cup {Absent} : Record(name, runId, sceneId, value)

Member == Walking /\ \E p \in Top.left : Enters(p) \/ Converts(p)

Walk == Member \/ Leaves

Stopped == stage = "ended" /\ UNCHANGED vars

Next == Write \/ (\E c \in Containers : Drop(c)) \/ Begin \/ Walk \/ Stopped

Spec == Init /\ [][Next]_vars

\* The recording thread runs; the others may stop at any time.
FairSpec == Spec /\ WF_vars(Walk)

-----------------------------------------------------------------------------
(* Properties *)

Recorded == stage = "ended" /\ outcome.why = "recorded"

\* A recorded payload is a finite tree that misses nothing and repeats no
\* container inside itself, whatever is written meanwhile: what each of its
\* nodes shows is what its container held at one moment of the walk, all of
\* its containers are there in turn, and every number is finite.
RecordedIsWhole ==
    Recorded =>
        /\ <<>> \in DOMAIN payload
        /\ \A p \in DOMAIN payload : LET node == payload[p] IN
            /\ node.of # Absent => <<node.of[1], node.of[2], node.members>> \in held
            /\ Infinite \notin MembersOf(node.members)
            /\ \A k \in DOMAIN node.members :
                 IF node.members[k] \in Containers
                 THEN Append(p, k) \in DOMAIN payload /\ payload[Append(p, k)].of[1] = node.members[k]
                 ELSE Append(p, k) \notin DOMAIN payload
            /\ \A i \in 0..(Len(p) - 1) : payload[SubSeq(p, 1, i)].of # node.of

\* A refusal is never a coincidence of sharing or of addresses: a container is
\* called cyclic when the walk is inside of that very container, and a number
\* not finite when the container the walk is in held it.
RefusalJustified ==
    stage = "ended" =>
        /\ outcome.why = "cyclic" =>
             /\ outcome.at \in MembersOf(Top.clone)
             /\ \E i \in DOMAIN path :
                  <<path[i].at, path[i].born>> = Instance(outcome.at)
        /\ outcome.why = "non-finite" => Infinite \in MembersOf(Top.clone)

\* Once the threads stop writing, the walk comes to an end, cycles or not.
WalkEnds == stage = "walking" ~> stage = "ended"
=============================================================================

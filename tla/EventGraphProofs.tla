--------------------------- MODULE EventGraphProofs ---------------------------
(***************************************************************************)
(* Proofs about EventGraph, for any containers, keys and number of writes: *)
(* a refusal is never a coincidence of sharing or of addresses, and what   *)
(* is recorded is whole.                                                   *)
(***************************************************************************)
EXTENDS EventGraph, SequenceTheorems, TLAPS

Positions == Nat \ {0}

\* What a container holds: an array's or an object's members.
ObjectContents == UNION {[D -> Value] : D \in SUBSET Keys}
Contents       == Seq(Value) \cup ObjectContents

Frames == [at : Containers, born : Nat, clone : Contents,
           left : SUBSET Positions, place : Seq(Positions)]

-----------------------------------------------------------------------------
(* The inductive invariant *)

GraphTyped ==
    /\ members \in [Containers -> Contents]
    /\ \A a \in Arrays : members[a] \in Seq(Value)
    /\ \A o \in Objects : members[o] \in ObjectContents
    /\ born \in [Containers -> Nat]
    /\ handles \subseteq Containers

PathTyped ==
    /\ stage \in {"built", "walking", "ended"}
    /\ path \in Seq(Frames)
    /\ Walking => path # <<>> /\ root \in Containers
    /\ \A i \in DOMAIN path : path[i].left \subseteq DOMAIN path[i].clone

\* The walk went from the payload to where it is over the clones it holds.
PathFollows ==
    Walking =>
        /\ path[1].at = root
        /\ \A i \in DOMAIN path : i > 1 => path[i].at \in MembersOf(path[i - 1].clone)

\* What the walk is inside of is alive: nothing new is at its address.
StillThere ==
    Walking => \A i \in DOMAIN path : path[i].born = born[path[i].at]

RefusalInv ==
    GraphTyped /\ PathTyped /\ PathFollows /\ StillThere /\ RefusalJustified

-----------------------------------------------------------------------------
(* Lemmas *)

LEMMA ContentsProperties ==
    ASSUME NEW f \in Contents
    PROVE  /\ DOMAIN f \subseteq Positions
           /\ MembersOf(f) \subseteq Value
           /\ \A p \in DOMAIN f : f[p] \in Value /\ f[p] \in MembersOf(f)
<1>1. CASE f \in Seq(Value)
  BY <1>1 DEF Positions, MembersOf
<1>2. CASE f \in ObjectContents
  <2>1. PICK D \in SUBSET Keys : f \in [D -> Value]
    BY <1>2 DEF ObjectContents
  <2>2. DOMAIN f = D /\ \A p \in D : f[p] \in Value
    BY <2>1
  <2> QED BY <2>2, GraphAssumption DEF Positions, MembersOf
<1> QED BY <1>1, <1>2 DEF Contents

\* Nothing that a thread has a handle of, or that the walk owns, is freed.
LEMMA FreedIsUnowned == Freed \cap (handles \cup WalkOwns) = {}
<1> DEFINE D == Containers \ (handles \cup WalkOwns)
<1>1. \A c \in Containers \ (handles \cup WalkOwns) : Holders(c) \subseteq D => c \in D
  OBVIOUS
<1>2. D \in SUBSET Containers
  OBVIOUS
<1> QED BY <1>1, <1>2 DEF Freed

\* So no address on the walk's way is free.
LEMMA PathIsOwned ==
    ASSUME PathTyped, PathFollows, Walking, NEW i \in DOMAIN path
    PROVE  path[i].at \in WalkOwns
<1>1. i \in 1..Len(path)
  BY DEF PathTyped
<1>2. CASE i = 1
  BY <1>2 DEF PathFollows, WalkOwns
<1>3. CASE i > 1
  <2>1. i - 1 \in DOMAIN path
    BY <1>1, <1>3 DEF PathTyped
  <2> QED BY <1>3, <2>1 DEF PathFollows, WalkOwns
<1> QED BY <1>1, <1>2, <1>3

\* Going past a member changes nothing of a frame but what is left.
LEMMA GoesPastProperties ==
    ASSUME PathTyped, Walking, NEW p
    PROVE  /\ GoesPast(p) \in Seq(Frames)
           /\ Len(GoesPast(p)) = Len(path)
           /\ DOMAIN GoesPast(p) = DOMAIN path
           /\ \A i \in DOMAIN path :
                /\ GoesPast(p)[i].at = path[i].at
                /\ GoesPast(p)[i].born = path[i].born
                /\ GoesPast(p)[i].clone = path[i].clone
                /\ GoesPast(p)[i].place = path[i].place
                /\ GoesPast(p)[i].left = IF i = Len(path) THEN path[i].left \ {p}
                                         ELSE path[i].left
<1> DEFINE n == Len(path)
           e == [path[n] EXCEPT !.left = @ \ {p}]
<1>1. n \in 1..Len(path) /\ DOMAIN path = 1..Len(path)
  BY EmptySeq DEF PathTyped
<1>2. path[n] \in Frames
  BY <1>1, ElementOfSeq DEF PathTyped
<1>3. e \in Frames /\ e.at = path[n].at /\ e.born = path[n].born /\ e.clone = path[n].clone
      /\ e.place = path[n].place /\ e.left = path[n].left \ {p}
  BY <1>2 DEF Frames
<1>4. GoesPast(p) = [path EXCEPT ![n] = e]
  BY <1>1 DEF GoesPast
<1> HIDE DEF n, e
<1>5. /\ GoesPast(p) \in Seq(Frames)
      /\ Len(GoesPast(p)) = Len(path)
      /\ \A j \in 1..Len(path) : GoesPast(p)[j] = IF j = n THEN e ELSE path[j]
  BY <1>1, <1>3, <1>4, ExceptSeq DEF PathTyped
<1>6. DOMAIN GoesPast(p) = DOMAIN path
  BY <1>1, <1>5, LenProperties
<1> QED BY <1>1, <1>3, <1>5, <1>6 DEF n

\* Entering a container makes a frame of its own.
LEMMA FrameTyped ==
    ASSUME GraphTyped, NEW c \in Containers, NEW place \in Seq(Positions)
    PROVE  /\ Frame(c, place) \in Frames
           /\ Frame(c, place).left \subseteq DOMAIN Frame(c, place).clone
<1>1. members[c] \in Contents /\ born[c] \in Nat
  BY DEF GraphTyped
<1> QED BY <1>1, ContentsProperties DEF Frame, Frames

-----------------------------------------------------------------------------
(* Refusals *)

LEMMA EmptyContents == <<>> \in Seq(Value) /\ <<>> \in ObjectContents
<1>1. <<>> \in [{} -> Value] /\ {} \in SUBSET Keys
  OBVIOUS
<1> QED BY <1>1, EmptySeq DEF ObjectContents

LEMMA InitRefusalInv == Init => RefusalInv
<1> SUFFICES ASSUME Init PROVE RefusalInv
  OBVIOUS
<1>3. GraphTyped
  BY EmptyContents DEF Init, GraphTyped, Contents, Containers
<1>4. PathTyped
  BY EmptySeq DEF Init, PathTyped, Walking
<1> QED BY <1>3, <1>4 DEF Init, RefusalInv, PathFollows, StillThere, RefusalJustified, Walking

\* A write by a thread keeps the containers well formed, and what is at the
\* addresses of the walk.
LEMMA WriteGraph ==
    ASSUME RefusalInv, Write
    PROVE  /\ GraphTyped'
           /\ \A c \in Containers \cap WalkOwns : born'[c] = born[c]
<1> USE DEF RefusalInv
<1>1. CASE \E c \in handles, v \in {Plain, Infinite} \cup handles : Push(c, v)
  <2>1. PICK c \in handles, v \in {Plain, Infinite} \cup handles : Push(c, v)
    BY <1>1
  <2>2. c \in Arrays /\ v \in Value
    BY <2>1 DEF Push, GraphTyped, Value
  <2>3. Append(members[c], v) \in Seq(Value)
    BY <2>2, AppendProperties DEF GraphTyped
  <2> QED BY <2>1, <2>2, <2>3, GraphAssumption DEF Push, GraphTyped, Contents, Containers
<1>2. CASE \E c \in handles, v \in {Plain, Infinite} \cup handles, k \in Keys : Insert(c, k, v)
  <2>1. PICK c \in handles, v \in {Plain, Infinite} \cup handles, k \in Keys : Insert(c, k, v)
    BY <1>2
  <2>2. c \in Objects /\ v \in Value
    BY <2>1 DEF Insert, GraphTyped, Value
  <2>3. PICK D \in SUBSET Keys : members[c] \in [D -> Value]
    BY <2>2 DEF GraphTyped, ObjectContents
  <2> DEFINE f == [p \in DOMAIN members[c] \cup {k} |-> IF p = k THEN v ELSE members[c][p]]
  <2>4. f \in [D \cup {k} -> Value] /\ D \cup {k} \in SUBSET Keys
    BY <2>2, <2>3
  <2>5. f \in ObjectContents
    BY <2>4 DEF ObjectContents
  <2>6. members' = [members EXCEPT ![c] = f] /\ UNCHANGED <<born, handles>>
    BY <2>1 DEF Insert
  <2> HIDE DEF f
  <2> QED BY <2>2, <2>5, <2>6, GraphAssumption DEF GraphTyped, Contents, Containers
<1>3. CASE \E c \in Containers : Allocate(c)
  <2>1. PICK c \in Containers : Allocate(c)
    BY <1>3
  <2>3. c \notin handles \cup WalkOwns
    BY <2>1, FreedIsUnowned DEF Allocate
  <2>4. GraphTyped'
    BY <2>1, EmptyContents DEF Allocate, GraphTyped, Contents, Containers
  <2> QED BY <2>1, <2>3, <2>4 DEF Allocate, GraphTyped
<1> QED BY <1>1, <1>2, <1>3 DEF Write

LEMMA WriteRefusalInv ==
    ASSUME RefusalInv, Write
    PROVE  RefusalInv'
<1> USE DEF RefusalInv
<1>1. UNCHANGED <<stage, root, path, payload, outcome>> /\ stage # "ended"
  BY DEF Write, walkVars
<1>2. GraphTyped' /\ \A c \in Containers \cap WalkOwns : born'[c] = born[c]
  BY WriteGraph
<1>3. PathTyped' /\ PathFollows'
  BY <1>1 DEF PathTyped, PathFollows, Walking
<1>4. StillThere'
  <2> SUFFICES ASSUME Walking, NEW i \in DOMAIN path
               PROVE  path[i].born = born'[path[i].at]
    BY <1>1 DEF StillThere, Walking
  <2>1. path[i] \in Frames
    BY ElementOfSeq DEF PathTyped
  <2>2. path[i].at \in Containers \cap WalkOwns
    BY <2>1, PathIsOwned DEF Frames
  <2> QED BY <1>2, <2>2 DEF StillThere
<1>5. RefusalJustified'
  BY <1>1 DEF RefusalJustified
<1> QED BY <1>2, <1>3, <1>4, <1>5

LEMMA BeginRefusalInv ==
    ASSUME RefusalInv, Begin
    PROVE  RefusalInv'
<1> USE DEF RefusalInv
<1>1. PICK name \in {"blank", "named"}, runId \in {"none", "empty", "given"},
           sceneId \in {"none", "empty", "given"}, value \in handles \cup {Absent} :
        Record(name, runId, sceneId, value)
  BY DEF Begin
<1>2. UNCHANGED <<members, born, handles>>
  BY <1>1 DEF Record, graphVars
<1>3. GraphTyped'
  BY <1>2 DEF GraphTyped
<1>4. CASE stage' = "ended" /\ path' = path /\ outcome'.why \in {"validation", "recorded"}
  BY <1>3, <1>4 DEF PathTyped, PathFollows, StillThere, RefusalJustified, Walking
<1>5. CASE /\ stage' = "walking" /\ root' = value /\ value # Absent
           /\ path' = <<Frame(value, <<>>)>>
  <2>1. value \in Containers
    BY <1>5 DEF GraphTyped
  <2>2. /\ Frame(value, <<>>) \in Frames
        /\ Frame(value, <<>>).left \subseteq DOMAIN Frame(value, <<>>).clone
    BY <2>1, FrameTyped, EmptySeq
  <2>3. path' \in Seq(Frames) /\ DOMAIN path' = {1} /\ path'[1] = Frame(value, <<>>) /\ path' # <<>>
    BY <1>5, <2>2
  <2>4. PathTyped'
    BY <1>5, <2>1, <2>2, <2>3 DEF PathTyped
  <2>5. (PathFollows /\ StillThere)'
    BY <1>2, <1>5, <2>3 DEF PathFollows, StillThere, Frame
  <2> QED BY <1>3, <1>5, <2>4, <2>5 DEF RefusalJustified
<1> QED BY <1>1, <1>4, <1>5 DEF Record, Ends, Verdict

\* Which container the walk looks at next.
LEMMA TopProperties ==
    ASSUME RefusalInv, Walking
    PROVE  /\ Len(path) \in 1..Len(path) /\ DOMAIN path = 1..Len(path)
           /\ Top \in Frames /\ Top.left \subseteq DOMAIN Top.clone
           /\ \A p \in Top.left : /\ p \in Positions
                                  /\ Top.clone[p] \in Value
                                  /\ Top.clone[p] \in MembersOf(Top.clone)
                                  /\ Below(p) \in Seq(Positions)
<1> USE DEF RefusalInv
<1>1. Len(path) \in 1..Len(path) /\ DOMAIN path = 1..Len(path)
  BY EmptySeq DEF PathTyped
<1>2. Top \in Frames /\ Top.left \subseteq DOMAIN Top.clone
  BY <1>1, ElementOfSeq DEF PathTyped, Top
<1>3. Top.clone \in Contents /\ Top.place \in Seq(Positions)
  BY <1>2 DEF Frames
<1> QED BY <1>1, <1>2, <1>3, ContentsProperties, AppendProperties DEF Below

\* A container is entered that the walk is not inside of.
LEMMA EntersRefusalInv ==
    ASSUME RefusalInv, NEW p, Enters(p)
    PROVE  RefusalInv'
<1> USE DEF RefusalInv
<1> DEFINE c == Top.clone[p]
<1>1. Walking /\ p \in Top.left /\ c \in Containers /\ UNCHANGED <<members, born, handles, root>>
  BY DEF Enters, Reaches, graphVars
<1>2. GraphTyped'
  BY <1>1 DEF GraphTyped
<1>3. c \in MembersOf(Top.clone) /\ Below(p) \in Seq(Positions) /\ DOMAIN path = 1..Len(path)
      /\ Len(path) \in 1..Len(path)
  BY <1>1, TopProperties
<1>4. CASE /\ c \in Active
           /\ stage' = "ended" /\ outcome' = Verdict("cyclic", c) /\ UNCHANGED path
  <2>1. PICK i \in DOMAIN path : path[i].at = c
    BY <1>4 DEF Active
  <2>2. <<path[i].at, path[i].born>> = Instance(c)
    BY <1>1, <2>1 DEF StillThere, Instance
  <2>3. RefusalJustified'
    BY <1>1, <1>3, <1>4, <2>2 DEF RefusalJustified, Verdict, Top, Instance
  <2> QED BY <1>2, <1>4, <2>3 DEF PathTyped, PathFollows, StillThere, Walking
<1>5. CASE /\ c \notin Active
           /\ path' = Append(GoesPast(p), Frame(c, Below(p)))
           /\ UNCHANGED <<stage, outcome>>
  <2> DEFINE f == Frame(c, Below(p))
             g == GoesPast(p)
             n == Len(path)
  <2>1. f \in Frames /\ f.left \subseteq DOMAIN f.clone /\ f.at = c /\ f.born = born[c]
    BY <1>1, <1>3, FrameTyped DEF Frame
  <2>2. /\ g \in Seq(Frames) /\ Len(g) = n /\ DOMAIN g = DOMAIN path
        /\ \A i \in DOMAIN path :
              /\ g[i].at = path[i].at /\ g[i].born = path[i].born
              /\ g[i].clone = path[i].clone /\ g[i].left \subseteq path[i].left
    BY <1>1, GoesPastProperties
  <2> HIDE DEF f, g
  <2>3. /\ path' \in Seq(Frames) /\ Len(path') = n + 1 /\ DOMAIN path' = 1..(n + 1)
        /\ \A i \in 1..n : path'[i] = g[i]
        /\ path'[n + 1] = f
    BY <1>5, <2>1, <2>2, AppendProperties, LenProperties DEF f, g
  <2>4. PathTyped'
    BY <1>1, <1>3, <1>5, <2>1, <2>2, <2>3 DEF PathTyped, Walking
  <2>5. PathFollows'
    <3>1. path'[1].at = root'
      BY <1>1, <1>3, <2>2, <2>3 DEF PathFollows
    <3>2. ASSUME NEW i \in DOMAIN path', i > 1
          PROVE  path'[i].at \in MembersOf(path'[i - 1].clone)
      <4>1. CASE i = n + 1
        BY <1>3, <2>1, <2>2, <2>3, <4>1 DEF Top
      <4>2. CASE i \in 1..n
        <5>1. path[i].at \in MembersOf(path[i - 1].clone)
          BY <1>1, <1>3, <3>2, <4>2 DEF PathFollows
        <5> QED BY <1>3, <2>2, <2>3, <3>2, <4>2, <5>1
      <4> QED BY <1>3, <2>3, <4>1, <4>2
    <3> QED BY <3>1, <3>2 DEF PathFollows
  <2>6. StillThere'
    BY <1>1, <1>3, <2>1, <2>2, <2>3 DEF StillThere
  <2> QED BY <1>1, <1>2, <1>5, <2>4, <2>5, <2>6 DEF RefusalJustified, Walking
<1> QED BY <1>4, <1>5 DEF Enters, Ends

LEMMA ConvertsRefusalInv ==
    ASSUME RefusalInv, NEW p, Converts(p)
    PROVE  RefusalInv'
<1> USE DEF RefusalInv
<1>1. Walking /\ p \in Top.left /\ UNCHANGED <<members, born, handles, root>>
  BY DEF Converts, Reaches, graphVars
<1>2. GraphTyped'
  BY <1>1 DEF GraphTyped
<1>3. CASE /\ Top.clone[p] = Infinite
           /\ stage' = "ended" /\ outcome' = Verdict("non-finite", Top.at) /\ UNCHANGED path
  <2>1. Infinite \in MembersOf(Top.clone)
    BY <1>1, <1>3, TopProperties
  <2>2. RefusalJustified'
    BY <1>3, <2>1 DEF RefusalJustified, Verdict, Top
  <2> QED BY <1>2, <1>3, <2>2 DEF PathTyped, PathFollows, StillThere, Walking
<1>4. CASE path' = GoesPast(p) /\ UNCHANGED <<stage, outcome>>
  <2> DEFINE g == GoesPast(p)
  <2>1. Len(path) \in 1..Len(path) /\ DOMAIN path = 1..Len(path)
    BY <1>1, TopProperties
  <2>2. /\ g \in Seq(Frames) /\ Len(g) = Len(path) /\ DOMAIN g = DOMAIN path
        /\ \A i \in DOMAIN path :
              /\ g[i].at = path[i].at /\ g[i].born = path[i].born
              /\ g[i].clone = path[i].clone /\ g[i].left \subseteq path[i].left
    BY <1>1, GoesPastProperties
  <2> HIDE DEF g
  <2>3. path' = g
    BY <1>4 DEF g
  <2>4. PathTyped'
    BY <1>1, <1>4, <2>1, <2>2, <2>3 DEF PathTyped, Walking
  <2>5. PathFollows'
    <3>1. path'[1].at = root'
      BY <1>1, <2>1, <2>2, <2>3 DEF PathFollows
    <3>2. ASSUME NEW i \in DOMAIN path', i > 1
          PROVE  path'[i].at \in MembersOf(path'[i - 1].clone)
      <4>1. path[i].at \in MembersOf(path[i - 1].clone) /\ i - 1 \in DOMAIN path
        BY <1>1, <2>1, <2>2, <2>3, <3>2 DEF PathFollows
      <4> QED BY <2>2, <2>3, <3>2, <4>1
    <3> QED BY <3>1, <3>2 DEF PathFollows
  <2>6. StillThere'
    BY <1>1, <2>2, <2>3 DEF StillThere
  <2> QED BY <1>1, <1>2, <1>4, <2>4, <2>5, <2>6 DEF RefusalJustified, Walking
<1> QED BY <1>3, <1>4 DEF Converts, Ends

LEMMA LeavesRefusalInv ==
    ASSUME RefusalInv, Leaves
    PROVE  RefusalInv'
<1> USE DEF RefusalInv
<1>1. Walking /\ UNCHANGED <<members, born, handles, root>>
  BY DEF Leaves, graphVars
<1>2. GraphTyped'
  BY <1>1 DEF GraphTyped
<1>3. CASE stage' = "ended" /\ outcome' = Verdict("recorded", Absent) /\ UNCHANGED path
  BY <1>2, <1>3 DEF PathTyped, PathFollows, StillThere, Walking, RefusalJustified, Verdict
<1>4. CASE Len(path) # 1 /\ path' = Front(path) /\ UNCHANGED <<stage, outcome>>
  <2> DEFINE n == Len(path)
  <2>1. n \in Nat /\ n > 1 /\ DOMAIN path = 1..n
    BY <1>1, <1>4, TopProperties
  <2>2. \A i \in 1..(n - 1) : path[i] \in Frames
    BY <2>1 DEF PathTyped
  <2>3. /\ path' \in Seq(Frames) /\ Len(path') = n - 1 /\ DOMAIN path' = 1..(n - 1)
        /\ \A i \in 1..(n - 1) : path'[i] = path[i]
    BY <1>4, <2>1, <2>2, SubSeqProperties, LenProperties DEF Front
  <2>4. PathTyped'
    BY <1>1, <1>4, <2>1, <2>3 DEF PathTyped, Walking
  <2>5. PathFollows'
    <3>1. path'[1].at = root'
      BY <1>1, <2>1, <2>3 DEF PathFollows
    <3>2. ASSUME NEW i \in DOMAIN path', i > 1
          PROVE  path'[i].at \in MembersOf(path'[i - 1].clone)
      BY <1>1, <2>1, <2>3, <3>2 DEF PathFollows
    <3> QED BY <3>1, <3>2 DEF PathFollows
  <2>6. StillThere'
    BY <1>1, <2>1, <2>3 DEF StillThere
  <2> QED BY <1>1, <1>2, <1>4, <2>4, <2>5, <2>6 DEF RefusalJustified, Walking
<1> QED BY <1>3, <1>4 DEF Leaves, Ends

LEMMA DropRefusalInv ==
    ASSUME RefusalInv, NEW c, Drop(c)
    PROVE  RefusalInv'
BY DEF RefusalInv, Drop, walkVars, GraphTyped, PathTyped, PathFollows, StillThere,
   RefusalJustified, Walking, Instance

\* The invariant of the refusals is inductive.
LEMMA NextRefusalInv == RefusalInv /\ [Next]_vars => RefusalInv'
<1> SUFFICES ASSUME RefusalInv, [Next]_vars PROVE RefusalInv'
  OBVIOUS
<1>1. CASE UNCHANGED vars
  BY <1>1 DEF vars, graphVars, walkVars, RefusalInv, GraphTyped, PathTyped, PathFollows,
     StillThere, RefusalJustified, Walking, Instance, Top
<1>2. CASE Member
  BY <1>2, EntersRefusalInv, ConvertsRefusalInv DEF Member
<1> QED BY <1>1, <1>2, WriteRefusalInv, DropRefusalInv, BeginRefusalInv, LeavesRefusalInv
        DEF Next, Walk, Stopped

\* A container is refused as cyclic only while the walk is inside of that very
\* container, and a number as not finite only if the container held it.
THEOREM RefusalsAreJustified == Spec => []RefusalJustified
<1>1. RefusalInv => RefusalJustified
  BY DEF RefusalInv
<1> QED BY <1>1, InitRefusalInv, NextRefusalInv, PTL DEF Spec

-----------------------------------------------------------------------------
(* Whole payloads: the rest of the invariant *)

NoneTwice ==
    Walking => \A i, j \in DOMAIN path : path[i].at = path[j].at => i = j

\* The places of the path are the beginnings of the last one.
Nested ==
    Walking =>
        \A i \in DOMAIN path :
            /\ Len(path[i].place) = i - 1
            /\ \A j \in 1..i : path[j].place = SubSeq(path[i].place, 1, j - 1)

HeldNow ==
    Walking => \A c \in Containers : <<c, born[c], members[c]>> \in held

NodesHeld ==
    Walking =>
        \A q \in DOMAIN payload :
            /\ q \in Seq(Positions)
            /\ \E c \in Containers, b \in Nat, f \in Contents :
                 /\ payload[q] = [of |-> <<c, b>>, members |-> f]
                 /\ <<c, b, f>> \in held

OpenNodes ==
    Walking =>
        \A i \in DOMAIN path :
            /\ path[i].place \in DOMAIN payload
            /\ payload[path[i].place].of = <<path[i].at, path[i].born>>
            /\ payload[path[i].place].members = path[i].clone

\* The member at k of the node at q is where it belongs.
Done(q, k) ==
    LET v == payload[q].members[k] IN
    /\ v # Infinite
    /\ v \in Containers => Append(q, k) \in DOMAIN payload /\ payload[Append(q, k)].of[1] = v
    /\ v \notin Containers => Append(q, k) \notin DOMAIN payload

MembersDone ==
    Walking =>
        \A q \in DOMAIN payload : \A k \in DOMAIN payload[q].members :
            Done(q, k) \/ \E i \in DOMAIN path : path[i].place = q /\ k \in path[i].left

LeftUndone ==
    Walking =>
        \A i \in DOMAIN path : \A k \in path[i].left : Append(path[i].place, k) \notin DOMAIN payload

ParentsThere ==
    Walking =>
        \A q \in DOMAIN payload : \A i \in 0..Len(q) : SubSeq(q, 1, i) \in DOMAIN payload

AncestorsDiffer ==
    Walking =>
        \A q \in DOMAIN payload : \A i \in 0..(Len(q) - 1) :
            payload[SubSeq(q, 1, i)].of # payload[q].of

PayloadInv ==
    /\ NoneTwice /\ Nested /\ HeldNow /\ NodesHeld /\ OpenNodes
    /\ MembersDone /\ LeftUndone /\ ParentsThere /\ AncestorsDiffer

WholeInv == RefusalInv /\ PayloadInv /\ RecordedIsWhole

-----------------------------------------------------------------------------

LEMMA AppendPlace ==
    ASSUME NEW s \in Seq(Positions), NEW k \in Positions
    PROVE  /\ Append(s, k) \in Seq(Positions)
           /\ Len(Append(s, k)) = Len(s) + 1
           /\ Append(s, k)[Len(s) + 1] = k
           /\ \A i \in 0..Len(s) : SubSeq(Append(s, k), 1, i) = SubSeq(s, 1, i)
           /\ SubSeq(Append(s, k), 1, Len(s)) = s
           /\ SubSeq(Append(s, k), 1, Len(s) + 1) = Append(s, k)
<1> DEFINE t == Append(s, k)
<1>1. /\ t \in Seq(Positions) /\ Len(t) = Len(s) + 1 /\ t[Len(s) + 1] = k
      /\ \A i \in 1..Len(s) : t[i] = s[i]
  BY AppendProperties
<1>2. Len(s) \in Nat
  BY LenProperties
<1> HIDE DEF t
<1>3. ASSUME NEW i \in 0..Len(s)
      PROVE  SubSeq(t, 1, i) = SubSeq(s, 1, i)
  <2>1. \A j \in 1..i : s[j] \in Positions /\ t[j] = s[j]
    BY <1>1, <1>2, ElementOfSeq
  <2>2. /\ SubSeq(s, 1, i) \in Seq(Positions) /\ Len(SubSeq(s, 1, i)) = i
        /\ \A j \in 1..i : SubSeq(s, 1, i)[j] = s[j]
    BY <1>2, <2>1, SubSeqProperties
  <2>3. /\ SubSeq(t, 1, i) \in Seq(Positions) /\ Len(SubSeq(t, 1, i)) = i
        /\ \A j \in 1..i : SubSeq(t, 1, i)[j] = t[j]
    BY <1>2, <2>1, SubSeqProperties
  <2> QED BY <2>1, <2>2, <2>3, SeqEqual
<1>4. SubSeq(s, 1, Len(s)) = s /\ SubSeq(t, 1, Len(t)) = t
  BY <1>1, SubSeqFull
<1> QED BY <1>1, <1>2, <1>3, <1>4 DEF t

\* Two places are one when they are below one place at one position.
LEMMA PlacesDiffer ==
    ASSUME NEW s \in Seq(Positions), NEW t \in Seq(Positions),
           NEW k \in Positions, NEW l \in Positions, Append(s, k) = Append(t, l)
    PROVE  s = t /\ k = l
<1>1. Len(s) \in Nat /\ Len(t) \in Nat
  BY LenProperties
<1>2. Len(s) = Len(t)
  BY <1>1, AppendPlace
<1> QED BY <1>2, AppendPlace

\* The node at a place, taken apart.
LEMMA NodeProperties ==
    ASSUME PayloadInv, Walking, NEW q \in DOMAIN payload
    PROVE  /\ q \in Seq(Positions) /\ Len(q) \in Nat
           /\ payload[q].of[1] \in Containers
           /\ payload[q].members \in Contents
           /\ \A k \in DOMAIN payload[q].members : k \in Positions
           /\ <<payload[q].of[1], payload[q].of[2], payload[q].members>> \in held
<1>1. PICK c \in Containers, b \in Nat, f \in Contents :
         payload[q] = [of |-> <<c, b>>, members |-> f] /\ <<c, b, f>> \in held
  BY DEF PayloadInv, NodesHeld
<1>2. payload[q].of = <<c, b>> /\ payload[q].members = f
  BY <1>1
<1>3. q \in Seq(Positions) /\ Len(q) \in Nat
  BY LenProperties DEF PayloadInv, NodesHeld
<1> QED BY <1>1, <1>2, <1>3, ContentsProperties

LEMMA InitPayloadInv == Init => PayloadInv
BY DEF Init, PayloadInv, NoneTwice, Nested, HeldNow, NodesHeld, OpenNodes, MembersDone,
   LeftUndone, ParentsThere, AncestorsDiffer, Walking

\* A write leaves path and payload alone; what it makes of a container is held.
LEMMA WritePayloadInv ==
    ASSUME RefusalInv, PayloadInv, Write
    PROVE  PayloadInv'
<1> USE DEF PayloadInv
<1>1. UNCHANGED <<stage, path, payload>>
  BY DEF Write, walkVars
<1>2. GraphTyped /\ GraphTyped'
  BY WriteGraph DEF RefusalInv
<1>3. PICK a \in Containers :
         /\ Remember(a)
         /\ \A c \in Containers \ {a} : born'[c] = born[c] /\ members'[c] = members[c]
  <2>1. CASE \E c \in handles, v \in {Plain, Infinite} \cup handles : Push(c, v)
    <3>1. PICK c \in handles, v \in {Plain, Infinite} \cup handles : Push(c, v)
      BY <2>1
    <3> QED BY <3>1, <1>2 DEF Push, GraphTyped
  <2>2. CASE \E c \in handles, v \in {Plain, Infinite} \cup handles, k \in Keys : Insert(c, k, v)
    <3>1. PICK c \in handles, v \in {Plain, Infinite} \cup handles, k \in Keys : Insert(c, k, v)
      BY <2>2
    <3> QED BY <3>1, <1>2 DEF Insert, GraphTyped
  <2>3. CASE \E c \in Containers : Allocate(c)
    <3>1. PICK c \in Containers : Allocate(c)
      BY <2>3
    <3> QED BY <3>1, <1>2 DEF Allocate, GraphTyped
  <2> QED BY <2>1, <2>2, <2>3 DEF Write
<1>4. Walking => held \subseteq held' /\ <<a, born'[a], members'[a]>> \in held'
  BY <1>3 DEF Remember, Walking
<1>5. HeldNow'
  BY <1>1, <1>3, <1>4 DEF HeldNow, Walking
<1>6. NodesHeld'
  <2> SUFFICES ASSUME Walking, NEW q \in DOMAIN payload
               PROVE  /\ q \in Seq(Positions)
                      /\ \E c \in Containers, b \in Nat, f \in Contents :
                           /\ payload[q] = [of |-> <<c, b>>, members |-> f]
                           /\ <<c, b, f>> \in held'
    BY <1>1 DEF NodesHeld, Walking
  <2>1. PICK c \in Containers, b \in Nat, f \in Contents :
          payload[q] = [of |-> <<c, b>>, members |-> f] /\ <<c, b, f>> \in held
    BY DEF NodesHeld
  <2>2. <<c, b, f>> \in held'
    BY <1>4, <2>1
  <2> QED BY <2>1, <2>2 DEF NodesHeld
<1>7. (NoneTwice /\ Nested /\ OpenNodes /\ MembersDone /\ LeftUndone /\ ParentsThere
         /\ AncestorsDiffer)'
  BY <1>1 DEF NoneTwice, Nested, OpenNodes, MembersDone, LeftUndone, ParentsThere,
     AncestorsDiffer, Done, Walking
<1> QED BY <1>5, <1>6, <1>7

\* The walk begins at the payload's container, with nothing converted.
LEMMA BeginPayloadInv ==
    ASSUME RefusalInv, NEW value \in Containers,
           stage' = "walking", UNCHANGED graphVars,
           held' = {<<c, born[c], members[c]>> : c \in Containers},
           path' = <<Frame(value, <<>>)>>,
           payload' = [place \in {<<>>} |-> Node(value)]
    PROVE  PayloadInv'
<1> DEFINE f == Frame(value, <<>>)
           e == <<>>
<1>1. /\ members' = members /\ born' = born
      /\ members[value] \in Contents /\ born[value] \in Nat
  BY DEF graphVars, RefusalInv, GraphTyped
<1>2. /\ f.at = value /\ f.born = born[value] /\ f.clone = members[value]
      /\ f.left = DOMAIN members[value] /\ f.place = e
  BY DEF Frame
<1>3. DOMAIN path' = {1} /\ path'[1] = f
  OBVIOUS
<1>4. /\ DOMAIN payload' = {e}
      /\ payload'[e] = [of |-> <<value, born[value]>>, members |-> members[value]]
  BY DEF Node, Instance
<1>5. e \in Seq(Positions) /\ Len(e) = 0 /\ SubSeq(e, 1, 0) = e
  BY EmptySeq, SubSeqEmpty
<1>6. \A k \in DOMAIN members[value] : k \in Positions
  BY <1>1, ContentsProperties
<1> HIDE DEF f, e
<1>7. (NoneTwice /\ HeldNow)'
  BY <1>1, <1>3 DEF NoneTwice, HeldNow
<1>8. Nested'
  <2> SUFFICES ASSUME NEW i \in DOMAIN path', NEW j \in 1..i
               PROVE  /\ Len(path'[i].place) = i - 1
                      /\ path'[j].place = SubSeq(path'[i].place, 1, j - 1)
    BY <1>3 DEF Nested
  <2>1. i = 1 /\ j = 1 /\ i - 1 = 0 /\ j - 1 = 0 /\ path'[i].place = e
    BY <1>2, <1>3
  <2> QED BY <1>5, <2>1
<1>9. NodesHeld'
  <2>1. <<value, born[value], members[value]>> \in held'
    OBVIOUS
  <2> QED BY <1>1, <1>4, <1>5, <2>1 DEF NodesHeld
<1>10. (OpenNodes /\ MembersDone)'
  BY <1>2, <1>3, <1>4 DEF OpenNodes, MembersDone
<1>11. LeftUndone'
  <2>1. \A k \in Positions : Append(e, k) # e
    BY <1>5, AppendPlace
  <2> SUFFICES ASSUME NEW i \in DOMAIN path', NEW k \in path'[i].left
               PROVE  Append(path'[i].place, k) \notin DOMAIN payload'
    BY DEF LeftUndone
  <2>2. path'[i].place = e /\ k \in Positions
    BY <1>2, <1>3, <1>6
  <2> QED BY <1>4, <2>1, <2>2
<1>12. ParentsThere'
  <2> SUFFICES ASSUME NEW q \in DOMAIN payload', NEW i \in 0..Len(q)
               PROVE  SubSeq(q, 1, i) \in DOMAIN payload'
    BY DEF ParentsThere
  <2>1. q = e /\ i = 0
    BY <1>4, <1>5
  <2> QED BY <1>4, <1>5, <2>1
<1>13. AncestorsDiffer'
  BY <1>4, <1>5 DEF AncestorsDiffer
<1> QED BY <1>13, <1>7, <1>8, <1>9, <1>10, <1>11, <1>12 DEF PayloadInv

\* A container goes below the one the walk is in: at a place that was free,
\* with other containers than itself at every place above.
LEMMA EntersPayloadInv ==
    ASSUME RefusalInv, PayloadInv, NEW p, Enters(p), Top.clone[p] \notin Active
    PROVE  PayloadInv'
<1> DEFINE c == Top.clone[p]
           n == Len(path)
           s == path[n].place
           q0 == Append(s, p)
           f == Frame(c, q0)
           g == GoesPast(p)
<1>1. /\ Walking /\ Walking' /\ p \in path[n].left /\ c \in Containers
      /\ UNCHANGED <<members, born, held>>
      /\ path' = Append(g, f)
      /\ payload' = [q \in DOMAIN payload \cup {q0} |-> IF q = q0 THEN Node(c) ELSE payload[q]]
  BY DEF Enters, Reaches, graphVars, Walking, Top, Below, PayloadWith
<1>2. /\ n \in 1..n /\ DOMAIN path = 1..n /\ n \in Nat
      /\ p \in Positions /\ path[n].clone[p] = c /\ p \in DOMAIN path[n].clone
      /\ \A i \in 1..n : path[i] \in Frames
  BY <1>1, TopProperties, ElementOfSeq DEF Top, RefusalInv, PathTyped
<1>3. /\ s \in Seq(Positions) /\ Len(s) = n - 1 /\ s \in DOMAIN payload
  BY <1>1, <1>2 DEF PayloadInv, Nested, OpenNodes, Frames
<1>4. /\ q0 \in Seq(Positions) /\ Len(q0) = n /\ q0 # s
      /\ \A i \in 0..(n - 1) : SubSeq(q0, 1, i) = SubSeq(s, 1, i)
      /\ SubSeq(q0, 1, n) = q0
  <2>1. /\ q0 \in Seq(Positions) /\ Len(q0) = Len(s) + 1
        /\ \A i \in 0..Len(s) : SubSeq(q0, 1, i) = SubSeq(s, 1, i)
        /\ SubSeq(q0, 1, Len(s) + 1) = q0
    BY <1>2, <1>3, AppendPlace
  <2> HIDE DEF q0, s
  <2> QED BY <1>2, <1>3, <2>1
<1>5. q0 \notin DOMAIN payload
  BY <1>1, <1>2 DEF PayloadInv, LeftUndone
<1>6. /\ f \in Frames /\ f.at = c /\ f.born = born[c] /\ f.clone = members[c]
      /\ f.left = DOMAIN members[c] /\ f.place = q0
      /\ \A k \in DOMAIN members[c] : k \in Positions
  <2>1. members[c] \in Contents
    BY <1>1 DEF RefusalInv, GraphTyped
  <2>2. f \in Frames
    BY <1>1, <1>4, FrameTyped DEF RefusalInv
  <2> QED BY <2>1, <2>2, ContentsProperties DEF Frame
<1>7. /\ g \in Seq(Frames) /\ Len(g) = n
      /\ \A i \in 1..n :
            /\ g[i].at = path[i].at /\ g[i].born = path[i].born
            /\ g[i].clone = path[i].clone /\ g[i].place = path[i].place
            /\ g[i].left = IF i = n THEN path[i].left \ {p} ELSE path[i].left
  <2>1. /\ g \in Seq(Frames) /\ Len(g) = n
        /\ \A i \in DOMAIN path :
              /\ g[i].at = path[i].at /\ g[i].born = path[i].born
              /\ g[i].clone = path[i].clone /\ g[i].place = path[i].place
              /\ g[i].left = IF i = n THEN path[i].left \ {p} ELSE path[i].left
    BY <1>1, GoesPastProperties DEF RefusalInv
  <2> HIDE DEF g, n
  <2> QED BY <1>2, <2>1
<1>8. /\ payload'[q0].of = <<c, born[c]>> /\ payload'[q0].of[1] = c
      /\ payload'[q0] = [of |-> <<c, born[c]>>, members |-> members[c]]
      /\ payload'[q0].members = members[c]
      /\ DOMAIN payload' = DOMAIN payload \cup {q0}
      /\ \A q \in DOMAIN payload : payload'[q] = payload[q]
  BY <1>1, <1>5 DEF Node, Instance
<1> HIDE DEF f, g
<1>9. /\ DOMAIN path' = 1..(n + 1)
      /\ \A i \in 1..n :
            /\ path'[i].at = path[i].at /\ path'[i].born = path[i].born
            /\ path'[i].clone = path[i].clone /\ path'[i].place = path[i].place
            /\ path'[i].left = IF i = n THEN path[i].left \ {p} ELSE path[i].left
      /\ path'[n + 1] = f
  <2>1. /\ Append(g, f) \in Seq(Frames) /\ Len(Append(g, f)) = n + 1 /\ Append(g, f)[n + 1] = f
        /\ \A i \in 1..n : Append(g, f)[i] = g[i]
    BY <1>6, <1>7, AppendProperties
  <2>2. DOMAIN Append(g, f) = 1..(n + 1)
    BY <2>1, LenProperties
  <2> QED BY <1>1, <1>7, <2>1, <2>2
<1>10. \A i \in 1..n : path[i].at # c
  BY <1>2 DEF Active
<1> HIDE DEF c, n, s, q0
<1>11. NoneTwice'
  <2> SUFFICES ASSUME NEW i \in 1..(n + 1), NEW j \in 1..(n + 1), path'[i].at = path'[j].at
               PROVE  i = j
    BY <1>9 DEF NoneTwice
  <2>1. \A k \in 1..n : path'[k].at = path[k].at /\ path'[k].at # c
    BY <1>9, <1>10
  <2>2. path'[n + 1].at = c
    BY <1>6, <1>9
  <2>3. CASE i \in 1..n /\ j \in 1..n
    <3>1. path[i].at = path[j].at
      BY <2>1, <2>3
    <3> QED BY <1>1, <1>2, <2>3, <3>1 DEF PayloadInv, NoneTwice
  <2>4. CASE i = n + 1 \/ j = n + 1
    BY <1>2, <2>1, <2>2, <2>4
  <2> QED BY <1>2, <2>3, <2>4
<1>12. Nested'
  <2> SUFFICES ASSUME NEW i \in 1..(n + 1), NEW j \in 1..i
               PROVE  /\ Len(path'[i].place) = i - 1
                      /\ path'[j].place = SubSeq(path'[i].place, 1, j - 1)
    BY <1>9 DEF Nested
  <2>1. CASE i \in 1..n
    <3>1. j \in 1..n
      BY <1>2, <2>1
    <3>2. /\ Len(path[i].place) = i - 1
          /\ path[j].place = SubSeq(path[i].place, 1, j - 1)
      BY <1>1, <1>2, <2>1 DEF PayloadInv, Nested
    <3> QED BY <1>9, <2>1, <3>1, <3>2
  <2>2. CASE i = n + 1 /\ j \in 1..n
    <3>1. path'[j].place = SubSeq(s, 1, j - 1)
      BY <1>1, <1>2, <1>9, <2>2 DEF PayloadInv, Nested, n, s
    <3>2. j - 1 \in 0..(n - 1)
      BY <1>2, <2>2
    <3> QED BY <1>2, <1>4, <1>6, <1>9, <2>2, <3>1, <3>2
  <2>3. CASE i = n + 1 /\ j = n + 1
    <3>1. i - 1 = n /\ j - 1 = n /\ path'[i].place = q0 /\ path'[j].place = q0
      BY <1>2, <1>6, <1>9, <2>3
    <3> QED BY <1>4, <3>1
  <2> QED BY <1>2, <2>1, <2>2, <2>3
<1>13. HeldNow'
  BY <1>1 DEF PayloadInv, HeldNow
<1>14. NodesHeld'
  <2> SUFFICES ASSUME NEW q \in DOMAIN payload'
               PROVE  /\ q \in Seq(Positions)
                      /\ \E d \in Containers, b \in Nat, h \in Contents :
                           /\ payload'[q] = [of |-> <<d, b>>, members |-> h]
                           /\ <<d, b, h>> \in held'
    BY DEF NodesHeld
  <2>1. CASE q = q0
    <3>1. born[c] \in Nat /\ members[c] \in Contents
      BY <1>1 DEF RefusalInv, GraphTyped
    <3>2. <<c, born[c], members[c]>> \in held'
      BY <1>1 DEF PayloadInv, HeldNow
    <3> QED BY <1>1, <1>4, <1>8, <2>1, <3>1, <3>2
  <2>2. CASE q \in DOMAIN payload
    BY <1>1, <1>8, <2>2 DEF PayloadInv, NodesHeld
  <2> QED BY <1>8, <2>1, <2>2
<1>15. OpenNodes'
  <2> SUFFICES ASSUME NEW i \in 1..(n + 1)
               PROVE  /\ path'[i].place \in DOMAIN payload'
                      /\ payload'[path'[i].place].of = <<path'[i].at, path'[i].born>>
                      /\ payload'[path'[i].place].members = path'[i].clone
    BY <1>9 DEF OpenNodes
  <2>1. CASE i \in 1..n
    <3>1. /\ path[i].place \in DOMAIN payload
          /\ payload[path[i].place].of = <<path[i].at, path[i].born>>
          /\ payload[path[i].place].members = path[i].clone
      BY <1>1, <1>2, <2>1 DEF PayloadInv, OpenNodes
    <3>2. /\ path'[i].place = path[i].place /\ path'[i].at = path[i].at
          /\ path'[i].born = path[i].born /\ path'[i].clone = path[i].clone
      BY <1>9, <2>1
    <3> QED BY <1>8, <3>1, <3>2
  <2>2. CASE i = n + 1
    BY <1>6, <1>8, <1>9, <2>2
  <2> QED BY <1>2, <2>1, <2>2
<1>16. MembersDone'
  <2> SUFFICES ASSUME NEW q \in DOMAIN payload', NEW k \in DOMAIN payload'[q].members
               PROVE  Done(q, k)' \/ \E i \in 1..(n + 1) : path'[i].place = q /\ k \in path'[i].left
    BY <1>9 DEF MembersDone
  <2>1. CASE q = q0
    BY <1>2, <1>6, <1>8, <1>9, <2>1
  <2>2. CASE q \in DOMAIN payload /\ Done(q, k)
    <3> DEFINE v == payload[q].members[k]
    <3>1. payload'[q] = payload[q] /\ k \in DOMAIN payload[q].members
      BY <1>8, <2>2
    <3>2. q \in Seq(Positions) /\ k \in Positions
      BY <1>1, <2>2, <3>1, NodeProperties
    <3>3. v \notin Containers => Append(q, k) # q0
      <4> SUFFICES ASSUME Append(q, k) = q0 PROVE v \in Containers
        OBVIOUS
      <4>1. q = s /\ k = p
        BY <1>2, <1>3, <3>2, PlacesDiffer DEF q0
      <4>2. payload[s].members = path[n].clone
        BY <1>1, <1>2 DEF PayloadInv, OpenNodes, s
      <4> QED BY <1>1, <1>2, <4>1, <4>2
    <3> QED BY <1>8, <2>2, <3>1, <3>3 DEF Done
  <2>3. CASE /\ q \in DOMAIN payload
             /\ \E i \in 1..n : path[i].place = q /\ k \in path[i].left
    <3>1. PICK i \in 1..n : path[i].place = q /\ k \in path[i].left
      BY <2>3
    <3>2. CASE i = n /\ k = p
      <4>1. q = s /\ payload'[q].members[k] = c
        BY <1>1, <1>2, <1>8, <2>3, <3>1, <3>2 DEF PayloadInv, OpenNodes, s
      <4>2. Append(q, k) = q0 /\ c # Infinite
        BY <1>1, <3>2, <4>1, GraphAssumption DEF q0
      <4> QED BY <1>1, <1>8, <4>1, <4>2 DEF Done
    <3>3. CASE ~(i = n /\ k = p)
      <4>1. path'[i].place = q /\ k \in path'[i].left
        BY <1>9, <3>1, <3>3
      <4>2. i \in 1..(n + 1)
        BY <1>2
      <4> QED BY <4>1, <4>2
    <3> QED BY <3>2, <3>3
  <2>4. q \in DOMAIN payload =>
          Done(q, k) \/ \E i \in 1..n : path[i].place = q /\ k \in path[i].left
    BY <1>1, <1>2, <1>8 DEF PayloadInv, MembersDone
  <2> QED BY <1>8, <2>1, <2>2, <2>3, <2>4
<1>17. LeftUndone'
  <2> SUFFICES ASSUME NEW i \in 1..(n + 1), NEW k \in path'[i].left
               PROVE  Append(path'[i].place, k) \notin DOMAIN payload \cup {q0}
    BY <1>8, <1>9 DEF LeftUndone
  <2>1. CASE i \in 1..n
    <3>1. k \in path[i].left /\ path'[i].place = path[i].place
      BY <1>9, <2>1
    <3>2. Append(path[i].place, k) \notin DOMAIN payload
      BY <1>1, <1>2, <2>1, <3>1 DEF PayloadInv, LeftUndone
    <3>3. Append(path[i].place, k) # q0
      <4> SUFFICES ASSUME Append(path[i].place, k) = q0 PROVE FALSE
        OBVIOUS
      <4>1. path[i].place \in Seq(Positions) /\ k \in Positions /\ Len(path[i].place) = i - 1
        BY <1>1, <1>2, <2>1, <3>1 DEF PayloadInv, Nested, Frames
      <4>2. path[i].place = s /\ k = p
        BY <1>2, <1>3, <4>1, PlacesDiffer DEF q0
      <4>3. i = n
        BY <1>2, <1>3, <2>1, <4>1, <4>2
      <4> QED BY <1>9, <2>1, <3>1, <4>2, <4>3
    <3> QED BY <3>1, <3>2, <3>3
  <2>2. CASE i = n + 1
    <3>1. path'[i].place = q0 /\ k \in Positions
      BY <1>6, <1>9, <2>2
    <3>2. /\ Append(q0, k) \in Seq(Positions) /\ Len(Append(q0, k)) = n + 1
          /\ SubSeq(Append(q0, k), 1, n) = q0
      BY <1>4, <3>1, AppendPlace
    <3>3. Append(q0, k) # q0
      BY <1>2, <1>4, <3>2
    <3>4. Append(q0, k) \notin DOMAIN payload
      <4> DEFINE t == Append(q0, k)
      <4>1. Len(t) = n + 1 /\ SubSeq(t, 1, n) = q0
        BY <3>2
      <4> HIDE DEF t
      <4>2. t \in DOMAIN payload => SubSeq(t, 1, n) \in DOMAIN payload
        BY <1>1, <1>2, <4>1 DEF PayloadInv, ParentsThere
      <4> QED BY <1>5, <4>1, <4>2 DEF t
    <3> QED BY <3>1, <3>3, <3>4
  <2> QED BY <1>2, <2>1, <2>2
<1>18. ParentsThere'
  <2> SUFFICES ASSUME NEW q \in DOMAIN payload', NEW i \in 0..Len(q)
               PROVE  SubSeq(q, 1, i) \in DOMAIN payload \cup {q0}
    BY <1>8 DEF ParentsThere
  <2>1. CASE q \in DOMAIN payload
    BY <1>1, <2>1 DEF PayloadInv, ParentsThere
  <2>2. CASE q = q0 /\ i = n
    BY <1>4, <2>2
  <2>3. CASE q = q0 /\ i \in 0..(n - 1)
    <3>1. SubSeq(s, 1, i) \in DOMAIN payload
      BY <1>1, <1>3, <2>3 DEF PayloadInv, ParentsThere
    <3> QED BY <1>4, <2>3, <3>1
  <2> QED BY <1>2, <1>4, <1>8, <2>1, <2>2, <2>3
<1>19. AncestorsDiffer'
  <2> SUFFICES ASSUME NEW q \in DOMAIN payload', NEW i \in 0..(Len(q) - 1)
               PROVE  payload'[SubSeq(q, 1, i)].of # payload'[q].of
    BY DEF AncestorsDiffer
  <2>1. CASE q \in DOMAIN payload
    <3>1. i \in 0..Len(q)
      BY <1>1, <2>1, NodeProperties
    <3>2. SubSeq(q, 1, i) \in DOMAIN payload
      BY <1>1, <2>1, <3>1 DEF PayloadInv, ParentsThere
    <3> QED BY <1>1, <1>8, <2>1, <3>2 DEF PayloadInv, AncestorsDiffer
  <2>2. CASE q = q0
    <3>1. i \in 0..(n - 1) /\ i + 1 \in 1..n /\ n \in 1..n
      BY <1>2, <1>4, <2>2
    <3>2. path[i + 1].place = SubSeq(s, 1, i)
      BY <1>1, <1>2, <3>1 DEF PayloadInv, Nested, s
    <3>3. SubSeq(q, 1, i) = path[i + 1].place
      BY <1>4, <2>2, <3>1, <3>2
    <3>4. /\ path[i + 1].place \in DOMAIN payload
          /\ payload[path[i + 1].place].of = <<path[i + 1].at, path[i + 1].born>>
      BY <1>1, <1>2, <3>1 DEF PayloadInv, OpenNodes
    <3>5. payload'[SubSeq(q, 1, i)].of = <<path[i + 1].at, path[i + 1].born>>
      BY <1>8, <3>3, <3>4
    <3> QED BY <1>8, <1>10, <2>2, <3>1, <3>5
  <2> QED BY <1>8, <2>1, <2>2
<1> QED BY <1>11, <1>12, <1>13, <1>14, <1>15, <1>16, <1>17, <1>18, <1>19 DEF PayloadInv

\* A value that converts is where it belongs without a place of its own.
LEMMA ConvertsPayloadInv ==
    ASSUME RefusalInv, PayloadInv, NEW p, Converts(p), Walking'
    PROVE  PayloadInv'
<1> DEFINE n == Len(path)
           s == path[n].place
           g == GoesPast(p)
<1>1. /\ Walking /\ p \in path[n].left /\ path[n].clone[p] \notin Containers
      /\ UNCHANGED <<members, born, held, payload>>
      /\ path' = g /\ path[n].clone[p] # Infinite
  BY DEF Converts, Reaches, graphVars, Walking, Top, Ends
<1>2. /\ n \in 1..n /\ DOMAIN path = 1..n /\ p \in Positions
  BY <1>1, TopProperties DEF Top
<1>3. /\ DOMAIN g = DOMAIN path
      /\ \A i \in DOMAIN path :
            /\ g[i].at = path[i].at /\ g[i].born = path[i].born
            /\ g[i].clone = path[i].clone /\ g[i].place = path[i].place
            /\ g[i].left = IF i = n THEN path[i].left \ {p} ELSE path[i].left
  BY <1>1, GoesPastProperties DEF RefusalInv
<1> HIDE DEF g, n, s
<1>4. /\ DOMAIN path' = DOMAIN path
      /\ \A i \in DOMAIN path :
            /\ path'[i].at = path[i].at /\ path'[i].born = path[i].born
            /\ path'[i].clone = path[i].clone /\ path'[i].place = path[i].place
            /\ path'[i].left = IF i = n THEN path[i].left \ {p} ELSE path[i].left
  BY <1>1, <1>3
<1>5. NoneTwice'
  BY <1>1, <1>4 DEF PayloadInv, NoneTwice
<1>6. Nested'
  <2> SUFFICES ASSUME NEW i \in 1..n, NEW j \in 1..i
               PROVE  /\ Len(path'[i].place) = i - 1
                      /\ path'[j].place = SubSeq(path'[i].place, 1, j - 1)
    BY <1>2, <1>4 DEF Nested
  <2>1. i \in DOMAIN path /\ j \in DOMAIN path
    BY <1>2
  <2>2. /\ Len(path[i].place) = i - 1
        /\ path[j].place = SubSeq(path[i].place, 1, j - 1)
    BY <1>1, <2>1 DEF PayloadInv, Nested
  <2> QED BY <1>4, <2>1, <2>2
<1>7. (HeldNow /\ NodesHeld /\ ParentsThere /\ AncestorsDiffer)'
  BY <1>1 DEF PayloadInv, HeldNow, NodesHeld, ParentsThere, AncestorsDiffer
<1>8. OpenNodes'
  BY <1>1, <1>4 DEF PayloadInv, OpenNodes
<1>9. LeftUndone'
  BY <1>1, <1>4 DEF PayloadInv, LeftUndone
<1>10. MembersDone'
  <2> SUFFICES ASSUME NEW q \in DOMAIN payload, NEW k \in DOMAIN payload[q].members
               PROVE  Done(q, k)' \/ \E i \in DOMAIN path : path'[i].place = q /\ k \in path'[i].left
    BY <1>1, <1>4 DEF MembersDone
  <2>1. CASE Done(q, k)
    BY <1>1, <2>1 DEF Done
  <2>2. ASSUME NEW i \in DOMAIN path, path[i].place = q, k \in path[i].left
        PROVE  Done(q, k)' \/ k \in path'[i].left
    <3>1. CASE i = n /\ k = p
      <4>1. payload[q].members = path[n].clone /\ Append(q, k) \notin DOMAIN payload
        BY <1>1, <2>2, <3>1 DEF PayloadInv, OpenNodes, LeftUndone
      <4> QED BY <1>1, <3>1, <4>1 DEF Done
    <3>2. CASE ~(i = n /\ k = p)
      BY <1>4, <2>2, <3>2
    <3> QED BY <3>1, <3>2
  <2>3. Done(q, k) \/ \E i \in DOMAIN path : path[i].place = q /\ k \in path[i].left
    BY <1>1 DEF PayloadInv, MembersDone
  <2> QED BY <1>4, <2>1, <2>2, <2>3
<1> QED BY <1>5, <1>6, <1>7, <1>8, <1>9, <1>10 DEF PayloadInv

\* A container is left when nothing of it is left to convert.
LEMMA LeavesPayloadInv ==
    ASSUME RefusalInv, PayloadInv, Leaves, Walking'
    PROVE  PayloadInv'
<1> DEFINE n == Len(path)
<1>1. /\ Walking /\ path[n].left = {} /\ n # 1
      /\ UNCHANGED <<members, born, held, payload>> /\ path' = Front(path)
  BY DEF Leaves, graphVars, Walking, Top, Ends
<1>2. n \in Nat /\ n > 1 /\ DOMAIN path = 1..n
  BY <1>1, TopProperties
<1>3. \A i \in 1..(n - 1) : path[i] \in Frames
  BY <1>2 DEF RefusalInv, PathTyped
<1>4. DOMAIN path' = 1..(n - 1) /\ \A i \in 1..(n - 1) : path'[i] = path[i]
  BY <1>1, <1>2, <1>3, SubSeqProperties, LenProperties DEF Front
<1> HIDE DEF n
<1>5. DOMAIN path' \subseteq DOMAIN path /\ \A i \in DOMAIN path' : path'[i] = path[i]
  BY <1>2, <1>4
<1>6. (NoneTwice /\ OpenNodes /\ LeftUndone)'
  BY <1>1, <1>5 DEF PayloadInv, NoneTwice, OpenNodes, LeftUndone
<1>7. Nested'
  <2> SUFFICES ASSUME NEW i \in 1..(n - 1), NEW j \in 1..i
               PROVE  /\ Len(path'[i].place) = i - 1
                      /\ path'[j].place = SubSeq(path'[i].place, 1, j - 1)
    BY <1>4 DEF Nested
  <2>1. i \in DOMAIN path /\ i \in DOMAIN path' /\ j \in DOMAIN path'
    BY <1>2, <1>4
  <2>2. /\ Len(path[i].place) = i - 1
        /\ path[j].place = SubSeq(path[i].place, 1, j - 1)
    BY <1>1, <2>1 DEF PayloadInv, Nested
  <2> QED BY <1>5, <2>1, <2>2
<1>8. (HeldNow /\ NodesHeld /\ ParentsThere /\ AncestorsDiffer)'
  BY <1>1 DEF PayloadInv, HeldNow, NodesHeld, ParentsThere, AncestorsDiffer
<1>9. MembersDone'
  <2> SUFFICES ASSUME NEW q \in DOMAIN payload, NEW k \in DOMAIN payload[q].members
               PROVE  Done(q, k)' \/ \E i \in DOMAIN path' : path'[i].place = q /\ k \in path'[i].left
    BY <1>1 DEF MembersDone
  <2>1. CASE Done(q, k)
    BY <1>1, <2>1 DEF Done
  <2>2. ASSUME NEW i \in DOMAIN path, path[i].place = q, k \in path[i].left
        PROVE  i \in DOMAIN path' /\ path'[i].place = q /\ k \in path'[i].left
    <3>1. i # n
      BY <1>1, <2>2
    <3>2. i \in DOMAIN path'
      BY <1>2, <1>4, <3>1
    <3> QED BY <1>5, <2>2, <3>2
  <2>3. Done(q, k) \/ \E i \in DOMAIN path : path[i].place = q /\ k \in path[i].left
    BY <1>1 DEF PayloadInv, MembersDone
  <2> QED BY <2>1, <2>2, <2>3
<1> QED BY <1>6, <1>7, <1>8, <1>9 DEF PayloadInv

LEMMA SamePayloadInv ==
    ASSUME PayloadInv, UNCHANGED <<members, born, stage, path, payload, held>>
    PROVE  PayloadInv'
<1>1. (NoneTwice /\ HeldNow /\ OpenNodes /\ LeftUndone)'
  BY DEF PayloadInv, NoneTwice, HeldNow, OpenNodes, LeftUndone, Walking
<1>2. Nested'
  BY DEF PayloadInv, Nested, Walking
<1>3. NodesHeld'
  BY DEF PayloadInv, NodesHeld, Walking
<1>4. MembersDone'
  BY DEF PayloadInv, MembersDone, Done, Walking
<1>5. (ParentsThere /\ AncestorsDiffer)'
  BY DEF PayloadInv, ParentsThere, AncestorsDiffer, Walking
<1> QED BY <1>1, <1>2, <1>3, <1>4, <1>5 DEF PayloadInv

\* What the walk has when it leaves the payload's container is whole.
LEMMA LeavesWhole ==
    ASSUME RefusalInv, PayloadInv, Leaves, Len(path) = 1
    PROVE  RecordedIsWhole'
<1>1. Walking /\ path[1].left = {} /\ UNCHANGED <<payload, held>>
  BY DEF Leaves, Top
<1>2. DOMAIN path = {1}
  BY <1>1, TopProperties
<1>3. <<>> \in DOMAIN payload
  <2>1. path[1] \in Frames /\ Len(path[1].place) = 1 - 1 /\ path[1].place \in DOMAIN payload
    BY <1>1, <1>2, ElementOfSeq DEF RefusalInv, PathTyped, PayloadInv, Nested, OpenNodes
  <2>2. path[1].place = <<>>
    BY <2>1, EmptySeq DEF Frames
  <2> QED BY <2>1, <2>2
<1>4. \A q \in DOMAIN payload : \A k \in DOMAIN payload[q].members : Done(q, k)
  BY <1>1, <1>2 DEF PayloadInv, MembersDone
<1>5. ASSUME NEW q \in DOMAIN payload
      PROVE  /\ <<payload[q].of[1], payload[q].of[2], payload[q].members>> \in held
             /\ Infinite \notin MembersOf(payload[q].members)
             /\ \A i \in 0..(Len(q) - 1) : payload[SubSeq(q, 1, i)].of # payload[q].of
  <2>1. <<payload[q].of[1], payload[q].of[2], payload[q].members>> \in held
    BY <1>1, NodeProperties
  <2>2. Infinite \notin MembersOf(payload[q].members)
    BY <1>4 DEF Done, MembersOf
  <2>3. \A i \in 0..(Len(q) - 1) : payload[SubSeq(q, 1, i)].of # payload[q].of
    BY <1>1 DEF PayloadInv, AncestorsDiffer
  <2> QED BY <2>1, <2>2, <2>3
<1>6. ASSUME NEW q \in DOMAIN payload, NEW k \in DOMAIN payload[q].members
      PROVE  IF payload[q].members[k] \in Containers
             THEN /\ Append(q, k) \in DOMAIN payload
                  /\ payload[Append(q, k)].of[1] = payload[q].members[k]
             ELSE Append(q, k) \notin DOMAIN payload
  BY <1>4 DEF Done
<1> QED BY <1>1, <1>3, <1>5, <1>6 DEF RecordedIsWhole

\* The whole invariant is inductive: what is recorded was whole at the last
\* step of the walk, and nothing touches it afterwards.
LEMMA NextWholeInv == WholeInv /\ [Next]_vars => WholeInv'
<1> SUFFICES ASSUME WholeInv, [Next]_vars PROVE WholeInv'
  OBVIOUS
<1>1. RefusalInv /\ PayloadInv /\ RecordedIsWhole
  BY DEF WholeInv
<1>2. RefusalInv'
  BY <1>1, NextRefusalInv
<1>3. CASE UNCHANGED vars
  <2>1. PayloadInv'
    BY <1>1, <1>3, SamePayloadInv DEF vars, graphVars, walkVars
  <2>2. RecordedIsWhole'
    BY <1>1, <1>3 DEF vars, walkVars, RecordedIsWhole, Recorded
  <2> QED BY <1>2, <2>1, <2>2 DEF WholeInv
<1>4. CASE Write
  <2>1. RecordedIsWhole'
    BY <1>4 DEF Write, walkVars, RecordedIsWhole, Recorded
  <2> QED BY <1>1, <1>2, <1>4, <2>1, WritePayloadInv DEF WholeInv
<1>5. ASSUME NEW c \in Containers, Drop(c) PROVE WholeInv'
  <2>1. PayloadInv'
    BY <1>1, <1>5, SamePayloadInv DEF Drop, walkVars
  <2>2. RecordedIsWhole'
    BY <1>5 DEF Drop, walkVars, RecordedIsWhole, Recorded
  <2> QED BY <1>2, <2>1, <2>2 DEF WholeInv
<1>6. ASSUME stage' = "ended", outcome'.why # "recorded" PROVE WholeInv'
  <2>1. PayloadInv'
    BY <1>6 DEF PayloadInv, NoneTwice, Nested, HeldNow, NodesHeld, OpenNodes, MembersDone,
       LeftUndone, ParentsThere, AncestorsDiffer, Walking
  <2> QED BY <1>2, <1>6, <2>1 DEF WholeInv, RecordedIsWhole, Recorded
<1>7. ASSUME NEW name \in {"blank", "named"}, NEW runId \in {"none", "empty", "given"},
             NEW sceneId \in {"none", "empty", "given"}, NEW value \in handles \cup {Absent},
             Record(name, runId, sceneId, value)
      PROVE  WholeInv'
  <2>1. CASE stage' = "ended" /\ outcome' = Verdict("validation", Absent)
    BY <1>6, <2>1 DEF Verdict
  <2>2. CASE /\ stage' = "ended"
             /\ payload' = [place \in {<<>>} |-> [of |-> Absent, members |-> <<>>]]
    <3>1. PayloadInv'
      BY <2>2 DEF PayloadInv, NoneTwice, Nested, HeldNow, NodesHeld, OpenNodes, MembersDone,
         LeftUndone, ParentsThere, AncestorsDiffer, Walking
    <3>2. /\ DOMAIN payload' = {<<>>} /\ payload'[<<>>].of = Absent
          /\ payload'[<<>>].members = <<>>
      BY <2>2
    <3>3. Len(<<>>) = 0 /\ DOMAIN <<>> = {}
      OBVIOUS
    <3>4. MembersOf(<<>>) = {}
      BY <3>3 DEF MembersOf
    <3>5. RecordedIsWhole'
      BY <3>2, <3>3, <3>4 DEF RecordedIsWhole
    <3> QED BY <1>2, <3>1, <3>5 DEF WholeInv
  <2>3. CASE value # Absent /\ Walking'
    <3>1. value \in Containers
      BY <1>1, <2>3 DEF RefusalInv, GraphTyped
    <3>2. PayloadInv'
      BY <1>1, <1>7, <2>3, <3>1, BeginPayloadInv DEF Record, Ends, Walking
    <3>3. RecordedIsWhole'
      BY <2>3 DEF RecordedIsWhole, Recorded, Walking
    <3> QED BY <1>2, <3>2, <3>3 DEF WholeInv
  <2> QED BY <1>7, <2>1, <2>2, <2>3 DEF Record, Ends, Walking
<1>8. CASE Member
  <2>1. PICK p \in Top.left : Enters(p) \/ Converts(p)
    BY <1>8 DEF Member
  <2>2. Walking'=> RecordedIsWhole'
    BY DEF RecordedIsWhole, Recorded, Walking
  <2>3. CASE Enters(p)
    <3>1. CASE Top.clone[p] \in Active
      BY <1>6, <2>3, <3>1 DEF Enters, Ends, Verdict
    <3>2. CASE Top.clone[p] \notin Active
      <4>1. Walking'
        BY <2>3, <3>2 DEF Enters, Reaches, Walking
      <4> QED BY <1>1, <1>2, <2>2, <2>3, <3>2, <4>1, EntersPayloadInv DEF WholeInv
    <3> QED BY <3>1, <3>2
  <2>4. CASE Converts(p)
    <3>1. CASE Top.clone[p] = Infinite
      BY <1>6, <2>4, <3>1 DEF Converts, Ends, Verdict
    <3>2. CASE Top.clone[p] # Infinite
      <4>1. Walking'
        BY <2>4, <3>2 DEF Converts, Reaches, Walking
      <4> QED BY <1>1, <1>2, <2>2, <2>4, <4>1, ConvertsPayloadInv DEF WholeInv
    <3> QED BY <3>1, <3>2
  <2> QED BY <2>1, <2>3, <2>4
<1>9. CASE Leaves
  <2>1. CASE Len(path) = 1
    <3>1. PayloadInv'
      BY <1>9, <2>1 DEF Leaves, Ends, PayloadInv, NoneTwice, Nested, HeldNow, NodesHeld, OpenNodes,
         MembersDone, LeftUndone, ParentsThere, AncestorsDiffer, Walking
    <3> QED BY <1>1, <1>2, <1>9, <2>1, <3>1, LeavesWhole DEF WholeInv
  <2>2. CASE Len(path) # 1
    <3>1. Walking'
      BY <1>9, <2>2 DEF Leaves, Walking
    <3>2. RecordedIsWhole'
      BY <3>1 DEF RecordedIsWhole, Recorded, Walking
    <3> QED BY <1>1, <1>2, <1>9, <3>1, <3>2, LeavesPayloadInv DEF WholeInv
  <2> QED BY <2>1, <2>2
<1>10. CASE Begin
  BY <1>7, <1>10 DEF Begin
<1> QED BY <1>3, <1>4, <1>5, <1>8, <1>9, <1>10 DEF Next, Walk, Stopped

\* What is recorded is whole, however the threads write while it is collected:
\* every node is what its container held at a moment of the walk, with all that
\* is below it, no container inside itself, and no infinite number.
THEOREM RecordedPayloadsAreWhole == Spec => []RecordedIsWhole
<1>1. Init => WholeInv
  BY InitRefusalInv, InitPayloadInv DEF WholeInv, Init, RecordedIsWhole, Recorded
<1>2. WholeInv => RecordedIsWhole
  BY DEF WholeInv
<1> QED BY <1>1, <1>2, NextWholeInv, PTL DEF Spec
=============================================================================

----------------------- MODULE ProviderInvocationProofs -----------------------
(***************************************************************************)
(* Proofs about ProviderInvocation, for any envelopes, statuses and keys,  *)
(* any limit on a body and any timeout: the rows of the record are what    *)
(* passed on the wire, an answer has the evidence of the exchange that     *)
(* closed it, a proposal is a natural and whole one, and all requests of a *)
(* call are one.                                                           *)
(*                                                                         *)
(* The argument: at each point of the call the number of exchanges follows *)
(* from the number of rows (Counted), and only the last exchange is open   *)
(* (OnlyLastOpen).  Every way an attempt can end is of one form: it closes *)
(* the pending exchange and appends the row that this exchange deserves    *)
(* (Concludes, Ends); the rows and the answer follow from that form alone. *)
(* Time passes only in an await, for which its span accounts (Timed).      *)
(***************************************************************************)
EXTENDS ProviderInvocation, InductionProofs, SequenceTheorems, FiniteSetTheorems, TLAPS

Early  == {"invoke", "discover", "discovering", "preflight"}
Points == Early \cup Awaiting \cup {"build", "attempt"} \cup Finished
Fates  == {"open", "unanswered", "refused", "charset", "overflow", "broken", "complete"}

Exchange ==
    [step: {"preflight", "generation"}, request: {prepared}, status: Nat \cup {Nothing},
     id: Nat \cup {Nothing}, received: Nat, fate: Fates,
     envelope: {Nothing} \cup UNION {Envelopes[p] : p \in Providers}]
Row == [success: BOOLEAN, kind: Kinds \cup {Nothing}, retryable: BOOLEAN, duration: Nat]

\* The exchanges before the first generation request.
Probes == IF name = "ollama" THEN 1 ELSE 0

\* Every variable keeps its shape.
Shape ==
    /\ name \in Names
    /\ pc \in Points
    /\ now \in Nat /\ begun \in Nat /\ opened \in Nat
    /\ wire \in Seq(Exchange)
    /\ attempts \in Seq(Row)
    /\ pc \notin {"invoke", "returned"} \/ wire # <<>> => name \in Providers

\* How many exchanges there are, by the rows and the point of the call.
Counted ==
    /\ pc \in Early => wire = <<>> /\ attempts = <<>>
    /\ pc \in {"preflight", "probing"} => name = "ollama"
    /\ pc = "probing" => Len(wire) = 1 /\ attempts = <<>>
    /\ pc = "build" => Len(wire) = Probes /\ attempts = <<>>
    /\ pc = "attempt" => Len(wire) = Probes + Len(attempts) /\ Len(attempts) < MaxAttempts
    /\ pc \in {"posted", "reading"} =>
          Len(wire) = Probes + Len(attempts) + 1 /\ Len(attempts) < MaxAttempts
    /\ pc = "dropped" =>
          \/ name = "ollama" /\ Len(wire) = 1 /\ attempts = <<>>
          \/ Len(wire) = Probes + Len(attempts) + 1 /\ Len(attempts) < MaxAttempts
    /\ pc = "returned" =>
          \/ wire = <<>> /\ attempts = <<>>
          \/ name = "ollama" /\ Len(wire) = 1 /\ attempts = <<>>
          \/ Len(wire) = Probes + Len(attempts) /\ Len(attempts) \in 1..MaxAttempts

\* The first exchange with Ollama is the preflight, and no other is.
ProbedFirst ==
    /\ \A i \in DOMAIN wire : wire[i].step = "preflight" <=> i <= Probes
    /\ pc \in {"build", "attempt", "posted", "reading"} \/ Len(wire) > 1 =>
          (name = "ollama" => Success(wire[1].status))

\* Only the exchange a call waits for, or was dropped with, is open; and only
\* a complete one brought an envelope.
OnlyLastOpen ==
    \A i \in DOMAIN wire :
        /\ wire[i].fate = "open" <=> pc \in Awaiting \cup {"dropped"} /\ i = Len(wire)
        /\ wire[i].envelope # Nothing =>
              wire[i].fate = "complete" /\ wire[i].envelope \in Envelopes[name]

\* What a pending exchange has of a response.
Progress ==
    /\ pc \in {"probing", "posted"} =>
          Pending.status = Nothing /\ Pending.id = Nothing /\ Pending.received = 0
    /\ pc = "reading" =>
          Pending.status \in Statuses /\ Success(Pending.status) /\ Pending.received <= BodyLimit

\* A row for each exchange that ended, and another attempt after a transient
\* failure only.
RowsMatch ==
    \A i \in DOMAIN attempts :
        /\ Probes + i \in DOMAIN wire
        /\ attempts[i].success <=> Natural(wire[Probes + i])
        /\ attempts[i].retryable <=> Transient(wire[Probes + i])
        /\ pc # "returned" \/ i < Len(attempts) => attempts[i].retryable

\* What is sent can be sent.
Usable ==
    pc \notin {"invoke", "discover", "discovering", "returned"} \/ wire # <<>> =>
        /\ prepared.key # "malformed" /\ prepared.base \notin {"malformed", "ends_in_api"}
        /\ prepared.key = "unset" => name = "ollama"

\* Time passes only while the call waits, and no longer than it may.
Timed ==
    /\ begun <= now /\ opened <= now
    /\ pc \in Awaiting =>
          /\ begun <= opened /\ Span <= Timeout
          /\ opened - begun <= (Len(wire) - 1) * Timeout
          /\ EndToEnd(attempts, opened - begun)
    /\ pc \notin Awaiting \cup {"invoke", "dropped"} =>
          /\ Elapsed <= Len(wire) * Timeout
          /\ EndToEnd(attempts, Elapsed)
    /\ \A i \in DOMAIN attempts : attempts[i].duration <= Timeout

\* What an answer says of the exchange that closed the call.
AnswerOf(last, answer) ==
    LET classified == Extract(name, last.envelope)
    IN  /\ (answer.usage # Nothing) <=> (last.status # Nothing)
        /\ answer.usage # Nothing =>
              /\ answer.usage.id = last.id
              /\ answer.usage.tokens = IF classified = Nothing THEN Nothing
                                       ELSE classified.tokens
              /\ answer.usage.latency = Elapsed
        /\ answer.raw # Nothing =>
              /\ answer.raw.try = Len(wire)
              /\ last.step = "generation" /\ last.fate \in {"broken", "complete"}
              /\ last.received <= BodyLimit
        /\ Natural(last) => answer.raw # Nothing
        /\ answer.ok <=> Natural(last) /\ IsObject(classified.text)

Answered ==
    pc = "returned" =>
        /\ wire = <<>> => result.usage = Nothing /\ result.raw = Nothing
        /\ wire # <<>> => AnswerOf(wire[Len(wire)], result)
        /\ LET transient == attempts # <<>> /\ attempts[Len(attempts)].retryable
           IN  /\ result.retryable <=> transient
               /\ transient => Len(attempts) = MaxAttempts

IInv ==
    /\ Shape /\ Counted /\ ProbedFirst /\ OnlyLastOpen /\ Progress
    /\ RowsMatch /\ Usable /\ Timed /\ Answered

\* Discovery reads a base URL for Ollama only.
BaseOfOllama == pc = "discovering" /\ name # "ollama" => seen.base = "unset"

Inv == IInv /\ BaseOfOllama

-----------------------------------------------------------------------------
(***************************************************************************)
(* The parts of an envelope: which of them are text, and what their text   *)
(* is together.                                                            *)
(***************************************************************************)

\* ChunksOf goes over the parts and takes each that is text, as its
\* definition reads.
LEMMA ChunksDefined ==
    ASSUME NEW parts, Len(parts) \in Nat
    PROVE  \E c : /\ ChunksOf(parts) = c[Len(parts)]
                  /\ c[0] = <<>>
                  /\ \A n \in 1..Len(parts) :
                        c[n] = IF IsChunk(parts[n]) THEN Append(c[n - 1], parts[n]) ELSE c[n - 1]
<1> DEFINE Adds(before, n) == IF IsChunk(parts[n]) THEN Append(before, parts[n]) ELSE before
           Upto(f, n) == f = [i \in 0..n |-> IF i = 0 THEN <<>> ELSE Adds(f[i - 1], i)]
           S == {n \in Nat : \E f : Upto(f, n)}
           c == CHOOSE f : Upto(f, Len(parts))
<1>1. 0 \in S
  <2> DEFINE f == [i \in 0..0 |-> <<>>]
  <2>1. f = [i \in 0..0 |-> IF i = 0 THEN <<>> ELSE Adds(f[i - 1], i)]
    OBVIOUS
  <2>2. \E g : Upto(g, 0)
    <3> HIDE DEF f
    <3>. QED  BY <2>1
  <2>. QED  BY <2>2
<1>2. ASSUME NEW n \in Nat, n \in S PROVE n + 1 \in S
  <2>1. PICK f : f = [i \in 0..n |-> IF i = 0 THEN <<>> ELSE Adds(f[i - 1], i)]
    BY <1>2
  <2> HIDE DEF Adds
  <2> DEFINE g == [i \in 0..(n + 1) |-> IF i <= n THEN f[i] ELSE Adds(f[n], n + 1)]
  <2>2. ASSUME NEW i \in 0..(n + 1)
        PROVE  g[i] = IF i = 0 THEN <<>> ELSE Adds(g[i - 1], i)
    <3>1. CASE i = 0
      BY <2>1, <3>1
    <3>2. CASE i \in 1..n
      <4>1. i - 1 \in 0..(n + 1) /\ i - 1 <= n /\ i <= n /\ i \in 0..n /\ i # 0
        BY <3>2
      <4>2. g[i] = f[i] /\ g[i - 1] = f[i - 1]
        BY <4>1
      <4>3. f[i] = Adds(f[i - 1], i)
        BY <2>1, <4>1
      <4>. QED  BY <4>1, <4>2, <4>3
    <3>3. CASE i = n + 1
      <4>1. g[i] = Adds(f[n], n + 1) /\ g[n] = f[n] /\ i - 1 = n /\ i # 0
        BY <3>3
      <4>. QED  BY <3>3, <4>1
    <3>. QED  BY <3>1, <3>2, <3>3
  <2>3. g = [i \in 0..(n + 1) |-> g[i]]
    OBVIOUS
  <2> HIDE DEF g
  <2>4. Upto(g, n + 1)
    BY <2>2, <2>3
  <2>. QED  BY <2>4
<1>3. Len(parts) \in S
  <2> HIDE DEF S
  <2>1. Nat \subseteq S
    BY <1>1, <1>2, SetInduction
  <2>. QED  BY <2>1
<1>4. ChunksOf(parts) = c[Len(parts)]
  BY DEF ChunksOf
<1>5. Upto(c, Len(parts))
  <2> HIDE DEF Upto
  <2>1. \E f : Upto(f, Len(parts))
    BY <1>3
  <2>. QED  BY <2>1
<1>6. c[0] = <<>> /\ \A n \in 1..Len(parts) : c[n] = Adds(c[n - 1], n)
  <2> HIDE DEF Adds
  <2>1. c = [i \in 0..Len(parts) |-> IF i = 0 THEN <<>> ELSE Adds(c[i - 1], i)]
    BY <1>5
  <2> HIDE DEF c
  <2>2. c[0] = <<>>
    BY <2>1
  <2>3. \A n \in 1..Len(parts) : c[n] = Adds(c[n - 1], n)
    BY <2>1
  <2>. QED  BY <2>2, <2>3
<1> HIDE DEF c
<1>. QED  BY <1>4, <1>6

\* A text is empty or has a last chunk.
LEMMA Appended ==
    ASSUME NEW t \in Texts, NEW x \in Chunks
    PROVE  /\ Append(t, x) \in Texts
           /\ Append(t, x) # <<>>
           /\ Append(t, x) = <<"head">> <=> t = <<>> /\ x = "head"
           /\ Append(t, x) = Object <=> t = <<"head">> /\ x = "tail"
<1> DEFINE u == Append(t, x)
<1>1. /\ u \in Texts /\ Len(u) = Len(t) + 1 /\ Len(t) \in Nat
      /\ \A i \in 1..Len(t) : u[i] = t[i]
      /\ u[Len(t) + 1] = x
  BY AppendProperties, LenProperties DEF Texts
<1> HIDE DEF u
<1>2. /\ Len(<<>>) = 0
      /\ Len(<<"head">>) = 1 /\ <<"head">>[1] = "head"
      /\ Len(<<"head", "tail">>) = 2 /\ <<"head", "tail">>[1] = "head"
      /\ <<"head", "tail">>[2] = "tail"
  OBVIOUS
<1>3. u # <<>>
  BY <1>1, <1>2
<1>4. ASSUME u = <<"head">> PROVE t = <<>> /\ x = "head"
  <2>1. Len(t) = 0
    BY <1>1, <1>2, <1>4
  <2>. QED  BY <1>1, <1>2, <1>4, <2>1, EmptySeq DEF Texts
<1>5. ASSUME t = <<>>, x = "head" PROVE u = <<"head">>
  BY <1>5 DEF u
<1>6. ASSUME u = Object PROVE t = <<"head">> /\ x = "tail"
  <2>1. Len(t) = 1 /\ t[1] = "head"
    <3>1. u = <<"head", "tail">> /\ Len(u) = 2 /\ u[1] = "head"
      BY <1>2, <1>6 DEF Object
    <3>2. Len(t) = 1
      <4>1. Len(u) = Len(t) + 1 /\ Len(t) \in Nat /\ Len(u) = 2
        BY <1>1, <3>1
      <4>2. \A n \in Nat : n + 1 = 2 => n = 1
        OBVIOUS
      <4>3. Len(t) + 1 = 2
        BY <4>1
      <4>. QED  BY <4>1, <4>2, <4>3
    <3>3. t[1] = u[1]
      BY <1>1, <3>2
    <3>. QED  BY <3>1, <3>2, <3>3
  <2>2. t = <<"head">>
    <3>1. <<"head">> \in Texts
      BY DEF Texts, Chunks
    <3>2. \A i \in 1..1 : t[i] = <<"head">>[i]
      BY <1>2, <2>1
    <3>. QED  BY <1>2, <2>1, <3>1, <3>2, SeqEqual DEF Texts
  <2>. QED  BY <1>1, <1>2, <1>6, <2>1, <2>2 DEF Object
<1>7. ASSUME t = <<"head">>, x = "tail" PROVE u = Object
  <2>1. Len(u) = 2 /\ u[1] = "head" /\ u[2] = "tail"
    BY <1>1, <1>2, <1>7
  <2>2. <<"head", "tail">> \in Texts /\ u \in Texts
    BY <1>1 DEF Texts, Chunks
  <2>3. \A i \in 1..2 : u[i] = <<"head", "tail">>[i]
    BY <1>2, <2>1
  <2>4. Len(u) = Len(<<"head", "tail">>)
    BY <1>2, <2>1
  <2>5. u = <<"head", "tail">>
    <3>1. \A i \in 1..Len(u) : u[i] = <<"head", "tail">>[i]
      BY <2>1, <2>3
    <3>. QED  BY <2>2, <2>4, <3>1, SeqEqual DEF Texts
  <2>. QED  BY <2>5 DEF Object
<1>. QED  BY <1>1, <1>3, <1>4, <1>5, <1>6, <1>7 DEF u

LEMMA NoneBelow == \A i : i \notin 1..0
<1> SUFFICES ASSUME NEW i, i \in 1..0 PROVE FALSE
  OBVIOUS
<1>1. i \in Int /\ 1 <= i /\ i <= 0
  OBVIOUS
<1>. QED  BY <1>1

\* What the chunks of some parts are together, without collecting them.
LEMMA ChunksAre ==
    ASSUME NEW parts, Len(parts) \in Nat, DOMAIN parts = 1..Len(parts)
    PROVE  /\ ChunksOf(parts) \in Texts
           /\ ChunksOf(parts) = Object <=> OneObject(parts)
<1>1. PICK c : /\ ChunksOf(parts) = c[Len(parts)]
               /\ c[0] = <<>>
               /\ \A n \in 1..Len(parts) :
                     c[n] = IF IsChunk(parts[n]) THEN Append(c[n - 1], parts[n]) ELSE c[n - 1]
  BY ChunksDefined
<1> DEFINE NoText(n)  == \A k \in 1..n : parts[k] \notin Chunks
           HeadOnly(n)  == \E i \in 1..n : /\ parts[i] = "head"
                                       /\ \A k \in 1..n : k # i => parts[k] \notin Chunks
           HeadTail(n) == \E i \in 1..n : \E j \in 1..n :
                          /\ i < j /\ parts[i] = "head" /\ parts[j] = "tail"
                          /\ \A k \in 1..n : k # i /\ k # j => parts[k] \notin Chunks
           Right(n) == /\ c[n] \in Texts
                       /\ c[n] = <<>> <=> NoText(n)
                       /\ c[n] = <<"head">> <=> HeadOnly(n)
                       /\ c[n] = Object <=> HeadTail(n)
           S == {n \in Nat : n <= Len(parts) => Right(n)}
<1>2. 0 \in S
  <2>1. <<>> \in Texts /\ <<>> # <<"head">> /\ <<>> # Object
    BY DEF Texts, Chunks, Object
  <2>2. NoText(0) /\ ~HeadOnly(0) /\ ~HeadTail(0)
    BY NoneBelow, Zenon
  <2>. QED  BY <1>1, <2>1, <2>2
<1>3. ASSUME NEW n \in Nat, n \in S PROVE n + 1 \in S
  <2> HIDE DEF Right
  <2>1. SUFFICES ASSUME n + 1 <= Len(parts) PROVE Right(n + 1)
    OBVIOUS
  <2> USE DEF Right
  <2>2. n + 1 \in 1..Len(parts) /\ (n + 1) - 1 = n /\ n <= Len(parts)
    BY <2>1
  <2>3. Right(n)
    BY <1>3, <2>2
  <2>4. c[n + 1] = IF IsChunk(parts[n + 1]) THEN Append(c[n], parts[n + 1]) ELSE c[n]
    BY <1>1, <2>2
  <2>5. \A k \in 1..(n + 1) : k \in 1..n \/ k = n + 1
    OBVIOUS
  <2>6. (1..n) \subseteq 1..(n + 1) /\ n + 1 \in 1..(n + 1) /\ n + 1 \notin 1..n
    OBVIOUS
  <2>7. CASE ~IsChunk(parts[n + 1])
    <3>1. c[n + 1] = c[n] /\ parts[n + 1] \notin Chunks
      BY <2>4, <2>7 DEF IsChunk
    <3>2. parts[n + 1] # "head" /\ parts[n + 1] # "tail"
      BY <3>1 DEF Chunks
    <3>3. NoText(n + 1) <=> NoText(n)
      BY <2>5, <2>6, <3>1
    <3>4. HeadOnly(n + 1) <=> HeadOnly(n)
      BY <2>5, <2>6, <3>1, <3>2
    <3>5. HeadTail(n + 1) <=> HeadTail(n)
      BY <2>5, <2>6, <3>1, <3>2
    <3> HIDE DEF NoText, HeadOnly, HeadTail
    <3>. QED  BY <2>3, <3>1, <3>3, <3>4, <3>5
  <2>8. CASE IsChunk(parts[n + 1])
    <3>1. parts[n + 1] \in Chunks /\ c[n + 1] = Append(c[n], parts[n + 1])
      BY <2>4, <2>8 DEF IsChunk
    <3>2. /\ c[n + 1] \in Texts /\ c[n + 1] # <<>>
          /\ c[n + 1] = <<"head">> <=> c[n] = <<>> /\ parts[n + 1] = "head"
          /\ c[n + 1] = Object <=> c[n] = <<"head">> /\ parts[n + 1] = "tail"
      <4> HIDE DEF NoText, HeadOnly, HeadTail
      <4>1. PICK t, x : t = c[n] /\ x = parts[n + 1]
        OBVIOUS
      <4>2. t \in Texts /\ x \in Chunks
        BY <2>3, <3>1, <4>1
      <4>3. /\ Append(t, x) \in Texts /\ Append(t, x) # <<>>
            /\ Append(t, x) = <<"head">> <=> t = <<>> /\ x = "head"
            /\ Append(t, x) = Object <=> t = <<"head">> /\ x = "tail"
        BY <4>2, Appended
      <4>. QED  BY <3>1, <4>1, <4>3, Zenon
    <3>3. ~NoText(n + 1)
      BY <2>6, <3>1
    <3>4. HeadOnly(n + 1) <=> NoText(n) /\ parts[n + 1] = "head"
      <4>1. ASSUME HeadOnly(n + 1) PROVE NoText(n) /\ parts[n + 1] = "head"
        <5>1. PICK i \in 1..(n + 1) : /\ parts[i] = "head"
                                      /\ \A k \in 1..(n + 1) : k # i => parts[k] \notin Chunks
          BY <4>1
        <5>2. i = n + 1
          BY <2>6, <3>1, <5>1
        <5>. QED  BY <2>6, <5>1, <5>2
      <4>2. ASSUME NoText(n), parts[n + 1] = "head" PROVE HeadOnly(n + 1)
        BY <2>5, <2>6, <4>2
      <4>. QED  BY <4>1, <4>2
    <3>5. HeadTail(n + 1) <=> HeadOnly(n) /\ parts[n + 1] = "tail"
      <4>1. ASSUME HeadTail(n + 1) PROVE HeadOnly(n) /\ parts[n + 1] = "tail"
        <5>1. PICK i \in 1..(n + 1) : \E j \in 1..(n + 1) :
                 /\ i < j /\ parts[i] = "head" /\ parts[j] = "tail"
                 /\ \A k \in 1..(n + 1) : k # i /\ k # j => parts[k] \notin Chunks
          BY <4>1
        <5>2. PICK j \in 1..(n + 1) :
                 /\ i < j /\ parts[i] = "head" /\ parts[j] = "tail"
                 /\ \A k \in 1..(n + 1) : k # i /\ k # j => parts[k] \notin Chunks
          BY <5>1
        <5>3. j = n + 1
          <6>1. n + 1 = i \/ n + 1 = j
            BY <2>6, <3>1, <5>2
          <6>. QED  BY <5>2, <6>1
        <5>4. i \in 1..n
          BY <5>2, <5>3
        <5>5. \A k \in 1..n : k # i => parts[k] \notin Chunks
          BY <2>6, <5>2, <5>3
        <5>. QED  BY <5>2, <5>3, <5>4, <5>5
      <4>2. ASSUME HeadOnly(n), parts[n + 1] = "tail" PROVE HeadTail(n + 1)
        <5>1. PICK i \in 1..n : /\ parts[i] = "head"
                                /\ \A k \in 1..n : k # i => parts[k] \notin Chunks
          BY <4>2
        <5>2. i \in 1..(n + 1) /\ i < n + 1
          BY <5>1
        <5>3. \A k \in 1..(n + 1) : k # i /\ k # n + 1 => parts[k] \notin Chunks
          BY <2>5, <5>1
        <5>. QED  BY <2>6, <4>2, <5>1, <5>2, <5>3
      <4>. QED  BY <4>1, <4>2
    <3> HIDE DEF NoText, HeadOnly, HeadTail
    <3>. QED  BY <2>3, <3>2, <3>3, <3>4, <3>5
  <2>. QED  BY <2>7, <2>8
<1>4. Right(Len(parts))
  <2> HIDE DEF Right
  <2>1. Nat \subseteq S
    <3> HIDE DEF S
    <3>. QED  BY <1>2, <1>3, SetInduction
  <2>. QED  BY <2>1
<1>5. HeadTail(Len(parts)) <=> OneObject(parts)
  BY DEF OneObject
<1>. QED  BY <1>1, <1>4, <1>5

\* The parts of a text are all text.
LEMMA TextIsWhole ==
    ASSUME NEW t \in Texts
    PROVE  t = Object <=> OneObject(t)
<1>1. Len(t) \in Nat /\ DOMAIN t = 1..Len(t) /\ \A i \in 1..Len(t) : t[i] \in Chunks
  BY LenProperties, ElementOfSeq DEF Texts
<1>2. Len(<<"head", "tail">>) = 2 /\ <<"head", "tail">>[1] = "head" /\ <<"head", "tail">>[2] = "tail"
  OBVIOUS
<1>3. ASSUME t = Object PROVE OneObject(t)
  <2>1. DOMAIN t = 1..2 /\ t[1] = "head" /\ t[2] = "tail"
    BY <1>1, <1>2, <1>3 DEF Object
  <2>. QED  BY <2>1 DEF OneObject
<1>4. ASSUME OneObject(t) PROVE t = Object
  <2>1. PICK i \in 1..Len(t), j \in 1..Len(t) :
           /\ i < j /\ t[i] = "head" /\ t[j] = "tail"
           /\ \A k \in 1..Len(t) : k # i /\ k # j => t[k] \notin Chunks
    BY <1>1, <1>4 DEF OneObject
  <2>2. \A k \in 1..Len(t) : k = i \/ k = j
    BY <1>1, <2>1
  <2>3. 1 \in 1..Len(t) /\ Len(t) \in 1..Len(t) /\ 2 \in 1..Len(t)
    BY <1>1, <2>1
  <2>4. i = 1 /\ j = 2 /\ Len(t) = 2
    BY <1>1, <2>1, <2>2, <2>3
  <2>5. \A k \in 1..Len(t) : t[k] = <<"head", "tail">>[k]
    BY <1>2, <2>1, <2>4
  <2>6. <<"head", "tail">> \in Texts /\ Len(t) = Len(<<"head", "tail">>)
    BY <1>2, <2>4 DEF Texts, Chunks
  <2>. QED  BY <2>5, <2>6, SeqEqual DEF Texts, Object
<1>. QED  BY <1>3, <1>4

\* FlattenSeq joins sequences one after the other, as its definition reads.
LEMMA FlattenDefined ==
    ASSUME NEW s, Len(s) \in Nat, Len(s) # 0
    PROVE  \E c : /\ FlattenSeq(s) = c[Len(s)]
                  /\ \A n \in 1..Len(s) : c[n] = IF n = 1 THEN s[n] ELSE c[n - 1] \o s[n]
<1> DEFINE Joins(before, n) == before \o s[n]
           Upto(f, n) == f = [i \in 1..n |-> IF i = 1 THEN s[i] ELSE Joins(f[i - 1], i)]
           S == {n \in Nat : \E f : Upto(f, n)}
           c == CHOOSE f : Upto(f, Len(s))
<1>1. 0 \in S
  <2> DEFINE f == [i \in 1..0 |-> <<>>]
  <2>1. f = [i \in 1..0 |-> IF i = 1 THEN s[i] ELSE Joins(f[i - 1], i)]
    OBVIOUS
  <2>2. \E g : Upto(g, 0)
    <3> HIDE DEF f
    <3>. QED  BY <2>1
  <2>. QED  BY <2>2
<1>2. ASSUME NEW n \in Nat, n \in S PROVE n + 1 \in S
  <2>1. PICK f : f = [i \in 1..n |-> IF i = 1 THEN s[i] ELSE Joins(f[i - 1], i)]
    BY <1>2
  <2> HIDE DEF Joins
  <2> DEFINE g == [i \in 1..(n + 1) |-> IF i <= n THEN f[i]
                                        ELSE IF i = 1 THEN s[i] ELSE Joins(f[n], n + 1)]
  <2>2. ASSUME NEW i \in 1..(n + 1)
        PROVE  g[i] = IF i = 1 THEN s[i] ELSE Joins(g[i - 1], i)
    <3>1. CASE i \in 1..n
      <4>1. i <= n /\ g[i] = f[i] /\ f[i] = IF i = 1 THEN s[i] ELSE Joins(f[i - 1], i)
        BY <2>1, <3>1
      <4>2. i # 1 => i - 1 \in 1..(n + 1) /\ i - 1 <= n /\ g[i - 1] = f[i - 1]
        BY <3>1
      <4>. QED  BY <4>1, <4>2
    <3>2. CASE i = n + 1
      <4>1. CASE n = 0
        BY <3>2, <4>1
      <4>2. CASE n # 0
        <5>1. n \in 1..(n + 1) /\ g[n] = f[n] /\ i - 1 = n /\ i # 1 /\ ~(i <= n)
          BY <3>2, <4>2
        <5>2. g[i] = Joins(f[n], n + 1)
          BY <5>1
        <5>. QED  BY <3>2, <5>1, <5>2
      <4>. QED  BY <4>1, <4>2
    <3>. QED  BY <3>1, <3>2
  <2>3. g = [i \in 1..(n + 1) |-> g[i]]
    OBVIOUS
  <2> HIDE DEF g
  <2>4. Upto(g, n + 1)
    BY <2>2, <2>3
  <2>. QED  BY <2>4
<1>3. Len(s) \in S
  <2> HIDE DEF S
  <2>1. Nat \subseteq S
    BY <1>1, <1>2, SetInduction
  <2>. QED  BY <2>1
<1>4. FlattenSeq(s) = c[Len(s)]
  BY DEF FlattenSeq
<1>5. Upto(c, Len(s))
  <2> HIDE DEF Upto
  <2>1. \E f : Upto(f, Len(s))
    BY <1>3
  <2>. QED  BY <2>1
<1>6. \A n \in 1..Len(s) : c[n] = IF n = 1 THEN s[n] ELSE Joins(c[n - 1], n)
  <2> HIDE DEF Joins
  <2>1. c = [i \in 1..Len(s) |-> IF i = 1 THEN s[i] ELSE Joins(c[i - 1], i)]
    BY <1>5
  <2> HIDE DEF c
  <2>. QED  BY <2>1
<1> HIDE DEF c
<1>. QED  BY <1>4, <1>6

\* Texts one after the other are a text.
LEMMA FlattenType ==
    ASSUME NEW s, Len(s) \in Nat, s = <<>> <=> Len(s) = 0,
           \A i \in 1..Len(s) : s[i] \in Texts
    PROVE  FlattenSeq(s) \in Texts
<1>1. CASE Len(s) = 0
  <2>1. FlattenSeq(s) = s
    BY <1>1 DEF FlattenSeq
  <2>2. <<>> \in Texts
    BY DEF Texts
  <2>. QED  BY <1>1, <2>1, <2>2
<1>2. CASE Len(s) # 0
  <2>1. PICK c : /\ FlattenSeq(s) = c[Len(s)]
                 /\ \A n \in 1..Len(s) : c[n] = IF n = 1 THEN s[n] ELSE c[n - 1] \o s[n]
    BY <1>2, FlattenDefined
  <2> DEFINE S == {n \in Nat : n \in 1..Len(s) => c[n] \in Texts}
  <2>2. 0 \in S
    OBVIOUS
  <2>3. ASSUME NEW n \in Nat, n \in S PROVE n + 1 \in S
    <3>1. SUFFICES ASSUME n + 1 \in 1..Len(s) PROVE c[n + 1] \in Texts
      OBVIOUS
    <3>2. CASE n = 0
      BY <2>1, <3>1, <3>2
    <3>3. CASE n # 0
      <4>1. n \in 1..Len(s) /\ n + 1 # 1 /\ (n + 1) - 1 = n
        BY <3>1, <3>3
      <4>2. c[n + 1] = c[n] \o s[n + 1]
        BY <2>1, <3>1, <4>1
      <4>3. c[n] \in Texts /\ s[n + 1] \in Texts
        BY <2>3, <3>1, <4>1
      <4>. QED  BY <4>2, <4>3, ConcatProperties DEF Texts
    <3>. QED  BY <3>2, <3>3
  <2>4. Nat \subseteq S
    <3> HIDE DEF S
    <3>. QED  BY <2>2, <2>3, SetInduction
  <2>. QED  BY <1>2, <2>1, <2>4
<1>. QED  BY <1>1, <1>2

\* One sequence joined is that sequence.
LEMMA FlattenOne ==
    ASSUME NEW s, Len(s) = 1
    PROVE  FlattenSeq(s) = s[1]
<1>1. PICK c : /\ FlattenSeq(s) = c[Len(s)]
               /\ \A n \in 1..Len(s) : c[n] = IF n = 1 THEN s[n] ELSE c[n - 1] \o s[n]
  BY FlattenDefined
<1>. QED  BY <1>1

-----------------------------------------------------------------------------
(***************************************************************************)
(* What the adapters decide.                                               *)
(***************************************************************************)

LEMMA EmptyText == <<>> \in Texts /\ Object \in Texts /\ Object # <<>> /\ Nothing \notin Texts
<1>1. <<>> \in Texts /\ Object \in Texts
  BY DEF Texts, Object, Chunks
<1>2. Object # <<>>
  <2>1. Len(<<"head", "tail">>) = 2 /\ Len(<<>>) = 0
    OBVIOUS
  <2>. QED  BY <2>1 DEF Object
<1>3. Nothing \notin Texts
  BY NothingAssumption
<1>. QED  BY <1>1, <1>2, <1>3

LEMMA TokensType ==
    ASSUME NEW u \in SUBSET Sides
    PROVE  TokenCounts(u) \in (SUBSET Sides) \cup {Nothing}
BY DEF TokenCounts

LEMMA CompletedIs ==
    ASSUME NEW t \in Texts \cup {Nothing}, NEW u \in SUBSET Sides
    PROVE  LET x == Completed(t, u)
           IN  /\ x \in Extraction /\ x # Nothing /\ x.natural
               /\ x.text \in Texts
               /\ x.text = Object <=> t = Object
<1> DEFINE x == Completed(t, u)
           text == IF t = Nothing THEN <<>> ELSE t
<1>1. x = [natural |-> TRUE, text |-> text, tokens |-> TokenCounts(u)]
  BY DEF Completed
<1>2. text \in Texts /\ (text = Object <=> t = Object)
  BY EmptyText
<1> HIDE DEF text
<1>3. TokenCounts(u) \in (SUBSET Sides) \cup {Nothing}
  BY TokensType
<1>4. x \in Extraction
  BY <1>1, <1>2, <1>3 DEF Extraction
<1>5. x # Nothing
  BY <1>4, NothingAssumption
<1>6. x.natural /\ x.text = text
  BY <1>1
<1>. QED  BY <1>2, <1>4, <1>5, <1>6

LEMMA NonNaturalIs ==
    ASSUME NEW t \in Texts \cup {Nothing}, NEW u \in SUBSET Sides
    PROVE  LET x == NonNatural(t, u)
           IN  x \in Extraction /\ x # Nothing /\ ~x.natural
<1> DEFINE x == NonNatural(t, u)
<1>1. x = [natural |-> FALSE, text |-> t, tokens |-> TokenCounts(u)]
  BY DEF NonNatural
<1>2. x \in Extraction
  BY <1>1, TokensType DEF Extraction
<1>3. x # Nothing
  BY <1>2, NothingAssumption
<1>4. ~x.natural
  BY <1>1
<1>. QED  BY <1>2, <1>3, <1>4

LEMMA TextOfIs ==
    ASSUME NEW parts, Len(parts) \in Nat, DOMAIN parts = 1..Len(parts)
    PROVE  /\ TextOf(parts) \in Texts \cup {Nothing}
           /\ TextOf(parts) = Object <=> OneObject(parts)
<1>1. ChunksOf(parts) \in Texts /\ (ChunksOf(parts) = Object <=> OneObject(parts))
  BY ChunksAre
<1>. QED  BY <1>1, EmptyText DEF TextOf

\* What Extract finds in an envelope, for a caller: nothing, or an extraction,
\* whose text is one object and natural exactly if the envelope says so in its
\* own words.
FaithfulTo(x, objection, whole) ==
    /\ x = Nothing \/ x \in Extraction
    /\ x # Nothing /\ x.natural => x.text \in Texts
    /\ x # Nothing /\ x.natural /\ x.text = Object <=> ~objection /\ whole

LEMMA FaithfulCompleted ==
    ASSUME NEW t \in Texts \cup {Nothing}, NEW u \in SUBSET Sides, NEW whole \in BOOLEAN,
           t = Object <=> whole, NEW objection, ~objection
    PROVE  FaithfulTo(Completed(t, u), objection, whole)
BY CompletedIs DEF FaithfulTo

LEMMA FaithfulNonNatural ==
    ASSUME NEW t \in Texts \cup {Nothing}, NEW u \in SUBSET Sides, NEW whole, NEW objection,
           objection
    PROVE  FaithfulTo(NonNatural(t, u), objection, whole)
BY NonNaturalIs DEF FaithfulTo

LEMMA OpenAiFaithful ==
    ASSUME NEW e \in OpenAiEnvelope
    PROVE  FaithfulTo(ClassifyOpenAi(e),
                      ~(/\ e.status = "completed"
                        /\ \A i \in DOMAIN e.parts : e.parts[i] # "refusal"),
                      OneObject(e.parts))
<1> DEFINE P == Parts({"refusal", "reasoning"})
           objection == ~(/\ e.status = "completed"
                          /\ \A i \in DOMAIN e.parts : e.parts[i] # "refusal")
<1>1. e.parts \in Seq(P) /\ e.usage \in SUBSET Sides
  BY DEF OpenAiEnvelope
<1> HIDE DEF P
<1>2. Len(e.parts) \in Nat /\ DOMAIN e.parts = 1..Len(e.parts)
  BY <1>1, LenProperties
<1>3. TextOf(e.parts) \in Texts \cup {Nothing} /\ (TextOf(e.parts) = Object <=> OneObject(e.parts))
  BY <1>2, TextOfIs
<1>4. Contains(e.parts, "refusal") <=> \E i \in DOMAIN e.parts : e.parts[i] = "refusal"
  BY <1>2 DEF Contains
<1>5. OneObject(e.parts) \in BOOLEAN
  BY DEF OneObject
<1>6. CASE ~objection
  <2>1. ClassifyOpenAi(e) = Completed(TextOf(e.parts), e.usage)
    BY <1>4, <1>6 DEF ClassifyOpenAi
  <2> HIDE DEF objection
  <2>2. FaithfulTo(ClassifyOpenAi(e), objection, OneObject(e.parts))
    BY <1>1, <1>3, <1>5, <1>6, <2>1, FaithfulCompleted
  <2>. QED  BY <2>2 DEF objection
<1>7. CASE objection
  <2>1. ClassifyOpenAi(e) = NonNatural(TextOf(e.parts), e.usage)
    BY <1>4, <1>7 DEF ClassifyOpenAi
  <2> HIDE DEF objection
  <2>2. FaithfulTo(ClassifyOpenAi(e), objection, OneObject(e.parts))
    BY <1>1, <1>3, <1>7, <2>1, FaithfulNonNatural
  <2>. QED  BY <2>2 DEF objection
<1>. QED  BY <1>6, <1>7

LEMMA AnthropicFaithful ==
    ASSUME NEW e \in AnthropicEnvelope
    PROVE  FaithfulTo(ClassifyAnthropic(e), ~(e.stop = "end_turn"), OneObject(e.parts))
<1> DEFINE P == Parts({"thinking"})
           objection == ~(e.stop = "end_turn")
<1>1. e.parts \in Seq(P) /\ e.usage \in SUBSET Sides
  BY DEF AnthropicEnvelope
<1> HIDE DEF P
<1>2. Len(e.parts) \in Nat /\ DOMAIN e.parts = 1..Len(e.parts)
  BY <1>1, LenProperties
<1>3. TextOf(e.parts) \in Texts \cup {Nothing} /\ (TextOf(e.parts) = Object <=> OneObject(e.parts))
  BY <1>2, TextOfIs
<1>5. OneObject(e.parts) \in BOOLEAN
  BY DEF OneObject
<1>6. CASE ~objection
  <2>1. ClassifyAnthropic(e) = Completed(TextOf(e.parts), e.usage)
    BY <1>6 DEF ClassifyAnthropic
  <2> HIDE DEF objection
  <2>2. FaithfulTo(ClassifyAnthropic(e), objection, OneObject(e.parts))
    BY <1>1, <1>3, <1>5, <1>6, <2>1, FaithfulCompleted
  <2>. QED  BY <2>2 DEF objection
<1>7. CASE objection
  <2>1. ClassifyAnthropic(e) = NonNatural(TextOf(e.parts), e.usage)
    BY <1>7 DEF ClassifyAnthropic
  <2> HIDE DEF objection
  <2>2. FaithfulTo(ClassifyAnthropic(e), objection, OneObject(e.parts))
    BY <1>1, <1>3, <1>7, <2>1, FaithfulNonNatural
  <2>. QED  BY <2>2 DEF objection
<1>. QED  BY <1>6, <1>7

\* The texts of the candidates are texts, joined they are one.
LEMMA CandidatesText ==
    ASSUME NEW candidates \in Seq([finish: {"STOP", "MAX_TOKENS"}, parts: Texts])
    PROVE  LET joined == FlattenSeq([i \in DOMAIN candidates |-> candidates[i].parts])
           IN  joined \in Texts /\ Len(joined) \in Nat /\ DOMAIN joined = 1..Len(joined)
<1> DEFINE C == [finish: {"STOP", "MAX_TOKENS"}, parts: Texts]
           s == [i \in DOMAIN candidates |-> candidates[i].parts]
<1>1. Len(candidates) \in Nat /\ DOMAIN candidates = 1..Len(candidates)
  BY LenProperties
<1>2. \A i \in 1..Len(candidates) : candidates[i] \in C
  <2> HIDE DEF C
  <2>. QED  BY ElementOfSeq DEF C
<1>3. s \in Seq(Texts)
  <2>1. \A i \in 1..Len(candidates) : candidates[i].parts \in Texts
    BY <1>2
  <2>2. s = [i \in 1..Len(candidates) |-> candidates[i].parts]
    BY <1>1
  <2>. QED  BY <1>1, <2>1, <2>2, IsASeq
<1> HIDE DEF s
<1>4. Len(s) \in Nat /\ (s = <<>> <=> Len(s) = 0) /\ \A i \in 1..Len(s) : s[i] \in Texts
  BY <1>3, LenProperties, ElementOfSeq, EmptySeq
<1>5. FlattenSeq(s) \in Texts
  BY <1>4, FlattenType
<1>6. Len(FlattenSeq(s)) \in Nat /\ DOMAIN FlattenSeq(s) = 1..Len(FlattenSeq(s))
  BY <1>5, LenProperties DEF Texts
<1>. QED  BY <1>5, <1>6 DEF s

LEMMA GeminiFaithful ==
    ASSUME NEW e \in GeminiEnvelope
    PROVE  FaithfulTo(ClassifyGemini(e),
                      ~(/\ ~e.blocked /\ e.candidates # <<>>
                        /\ \A i \in DOMAIN e.candidates : e.candidates[i].finish = "STOP"),
                      OneObject(FlattenSeq([i \in DOMAIN e.candidates |-> e.candidates[i].parts])))
<1> DEFINE joined == FlattenSeq([i \in DOMAIN e.candidates |-> e.candidates[i].parts])
           objection == ~(/\ ~e.blocked /\ e.candidates # <<>>
                          /\ \A i \in DOMAIN e.candidates : e.candidates[i].finish = "STOP")
<1>1. /\ e.candidates \in Seq([finish: {"STOP", "MAX_TOKENS"}, parts: Texts])
      /\ e.usage \in SUBSET Sides
  BY DEF GeminiEnvelope
<1>2. Len(joined) \in Nat /\ DOMAIN joined = 1..Len(joined)
  BY <1>1, CandidatesText
<1>0. CandidateText(e.candidates) = TextOf(joined)
  BY DEF CandidateText
<1> HIDE DEF joined
<1>3. TextOf(joined) \in Texts \cup {Nothing} /\ (TextOf(joined) = Object <=> OneObject(joined))
  BY <1>2, TextOfIs
<1>5. OneObject(joined) \in BOOLEAN
  BY DEF OneObject
<1>6. CASE ~objection
  <2>1. ClassifyGemini(e) = Completed(TextOf(joined), e.usage)
    BY <1>0, <1>6 DEF ClassifyGemini
  <2> HIDE DEF objection
  <2>2. FaithfulTo(ClassifyGemini(e), objection, OneObject(joined))
    BY <1>1, <1>3, <1>5, <1>6, <2>1, FaithfulCompleted
  <2>. QED  BY <2>2 DEF objection, joined
<1>7. CASE objection
  <2>1. ClassifyGemini(e) = NonNatural(TextOf(joined), e.usage)
    BY <1>0, <1>7 DEF ClassifyGemini
  <2> HIDE DEF objection
  <2>2. FaithfulTo(ClassifyGemini(e), objection, OneObject(joined))
    BY <1>1, <1>3, <1>7, <2>1, FaithfulNonNatural
  <2>. QED  BY <2>2 DEF objection, joined
<1>. QED  BY <1>6, <1>7

LEMMA OllamaFaithful ==
    ASSUME NEW e \in OllamaEnvelope
    PROVE  FaithfulTo(ClassifyOllama(e),
                      ~(Len(e.choices) = 1 /\ e.choices[1].finish = "stop"),
                      OneObject(FlattenSeq([i \in DOMAIN e.choices |-> e.choices[i].content])))
<1> DEFINE joined == FlattenSeq([i \in DOMAIN e.choices |-> e.choices[i].content])
           objection == ~(Len(e.choices) = 1 /\ e.choices[1].finish = "stop")
           C == [finish: {"stop", "length", "tool_calls"}, content: Texts]
<1>1. e.choices \in Seq(C) /\ e.usage \in SUBSET Sides
  BY DEF OllamaEnvelope
<1>2. Len(e.choices) \in Nat /\ DOMAIN e.choices = 1..Len(e.choices)
  <2> HIDE DEF C
  <2>. QED  BY <1>1, LenProperties
<1>3. CASE Len(e.choices) # 1
  <2>1. ClassifyOllama(e) = Nothing
    BY <1>3 DEF ClassifyOllama
  <2>. QED  BY <1>3, <2>1 DEF FaithfulTo
<1>4. CASE Len(e.choices) = 1
  <2>1. e.choices[1] \in C
    <3> HIDE DEF C
    <3>. QED  BY <1>1, <1>4, ElementOfSeq
  <2>2. e.choices[1].content \in Texts
    BY <2>1
  <2>3. joined = e.choices[1].content
    <3> DEFINE s == [i \in DOMAIN e.choices |-> e.choices[i].content]
    <3>1. s[1] = e.choices[1].content /\ DOMAIN s = 1..1 /\ s = [i \in 1..1 |-> e.choices[i].content]
      BY <1>2, <1>4
    <3>2. s \in Seq(Texts)
      <4>1. \A i \in 1..1 : e.choices[i].content \in Texts
        BY <2>2
      <4>2. \A i \in 1..Len(e.choices) : e.choices[i].content \in Texts
        BY <1>4, <4>1
      <4>3. s = [i \in 1..Len(e.choices) |-> e.choices[i].content]
        BY <1>2
      <4>. QED  BY <1>2, <4>2, <4>3, IsASeq
    <3> HIDE DEF s
    <3>3. Len(s) = 1
      <4>1. Len(s) \in Nat /\ DOMAIN s = 1..Len(s)
        BY <3>2, LenProperties
      <4>. QED  BY <3>1, <4>1
    <3>4. FlattenSeq(s) = s[1]
      BY <3>3, FlattenOne
    <3>. QED  BY <3>1, <3>4 DEF s
  <2> HIDE DEF joined
  <2>4. e.choices[1].content = Object <=> OneObject(joined)
    BY <2>2, <2>3, TextIsWhole
  <2>5. OneObject(joined) \in BOOLEAN
    BY DEF OneObject
  <2>6. CASE ~objection
    <3>1. ClassifyOllama(e) = Completed(e.choices[1].content, e.usage)
      BY <1>4, <2>6 DEF ClassifyOllama
    <3> HIDE DEF objection
    <3>2. FaithfulTo(ClassifyOllama(e), objection, OneObject(joined))
      BY <1>1, <2>2, <2>4, <2>5, <2>6, <3>1, FaithfulCompleted
    <3>. QED  BY <3>2 DEF objection, joined
  <2>7. CASE objection
    <3>1. ClassifyOllama(e) = NonNatural(e.choices[1].content, e.usage)
      BY <1>4, <2>7 DEF ClassifyOllama
    <3> HIDE DEF objection
    <3>2. FaithfulTo(ClassifyOllama(e), objection, OneObject(joined))
      BY <1>1, <2>2, <2>7, <3>1, FaithfulNonNatural
    <3>. QED  BY <3>2 DEF objection, joined
  <2>. QED  BY <2>6, <2>7
<1>. QED  BY <1>3, <1>4

\* For each provider.
LEMMA ExtractFaithful ==
    ASSUME name \in Providers, NEW e \in EnvelopeType(name), e # Nothing
    PROVE  FaithfulTo(Extract(name, e), ~Unobjected(e), OneObject(PartsOf(e)))
<1>1. CASE name = "openai"
  <2>1. /\ e \in OpenAiEnvelope /\ Extract(name, e) = ClassifyOpenAi(e) /\ PartsOf(e) = e.parts
        /\ Unobjected(e) = (/\ e.status = "completed"
                            /\ \A i \in DOMAIN e.parts : e.parts[i] # "refusal")
    BY <1>1 DEF EnvelopeType, Extract, PartsOf, Unobjected
  <2>. QED  BY <2>1, OpenAiFaithful
<1>2. CASE name = "anthropic"
  <2>1. /\ e \in AnthropicEnvelope /\ Extract(name, e) = ClassifyAnthropic(e)
        /\ PartsOf(e) = e.parts /\ Unobjected(e) = (e.stop = "end_turn")
    BY <1>2 DEF EnvelopeType, Extract, PartsOf, Unobjected
  <2>. QED  BY <2>1, AnthropicFaithful
<1>3. CASE name = "gemini"
  <2>1. /\ e \in GeminiEnvelope /\ Extract(name, e) = ClassifyGemini(e)
        /\ PartsOf(e) = FlattenSeq([i \in DOMAIN e.candidates |-> e.candidates[i].parts])
        /\ Unobjected(e) = (/\ ~e.blocked /\ e.candidates # <<>>
                            /\ \A i \in DOMAIN e.candidates : e.candidates[i].finish = "STOP")
    BY <1>3 DEF EnvelopeType, Extract, PartsOf, Unobjected
  <2>. QED  BY <2>1, GeminiFaithful
<1>4. CASE name = "ollama"
  <2>1. /\ e \in OllamaEnvelope /\ Extract(name, e) = ClassifyOllama(e)
        /\ PartsOf(e) = FlattenSeq([i \in DOMAIN e.choices |-> e.choices[i].content])
        /\ Unobjected(e) = (Len(e.choices) = 1 /\ e.choices[1].finish = "stop")
    BY <1>4 DEF EnvelopeType, Extract, PartsOf, Unobjected
  <2>. QED  BY <2>1, OllamaFaithful
<1>. QED  BY <1>1, <1>2, <1>3, <1>4 DEF Providers

\* The status tables and the reference agree on what is transient.
LEMMA VerdictIs ==
    ASSUME NEW p, NEW status \in Nat
    PROVE  LET verdict == MapGenerationStatus(p, status)
           IN  /\ verdict.kind \in Kinds /\ verdict.retryable \in BOOLEAN
               /\ verdict.retryable <=> status \in {429} \cup 500..599
<1> DEFINE v == GenericStatus(status)
<1>1. v.kind \in Kinds /\ v.retryable \in BOOLEAN
      /\ (v.retryable <=> status \in {429} \cup 500..599)
  <2>1. CASE status = 429
    <3>1. v = [kind |-> "rate_limited", retryable |-> TRUE]
      BY <2>1 DEF GenericStatus, Verdict
    <3>2. v.kind = "rate_limited" /\ v.retryable = TRUE
      BY <3>1
    <3>3. status \in {429} \cup 500..599 /\ v.kind \in Kinds
      BY <2>1, <3>2 DEF Kinds
    <3>4. v.retryable \in BOOLEAN /\ v.retryable
      BY <3>2
    <3> HIDE DEF v
    <3>. QED  BY <3>3, <3>4
  <2>2. CASE status \in 500..599
    <3>1. v = [kind |-> "provider_unavailable", retryable |-> TRUE]
      BY <2>2 DEF GenericStatus, Verdict
    <3>. QED  BY <2>2, <3>1 DEF Kinds
  <2>3. CASE status # 429 /\ status \notin 500..599
    <3>1. v = [kind |-> "provider_error", retryable |-> FALSE]
      BY <2>3 DEF GenericStatus, Verdict
    <3>. QED  BY <2>3, <3>1 DEF Kinds
  <2>. QED  BY <2>1, <2>2, <2>3
<1> HIDE DEF v
<1>2. CASE p # "ollama"
  BY <1>1, <1>2 DEF MapGenerationStatus, v
<1>3. CASE p = "ollama"
  <2> DEFINE w == OllamaStatus(status)
  <2>0. MapGenerationStatus(p, status) = w
    BY <1>3 DEF MapGenerationStatus
  <2>1. CASE status \in {400, 422}
    <3>1. w = [kind |-> "invalid_payload", retryable |-> FALSE]
      BY <2>1 DEF OllamaStatus, Verdict
    <3>. QED  BY <2>0, <2>1, <3>1 DEF Kinds
  <2>2. CASE status = 404
    <3>1. w = [kind |-> "model_not_found", retryable |-> FALSE]
      BY <2>2 DEF OllamaStatus, Verdict
    <3>2. w.kind = "model_not_found" /\ w.retryable = FALSE
      BY <3>1
    <3>3. status \notin {429} \cup 500..599 /\ w.kind \in Kinds
      BY <2>2, <3>2 DEF Kinds
    <3>4. w.retryable \in BOOLEAN /\ ~w.retryable
      BY <3>2
    <3> HIDE DEF w
    <3>. QED  BY <2>0, <3>3, <3>4
  <2>3. CASE status \notin {400, 422, 404}
    <3>1. w = v
      <4>1. status \notin {400, 422} /\ status # 404
        BY <2>3
      <4>. QED  BY <4>1 DEF OllamaStatus, v
    <3>. QED  BY <1>1, <2>0, <3>1
  <2>. QED  BY <2>1, <2>2, <2>3
<1>. QED  BY <1>2, <1>3

-----------------------------------------------------------------------------
(***************************************************************************)
(* How an attempt ends: one form for every way.                            *)
(***************************************************************************)

\* The exchange that closes an attempt, and what the call makes of it.
Concludes(e, outcome) ==
    /\ e \in Exchange /\ e.fate # "open" /\ e.step = "generation"
    /\ e.envelope # Nothing => e.fate = "complete" /\ e.envelope \in Envelopes[name]
    /\ outcome.kind \in Kinds \cup {Nothing} /\ outcome.retryable \in BOOLEAN
    /\ outcome.kind = Nothing <=> Natural(e)
    /\ outcome.retryable <=> Transient(e)
    /\ (outcome.usage # Nothing) <=> (e.status # Nothing)
    /\ outcome.usage # Nothing =>
          /\ outcome.usage.id = e.id
          /\ outcome.usage.tokens = IF Extract(name, e.envelope) = Nothing THEN Nothing
                                    ELSE Extract(name, e.envelope).tokens
          /\ outcome.usage.latency = Elapsed
    /\ outcome.raw # Nothing =>
          /\ outcome.raw.try = Len(wire)
          /\ e.fate \in {"broken", "complete"} /\ e.received <= BodyLimit
    /\ Natural(e) => outcome.raw # Nothing /\ outcome.raw.text = Extract(name, e.envelope).text

Ends(e, outcome) ==
    /\ pc \in {"posted", "reading"}
    /\ Concludes(e, outcome)
    /\ Exchanged(e)
    /\ AttemptEnds(outcome)

\* The last exchange, while the call waits for it.
LEMMA PendingIs ==
    ASSUME IInv, pc \in Awaiting
    PROVE  /\ Len(wire) \in Nat /\ Len(wire) # 0 /\ DOMAIN wire = 1..Len(wire)
           /\ name \in Providers
           /\ Pending = wire[Len(wire)] /\ Pending \in Exchange
           /\ Pending.fate = "open" /\ Pending.envelope = Nothing
           /\ Pending.step = IF pc = "probing" THEN "preflight" ELSE "generation"
<1>1. Len(wire) \in Nat /\ DOMAIN wire = 1..Len(wire) /\ Len(attempts) \in Nat
  BY LenProperties DEF IInv, Shape
<1>2. Probes \in {0, 1}
  BY DEF Probes
<1>3. /\ pc = "probing" => Len(wire) = 1 /\ Probes = 1
      /\ pc # "probing" => Len(wire) = Probes + Len(attempts) + 1
  BY DEF IInv, Counted, Awaiting, Probes
<1>4. Len(wire) # 0 /\ Len(wire) \in 1..Len(wire)
  <2>1. Len(wire) # 0
    <3>1. CASE pc = "probing"
      BY <1>3, <3>1
    <3>2. CASE pc # "probing"
      <4>1. Len(wire) = Probes + Len(attempts) + 1 /\ Len(attempts) \in Nat
        BY <1>1, <1>3, <3>2
      <4>. QED  BY <1>2, <4>1
    <3>. QED  BY <3>1, <3>2
  <2>. QED  BY <1>1, <2>1
<1>5. wire # <<>>
  BY <1>4
<1>6. name \in Providers
  BY <1>5 DEF IInv, Shape
<1>7. Pending = wire[Len(wire)]
  BY DEF Pending, Last
<1>8. wire[Len(wire)] \in Exchange
  <2> DEFINE S == Exchange
  <2>1. wire \in Seq(S)
    BY DEF IInv, Shape
  <2> HIDE DEF S
  <2>. QED  BY <1>4, <2>1, ElementOfSeq DEF S
<1>9. wire[Len(wire)].fate = "open"
  BY <1>1, <1>4 DEF IInv, OnlyLastOpen
<1>10. wire[Len(wire)].envelope = Nothing
  BY <1>1, <1>4, <1>9 DEF IInv, OnlyLastOpen
<1>11. wire[Len(wire)].step = "preflight" <=> Len(wire) <= Probes
  BY <1>1, <1>4 DEF IInv, ProbedFirst
<1>12. wire[Len(wire)].step \in {"preflight", "generation"}
  BY <1>8 DEF Exchange
<1>13. wire[Len(wire)].step = IF pc = "probing" THEN "preflight" ELSE "generation"
  <2>1. CASE pc = "probing"
    <3>1. Len(wire) <= Probes
      BY <1>3, <2>1
    <3>. QED  BY <1>11, <2>1, <3>1
  <2>2. CASE pc # "probing"
    <3>1. Len(wire) = Probes + Len(attempts) + 1 /\ Len(attempts) \in Nat
      BY <1>1, <1>3, <2>2
    <3>2. ~(Len(wire) <= Probes)
      BY <1>2, <3>1
    <3>. QED  BY <1>11, <1>12, <2>2, <3>2
  <2>. QED  BY <2>1, <2>2
<1>. QED  BY <1>1, <1>4, <1>6, <1>7, <1>8, <1>9, <1>10, <1>13

LEMMA StatusIsNumber ==
    ASSUME NEW status \in Statuses
    PROVE  status \in Nat
<1>1. status \in 100..999
  BY StatusAssumption
<1>. QED  BY <1>1

LEMMA ReadingIs ==
    ASSUME IInv, pc = "reading"
    PROVE  /\ Pending \in Exchange /\ Pending.step = "generation" /\ Pending.envelope = Nothing
           /\ Pending.status \in Nat /\ Success(Pending.status)
           /\ Pending.received \in Nat /\ Pending.received <= BodyLimit
           /\ Pending.id \in Nat \cup {Nothing} /\ name \in Providers
<1>1. pc \in Awaiting /\ pc # "probing"
  BY DEF Awaiting
<1>2. /\ Pending \in Exchange /\ Pending.step = "generation" /\ Pending.envelope = Nothing
      /\ name \in Providers
  BY <1>1, PendingIs
<1>3. Pending.received \in Nat /\ Pending.id \in Nat \cup {Nothing}
  BY <1>2 DEF Exchange
<1>4. Pending.status \in Statuses /\ Success(Pending.status) /\ Pending.received <= BodyLimit
  BY DEF IInv, Progress
<1>5. Pending.status \in Nat
  BY <1>4, StatusIsNumber
<1>. QED  BY <1>2, <1>3, <1>4, <1>5

LEMMA UsageIs ==
    ASSUME IInv, NEW tokens \in (SUBSET Sides) \cup {Nothing}, NEW id \in Nat \cup {Nothing}
    PROVE  LET usage == ResponseUsage(tokens, id)
           IN  /\ usage # Nothing
               /\ usage.latency = Elapsed /\ usage.tokens = tokens /\ usage.id = id
<1> DEFINE usage == ResponseUsage(tokens, id)
<1>1. usage = [latency |-> Elapsed, tokens |-> tokens, id |-> id]
  BY DEF ResponseUsage
<1>2. Elapsed \in Nat
  BY DEF IInv, Shape, Timed, Elapsed
<1> HIDE DEF usage
<1>3. usage \in Usages
  BY <1>1, <1>2 DEF Usages
<1>4. usage # Nothing
  BY <1>3, EvidenceAssumption
<1>5. usage.latency = Elapsed /\ usage.tokens = tokens /\ usage.id = id
  BY <1>1
<1>. QED  BY <1>4, <1>5 DEF usage

LEMMA UsageOf ==
    ASSUME IInv, NEW id \in Nat \cup {Nothing}
    PROVE  LET u == ResponseUsage(Nothing, id)
           IN  u # Nothing /\ u.latency = Elapsed /\ u.tokens = Nothing /\ u.id = id
BY UsageIs

LEMMA NoEnvelope ==
    ASSUME NEW e, e.envelope = Nothing
    PROVE  Extract(name, e.envelope) = Nothing /\ ~Natural(e)
BY DEF Extract, Natural

\* An attempt that got no response.
LEMMA UnansweredConcludes ==
    ASSUME IInv, pc = "posted", NEW kind \in {"provider_unavailable", "timeout"},
           Unanswered(kind)
    PROVE  \E e, outcome : Ends(e, outcome)
<1> DEFINE e == [Pending EXCEPT !.fate = "unanswered"]
           o == Outcome(kind, TRUE, Nothing, Nothing)
<1>1. /\ Pending \in Exchange /\ Pending.step = "generation" /\ Pending.envelope = Nothing
      /\ Pending.status = Nothing
  BY PendingIs DEF IInv, Progress, Awaiting
<1>2. /\ e \in Exchange /\ e.fate = "unanswered" /\ e.step = "generation"
      /\ e.envelope = Nothing /\ e.status = Nothing
  BY <1>1 DEF Exchange, Fates
<1>3. /\ o.kind = kind /\ o.retryable = TRUE /\ o.raw = Nothing /\ o.usage = Nothing
  BY DEF Outcome
<1>4. Exchanged(e) /\ AttemptEnds(o)
  BY DEF Unanswered
<1> HIDE DEF e, o
<1>5. Extract(name, e.envelope) = Nothing /\ ~Natural(e)
  BY <1>2, NoEnvelope
<1>6. kind \in Kinds /\ kind # Nothing
  BY NothingAssumption DEF Kinds
<1>7. Transient(e)
  BY <1>2 DEF Transient
<1>8. Concludes(e, o)
  BY <1>2, <1>3, <1>5, <1>6, <1>7 DEF Concludes
<1>. QED  BY <1>4, <1>8 DEF Ends

\* An attempt that ended with the head of a response, or with too much of a body.
LEMMA RejectedConcludes ==
    ASSUME IInv, pc \in {"posted", "reading"}, NEW response \in Exchange,
           response.step = "generation", response.envelope = Nothing,
           response.status \in Nat,
           NEW fate, NEW kind \in Kinds, NEW retryable \in BOOLEAN,
           \/ fate \in {"charset", "overflow"} /\ ~retryable
           \/ /\ fate = "refused"
              /\ retryable <=> response.status \in {429} \cup 500..599,
           Rejected(response, fate, kind, retryable)
    PROVE  \E e, outcome : Ends(e, outcome)
<1> DEFINE e == [response EXCEPT !.fate = fate]
           usage == ResponseUsage(Nothing, response.id)
           o == Outcome(kind, retryable, Nothing, usage)
<1>2. /\ e \in Exchange /\ e.fate = fate /\ e.step = "generation"
      /\ e.envelope = Nothing /\ e.status = response.status /\ e.id = response.id
  BY DEF Exchange, Fates
<1>3. response.id \in Nat \cup {Nothing}
  BY DEF Exchange
<1>4. usage # Nothing /\ usage.latency = Elapsed /\ usage.tokens = Nothing /\ usage.id = response.id
  <2>1. PICK id : id = response.id
    OBVIOUS
  <2>2. id \in Nat \cup {Nothing}
    BY <1>3, <2>1
  <2>3. LET u == ResponseUsage(Nothing, id)
        IN  /\ u # Nothing /\ u.latency = Elapsed /\ u.tokens = Nothing /\ u.id = id
    BY <2>2, UsageOf
  <2>. QED  BY <2>1, <2>3
<1> HIDE DEF usage
<1>5. /\ o.kind = kind /\ o.retryable = retryable /\ o.raw = Nothing /\ o.usage = usage
  BY DEF Outcome
<1>6. Exchanged(e) /\ AttemptEnds(o)
  BY DEF Rejected, usage
<1> HIDE DEF e, o
<1>7. Extract(name, e.envelope) = Nothing /\ ~Natural(e)
  BY <1>2, NoEnvelope
<1>8. kind # Nothing /\ e.status # Nothing
  BY <1>2, NothingAssumption
<1>9. Transient(e) <=> retryable
  BY <1>2 DEF Transient
<1>10. e.fate # "open"
  BY <1>2
<1>11. Concludes(e, o)
  BY <1>2, <1>4, <1>5, <1>7, <1>8, <1>9, <1>10 DEF Concludes
<1>. QED  BY <1>6, <1>11 DEF Ends

\* An attempt whose body was cut off.
LEMMA BrokenConcludes ==
    ASSUME IInv, pc = "reading", NEW kind \in {"provider_unavailable", "timeout"},
           BodyBreaks(kind)
    PROVE  \E e, outcome : Ends(e, outcome)
<1> DEFINE e == [Pending EXCEPT !.fate = "broken"]
           usage == ResponseUsage(Nothing, Pending.id)
<1>1. /\ Pending \in Exchange /\ Pending.step = "generation" /\ Pending.envelope = Nothing
      /\ Pending.status \in Nat /\ Pending.received <= BodyLimit
  BY ReadingIs
<1>2. /\ e \in Exchange /\ e.fate = "broken" /\ e.step = "generation"
      /\ e.envelope = Nothing /\ e.status \in Nat /\ e.id = Pending.id
      /\ e.received <= BodyLimit
  BY <1>1 DEF Exchange, Fates
<1>3. Pending.id \in Nat \cup {Nothing}
  BY <1>1 DEF Exchange
<1>4. usage # Nothing /\ usage.latency = Elapsed /\ usage.tokens = Nothing /\ usage.id = Pending.id
  BY <1>3, UsageIs
<1> HIDE DEF usage
<1>5. PICK utf8 \in BOOLEAN :
         LET partial == IF utf8 /\ Pending.received > 0 THEN Bytes(Pending.received) ELSE Nothing
         IN  AttemptEnds(Outcome(kind, TRUE, RawText(partial), usage))
  BY DEF BodyBreaks, usage
<1> DEFINE partial == IF utf8 /\ Pending.received > 0 THEN Bytes(Pending.received) ELSE Nothing
           raw == RawText(partial)
           o == Outcome(kind, TRUE, raw, usage)
<1>6. Exchanged(e) /\ AttemptEnds(o)
  BY <1>5 DEF BodyBreaks
<1>7. raw # Nothing => raw.try = Len(wire)
  BY DEF RawText
<1> HIDE DEF raw
<1>8. /\ o.kind = kind /\ o.retryable = TRUE /\ o.raw = raw /\ o.usage = usage
  BY DEF Outcome
<1> HIDE DEF e, o
<1>9. Extract(name, e.envelope) = Nothing /\ ~Natural(e)
  BY <1>2, NoEnvelope
<1>10. kind \in Kinds /\ kind # Nothing /\ e.status # Nothing
  BY <1>2, NothingAssumption DEF Kinds
<1>11. Transient(e)
  BY <1>2 DEF Transient
<1>12. Concludes(e, o)
  BY <1>2, <1>4, <1>7, <1>8, <1>9, <1>10, <1>11 DEF Concludes
<1>. QED  BY <1>6, <1>12 DEF Ends

\* An attempt whose body arrived.
LEMMA CompletedConcludes ==
    ASSUME IInv, BodyCompletes
    PROVE  \E e, outcome : Ends(e, outcome)
<1>0. pc = "reading"
  BY DEF BodyCompletes, At
<1>1. /\ Pending \in Exchange /\ Pending.step = "generation"
      /\ Pending.status \in Nat /\ Pending.received <= BodyLimit /\ name \in Providers
      /\ Pending.received \in Nat /\ Pending.id \in Nat \cup {Nothing}
  BY <1>0, ReadingIs
<1>2. PICK envelope \in Envelopes[name], utf8 \in BOOLEAN :
         /\ Exchanged([Pending EXCEPT !.envelope = envelope, !.fate = "complete"])
         /\ AttemptEnds(EnvelopeOutcome(envelope, utf8))
  BY DEF BodyCompletes
<1> DEFINE e == [Pending EXCEPT !.envelope = envelope, !.fate = "complete"]
           o == EnvelopeOutcome(envelope, utf8)
           x == Extract(name, envelope)
           body == IF utf8 THEN Bytes(Pending.received) ELSE Nothing
<1>3. /\ e \in Exchange /\ e.fate = "complete" /\ e.step = "generation"
      /\ e.envelope = envelope /\ e.status \in Nat /\ e.id = Pending.id
      /\ e.received <= BodyLimit
  <2>1. envelope \in {Nothing} \cup UNION {Envelopes[p] : p \in Providers}
    BY <1>1
  <2>. QED  BY <1>1, <2>1 DEF Exchange, Fates
<1> HIDE DEF e
<1>4. e.fate # "open" /\ e.status # Nothing /\ ~Transient(e)
  BY <1>3, NothingAssumption DEF Transient
<1>5. Natural(e) <=> x # Nothing /\ x.natural
  BY <1>3 DEF Natural
<1>6. x = Nothing \/ (x \in Extraction /\ (x.natural => x.text \in Texts))
  <2>1. CASE envelope = Nothing
    <3>1. x = Nothing
      BY <2>1 DEF Extract
    <3>. QED  BY <3>1
  <2>2. CASE envelope # Nothing
    <3>1. envelope \in EnvelopeType(name)
      BY <1>1, <1>2, <2>2, EnvelopeAssumption
    <3>2. FaithfulTo(x, ~Unobjected(envelope), OneObject(PartsOf(envelope)))
      BY <1>1, <2>2, <3>1, ExtractFaithful
    <3> HIDE DEF x
    <3>. QED  BY <3>2 DEF FaithfulTo
  <2>. QED  BY <2>1, <2>2
<1>7. CASE x = Nothing
  <2> DEFINE usage == ResponseUsage(Nothing, Pending.id)
             raw == RawText(body)
  <2>1. usage # Nothing /\ usage.latency = Elapsed /\ usage.tokens = Nothing /\ usage.id = Pending.id
    BY <1>1, UsageIs
  <2>2. raw # Nothing => raw.try = Len(wire)
    BY DEF RawText
  <2>3. o = Outcome("invalid_response", FALSE, raw, usage)
    BY <1>7 DEF EnvelopeOutcome
  <2> HIDE DEF usage, raw, o, x
  <2>4. o.kind = "invalid_response" /\ o.retryable = FALSE /\ o.raw = raw /\ o.usage = usage
    BY <2>3 DEF Outcome
  <2>5. "invalid_response" \in Kinds /\ "invalid_response" # Nothing
    BY NothingAssumption DEF Kinds
  <2>6. Extract(name, e.envelope) = Nothing
    BY <1>3, <1>7 DEF x
  <2>7. Concludes(e, o)
    BY <1>3, <1>4, <1>5, <1>7, <2>1, <2>2, <2>4, <2>5, <2>6 DEF Concludes
  <2>. QED  BY <1>0, <1>2, <2>7 DEF Ends, e, o
<1>8. CASE x # Nothing
  <2> DEFINE usage == ResponseUsage(x.tokens, Pending.id)
             raw == RawText(x.text)
             kind == IF x.natural THEN Nothing ELSE "invalid_response"
  <2>0. /\ x.natural \in BOOLEAN /\ x.tokens \in (SUBSET Sides) \cup {Nothing}
        /\ x.natural => x.text \in Texts
    BY <1>6, <1>8 DEF Extraction
  <2>1. usage # Nothing /\ usage.latency = Elapsed /\ usage.tokens = x.tokens /\ usage.id = Pending.id
    BY <1>1, <2>0, UsageIs
  <2>2. raw # Nothing => raw.try = Len(wire)
    BY DEF RawText
  <2>3. x.natural => raw # Nothing /\ raw.text = x.text
    <3> SUFFICES ASSUME x.natural PROVE raw # Nothing /\ raw.text = x.text
      OBVIOUS
    <3>1. x.text \in Texts /\ x.text # Nothing
      BY <2>0, NothingAssumption
    <3>2. raw = [try |-> Len(wire), text |-> x.text]
      BY <3>1 DEF RawText
    <3>3. Len(wire) \in Nat
      BY <1>0, PendingIs DEF Awaiting
    <3> HIDE DEF raw
    <3>4. raw \in RawTexts
      BY <3>1, <3>2, <3>3 DEF RawTexts
    <3>5. raw.text = x.text
      BY <3>2
    <3>. QED  BY <3>4, <3>5, EvidenceAssumption
  <2>4. o = Outcome(kind, FALSE, raw, usage)
    BY <1>8 DEF EnvelopeOutcome
  <2>5. kind \in Kinds \cup {Nothing} /\ (kind = Nothing <=> x.natural)
    <3>1. "invalid_response" \in Kinds
      BY DEF Kinds
    <3>. QED  BY <2>0, <3>1, NothingAssumption
  <2>6. x = Extract(name, e.envelope)
    BY <1>3
  <2> HIDE DEF usage, raw, kind, o, x
  <2>7. o.kind = kind /\ o.retryable = FALSE /\ o.raw = raw /\ o.usage = usage
    BY <2>4 DEF Outcome
  <2>8. Concludes(e, o)
    BY <1>3, <1>4, <1>5, <1>8, <2>1, <2>2, <2>3, <2>5, <2>6, <2>7 DEF Concludes
  <2>. QED  BY <1>0, <1>2, <2>8 DEF Ends, e, o
<1>. QED  BY <1>7, <1>8

-----------------------------------------------------------------------------
(***************************************************************************)
(* Rows end to end.                                                        *)
(***************************************************************************)

LEMMA NoRowsFit ==
    ASSUME NEW span \in Nat
    PROVE  EndToEnd(<<>>, span)
<1> DEFINE ends == [i \in 0..0 |-> 0]
<1>1. Len(<<>>) = 0 /\ DOMAIN <<>> = {}
  OBVIOUS
<1>2. ends \in [0..0 -> 0..span] /\ ends[0] = 0
  OBVIOUS
<1> HIDE DEF ends
<1>3. \A i \in DOMAIN <<>> : ends[i] = ends[i - 1] + <<>>[i].duration
  BY <1>1
<1>. QED  BY <1>1, <1>2, <1>3 DEF EndToEnd

LEMMA RowsStillFit ==
    ASSUME NEW rows, NEW span \in Nat, NEW wider \in Nat, span <= wider, EndToEnd(rows, span)
    PROVE  EndToEnd(rows, wider)
<1>1. PICK ends \in [0..Len(rows) -> 0..span] :
         ends[0] = 0 /\ \A i \in DOMAIN rows : ends[i] = ends[i - 1] + rows[i].duration
  BY DEF EndToEnd
<1>2. ends \in [0..Len(rows) -> 0..wider]
  OBVIOUS
<1>. QED  BY <1>1, <1>2 DEF EndToEnd

LEMMA RowFits ==
    ASSUME NEW R, NEW rows \in Seq(R), NEW row \in R, row.duration \in Nat,
           NEW span \in Nat, NEW wider \in Nat, span + row.duration <= wider,
           EndToEnd(rows, span)
    PROVE  EndToEnd(Append(rows, row), wider)
<1>1. PICK ends \in [0..Len(rows) -> 0..span] :
         ends[0] = 0 /\ \A i \in DOMAIN rows : ends[i] = ends[i - 1] + rows[i].duration
  BY DEF EndToEnd
<1> DEFINE more == Append(rows, row)
           n == Len(rows)
           last == [i \in 0..(n + 1) |-> IF i <= n THEN ends[i] ELSE ends[n] + row.duration]
<1>2. /\ n \in Nat /\ DOMAIN rows = 1..n
      /\ Len(more) = n + 1 /\ DOMAIN more = 1..(n + 1)
      /\ \A i \in 1..n : more[i] = rows[i]
      /\ more[n + 1] = row
  BY LenProperties, AppendProperties
<1> HIDE DEF more, n
<1>0. n = Len(rows)
  BY DEF n
<1>3. \A i \in 0..n : ends[i] \in 0..span
  BY <1>0, <1>1
<1>4. last \in [0..(n + 1) -> 0..wider]
  <2>1. ASSUME NEW i \in 0..(n + 1)
        PROVE  (IF i <= n THEN ends[i] ELSE ends[n] + row.duration) \in 0..wider
    <3>1. CASE i <= n
      <4>1. i \in 0..n
        BY <1>2, <3>1
      <4>2. ends[i] \in 0..span /\ span <= wider
        BY <1>3, <4>1
      <4>. QED  BY <3>1, <4>2
    <3>2. CASE ~(i <= n)
      <4>1. PICK before, duration : before = ends[n] /\ duration = row.duration
        OBVIOUS
      <4>2. before \in 0..span /\ duration \in Nat /\ span + duration <= wider
        BY <1>2, <1>3, <4>1
      <4>3. before + duration \in 0..wider
        BY <4>2
      <4>. QED  BY <3>2, <4>1, <4>3
    <3>. QED  BY <3>1, <3>2
  <2>. QED  BY <2>1
<1>5. last[0] = 0
  BY <1>1, <1>2
<1>6. ASSUME NEW i \in 1..(n + 1)
      PROVE  last[i] = last[i - 1] + more[i].duration
  <2>1. CASE i \in 1..n
    <3>1. i - 1 \in 0..(n + 1) /\ i - 1 <= n /\ i <= n /\ i \in 0..(n + 1)
      BY <1>2, <2>1
    <3>2. last[i] = ends[i] /\ last[i - 1] = ends[i - 1]
      BY <3>1
    <3>. QED  BY <1>1, <1>2, <2>1, <3>2
  <2>2. CASE i = n + 1
    <3>1. i - 1 = n /\ n \in 0..(n + 1) /\ n <= n /\ ~(i <= n)
      BY <1>2, <2>2
    <3>2. last[i] = ends[n] + row.duration /\ last[i - 1] = ends[n]
      BY <2>2, <3>1
    <3>. QED  BY <1>2, <2>2, <3>2
  <2>. QED  BY <1>2, <2>1, <2>2
<1> HIDE DEF last
<1>. QED
  <2>1. last \in [0..Len(more) -> 0..wider]
    BY <1>2, <1>4
  <2>2. \A i \in DOMAIN more : last[i] = last[i - 1] + more[i].duration
    BY <1>2, <1>6
  <2>. QED  BY <1>5, <2>1, <2>2 DEF EndToEnd, more

-----------------------------------------------------------------------------
(***************************************************************************)
(* The invariant, step by step.                                            *)
(***************************************************************************)

\* The exchanges after the last one changed.
LEMMA Replaced ==
    ASSUME IInv, pc \in Awaiting, NEW e \in Exchange, Exchanged(e),
           name' = name, prepared' = prepared
    PROVE  /\ wire' \in Seq(Exchange')
           /\ Len(wire') = Len(wire) /\ DOMAIN wire' = 1..Len(wire)
           /\ wire'[Len(wire)] = e
           /\ \A i \in 1..Len(wire) : i # Len(wire) => wire'[i] = wire[i]
<1> DEFINE S == Exchange
<1>1. Len(wire) \in Nat /\ Len(wire) # 0 /\ DOMAIN wire = 1..Len(wire)
  BY PendingIs
<1>2. wire \in Seq(S)
  BY DEF IInv, Shape
<1>3. wire' = [wire EXCEPT ![Len(wire)] = e]
  BY DEF Exchanged
<1>4. S' = S
  BY DEF Exchange
<1> HIDE DEF S
<1>5. Len(wire) \in 1..Len(wire)
  BY <1>1
<1>6. /\ wire' \in Seq(S) /\ Len(wire') = Len(wire)
      /\ \A i \in 1..Len(wire) : wire'[i] = IF i = Len(wire) THEN e ELSE wire[i]
  <2>1. PICK w : w = [wire EXCEPT ![Len(wire)] = e]
    OBVIOUS
  <2>2. e \in S
    BY DEF S
  <2>3. w \in Seq(S) /\ Len(w) = Len(wire)
        /\ \A i \in 1..Len(wire) : w[i] = IF i = Len(wire) THEN e ELSE wire[i]
    BY <1>2, <1>5, <2>1, <2>2, ExceptSeq
  <2>. QED  BY <1>3, <2>1, <2>3
<1>7. DOMAIN wire' = 1..Len(wire)
  <2>1. DOMAIN wire' = DOMAIN wire
    BY <1>3
  <2>. QED  BY <1>1, <2>1
<1>. QED  BY <1>4, <1>5, <1>6, <1>7 DEF S

\* What the caller gets when an exchange closes the call.
LEMMA ClosedIs ==
    ASSUME NEW e, NEW outcome, Concludes(e, outcome)
    PROVE  LET answer == Closed(outcome)
           IN  /\ answer.retryable = outcome.retryable
               /\ answer.usage = outcome.usage /\ answer.raw = outcome.raw
               /\ answer.ok <=> Natural(e) /\ IsObject(Extract(name, e.envelope).text)
<1> DEFINE answer == Closed(outcome)
<1>1. CASE outcome.kind # Nothing
  <2>1. answer = [ok |-> FALSE, kind |-> outcome.kind, retryable |-> outcome.retryable,
                  identified |-> TRUE, raw |-> outcome.raw, usage |-> outcome.usage]
    BY <1>1 DEF Closed, Error
  <2> HIDE DEF answer
  <2>2. ~Natural(e)
    BY <1>1 DEF Concludes
  <2>3. /\ answer.ok = FALSE /\ answer.retryable = outcome.retryable
        /\ answer.usage = outcome.usage /\ answer.raw = outcome.raw
    BY <2>1
  <2>. QED  BY <2>2, <2>3 DEF answer
<1>2. CASE outcome.kind = Nothing
  <2>1. Natural(e) /\ outcome.raw.text = Extract(name, e.envelope).text
    BY <1>2 DEF Concludes
  <2>2. e.envelope # Nothing
    BY <2>1, NoEnvelope
  <2>3. ~Transient(e)
    BY <2>2 DEF Concludes, Transient
  <2>4. outcome.retryable = FALSE
    BY <2>3 DEF Concludes
  <2>5. CASE IsObject(outcome.raw.text)
    <3>1. answer = [ok |-> TRUE, kind |-> Nothing, retryable |-> FALSE, identified |-> TRUE,
                    raw |-> outcome.raw, usage |-> outcome.usage]
      BY <1>2, <2>5 DEF Closed
    <3> HIDE DEF answer
    <3>2. /\ answer.ok = TRUE /\ answer.retryable = FALSE
          /\ answer.usage = outcome.usage /\ answer.raw = outcome.raw
      BY <3>1
    <3>. QED  BY <2>1, <2>4, <2>5, <3>2 DEF answer
  <2>6. CASE ~IsObject(outcome.raw.text)
    <3>1. answer = [ok |-> FALSE, kind |-> "invalid_response", retryable |-> FALSE,
                    identified |-> TRUE, raw |-> outcome.raw, usage |-> outcome.usage]
      BY <1>2, <2>6 DEF Closed, Error
    <3> HIDE DEF answer
    <3>2. /\ answer.ok = FALSE /\ answer.retryable = FALSE
          /\ answer.usage = outcome.usage /\ answer.raw = outcome.raw
      BY <3>1
    <3>. QED  BY <2>1, <2>4, <2>6, <3>2 DEF answer
  <2>. QED  BY <2>5, <2>6
<1>. QED  BY <1>1, <1>2

\* However an attempt ends, it leaves a row for its exchange; then it is made
\* again, or the call is answered from it.
LEMMA EndsPreserves ==
    ASSUME IInv, NEW e, NEW outcome, Ends(e, outcome)
    PROVE  IInv'
<1> DEFINE n == Len(wire)
           k == Len(attempts)
           row == [success |-> outcome.kind = Nothing, kind |-> outcome.kind,
                   retryable |-> outcome.retryable, duration |-> Span]
<1>0. pc \in {"posted", "reading"} /\ pc \in Awaiting /\ pc # "probing"
  BY DEF Ends, Awaiting
<1>1. Concludes(e, outcome) /\ e \in Exchange
  BY DEF Ends, Concludes
<1>2. /\ name' = name /\ begun' = begun /\ prepared' = prepared /\ now' = now
      /\ opened' = opened /\ attempts' = Append(attempts, row)
      /\ \/ outcome.retryable /\ k + 1 < MaxAttempts /\ pc' = "attempt"
         \/ /\ ~(outcome.retryable /\ k + 1 < MaxAttempts)
            /\ pc' = "returned" /\ result' = Closed(outcome)
  BY DEF Ends, AttemptEnds, RetriesLeft, Returns, Goto, call
<1>3. /\ n \in Nat /\ n # 0 /\ DOMAIN wire = 1..n /\ name \in Providers
      /\ k \in Nat /\ Probes \in {0, 1} /\ n = Probes + k + 1 /\ k < MaxAttempts
      /\ MaxAttempts = 2 /\ Probes = IF name = "ollama" THEN 1 ELSE 0
  <2>1. k \in Nat
    BY LenProperties DEF IInv, Shape
  <2>2. Probes \in {0, 1} /\ MaxAttempts = 2 /\ Probes = IF name = "ollama" THEN 1 ELSE 0
    BY DEF Probes, MaxAttempts
  <2>3. n = Probes + k + 1 /\ k < MaxAttempts
    BY <1>0 DEF IInv, Counted
  <2>. QED  BY <1>0, <2>1, <2>2, <2>3, PendingIs
<1>4. /\ wire' \in Seq(Exchange') /\ Len(wire') = n /\ DOMAIN wire' = 1..n
      /\ wire'[n] = e /\ \A i \in 1..n : i # n => wire'[i] = wire[i]
  BY <1>0, <1>1, <1>2, Replaced DEF Ends
<1>5. /\ now \in Nat /\ begun \in Nat /\ opened \in Nat /\ begun <= now /\ opened <= now
      /\ begun <= opened /\ Span = now - opened /\ Span <= Timeout
      /\ opened - begun <= (n - 1) * Timeout /\ EndToEnd(attempts, opened - begun)
      /\ Timeout \in Nat /\ Elapsed = now - begun
  BY <1>0, TimeoutAssumption DEF IInv, Shape, Timed, Span, Elapsed
<1>6. row \in Row
  <2>1. Span \in Nat
    BY <1>5
  <2>2. outcome.kind \in Kinds \cup {Nothing} /\ outcome.retryable \in BOOLEAN
    BY <1>1 DEF Concludes
  <2>. QED  BY <2>1, <2>2 DEF Row
<1>7. /\ row.success = (outcome.kind = Nothing) /\ row.retryable = outcome.retryable
      /\ row.duration = Span
  OBVIOUS
<1> HIDE DEF row
<1>8. /\ attempts \in Seq(Row) /\ attempts' \in Seq(Row) /\ Len(attempts') = k + 1
      /\ DOMAIN attempts = 1..k /\ DOMAIN attempts' = 1..(k + 1)
      /\ \A i \in 1..k : attempts'[i] = attempts[i]
      /\ attempts'[k + 1] = row
  <2> DEFINE R == Row
  <2>1. attempts \in Seq(R) /\ row \in R
    BY <1>6 DEF IInv, Shape
  <2> HIDE DEF R
  <2>2. DOMAIN attempts = 1..k
    BY <2>1, LenProperties
  <2>3. PICK a : a = Append(attempts, row)
    OBVIOUS
  <2>4. /\ a \in Seq(R) /\ Len(a) = k + 1
        /\ \A i \in 1..k : a[i] = attempts[i]
        /\ a[k + 1] = row
    BY <2>1, <2>3, AppendProperties
  <2>5. DOMAIN a = 1..(k + 1)
    BY <2>4, LenProperties
  <2>. QED  BY <1>2, <2>1, <2>2, <2>3, <2>4, <2>5 DEF R
<1> HIDE DEF n, k
<1>10. pc' \in {"attempt", "returned"}
  BY <1>2
<1>11. Shape'
  <2>1. name' \in Names /\ pc' \in Points
    BY <1>2, <1>10 DEF IInv, Shape, Points, Finished
  <2>2. now' \in Nat /\ begun' \in Nat /\ opened' \in Nat
    BY <1>2, <1>5
  <2>3. name' \in Providers
    BY <1>2, <1>3
  <2>4. Row' = Row
    BY DEF Row
  <2>. QED  BY <1>4, <1>8, <2>1, <2>2, <2>3, <2>4 DEF Shape
<1>12. Probes' = Probes
  BY <1>2 DEF Probes
<1>13. Counted'
  <2>1. Len(wire') = Probes' + Len(attempts')
    BY <1>3, <1>4, <1>8, <1>12
  <2>2. Len(attempts') \in 1..MaxAttempts
    BY <1>3, <1>8
  <2>3. pc' = "attempt" => Len(attempts') < MaxAttempts
    BY <1>2, <1>8
  <2>. QED  BY <1>10, <2>1, <2>2, <2>3 DEF Counted, Early
<1>14. ProbedFirst'
  <2>1. ASSUME NEW i \in 1..n PROVE wire'[i].step = "preflight" <=> i <= Probes
    <3>1. CASE i = n
      <4>1. e.step # "preflight"
        BY <1>1 DEF Concludes
      <4>2. ~(i <= Probes)
        BY <1>3, <3>1
      <4>. QED  BY <1>4, <3>1, <4>1, <4>2
    <3>2. CASE i # n
      <4>1. wire[i].step = "preflight" <=> i <= Probes
        BY <1>3 DEF IInv, ProbedFirst
      <4>. QED  BY <1>4, <3>2, <4>1
    <3>. QED  BY <3>1, <3>2
  <2>2. name = "ollama" => Success(wire'[1].status)
    <3>1. SUFFICES ASSUME name = "ollama" PROVE Success(wire'[1].status)
      OBVIOUS
    <3>2. Success(wire[1].status)
      BY <1>0, <3>1 DEF IInv, ProbedFirst
    <3>3. 1 \in 1..n /\ 1 # n
      BY <1>3, <3>1
    <3>. QED  BY <1>4, <3>2, <3>3
  <2>. QED  BY <1>2, <1>4, <1>12, <2>1, <2>2 DEF ProbedFirst
<1>15. OnlyLastOpen'
  <2>1. ASSUME NEW i \in 1..n
        PROVE  /\ wire'[i].fate # "open"
               /\ wire'[i].envelope # Nothing =>
                     wire'[i].fate = "complete" /\ wire'[i].envelope \in Envelopes[name]
    <3>1. CASE i = n
      BY <1>1, <1>4, <3>1 DEF Concludes
    <3>2. CASE i # n
      <4>1. /\ wire[i].fate = "open" <=> i = Len(wire)
            /\ wire[i].envelope # Nothing =>
                     wire[i].fate = "complete" /\ wire[i].envelope \in Envelopes[name]
        BY <1>0, <1>3 DEF IInv, OnlyLastOpen
      <4>. QED  BY <1>4, <3>2, <4>1 DEF n
    <3>. QED  BY <3>1, <3>2
  <2>2. pc' \notin Awaiting \cup {"dropped"}
    BY <1>10 DEF Awaiting
  <2>. QED  BY <1>2, <1>4, <2>1, <2>2 DEF OnlyLastOpen
<1>16. Progress'
  BY <1>10 DEF Progress
<1>17. RowsMatch'
  <2>1. ASSUME NEW i \in 1..(k + 1)
        PROVE  /\ Probes + i \in 1..n
               /\ attempts'[i].success <=> Natural(wire[Probes + i])'
               /\ attempts'[i].retryable <=> Transient(wire'[Probes + i])
               /\ pc' # "returned" \/ i < k + 1 => attempts'[i].retryable
    <3>0. Probes + i \in 1..n
      BY <1>3
    <3>1. CASE i = k + 1
      <4>1. Probes + i = n
        BY <1>3, <3>1
      <4>2. attempts'[i] = row /\ wire'[Probes + i] = e
        BY <1>4, <1>8, <3>1, <4>1
      <4>3. Natural(wire[Probes + i])' <=> Natural(e)
        BY <1>2, <1>12, <4>2 DEF Natural
      <4>4. row.success <=> Natural(e)
        BY <1>1, <1>7 DEF Concludes
      <4>5. row.retryable <=> Transient(e)
        BY <1>1, <1>7 DEF Concludes
      <4>6. pc' # "returned" \/ i < k + 1 => row.retryable
        BY <1>2, <1>3, <1>7, <3>1
      <4>. QED  BY <3>0, <4>2, <4>3, <4>4, <4>5, <4>6
    <3>2. CASE i \in 1..k
      <4>1. Probes + i # n
        BY <1>3, <3>2
      <4>2. attempts'[i] = attempts[i] /\ wire'[Probes + i] = wire[Probes + i]
        BY <1>4, <1>8, <3>0, <3>2, <4>1
      <4>3. /\ attempts[i].success <=> Natural(wire[Probes + i])
            /\ attempts[i].retryable <=> Transient(wire[Probes + i])
            /\ pc # "returned" => attempts[i].retryable
        BY <1>8, <3>2 DEF IInv, RowsMatch
      <4>4. Natural(wire[Probes + i])' <=> Natural(wire[Probes + i])
        BY <1>2, <1>12, <4>2 DEF Natural
      <4>5. pc # "returned"
        BY <1>0
      <4>. QED  BY <3>0, <4>2, <4>3, <4>4, <4>5
    <3>. QED  BY <1>3, <3>1, <3>2
  <2>. QED  BY <1>4, <1>8, <1>12, <2>1 DEF RowsMatch
<1>18. Usable'
  <2>1. pc \notin {"invoke", "discover", "discovering", "returned"}
    BY <1>0
  <2>. QED  BY <1>2, <2>1 DEF IInv, Usable
<1>19. Timed'
  <2>1. Elapsed' = Elapsed /\ Elapsed \in Nat
    BY <1>2, <1>5 DEF Elapsed
  <2>2. Elapsed <= n * Timeout
    <3>1. (n - 1) * Timeout + Timeout = n * Timeout
      BY <1>3, <1>5
    <3>2. (n - 1) * Timeout \in Int /\ n * Timeout \in Int
      BY <1>3, <1>5
    <3>. QED  BY <1>5, <3>1, <3>2
  <2>3. EndToEnd(attempts, Elapsed)'
    <3>1. PICK span : span = opened - begun
      OBVIOUS
    <3>2. span \in Nat /\ span + row.duration <= Elapsed /\ row.duration \in Nat
      BY <1>5, <1>7, <3>1
    <3>3. EndToEnd(attempts, span)
      BY <1>5, <3>1
    <3>4. EndToEnd(Append(attempts, row), Elapsed)
      BY <1>6, <1>8, <2>1, <3>2, <3>3, RowFits
    <3>5. PICK elapsed : elapsed = Elapsed
      OBVIOUS
    <3>6. PICK rows : rows = Append(attempts, row)
      OBVIOUS
    <3>7. EndToEnd(rows, elapsed)
      BY <3>4, <3>5, <3>6
    <3>8. attempts' = rows /\ Elapsed' = elapsed
      BY <1>2, <2>1, <3>5, <3>6
    <3>. QED  BY <3>7, <3>8 DEF EndToEnd
  <2>4. \A i \in 1..(k + 1) : attempts'[i].duration <= Timeout
    <3>1. \A i \in 1..k : attempts[i].duration <= Timeout
      BY <1>8 DEF IInv, Timed
    <3>2. row.duration <= Timeout
      BY <1>5, <1>7
    <3>3. \A i \in 1..(k + 1) : i \in 1..k \/ i = k + 1
      BY <1>3
    <3>. QED  BY <1>8, <3>1, <3>2, <3>3
  <2>5. begun' <= now' /\ opened' <= now' /\ pc' \notin Awaiting
    BY <1>2, <1>5, <1>10 DEF Awaiting
  <2>6. Elapsed' <= Len(wire') * Timeout
    BY <1>4, <2>1, <2>2
  <2>. QED  BY <1>8, <2>3, <2>4, <2>5, <2>6 DEF Timed
<1>20. Answered'
  <2>1. SUFFICES ASSUME pc' = "returned" PROVE Answered'
    BY DEF Answered
  <2>2. result' = Closed(outcome) /\ ~(outcome.retryable /\ k + 1 < MaxAttempts)
    BY <1>2, <2>1
  <2>3. /\ result'.retryable = outcome.retryable
        /\ result'.usage = outcome.usage /\ result'.raw = outcome.raw
        /\ result'.ok <=> Natural(e) /\ IsObject(Extract(name, e.envelope).text)
    BY <1>1, <2>2, ClosedIs
  <2>4. wire' # <<>>
    <3>1. Len(<<>>) = 0
      OBVIOUS
    <3>. QED  BY <1>3, <1>4, <3>1
  <2>5. AnswerOf(wire[Len(wire)], result)'
    <3>1. wire'[Len(wire')] = e /\ Len(wire') = Len(wire)
      BY <1>4 DEF n
    <3>2. Natural(wire[Len(wire)])' <=> Natural(e)
      BY <1>2, <3>1 DEF Natural
    <3>3. Elapsed' = Elapsed
      BY <1>2 DEF Elapsed
    <3>4. /\ (outcome.usage # Nothing) <=> (e.status # Nothing)
          /\ outcome.usage # Nothing =>
                /\ outcome.usage.id = e.id
                /\ outcome.usage.tokens = IF Extract(name, e.envelope) = Nothing THEN Nothing
                                          ELSE Extract(name, e.envelope).tokens
                /\ outcome.usage.latency = Elapsed
      BY <1>1 DEF Concludes
    <3>5. /\ outcome.raw # Nothing =>
                /\ outcome.raw.try = Len(wire)
                /\ e.step = "generation" /\ e.fate \in {"broken", "complete"}
                /\ e.received <= BodyLimit
          /\ Natural(e) => outcome.raw # Nothing
      BY <1>1 DEF Concludes
    <3>. QED  BY <1>2, <2>3, <3>1, <3>2, <3>3, <3>4, <3>5 DEF AnswerOf
  <2>6. attempts' # <<>> /\ attempts'[Len(attempts')].retryable = outcome.retryable
    <3>1. Len(<<>>) = 0 /\ k + 1 # 0
      BY <1>3
    <3>. QED  BY <1>7, <1>8, <3>1
  <2>7. outcome.retryable => Len(attempts') = MaxAttempts
    BY <1>3, <1>8, <2>2
  <2>. QED  BY <2>3, <2>4, <2>5, <2>6, <2>7 DEF Answered
<1>. QED  BY <1>11, <1>13, <1>14, <1>15, <1>16, <1>17, <1>18, <1>19, <1>20 DEF IInv

\* Before anything is sent, a step goes on or answers with an error.
LEMMA EarlyPreserves ==
    ASSUME IInv, pc \in Early \cup {"build"}, pc # "preflight",
           name' = name, wire' = wire, attempts' = attempts, opened' = opened, now' = now,
           \/ pc = "invoke" /\ begun' = now
           \/ pc # "invoke" /\ begun' = begun,
           prepared' = prepared \/ pc = "discovering",
           \/ /\ pc' = "returned" /\ pc # "build"
              /\ result'.retryable = FALSE /\ result'.usage = Nothing /\ result'.raw = Nothing
           \/ /\ pc' \in {"discover", "discovering"} /\ pc # "build" /\ name \in Providers
           \/ /\ pc' \in {"preflight", "build"} /\ pc = "discovering"
              /\ pc' = "preflight" <=> name = "ollama"
              /\ prepared'.key # "malformed" /\ prepared'.base \notin {"malformed", "ends_in_api"}
              /\ prepared'.key = "unset" => name = "ollama"
           \/ pc' = "attempt" /\ pc = "build"
    PROVE  IInv'
<1>1. /\ attempts = <<>> /\ Len(attempts) = 0 /\ DOMAIN attempts = {}
      /\ pc # "build" => wire = <<>> /\ Len(wire) = 0
      /\ pc = "build" => Len(wire) = Probes
  <2>1. attempts = <<>> /\ (pc # "build" => wire = <<>>) /\ (pc = "build" => Len(wire) = Probes)
    BY DEF IInv, Counted
  <2>. QED  BY <2>1
<1>2. /\ Len(wire) \in Nat /\ DOMAIN wire = 1..Len(wire) /\ MaxAttempts = 2
      /\ Probes' = Probes /\ Probes = IF name = "ollama" THEN 1 ELSE 0
  BY LenProperties DEF IInv, Shape, MaxAttempts, Probes
<1>3. pc' \in {"returned", "discover", "discovering", "preflight", "build", "attempt"}
  OBVIOUS
<1>4. Shape'
  <2>1. pc' \in Points
    BY <1>3 DEF Points, Early, Finished
  <2>2. now' \in Nat /\ begun' \in Nat /\ opened' \in Nat /\ name' \in Names
    BY DEF IInv, Shape
  <2>3. wire' \in Seq(Exchange')
    <3>1. CASE pc = "build"
      <4>1. Exchange' = Exchange
        BY <3>1 DEF Exchange
      <4>. QED  BY <4>1 DEF IInv, Shape
    <3>2. CASE pc # "build"
      BY <1>1, <3>2
    <3>. QED  BY <3>1, <3>2
  <2>4. attempts' \in Seq(Row')
    BY DEF IInv, Shape, Row
  <2>5. pc' \notin {"invoke", "returned"} \/ wire' # <<>> => name' \in Providers
    <3>1. pc # "invoke" => name \in Providers
      BY DEF IInv, Shape, Early
    <3>. QED  BY <1>1, <3>1
  <2>. QED  BY <2>1, <2>2, <2>3, <2>4, <2>5 DEF Shape
<1>5. Counted'
  BY <1>1, <1>2 DEF Counted, Early
<1>6. ProbedFirst'
  <2>1. \A i \in DOMAIN wire : wire[i].step = "preflight" <=> i <= Probes
    BY DEF IInv, ProbedFirst
  <2>2. Len(wire') <= 1
    BY <1>1, <1>2
  <2>3. pc' \in {"build", "attempt"} => (name = "ollama" => Success(wire'[1].status))
    <3>1. CASE pc = "build"
      BY <3>1 DEF IInv, ProbedFirst
    <3>2. CASE pc # "build"
      BY <3>2
    <3>. QED  BY <3>1, <3>2
  <2>4. ~(Len(wire') > 1) /\ pc' \notin {"posted", "reading"}
    BY <1>1, <1>2, <1>3, <2>2
  <2>. QED  BY <1>2, <2>1, <2>3, <2>4 DEF ProbedFirst
<1>7. OnlyLastOpen'
  <2>1. pc \notin Awaiting \cup {"dropped"} /\ pc' \notin Awaiting \cup {"dropped"}
    BY <1>3 DEF Awaiting, Early
  <2>. QED  BY <2>1 DEF IInv, OnlyLastOpen
<1>8. Progress'
  BY <1>3 DEF Progress
<1>9. RowsMatch'
  BY <1>1 DEF RowsMatch
<1>10. Usable'
  <2>1. CASE pc = "build"
    <3>1. prepared' = prepared
      BY <2>1
    <3>. QED  BY <2>1, <3>1 DEF IInv, Usable
  <2>2. CASE pc # "build"
    BY <1>1, <2>2 DEF Usable
  <2>. QED  BY <2>1, <2>2
<1>11. Timed'
  <2>1. /\ now \in Nat /\ begun \in Nat /\ begun <= now /\ opened <= now /\ Timeout \in Nat
    BY TimeoutAssumption DEF IInv, Shape, Timed
  <2>2. begun' <= now' /\ opened' <= now' /\ Elapsed' \in Nat
    BY <2>1 DEF Elapsed
  <2>3. Elapsed' <= Len(wire') * Timeout
    <3>1. CASE pc = "invoke"
      <4>1. Elapsed' = 0 /\ Len(wire') = 0
        BY <1>1, <2>1, <3>1 DEF Elapsed
      <4>. QED  BY <2>1, <4>1
    <3>2. CASE pc # "invoke"
      <4>1. Elapsed <= Len(wire) * Timeout
        BY <3>2 DEF IInv, Timed, Awaiting, Early
      <4>2. Elapsed' = Elapsed
        BY <3>2 DEF Elapsed
      <4>. QED  BY <4>1, <4>2
    <3>. QED  BY <3>1, <3>2
  <2>4. EndToEnd(attempts, Elapsed)'
    <3>1. PICK elapsed : elapsed = Elapsed'
      OBVIOUS
    <3>2. EndToEnd(<<>>, elapsed)
      BY <2>2, <3>1, NoRowsFit
    <3>. QED  BY <1>1, <3>1, <3>2 DEF EndToEnd
  <2>5. pc' \notin Awaiting
    BY <1>3 DEF Awaiting
  <2>. QED  BY <1>1, <2>2, <2>3, <2>4, <2>5 DEF Timed
<1>12. Answered'
  <2>1. SUFFICES ASSUME pc' = "returned" PROVE Answered'
    BY DEF Answered
  <2>2. /\ result'.retryable = FALSE /\ result'.usage = Nothing /\ result'.raw = Nothing
        /\ pc # "build"
    BY <2>1
  <2>. QED  BY <1>1, <2>2 DEF Answered
<1>. QED  BY <1>4, <1>5, <1>6, <1>7, <1>8, <1>9, <1>10, <1>11, <1>12 DEF IInv

\* A request goes out: the preflight, or the one of an attempt.
LEMMA PostsPreserves ==
    ASSUME IInv, NEW step, Posts(step, prepared),
           \/ pc = "preflight" /\ step = "preflight" /\ pc' = "probing"
           \/ pc = "attempt" /\ step = "generation" /\ pc' = "posted",
           name' = name, begun' = begun, prepared' = prepared, now' = now,
           attempts' = attempts
    PROVE  IInv'
<1> DEFINE n == Len(wire)
           k == Len(attempts)
           e == [step |-> step, request |-> prepared, status |-> Nothing, id |-> Nothing,
                 received |-> 0, envelope |-> Nothing, fate |-> "open"]
<1>1. wire' = Append(wire, e) /\ opened' = now
  BY DEF Posts
<1>2. e \in Exchange
  BY DEF Exchange, Fates
<1>3. /\ e.step = step /\ e.status = Nothing /\ e.id = Nothing /\ e.received = 0
      /\ e.envelope = Nothing /\ e.fate = "open"
  OBVIOUS
<1> HIDE DEF e
<1>4. /\ n \in Nat /\ DOMAIN wire = 1..n /\ k \in Nat /\ DOMAIN attempts = 1..k
      /\ MaxAttempts = 2 /\ Probes \in {0, 1} /\ Probes' = Probes
      /\ Probes = IF name = "ollama" THEN 1 ELSE 0
  BY LenProperties DEF IInv, Shape, MaxAttempts, Probes
<1>5. /\ wire' \in Seq(Exchange') /\ Len(wire') = n + 1 /\ DOMAIN wire' = 1..(n + 1)
      /\ \A i \in 1..n : wire'[i] = wire[i]
      /\ wire'[n + 1] = e
  <2> DEFINE S == Exchange
  <2>1. wire \in Seq(S) /\ e \in S
    BY <1>2 DEF IInv, Shape
  <2>2. S' = S
    BY DEF Exchange
  <2> HIDE DEF S
  <2>3. PICK w : w = Append(wire, e)
    OBVIOUS
  <2>4. /\ w \in Seq(S) /\ Len(w) = n + 1
        /\ \A i \in 1..n : w[i] = wire[i]
        /\ w[n + 1] = e
    BY <2>1, <2>3, AppendProperties
  <2>5. DOMAIN w = 1..(n + 1)
    BY <2>4, LenProperties
  <2>. QED  BY <1>1, <2>2, <2>3, <2>4, <2>5 DEF S
<1>6. /\ pc = "preflight" => n = 0 /\ k = 0 /\ name = "ollama" /\ attempts = <<>>
      /\ pc = "attempt" => n = Probes + k /\ k < MaxAttempts
  <2>1. Len(<<>>) = 0
    OBVIOUS
  <2>2. CASE pc = "preflight"
    BY <2>1, <2>2 DEF IInv, Counted, Early
  <2>3. CASE pc = "attempt"
    BY <2>3 DEF IInv, Counted
  <2>. QED  BY <2>2, <2>3
<1>7. pc \notin Awaiting \cup {"invoke", "dropped", "returned"} /\ pc' \in Awaiting
      /\ pc' \in {"probing", "posted"}
  BY DEF Awaiting
<1> HIDE DEF n, k
<1>8. Shape'
  <2>1. pc' \in Points /\ name \in Providers /\ name' \in Names
    BY <1>7 DEF IInv, Shape, Points
  <2>2. now' \in Nat /\ begun' \in Nat /\ opened' \in Nat
    BY <1>1 DEF IInv, Shape
  <2>3. attempts' \in Seq(Row')
    BY DEF IInv, Shape, Row
  <2>. QED  BY <1>5, <2>1, <2>2, <2>3 DEF Shape
<1>9. Counted'
  <2>1. CASE pc = "preflight"
    BY <1>4, <1>5, <1>6, <2>1 DEF Counted, Early
  <2>2. CASE pc = "attempt"
    <3>1. Len(wire') = Probes' + Len(attempts') + 1 /\ Len(attempts') < MaxAttempts
      BY <1>4, <1>5, <1>6, <2>2 DEF k
    <3>. QED  BY <2>2, <3>1 DEF Counted, Early
  <2>. QED  BY <2>1, <2>2
<1>10. ProbedFirst'
  <2>1. ASSUME NEW i \in 1..(n + 1) PROVE wire'[i].step = "preflight" <=> i <= Probes
    <3>1. CASE i \in 1..n
      <4>1. wire[i].step = "preflight" <=> i <= Probes
        BY <1>4, <3>1 DEF IInv, ProbedFirst
      <4>. QED  BY <1>5, <3>1, <4>1
    <3>2. CASE i = n + 1
      <4>1. step = "preflight" <=> n + 1 <= Probes
        BY <1>4, <1>6
      <4>. QED  BY <1>3, <1>5, <3>2, <4>1
    <3>. QED  BY <1>4, <3>1, <3>2
  <2>2. pc' = "posted" /\ name = "ollama" => Success(wire'[1].status)
    <3>1. SUFFICES ASSUME pc' = "posted", name = "ollama" PROVE Success(wire'[1].status)
      OBVIOUS
    <3>2. pc = "attempt"
      BY <3>1
    <3>3. Success(wire[1].status)
      BY <3>1, <3>2 DEF IInv, ProbedFirst
    <3>4. 1 \in 1..n
      BY <1>4, <1>6, <3>1, <3>2
    <3>. QED  BY <1>5, <3>3, <3>4
  <2>3. Len(wire') > 1 => pc' = "posted"
    BY <1>5, <1>6
  <2>. QED  BY <1>4, <1>5, <1>7, <2>1, <2>2, <2>3 DEF ProbedFirst
<1>11. OnlyLastOpen'
  <2>1. ASSUME NEW i \in 1..(n + 1)
        PROVE  /\ wire'[i].fate = "open" <=> i = n + 1
               /\ wire'[i].envelope # Nothing =>
                     wire'[i].fate = "complete" /\ wire'[i].envelope \in Envelopes[name]
    <3>1. CASE i \in 1..n
      <4>1. /\ wire[i].fate # "open"
            /\ wire[i].envelope # Nothing =>
                     wire[i].fate = "complete" /\ wire[i].envelope \in Envelopes[name]
        BY <1>4, <1>7, <3>1 DEF IInv, OnlyLastOpen
      <4>2. i # n + 1
        BY <1>4, <3>1
      <4>. QED  BY <1>5, <3>1, <4>1, <4>2
    <3>2. CASE i = n + 1
      BY <1>3, <1>5, <3>2
    <3>. QED  BY <1>4, <3>1, <3>2
  <2>. QED  BY <1>5, <1>7, <2>1 DEF OnlyLastOpen
<1>12. Progress'
  <2>1. Pending' = e
    BY <1>5 DEF Pending, Last
  <2>. QED  BY <1>3, <1>7, <2>1 DEF Progress
<1>13. RowsMatch'
  <2>1. ASSUME NEW i \in 1..k
        PROVE  /\ Probes + i \in 1..(n + 1)
               /\ attempts[i].success <=> Natural(wire[Probes + i])'
               /\ attempts[i].retryable <=> Transient(wire'[Probes + i])
               /\ attempts[i].retryable
    <3>1. /\ Probes + i \in DOMAIN wire
          /\ attempts[i].success <=> Natural(wire[Probes + i])
          /\ attempts[i].retryable <=> Transient(wire[Probes + i])
          /\ attempts[i].retryable
      BY <1>4, <1>7 DEF IInv, RowsMatch
    <3>2. wire'[Probes + i] = wire[Probes + i] /\ Probes + i \in 1..n
      BY <1>4, <1>5, <3>1
    <3>3. Natural(wire[Probes + i])' <=> Natural(wire[Probes + i])
      BY <1>4, <3>2 DEF Natural
    <3>4. Probes + i \in 1..(n + 1)
      BY <1>4, <3>2
    <3>. QED  BY <3>1, <3>2, <3>3, <3>4
  <2>. QED  BY <1>4, <1>5, <2>1 DEF RowsMatch
<1>14. Usable'
  <2>1. pc \notin {"invoke", "discover", "discovering", "returned"}
    OBVIOUS
  <2>. QED  BY <2>1 DEF IInv, Usable
<1>15. Timed'
  <2>1. /\ now \in Nat /\ begun \in Nat /\ begun <= now /\ Timeout \in Nat
        /\ Elapsed <= n * Timeout /\ EndToEnd(attempts, Elapsed) /\ Elapsed = now - begun
    BY <1>7, TimeoutAssumption DEF IInv, Shape, Timed, Elapsed, n
  <2>2. /\ opened' - begun' = Elapsed /\ Len(wire') - 1 = n /\ Span' = 0
        /\ begun' <= opened' /\ opened' <= now' /\ begun' <= now'
    BY <1>1, <1>4, <1>5, <2>1 DEF Span
  <2>3. EndToEnd(attempts, opened - begun)'
    <3>1. PICK elapsed : elapsed = Elapsed
      OBVIOUS
    <3>2. EndToEnd(attempts, elapsed) /\ (opened - begun)' = elapsed
      BY <2>1, <2>2, <3>1
    <3>. QED  BY <3>2 DEF EndToEnd
  <2>4. \A i \in DOMAIN attempts' : attempts'[i].duration <= Timeout
    BY DEF IInv, Timed
  <2>5. opened' - begun' <= (Len(wire') - 1) * Timeout /\ Span' <= Timeout
    BY <2>1, <2>2
  <2>. QED  BY <1>7, <2>2, <2>3, <2>4, <2>5 DEF Timed
<1>16. Answered'
  BY <1>7 DEF Answered
<1>. QED  BY <1>8, <1>9, <1>10, <1>11, <1>12, <1>13, <1>14, <1>15, <1>16 DEF IInv

\* The pending exchange gets on, time passes, or the caller drops the call.
LEMMA PendingPreserves ==
    ASSUME IInv, pc \in Awaiting, NEW e, Exchanged(e) \/ (wire' = wire /\ e = Pending),
           e \in Exchange, e.step = Pending.step, e.fate = "open", e.envelope = Nothing,
           name' = name, begun' = begun, prepared' = prepared, opened' = opened,
           attempts' = attempts, now' \in Nat, now' >= now, now' - opened <= Timeout,
           \/ pc' = pc /\ e = Pending
           \/ pc' = "dropped"
           \/ /\ pc \in {"posted", "reading"} /\ pc' = "reading"
              /\ e.status \in Statuses /\ Success(e.status) /\ e.received <= BodyLimit
    PROVE  IInv'
<1> DEFINE n == Len(wire)
           k == Len(attempts)
<1>1. /\ n \in Nat /\ n # 0 /\ DOMAIN wire = 1..n /\ name \in Providers
      /\ Pending = wire[n]
  BY PendingIs
<1>2. /\ k \in Nat /\ DOMAIN attempts = 1..k /\ Probes \in {0, 1} /\ Probes' = Probes
  BY LenProperties DEF IInv, Shape, Probes
<1>3. /\ wire' \in Seq(Exchange') /\ Len(wire') = n /\ DOMAIN wire' = 1..n
      /\ wire'[n] = e /\ \A i \in 1..n : i # n => wire'[i] = wire[i]
  <2>1. CASE Exchanged(e)
    BY <2>1, Replaced
  <2>2. CASE wire' = wire /\ e = Pending
    <3>1. Exchange' = Exchange
      BY DEF Exchange
    <3>. QED  BY <1>1, <2>2, <3>1 DEF IInv, Shape
  <2>. QED  BY <2>1, <2>2
<1>4. pc' \in Awaiting \cup {"dropped"} /\ (pc' \in Awaiting => (pc' = pc \/ pc' = "reading"))
  BY DEF Awaiting
<1>5. Shape'
  <2>1. pc' \in Points /\ name' \in Names
    BY <1>4 DEF IInv, Shape, Points, Finished
  <2>2. now' \in Nat /\ begun' \in Nat /\ opened' \in Nat
    BY DEF IInv, Shape
  <2>3. attempts' \in Seq(Row')
    BY DEF IInv, Shape, Row
  <2>. QED  BY <1>1, <1>3, <2>1, <2>2, <2>3 DEF Shape
<1>6. Counted'
  <2>1. CASE pc = "probing"
    <3>1. name = "ollama" /\ n = 1 /\ attempts = <<>>
      BY <2>1 DEF IInv, Counted
    <3>2. pc' \in {"probing", "dropped"}
      BY <2>1
    <3>. QED  BY <1>3, <3>1, <3>2 DEF Counted, Early
  <2>2. CASE pc # "probing"
    <3>1. n = Probes + k + 1 /\ k < MaxAttempts
      BY <2>2 DEF IInv, Counted, Awaiting
    <3>2. pc' \in {"posted", "reading", "dropped"}
      BY <2>2 DEF Awaiting
    <3>3. Len(wire') = Probes' + Len(attempts') + 1 /\ Len(attempts') < MaxAttempts
      BY <1>2, <1>3, <3>1
    <3>. QED  BY <3>2, <3>3 DEF Counted, Early
  <2>. QED  BY <2>1, <2>2
<1> HIDE DEF n, k
<1>7. ProbedFirst'
  <2>1. ASSUME NEW i \in 1..n PROVE wire'[i].step = "preflight" <=> i <= Probes
    <3>1. wire[i].step = "preflight" <=> i <= Probes
      BY <1>1 DEF IInv, ProbedFirst
    <3>2. wire'[i].step = wire[i].step
      BY <1>1, <1>3
    <3>. QED  BY <3>1, <3>2
  <2>2. ASSUME name = "ollama", pc' \in {"posted", "reading"} \/ n > 1
        PROVE  Success(wire'[1].status)
    <3>1. pc # "probing"
      <4>1. pc = "probing" => n = 1
        BY DEF IInv, Counted, n
      <4>2. pc = "probing" => pc' \notin {"posted", "reading"}
        OBVIOUS
      <4>3. ~(1 > 1)
        OBVIOUS
      <4>. QED  BY <2>2, <4>1, <4>2, <4>3
    <3>2. pc \in {"posted", "reading"}
      BY <3>1 DEF Awaiting
    <3>3. Success(wire[1].status)
      BY <2>2, <3>2 DEF IInv, ProbedFirst
    <3>4. n = Probes + Len(attempts) + 1 /\ Probes = 1
      BY <2>2, <3>2 DEF IInv, Counted, Probes, n
    <3>5. 1 \in 1..n /\ 1 # n
      <4>1. Len(attempts) \in Nat
        BY <1>2 DEF k
      <4>. QED  BY <1>1, <3>4, <4>1
    <3>. QED  BY <1>3, <3>3, <3>5
  <2>3. pc' \notin {"build", "attempt"}
    BY <1>4 DEF Awaiting
  <2>. QED  BY <1>2, <1>3, <2>1, <2>2, <2>3 DEF ProbedFirst
<1>8. OnlyLastOpen'
  <2>1. ASSUME NEW i \in 1..n
        PROVE  /\ wire'[i].fate = "open" <=> i = n
               /\ wire'[i].envelope # Nothing =>
                     wire'[i].fate = "complete" /\ wire'[i].envelope \in Envelopes[name]
    <3>1. CASE i = n
      BY <1>3, <3>1
    <3>2. CASE i # n
      <4>1. /\ wire[i].fate = "open" <=> i = Len(wire)
            /\ wire[i].envelope # Nothing =>
                     wire[i].fate = "complete" /\ wire[i].envelope \in Envelopes[name]
        BY <1>1 DEF IInv, OnlyLastOpen
      <4>. QED  BY <1>3, <3>2, <4>1 DEF n
    <3>. QED  BY <3>1, <3>2
  <2>. QED  BY <1>3, <1>4, <2>1 DEF OnlyLastOpen
<1>9. Progress'
  <2>1. Pending' = e
    BY <1>3 DEF Pending, Last
  <2>2. CASE pc' = pc /\ e = Pending
    BY <2>1, <2>2 DEF IInv, Progress
  <2>3. CASE pc' = "dropped"
    BY <2>3 DEF Progress
  <2>4. CASE /\ pc \in {"posted", "reading"} /\ pc' = "reading"
             /\ e.status \in Statuses /\ Success(e.status) /\ e.received <= BodyLimit
    BY <2>1, <2>4 DEF Progress
  <2>. QED  BY <2>2, <2>3, <2>4
<1>10. RowsMatch'
  <2>1. ASSUME NEW i \in 1..k
        PROVE  /\ Probes + i \in 1..n
               /\ attempts[i].success <=> Natural(wire[Probes + i])'
               /\ attempts[i].retryable <=> Transient(wire'[Probes + i])
               /\ attempts[i].retryable
    <3>1. /\ Probes + i \in DOMAIN wire
          /\ attempts[i].success <=> Natural(wire[Probes + i])
          /\ attempts[i].retryable <=> Transient(wire[Probes + i])
          /\ attempts[i].retryable
      <4>1. pc # "returned"
        BY DEF Awaiting
      <4>. QED  BY <1>2, <4>1 DEF IInv, RowsMatch
    <3>2. Probes + i # n
      <4>1. CASE pc = "probing"
        <5>1. attempts = <<>> /\ Len(<<>>) = 0
          BY <4>1 DEF IInv, Counted
        <5>. QED  BY <2>1, <5>1 DEF k
      <4>2. CASE pc # "probing"
        <5>1. n = Probes + k + 1
          BY <4>2 DEF IInv, Counted, Awaiting, n, k
        <5>. QED  BY <1>2, <5>1
      <4>. QED  BY <4>1, <4>2
    <3>3. wire'[Probes + i] = wire[Probes + i] /\ Probes + i \in 1..n
      BY <1>1, <1>3, <3>1, <3>2
    <3>4. Natural(wire[Probes + i])' <=> Natural(wire[Probes + i])
      BY <1>2, <3>3 DEF Natural
    <3>. QED  BY <3>1, <3>3, <3>4
  <2>. QED  BY <1>2, <1>3, <2>1 DEF RowsMatch
<1>11. Usable'
  <2>1. pc \notin {"invoke", "discover", "discovering", "returned"}
    BY DEF Awaiting
  <2>. QED  BY <2>1 DEF IInv, Usable
<1>12. Timed'
  <2>1. /\ now \in Nat /\ begun \in Nat /\ opened \in Nat /\ begun <= now /\ opened <= now
        /\ begun <= opened /\ opened - begun <= (n - 1) * Timeout
        /\ EndToEnd(attempts, opened - begun) /\ Timeout \in Nat
    BY TimeoutAssumption DEF IInv, Shape, Timed, n
  <2>2. /\ begun' <= now' /\ opened' <= now' /\ begun' <= opened' /\ Span' <= Timeout
    <3>1. PICK t \in Nat : t = now' /\ t >= now /\ t - opened <= Timeout
      OBVIOUS
    <3>2. begun <= t /\ opened <= t
      BY <2>1, <3>1
    <3>3. Span' = t - opened
      BY <3>1 DEF Span
    <3>. QED  BY <2>1, <3>1, <3>2, <3>3
  <2>3. EndToEnd(attempts, opened - begun)'
    BY <2>1 DEF EndToEnd
  <2>4. \A i \in DOMAIN attempts' : attempts'[i].duration <= Timeout
    BY DEF IInv, Timed
  <2>5. opened' - begun' <= (Len(wire') - 1) * Timeout
    BY <1>3, <2>1
  <2>. QED  BY <1>4, <2>2, <2>3, <2>4, <2>5 DEF Timed
<1>13. Answered'
  <2>1. pc' # "returned"
    BY <1>4 DEF Awaiting
  <2>. QED  BY <2>1 DEF Answered
<1>. QED  BY <1>5, <1>6, <1>7, <1>8, <1>9, <1>10, <1>11, <1>12, <1>13 DEF IInv


\* The preflight ends: the call goes on after a success, and answers otherwise.
LEMMA PreflightEnds ==
    ASSUME IInv, pc = "probing", NEW e \in Exchange, Exchanged(e),
           e.step = "preflight", e.envelope = Nothing, e.id = Nothing, e.fate # "open",
           name' = name, begun' = begun, prepared' = prepared, now' = now,
           opened' = opened, attempts' = attempts,
           \/ pc' = "build" /\ Success(e.status)
           \/ /\ pc' = "returned" /\ result'.ok = FALSE
              /\ result'.retryable = FALSE /\ result'.raw = Nothing
              /\ (result'.usage # Nothing) <=> (e.status # Nothing)
              /\ result'.usage # Nothing =>
                    /\ result'.usage.id = Nothing /\ result'.usage.tokens = Nothing
                    /\ result'.usage.latency = Elapsed
    PROVE  IInv'
<1>1. /\ Len(wire) = 1 /\ name = "ollama" /\ attempts = <<>> /\ pc \in Awaiting
      /\ Probes = 1 /\ Probes' = 1 /\ Len(<<>>) = 0
  BY DEF IInv, Counted, Awaiting, Probes
<1>2. wire' \in Seq(Exchange') /\ Len(wire') = 1 /\ DOMAIN wire' = 1..1 /\ wire'[1] = e
  BY <1>1, Replaced
<1>3. pc' \in {"build", "returned"}
  OBVIOUS
<1>4. Shape'
  <2>1. pc' \in Points /\ name' \in Names /\ name' \in Providers
    BY <1>1, <1>3 DEF IInv, Shape, Points, Finished, Providers
  <2>2. now' \in Nat /\ begun' \in Nat /\ opened' \in Nat
    BY DEF IInv, Shape
  <2>3. attempts' \in Seq(Row')
    BY <1>1
  <2>. QED  BY <1>2, <2>1, <2>2, <2>3 DEF Shape
<1>5. Counted'
  BY <1>1, <1>2, <1>3 DEF Counted, Early
<1>6. ProbedFirst'
  <2>1. pc' = "build" => Success(wire'[1].status)
    BY <1>2
  <2>2. \A i \in 1..1 : wire'[i].step = "preflight" <=> i <= 1
    BY <1>2
  <2>. QED  BY <1>1, <1>2, <1>3, <2>1, <2>2 DEF ProbedFirst
<1>7. OnlyLastOpen'
  <2>1. \A i \in 1..1 : wire'[i].fate # "open" /\ wire'[i].envelope = Nothing
    BY <1>2
  <2>2. pc' \notin Awaiting \cup {"dropped"}
    BY <1>3 DEF Awaiting
  <2>. QED  BY <1>2, <2>1, <2>2 DEF OnlyLastOpen
<1>8. Progress'
  BY <1>3 DEF Progress
<1>9. RowsMatch'
  <2>1. DOMAIN <<>> = {}
    OBVIOUS
  <2>. QED  BY <1>1, <2>1 DEF RowsMatch
<1>10. Usable'
  <2>1. pc \notin {"invoke", "discover", "discovering", "returned"}
    OBVIOUS
  <2>. QED  BY <2>1 DEF IInv, Usable
<1>11. Timed'
  <2>1. /\ now \in Nat /\ begun \in Nat /\ opened \in Nat /\ begun <= now /\ opened <= now
        /\ begun <= opened /\ opened - begun <= (1 - 1) * Timeout /\ now - opened <= Timeout
        /\ Timeout \in Nat
    BY <1>1, TimeoutAssumption DEF IInv, Shape, Timed, Span
  <2>2. now - begun \in Nat /\ now - begun <= 1 * Timeout
    BY <2>1
  <2>3. Elapsed' = now - begun
    BY DEF Elapsed
  <2>4. EndToEnd(attempts, Elapsed)'
    <3>1. PICK elapsed : elapsed = Elapsed'
      OBVIOUS
    <3>2. EndToEnd(<<>>, elapsed)
      BY <2>2, <2>3, <3>1, NoRowsFit
    <3>. QED  BY <1>1, <3>1, <3>2 DEF EndToEnd
  <2>5. DOMAIN <<>> = {}
    OBVIOUS
  <2>6. Elapsed' <= Len(wire') * Timeout /\ begun' <= now' /\ opened' <= now'
    BY <1>2, <2>1, <2>2, <2>3
  <2>7. pc' \notin Awaiting
    BY <1>3 DEF Awaiting
  <2>. QED  BY <1>1, <2>4, <2>5, <2>6, <2>7 DEF Timed
<1>12. Answered'
  <2>1. SUFFICES ASSUME pc' = "returned" PROVE Answered'
    BY DEF Answered
  <2>2. wire' # <<>>
    <3>1. Len(wire') = 1 /\ Len(<<>>) = 0 /\ 0 # 1
      BY <1>2
    <3>2. ASSUME wire' = <<>> PROVE FALSE
      <4>1. Len(wire') = Len(<<>>)
        BY <3>2, Zenon
      <4>. QED  BY <3>1, <4>1
    <3>. QED  BY <3>2
  <2>3. AnswerOf(wire[Len(wire)], result)'
    <3>1. wire'[Len(wire')] = e
      BY <1>2
    <3>2. Extract(name, e.envelope) = Nothing /\ ~Natural(e)
      BY NoEnvelope
    <3>3. Natural(wire[Len(wire)])' <=> Natural(e)
      BY <3>1 DEF Natural
    <3>4. Elapsed' = Elapsed
      BY DEF Elapsed
    <3>. QED  BY <2>1, <3>1, <3>2, <3>3, <3>4 DEF AnswerOf
  <2>. QED  BY <1>1, <2>1, <2>2, <2>3 DEF Answered
<1>. QED
  BY <1>4, <1>5, <1>6, <1>7, <1>8, <1>9, <1>10, <1>11, <1>12 DEF IInv

-----------------------------------------------------------------------------
(***************************************************************************)
(* Each action is one of these forms.                                      *)
(***************************************************************************)

LEMMA InitIInv == Init => IInv
<1> SUFFICES ASSUME Init PROVE IInv
  OBVIOUS
<1>1. /\ pc = "invoke" /\ wire = <<>> /\ attempts = <<>> /\ now = 1 /\ begun = 0 /\ opened = 0
      /\ name \in Names /\ Len(<<>>) = 0 /\ DOMAIN <<>> = {}
  BY DEF Init
<1>2. Shape
  BY <1>1 DEF Shape, Points, Early
<1>3. Counted
  BY <1>1 DEF Counted
<1>4. ProbedFirst
  BY <1>1 DEF ProbedFirst
<1>5. OnlyLastOpen
  BY <1>1 DEF OnlyLastOpen
<1>6. Progress
  BY <1>1 DEF Progress
<1>7. RowsMatch
  BY <1>1 DEF RowsMatch
<1>8. Usable
  BY <1>1 DEF Usable
<1>9. Timed
  BY <1>1 DEF Timed, Awaiting
<1>10. Answered
  BY <1>1 DEF Answered
<1>. QED  BY <1>2, <1>3, <1>4, <1>5, <1>6, <1>7, <1>8, <1>9, <1>10 DEF IInv

LEMMA InvokePreserves == IInv /\ Invoke => IInv'
<1> SUFFICES ASSUME IInv, Invoke PROVE IInv'
  OBVIOUS
<1>1. /\ pc = "invoke" /\ begun' = now /\ name' = name /\ prepared' = prepared
      /\ wire' = wire /\ opened' = opened /\ now' = now
  BY DEF Invoke, At
<1>2. CASE ResolveFailure(name) = Nothing
  <2>1. pc' = "discover" /\ attempts' = attempts
    BY <1>2 DEF Invoke, Goto
  <2>2. name \in Providers
    <3>1. "invalid_model_name" # Nothing /\ "unknown_provider" # Nothing
      BY NothingAssumption DEF Kinds
    <3>2. name # "malformed" /\ name # "unknown"
      BY <1>2, <3>1 DEF ResolveFailure
    <3>3. name \in Names
      BY DEF IInv, Shape
    <3>. QED  BY <3>2, <3>3 DEF Names
  <2>. QED  BY <1>1, <2>1, <2>2, EarlyPreserves DEF Early
<1>3. CASE ResolveFailure(name) # Nothing
  <2>1. FailsEarly(ResolveFailure(name), FALSE, Nothing)
    BY <1>3 DEF Invoke
  <2>2. /\ pc' = "returned" /\ attempts' = attempts
        /\ result' = [ok |-> FALSE, kind |-> ResolveFailure(name), retryable |-> FALSE,
                      identified |-> FALSE, raw |-> Nothing, usage |-> Nothing]
    BY <2>1 DEF FailsEarly, Returns, Goto, Error
  <2>3. result'.retryable = FALSE /\ result'.usage = Nothing /\ result'.raw = Nothing
    BY <2>2
  <2>. QED  BY <1>1, <2>2, <2>3, EarlyPreserves DEF Early
<1>. QED  BY <1>2, <1>3

LEMMA ReadFirstPreserves == IInv /\ ReadFirst => IInv'
<1> SUFFICES ASSUME IInv, ReadFirst PROVE IInv'
  OBVIOUS
<1>1. /\ pc = "discover" /\ pc' = "discovering" /\ begun' = begun /\ name' = name
      /\ prepared' = prepared /\ wire' = wire /\ opened' = opened /\ now' = now
      /\ attempts' = attempts
  BY DEF ReadFirst, At, Goto
<1>2. name \in Providers
  BY <1>1 DEF IInv, Shape
<1>. QED  BY <1>1, <1>2, EarlyPreserves DEF Early

LEMMA BuildPreserves == IInv /\ Build => IInv'
<1> SUFFICES ASSUME IInv, Build PROVE IInv'
  OBVIOUS
<1>1. /\ pc = "build" /\ pc' = "attempt" /\ begun' = begun /\ name' = name
      /\ prepared' = prepared /\ wire' = wire /\ opened' = opened /\ now' = now
      /\ attempts' = attempts
  BY DEF Build, At, Goto, call
<1>. QED  BY <1>1, EarlyPreserves

\* What discovery finds can be sent.
LEMMA DiscoveredUsable ==
    ASSUME NEW p \in Providers, NEW read, DiscoverFailure(p, read) = Nothing
    PROVE  LET found == Discovered(p, read)
           IN  /\ found.key # "malformed"
               /\ p = "ollama" => found.base \notin {"malformed", "ends_in_api"}
               /\ found.key = "unset" => p = "ollama"
<1>1. "provider_unavailable" # Nothing /\ "missing_credentials" # Nothing
  BY NothingAssumption DEF Kinds
<1>2. /\ Discovered(p, read).key = Key(p, read) /\ Discovered(p, read).base = read.base
  BY DEF Discovered
<1>3. ~(p = "ollama" /\ read.base \in {"malformed", "ends_in_api"})
  BY <1>1 DEF DiscoverFailure
<1>4. Key(p, read) # "malformed"
  BY <1>1, <1>3 DEF DiscoverFailure
<1>5. ~(Key(p, read) = "unset" /\ p # "ollama")
  BY <1>1, <1>3, <1>4 DEF DiscoverFailure
<1>. QED  BY <1>2, <1>3, <1>4, <1>5

LEMMA BaseStays == BaseOfOllama /\ [Next]_vars => BaseOfOllama'
<1> SUFFICES ASSUME BaseOfOllama, [Next]_vars PROVE BaseOfOllama'
  OBVIOUS
<1>1. CASE ReadFirst
  <2>1. name' = name /\ seen' = FirstRead(name, env)
    BY <1>1 DEF ReadFirst
  <2>2. name # "ollama" => FirstRead(name, env).base = "unset"
    BY DEF FirstRead, Unset
  <2>. QED  BY <2>1, <2>2 DEF BaseOfOllama
<1>2. CASE SetEnv \/ UNCHANGED vars
  <2>1. pc' = pc /\ name' = name /\ seen' = seen
    BY <1>2 DEF SetEnv, vars, call
  <2>. QED  BY <2>1 DEF BaseOfOllama
<1>3. CASE Invoke \/ Discover \/ Preflight \/ Build
  <2>1. pc' # "discovering"
    BY <1>3 DEF Invoke, Discover, Preflight, Build, Goto, FailsEarly, Returns
  <2>. QED  BY <2>1 DEF BaseOfOllama
<1>4. CASE Post
  <2>1. pc' # "discovering"
    BY <1>4 DEF Post, Goto
  <2>. QED  BY <2>1 DEF BaseOfOllama
<1>5. CASE Server
  <2>1. \A outcome : AttemptEnds(outcome) => pc' # "discovering"
    BY DEF AttemptEnds, Goto, Returns
  <2>2. \A kind : Unanswered(kind) \/ BodyBreaks(kind) => pc' # "discovering"
    BY <2>1 DEF Unanswered, BodyBreaks
  <2>3. PreflightUnanswered => pc' # "discovering"
    BY DEF PreflightUnanswered, FailsEarly, Returns, Goto
  <2>4. \A response, fate, kind, retryable :
           Rejected(response, fate, kind, retryable) => pc' # "discovering"
    BY <2>1 DEF Rejected
  <2>5. CASE PreflightAnswered
    BY <2>5 DEF PreflightAnswered, FailsEarly, Returns, Goto, BaseOfOllama
  <2>6. CASE PreflightFails \/ AttemptFails \/ BodyFails
    BY <2>2, <2>3, <2>6 DEF PreflightFails, AttemptFails, BodyFails, BaseOfOllama
  <2>7. CASE Respond
    BY <2>4, <2>7 DEF Respond, Goto, BaseOfOllama
  <2>8. CASE ReadChunk
    BY <2>4, <2>8 DEF ReadChunk, At, BaseOfOllama
  <2>9. CASE BodyCompletes
    BY <2>1, <2>9 DEF BodyCompletes, BaseOfOllama
  <2>. QED  BY <1>5, <2>5, <2>6, <2>7, <2>8, <2>9 DEF Server
<1>6. CASE Tick \/ TimesOut \/ Drop
  <2>1. \A outcome : AttemptEnds(outcome) => pc' # "discovering"
    BY DEF AttemptEnds, Goto, Returns
  <2>2. \A kind : Unanswered(kind) \/ BodyBreaks(kind) => pc' # "discovering"
    BY <2>1 DEF Unanswered, BodyBreaks
  <2>3. PreflightUnanswered => pc' # "discovering"
    BY DEF PreflightUnanswered, FailsEarly, Returns, Goto
  <2>4. CASE TimesOut
    BY <2>2, <2>3, <2>4 DEF TimesOut, BaseOfOllama
  <2>5. CASE Tick
    BY <2>5 DEF Tick, Awaiting, BaseOfOllama
  <2>6. CASE Drop
    BY <2>6 DEF Drop, Goto, BaseOfOllama
  <2>. QED  BY <1>6, <2>4, <2>5, <2>6
<1>. QED
  BY <1>1, <1>2, <1>3, <1>4, <1>5, <1>6 DEF Next, Prepare, World

LEMMA DiscoverPreserves == Inv /\ Discover => IInv'
<1> SUFFICES ASSUME IInv, BaseOfOllama, Discover PROVE IInv'
  BY DEF Inv
<1> DEFINE read == SecondRead(name, seen, env)
<1>1. /\ pc = "discovering" /\ begun' = begun /\ name' = name
      /\ wire' = wire /\ opened' = opened /\ now' = now
  BY DEF Discover, At
<1>2. name \in Providers
  BY <1>1 DEF IInv, Shape
<1>3. CASE DiscoverFailure(name, read) = Nothing
  <2>1. /\ prepared' = Discovered(name, read) /\ attempts' = attempts
        /\ pc' = IF name = "ollama" THEN "preflight" ELSE "build"
    BY <1>3 DEF Discover, Goto
  <2>2. name # "ollama" => read.base = "unset"
    BY <1>1 DEF BaseOfOllama, SecondRead
  <2>3. Discovered(name, read).base = read.base
    BY DEF Discovered
  <2> HIDE DEF read
  <2>4. PICK found : found = Discovered(name, read)
    OBVIOUS
  <2>5. /\ found.key # "malformed" /\ found.base \notin {"malformed", "ends_in_api"}
        /\ found.key = "unset" => name = "ollama"
    BY <1>2, <1>3, <2>2, <2>3, <2>4, DiscoveredUsable
  <2>6. prepared' = found
    BY <2>1, <2>4
  <2>7. /\ prepared'.key # "malformed" /\ prepared'.base \notin {"malformed", "ends_in_api"}
        /\ prepared'.key = "unset" => name = "ollama"
    BY <2>5, <2>6
  <2>8. pc' \in {"preflight", "build"} /\ (pc' = "preflight" <=> name = "ollama")
    BY <2>1
  <2>9. pc \in Early \cup {"build"} /\ pc # "preflight"
    BY <1>1 DEF Early
  <2>. QED  BY <1>1, <2>1, <2>7, <2>8, <2>9, EarlyPreserves
<1>4. CASE DiscoverFailure(name, read) # Nothing
  <2>1. FailsEarly(DiscoverFailure(name, read), TRUE, Nothing)
    BY <1>4 DEF Discover
  <2> HIDE DEF read
  <2>2. /\ pc' = "returned" /\ attempts' = attempts
        /\ result' = [ok |-> FALSE, kind |-> DiscoverFailure(name, read), retryable |-> FALSE,
                      identified |-> TRUE, raw |-> Nothing, usage |-> Nothing]
    BY <2>1 DEF FailsEarly, Returns, Goto, Error
  <2>3. result'.retryable = FALSE /\ result'.usage = Nothing /\ result'.raw = Nothing
    BY <2>2
  <2>. QED  BY <1>1, <2>2, <2>3, EarlyPreserves DEF Early
<1>. QED  BY <1>3, <1>4

LEMMA RequestsPreserve == IInv /\ (Preflight \/ Post) => IInv'
<1> SUFFICES ASSUME IInv, Preflight \/ Post PROVE IInv'
  OBVIOUS
<1>1. CASE Preflight
  <2>1. /\ pc = "preflight" /\ Posts("preflight", prepared) /\ pc' = "probing"
        /\ name' = name /\ begun' = begun /\ prepared' = prepared /\ now' = now
        /\ attempts' = attempts
    BY <1>1 DEF Preflight, At, Goto, call
  <2>. QED  BY <2>1, PostsPreserves
<1>2. CASE Post
  <2>1. /\ pc = "attempt" /\ Posts("generation", prepared) /\ pc' = "posted"
        /\ name' = name /\ begun' = begun /\ prepared' = prepared /\ now' = now
        /\ attempts' = attempts
    BY <1>2 DEF Post, At, Goto, call
  <2>. QED  BY <2>1, PostsPreserves
<1>. QED  BY <1>1, <1>2

LEMMA PreflightPreserves ==
    IInv /\ (PreflightAnswered \/ (pc = "probing" /\ PreflightUnanswered)) => IInv'
<1> SUFFICES ASSUME IInv, pc = "probing", PreflightAnswered \/ PreflightUnanswered PROVE IInv'
  BY DEF PreflightAnswered, At
<1>1. /\ Pending \in Exchange /\ Pending.step = "preflight" /\ Pending.envelope = Nothing
      /\ Pending.status = Nothing /\ Pending.id = Nothing
  BY PendingIs DEF IInv, Progress, Awaiting
<1>2. \A status \in Statuses : status \in Nat /\ status # Nothing
  BY StatusIsNumber, NothingAssumption
<1>3. CASE PreflightUnanswered
  <2> DEFINE e == [Pending EXCEPT !.fate = "unanswered"]
  <2>1. /\ e \in Exchange /\ e.fate = "unanswered" /\ e.step = "preflight"
        /\ e.envelope = Nothing /\ e.status = Nothing /\ e.id = Nothing
    BY <1>1 DEF Exchange, Fates
  <2>2. /\ Exchanged(e) /\ FailsEarly("provider_unavailable", TRUE, Nothing)
        /\ name' = name /\ begun' = begun /\ prepared' = prepared /\ now' = now
        /\ opened' = opened
    BY <1>3 DEF PreflightUnanswered, call
  <2> HIDE DEF e
  <2>3. /\ pc' = "returned" /\ attempts' = attempts
        /\ result' = [ok |-> FALSE, kind |-> "provider_unavailable", retryable |-> FALSE,
                      identified |-> TRUE, raw |-> Nothing, usage |-> Nothing]
    BY <2>2 DEF FailsEarly, Returns, Goto, Error
  <2>4. /\ result'.ok = FALSE /\ result'.retryable = FALSE /\ result'.usage = Nothing
        /\ result'.raw = Nothing
    BY <2>3
  <2>. QED  BY <2>1, <2>2, <2>3, <2>4, PreflightEnds
<1>4. CASE PreflightAnswered
  <2> DEFINE usage == [latency |-> Elapsed, tokens |-> Nothing, id |-> Nothing]
  <2>1. PICK status \in Statuses :
           /\ Exchanged([Pending EXCEPT !.status = status,
                                        !.fate = IF Success(status) THEN "complete" ELSE "refused"])
           /\ IF PreflightFailure(status) = Nothing
              THEN Goto("build") /\ UNCHANGED <<attempts, result>>
              ELSE FailsEarly(PreflightFailure(status), TRUE, usage)
    BY <1>4 DEF PreflightAnswered
  <2>2. usage # Nothing /\ usage.latency = Elapsed /\ usage.tokens = Nothing /\ usage.id = Nothing
    <3>1. Nothing \in Nat \cup {Nothing}
      OBVIOUS
    <3>. QED  BY <3>1, UsageOf DEF ResponseUsage
  <2>3. /\ name' = name /\ begun' = begun /\ prepared' = prepared /\ now' = now
        /\ opened' = opened
    BY <1>4 DEF PreflightAnswered, call
  <2> DEFINE fate == IF Success(status) THEN "complete" ELSE "refused"
             e == [Pending EXCEPT !.status = status, !.fate = fate]
  <2>4. /\ e \in Exchange /\ e.fate # "open" /\ e.step = "preflight"
        /\ e.envelope = Nothing /\ e.status = status /\ e.id = Nothing
    <3>1. fate \in Fates /\ fate # "open"
      BY DEF Fates
    <3>2. status \in Nat
      BY <1>2
    <3> HIDE DEF fate
    <3>. QED  BY <1>1, <3>1, <3>2 DEF Exchange
  <2>5. Exchanged(e)
    BY <2>1
  <2> HIDE DEF e, fate
  <2>6. status # Nothing
    BY <1>2
  <2>7. CASE PreflightFailure(status) = Nothing
    <3>1. pc' = "build" /\ attempts' = attempts
      BY <2>1, <2>7 DEF Goto
    <3>2. Success(status)
      <4>1. /\ "model_not_found" # Nothing /\ "provider_error" # Nothing
            /\ "provider_unavailable" # Nothing
        BY NothingAssumption DEF Kinds
      <4>. QED  BY <2>7, <4>1 DEF PreflightFailure
    <3>. QED  BY <2>3, <2>4, <2>5, <3>1, <3>2, PreflightEnds
  <2>8. CASE PreflightFailure(status) # Nothing
    <3>1. FailsEarly(PreflightFailure(status), TRUE, usage)
      BY <2>1, <2>8
    <3> HIDE DEF usage
    <3>2. /\ pc' = "returned" /\ attempts' = attempts
          /\ result' = [ok |-> FALSE, kind |-> PreflightFailure(status), retryable |-> FALSE,
                        identified |-> TRUE, raw |-> Nothing, usage |-> usage]
      BY <3>1 DEF FailsEarly, Returns, Goto, Error
    <3>3. /\ result'.ok = FALSE /\ result'.retryable = FALSE /\ result'.usage = usage
          /\ result'.raw = Nothing
      BY <3>2
    <3>. QED  BY <2>2, <2>3, <2>4, <2>5, <2>6, <3>2, <3>3, PreflightEnds
  <2>. QED  BY <2>7, <2>8
<1>. QED  BY <1>3, <1>4

\* The response's head: it ends the attempt, or its body is read.
LEMMA RespondPreserves == IInv /\ Respond => IInv'
<1> SUFFICES ASSUME IInv, Respond PROVE IInv'
  OBVIOUS
<1>1. pc = "posted" /\ pc \in Awaiting
  BY DEF Respond, At, Awaiting
<1>2. /\ Pending \in Exchange /\ Pending.step = "generation" /\ Pending.envelope = Nothing
      /\ Pending.fate = "open" /\ Pending.received = 0 /\ Len(wire) \in Nat
  BY <1>1, PendingIs DEF IInv, Progress
<1>3. PICK head \in Responses :
         LET response == [Pending EXCEPT !.status = head.status, !.id = head.id]
             verdict  == MapGenerationStatus(name, head.status)
         IN  IF ~Success(head.status)
             THEN Rejected(response, "refused", verdict.kind, verdict.retryable)
             ELSE \/ Rejected(response, "charset", "invalid_response", FALSE)
                  \/ Rejected(response, "overflow", "invalid_response", FALSE)
                  \/ /\ Exchanged(response)
                     /\ Goto("reading")
                     /\ UNCHANGED <<call, env, now, opened, attempts, result>>
  BY DEF Respond
<1>4. head.status \in Statuses /\ head.status \in Nat /\ head.id \in Nat \cup {Nothing}
  <2>1. head.status \in Statuses /\ head.id \in {RequestId(name, header) : header \in {Nothing, Len(wire)}}
    BY DEF Responses
  <2>3. \A header \in {Nothing, Len(wire)} : RequestId(name, header) \in Nat \cup {Nothing}
    BY <1>2 DEF RequestId
  <2>4. head.status \in Nat
    <3>1. PICK status : status = head.status
      OBVIOUS
    <3>2. status \in Statuses
      BY <2>1, <3>1
    <3>. QED  BY <3>1, <3>2, StatusIsNumber
  <2>5. head.id \in Nat \cup {Nothing}
    BY <2>1, <2>3, Zenon
  <2>. QED  BY <2>1, <2>4, <2>5
<1> DEFINE response == [Pending EXCEPT !.status = head.status, !.id = head.id]
<1>5. /\ response \in Exchange /\ response.step = "generation" /\ response.envelope = Nothing
      /\ response.fate = "open" /\ response.status = head.status /\ response.received = 0
  BY <1>2, <1>4 DEF Exchange
<1>6. CASE ~Success(head.status)
  <2>1. PICK kind, retryable :
           /\ kind = MapGenerationStatus(name, head.status).kind
           /\ retryable = MapGenerationStatus(name, head.status).retryable
    OBVIOUS
  <2>2. Rejected(response, "refused", kind, retryable)
    BY <1>3, <1>6, <2>1
  <2>3. /\ kind \in Kinds /\ retryable \in BOOLEAN
        /\ retryable <=> head.status \in {429} \cup 500..599
    BY <1>4, <2>1, VerdictIs
  <2> HIDE DEF response
  <2>4. \E e, outcome : Ends(e, outcome)
    BY <1>1, <1>4, <1>5, <2>2, <2>3, RejectedConcludes
  <2>. QED  BY <2>4, EndsPreserves
<1>7. ASSUME NEW fate \in {"charset", "overflow"}, Rejected(response, fate, "invalid_response", FALSE)
      PROVE  IInv'
  <2>1. "invalid_response" \in Kinds
    BY DEF Kinds
  <2> HIDE DEF response
  <2>2. \E e, outcome : Ends(e, outcome)
    BY <1>1, <1>4, <1>5, <1>7, <2>1, RejectedConcludes
  <2>. QED  BY <2>2, EndsPreserves
<1>8. CASE /\ Success(head.status) /\ Exchanged(response) /\ pc' = "reading"
           /\ UNCHANGED <<call, env, now, opened, attempts, result>>
  <2>1. /\ name' = name /\ begun' = begun /\ prepared' = prepared /\ opened' = opened
        /\ attempts' = attempts /\ now' = now
    BY <1>8 DEF call
  <2>2. now \in Nat /\ now >= now /\ now - opened <= Timeout
    BY <1>1 DEF IInv, Shape, Timed, Span
  <2>3. 0 <= BodyLimit
    BY BodyAssumption
  <2> HIDE DEF response
  <2>. QED  BY <1>1, <1>2, <1>4, <1>5, <1>8, <2>1, <2>2, <2>3, PendingPreserves
<1>. QED  BY <1>3, <1>6, <1>7, <1>8 DEF Goto

\* A chunk of the body: it fits, or ends the attempt.
LEMMA ReadChunkPreserves == IInv /\ ReadChunk => IInv'
<1> SUFFICES ASSUME IInv, ReadChunk PROVE IInv'
  OBVIOUS
<1>1. pc = "reading" /\ pc \in Awaiting
  BY DEF ReadChunk, At, Awaiting
<1>2. /\ Pending \in Exchange /\ Pending.step = "generation" /\ Pending.envelope = Nothing
      /\ Pending.fate = "open" /\ Pending.received \in Nat /\ Pending.received <= BodyLimit
      /\ Pending.status \in Nat /\ Pending.status \in Statuses /\ Success(Pending.status)
  BY <1>1, PendingIs, ReadingIs DEF IInv, Progress
<1>3. PICK size \in 1..2 :
         LET grown == [Pending EXCEPT !.received = @ + size]
         IN  IF size > BodyLimit - Pending.received
             THEN Rejected(grown, "overflow", "invalid_response", FALSE)
             ELSE /\ Exchanged(grown)
                  /\ UNCHANGED <<call, env, pc, now, opened, attempts, result>>
  BY DEF ReadChunk
<1> DEFINE grown == [Pending EXCEPT !.received = @ + size]
<1>4. /\ grown \in Exchange /\ grown.step = "generation" /\ grown.envelope = Nothing
      /\ grown.fate = "open" /\ grown.status = Pending.status
      /\ grown.received = Pending.received + size
  <2>1. Pending.received + size \in Nat
    BY <1>2
  <2>. QED  BY <1>2, <2>1 DEF Exchange
<1>5. CASE size > BodyLimit - Pending.received
  <2>1. Rejected(grown, "overflow", "invalid_response", FALSE)
    BY <1>3, <1>5
  <2>2. "invalid_response" \in Kinds
    BY DEF Kinds
  <2> HIDE DEF grown
  <2>3. \E e, outcome : Ends(e, outcome)
    BY <1>1, <1>2, <1>4, <2>1, <2>2, RejectedConcludes
  <2>. QED  BY <2>3, EndsPreserves
<1>6. CASE ~(size > BodyLimit - Pending.received)
  <2>1. Exchanged(grown) /\ UNCHANGED <<call, env, pc, now, opened, attempts, result>>
    BY <1>3, <1>6
  <2> HIDE DEF grown
  <2>2. /\ name' = name /\ begun' = begun /\ prepared' = prepared /\ opened' = opened
        /\ attempts' = attempts /\ now' = now /\ pc' = pc
    BY <2>1 DEF call
  <2>3. now \in Nat /\ now >= now /\ now - opened <= Timeout
    BY <1>1 DEF IInv, Shape, Timed, Span
  <2>4. grown.received <= BodyLimit
    BY <1>2, <1>4, <1>6, BodyAssumption
  <2>. QED  BY <1>1, <1>2, <1>4, <2>1, <2>2, <2>3, <2>4, PendingPreserves
<1>. QED  BY <1>5, <1>6

\* The ends of an attempt without a whole response.
LEMMA FailuresPreserve ==
    /\ IInv /\ (AttemptFails \/ BodyFails) => IInv'
    /\ IInv /\ TimesOut => IInv'
<1>1. ASSUME IInv, pc = "posted", NEW kind \in {"provider_unavailable", "timeout"},
             Unanswered(kind)
      PROVE  IInv'
  <2>1. \E e, outcome : Ends(e, outcome)
    BY <1>1, UnansweredConcludes
  <2>. QED  BY <1>1, <2>1, EndsPreserves
<1>2. ASSUME IInv, pc = "reading", NEW kind \in {"provider_unavailable", "timeout"},
             BodyBreaks(kind)
      PROVE  IInv'
  <2>1. \E e, outcome : Ends(e, outcome)
    BY <1>2, BrokenConcludes
  <2>. QED  BY <1>2, <2>1, EndsPreserves
<1>3. ASSUME IInv, AttemptFails \/ BodyFails PROVE IInv'
  BY <1>1, <1>2, <1>3 DEF AttemptFails, BodyFails, At
<1>4. ASSUME IInv, TimesOut PROVE IInv'
  BY <1>1, <1>2, <1>4, PreflightPreserves DEF TimesOut, At
<1>. QED  BY <1>3, <1>4

\* Time passes, or the caller drops the call, in an await.
LEMMA AwaitsPreserve == IInv /\ (Tick \/ Drop) => IInv'
<1> SUFFICES ASSUME IInv, Tick \/ Drop PROVE IInv'
  OBVIOUS
<1>1. /\ pc \in Awaiting /\ wire' = wire /\ name' = name /\ begun' = begun
      /\ prepared' = prepared /\ opened' = opened /\ attempts' = attempts
  BY DEF Tick, Drop, call
<1>2. /\ Pending \in Exchange /\ Pending.fate = "open" /\ Pending.envelope = Nothing
  BY <1>1, PendingIs
<1>3. now \in Nat /\ opened \in Nat /\ opened <= now /\ now - opened <= Timeout /\ Timeout \in Nat
  BY <1>1, TimeoutAssumption DEF IInv, Shape, Timed, Span
<1>4. now' \in Nat /\ now' >= now /\ now' - opened <= Timeout
  <2>1. CASE Tick
    <3>1. now' = now + 1 /\ now - opened < Timeout
      BY <2>1 DEF Tick, Span
    <3>. QED  BY <1>3, <3>1
  <2>2. CASE Drop
    BY <1>3, <2>2 DEF Drop
  <2>. QED  BY <2>1, <2>2
<1>5. pc' = pc \/ pc' = "dropped"
  BY DEF Tick, Drop, Goto
<1>. QED  BY <1>1, <1>2, <1>4, <1>5, PendingPreserves

\* The environment is no part of the invariant.
LEMMA StaysPreserves == IInv /\ (SetEnv \/ UNCHANGED vars) => IInv'
<1> SUFFICES ASSUME IInv, SetEnv \/ UNCHANGED vars PROVE IInv'
  OBVIOUS
<1>1. /\ name' = name /\ pc' = pc /\ now' = now /\ begun' = begun /\ opened' = opened
      /\ prepared' = prepared /\ wire' = wire /\ attempts' = attempts /\ result' = result
  BY DEF SetEnv, vars, call
<1>2. Shape'
  BY <1>1 DEF IInv, Shape, Exchange, Row
<1>3. Counted'
  BY <1>1 DEF IInv, Counted, Probes
<1>4. ProbedFirst'
  BY <1>1 DEF IInv, ProbedFirst, Probes
<1>5. OnlyLastOpen'
  BY <1>1 DEF IInv, OnlyLastOpen
<1>6. Progress'
  BY <1>1 DEF IInv, Progress, Pending
<1>7. RowsMatch'
  BY <1>1 DEF IInv, RowsMatch, Probes, Natural
<1>8. Usable'
  BY <1>1 DEF IInv, Usable
<1>9. Timed'
  BY <1>1 DEF IInv, Timed, Span, Elapsed, EndToEnd
<1>10. Answered'
  BY <1>1 DEF IInv, Answered, AnswerOf, Natural, Elapsed
<1>. QED  BY <1>2, <1>3, <1>4, <1>5, <1>6, <1>7, <1>8, <1>9, <1>10 DEF IInv

LEMMA NextInv == Inv /\ [Next]_vars => Inv'
<1> SUFFICES ASSUME Inv, [Next]_vars PROVE Inv'
  OBVIOUS
<1>1. IInv /\ BaseOfOllama'
  BY BaseStays DEF Inv
<1>2. CASE Prepare
  BY <1>1, <1>2, InvokePreserves, ReadFirstPreserves, DiscoverPreserves, RequestsPreserve,
     BuildPreserves DEF Prepare, Inv
<1>3. CASE Post
  BY <1>1, <1>3, RequestsPreserve DEF Inv
<1>4. CASE Server
  <2>1. CASE PreflightAnswered \/ PreflightFails
    BY <1>1, <2>1, PreflightPreserves DEF PreflightFails, At, Inv
  <2>2. CASE AttemptFails \/ BodyFails
    BY <1>1, <2>2, FailuresPreserve DEF Inv
  <2>3. CASE Respond \/ ReadChunk
    BY <1>1, <2>3, RespondPreserves, ReadChunkPreserves DEF Inv
  <2>4. CASE BodyCompletes
    BY <1>1, <2>4, CompletedConcludes, EndsPreserves DEF Inv
  <2>. QED  BY <1>4, <2>1, <2>2, <2>3, <2>4 DEF Server
<1>5. CASE World
  BY <1>1, <1>5, AwaitsPreserve, FailuresPreserve, StaysPreserves DEF World, Inv
<1>6. CASE UNCHANGED vars
  BY <1>1, <1>6, StaysPreserves DEF Inv
<1>. QED  BY <1>2, <1>3, <1>4, <1>5, <1>6 DEF Next

\* The invariant that the properties of a call rest on: how many exchanges
\* there are at each point of the call, which of them is open, what each row
\* and the answer say of them, and where the time went.
THEOREM Invariance == Spec => []Inv
<1>1. Init => Inv
  BY InitIInv DEF Init, Inv, BaseOfOllama
<1>. QED  BY <1>1, NextInv, PTL DEF Spec

-----------------------------------------------------------------------------
(***************************************************************************)
(* The properties of a call.                                               *)
(***************************************************************************)

\* The generation requests are the exchanges after the probes.
LEMMA TriesAre ==
    ASSUME IInv
    PROVE  /\ Len(Tries) \in Nat /\ DOMAIN Tries = 1..Len(Tries)
           /\ Len(Tries) = IF wire = <<>> THEN 0 ELSE Len(wire) - Probes
           /\ \A i \in 1..Len(Tries) : Tries[i] = wire[Probes + i]
<1> DEFINE S == Exchange
<1>1. /\ wire \in Seq(S) /\ Len(wire) \in Nat /\ DOMAIN wire = 1..Len(wire)
      /\ wire # <<>> => Len(wire) # 0
  <2>1. wire \in Seq(S)
    BY DEF IInv, Shape
  <2> HIDE DEF S
  <2>2. Len(wire) \in Nat /\ DOMAIN wire = 1..Len(wire)
    BY <2>1, LenProperties
  <2>3. wire # <<>> => Len(wire) # 0
    BY <2>1, EmptySeq
  <2>. QED  BY <2>1, <2>2, <2>3
<1> HIDE DEF S
<1>2. Probes \in {0, 1} /\ Len(<<>>) = 0
  BY DEF Probes
<1>3. wire # <<>> => (wire[1].step = "preflight" <=> Probes = 1)
  <2>1. wire # <<>> => 1 \in DOMAIN wire
    BY <1>1
  <2>2. wire # <<>> => (wire[1].step = "preflight" <=> 1 <= Probes)
    BY <2>1 DEF IInv, ProbedFirst
  <2>. QED  BY <1>2, <2>2
<1>4. CASE wire # <<>> /\ Probes = 1
  <2>1. Tries = Tail(wire)
    BY <1>3, <1>4 DEF Tries
  <2>2. /\ Tail(wire) \in Seq(S) /\ Len(Tail(wire)) = Len(wire) - 1
        /\ \A i \in 1..Len(Tail(wire)) : Tail(wire)[i] = wire[i + 1]
    BY <1>1, <1>4, HeadTailProperties
  <2>3. Len(Tail(wire)) \in Nat /\ DOMAIN Tail(wire) = 1..Len(Tail(wire))
    BY <2>2, LenProperties
  <2>4. \A i \in 1..Len(Tail(wire)) : i + 1 = Probes + i
    BY <1>4
  <2>. QED  BY <1>4, <2>1, <2>2, <2>3, <2>4
<1>5. CASE wire # <<>> /\ Probes = 0
  <2>1. Tries = wire
    BY <1>3, <1>5 DEF Tries
  <2>2. \A i \in 1..Len(wire) : i = Probes + i
    BY <1>5
  <2>3. Len(wire) - Probes = Len(wire)
    BY <1>1, <1>5
  <2>. QED  BY <1>1, <1>5, <2>1, <2>2, <2>3
<1>6. CASE wire = <<>>
  <2>1. Tries = wire
    BY <1>6 DEF Tries
  <2>2. Len(Tries) = 0
    BY <1>2, <1>6, <2>1
  <2>. QED  BY <1>1, <1>6, <2>1, <2>2
<1>. QED  BY <1>2, <1>4, <1>5, <1>6

\* There is a row for each of them but the one the call waits for, or was
\* dropped with.
LEMMA CountIs ==
    ASSUME IInv
    PROVE  /\ Len(attempts) \in Nat /\ DOMAIN attempts = 1..Len(attempts)
           /\ \/ /\ Len(Tries) = Len(attempts) /\ Len(attempts) <= MaxAttempts
                 /\ pc \in Awaiting \cup {"dropped"} => Len(Tries) = 0
              \/ /\ Len(Tries) = Len(attempts) + 1 /\ Len(attempts) < MaxAttempts
                 /\ pc \in {"posted", "reading", "dropped"}
<1> DEFINE m == Len(Tries)
           n == Len(wire)
           k == Len(attempts)
<1>1. /\ k \in Nat /\ DOMAIN attempts = 1..k /\ n \in Nat /\ MaxAttempts = 2
      /\ Probes = (IF name = "ollama" THEN 1 ELSE 0) /\ Len(<<>>) = 0
  BY LenProperties DEF IInv, Shape, MaxAttempts, Probes
<1>2. m = IF wire = <<>> THEN 0 ELSE n - Probes
  BY TriesAre
<1>3. m = 0 \/ (m = n - Probes /\ wire # <<>>)
  BY <1>2
<1>4. CASE wire = <<>>
  <2>1. n = 0 /\ m = 0
    BY <1>1, <1>2, <1>4
  <2>2. pc \notin {"posted", "reading"} /\ k = 0
    BY <1>1, <1>4, <2>1 DEF IInv, Counted, Points, Early, Awaiting, Finished, Shape
  <2>. QED  BY <1>1, <2>1, <2>2
<1>5. CASE wire # <<>>
  <2>1. m = n - Probes
    BY <1>2, <1>5
  <2>2. pc \notin Early
    BY <1>5 DEF IInv, Counted
  <2>3. CASE pc = "probing" \/ (pc \in Finished /\ name = "ollama" /\ n = 1 /\ attempts = <<>>)
    <3>1. n = 1 /\ attempts = <<>> /\ name = "ollama"
      BY <2>3 DEF IInv, Counted
    <3>2. m = 0 /\ k = 0
      BY <1>1, <2>1, <3>1
    <3>. QED  BY <1>1, <3>2
  <2>4. CASE pc = "build"
    <3>1. n = Probes /\ attempts = <<>>
      BY <2>4 DEF IInv, Counted
    <3>2. m = 0 /\ k = 0
      BY <1>1, <2>1, <3>1
    <3>. QED  BY <1>1, <3>2
  <2>5. CASE pc = "attempt"
    <3>1. n = Probes + k /\ k < MaxAttempts
      BY <2>5 DEF IInv, Counted
    <3>2. m = k
      BY <1>1, <2>1, <3>1
    <3>3. k <= MaxAttempts
      BY <1>1, <3>1
    <3>. QED  BY <1>1, <2>5, <3>2, <3>3 DEF Awaiting
  <2>6. CASE pc \in {"posted", "reading", "dropped"} /\ n = Probes + k + 1 /\ k < MaxAttempts
    <3>1. m = k + 1
      BY <1>1, <2>1, <2>6
    <3>. QED  BY <1>1, <2>6, <3>1
  <2>7. CASE pc = "returned" /\ n = Probes + k /\ k \in 1..MaxAttempts
    <3>1. PICK p \in {0, 1} : p = Probes
      BY <1>1
    <3>2. k \in Nat /\ m = n - p /\ n = p + k
      BY <1>1, <2>1, <2>7, <3>1
    <3> HIDE DEF m, n, k
    <3>3. m = k
      BY <3>2
    <3>4. k <= MaxAttempts
      BY <1>1, <2>7
    <3>. QED  BY <1>1, <2>7, <3>3, <3>4 DEF Awaiting, m, k
  <2>8. pc \in Points
    BY DEF IInv, Shape
  <2>9. pc \in {"posted", "reading"} => n = Probes + k + 1 /\ k < MaxAttempts
    BY DEF IInv, Counted
  <2>10. pc = "dropped" => \/ name = "ollama" /\ n = 1 /\ attempts = <<>>
                           \/ n = Probes + k + 1 /\ k < MaxAttempts
    BY DEF IInv, Counted
  <2>11. pc = "returned" => \/ name = "ollama" /\ n = 1 /\ attempts = <<>>
                            \/ n = Probes + k /\ k \in 1..MaxAttempts
    BY <1>5 DEF IInv, Counted
  <2> HIDE DEF m, n, k
  <2>12. pc \in {"probing", "posted", "reading", "build", "attempt", "returned", "dropped"}
    BY <2>2, <2>8 DEF Points, Awaiting, Finished
  <2>. QED
    BY <2>3, <2>4, <2>5, <2>6, <2>7, <2>9, <2>10, <2>11, <2>12 DEF Finished
<1>. QED  BY <1>4, <1>5

LEMMA RowsMatchWire == IInv => AttemptsMatchWire
<1> SUFFICES ASSUME IInv PROVE AttemptsMatchWire
  OBVIOUS
<1> DEFINE m == Len(Tries)
           k == Len(attempts)
<1>1. /\ m \in Nat /\ DOMAIN Tries = 1..m /\ k \in Nat /\ DOMAIN attempts = 1..k
      /\ \A i \in 1..m : Tries[i] = wire[Probes + i]
  BY TriesAre, CountIs
<1>2. \/ /\ m = k /\ k <= MaxAttempts
         /\ pc \in Awaiting \cup {"dropped"} => m = 0
      \/ /\ m = k + 1 /\ k < MaxAttempts
         /\ pc \in {"posted", "reading", "dropped"}
  BY CountIs
<1>3. /\ Probes \in {0, 1} /\ MaxAttempts = 2 /\ Len(wire) \in Nat /\ DOMAIN wire = 1..Len(wire)
      /\ m # 0 => Len(wire) = m + Probes
  <2>1. Probes \in {0, 1} /\ MaxAttempts = 2
    BY DEF Probes, MaxAttempts
  <2>2. Len(wire) \in Nat /\ DOMAIN wire = 1..Len(wire)
    BY LenProperties DEF IInv, Shape
  <2>3. m = IF wire = <<>> THEN 0 ELSE Len(wire) - Probes
    BY TriesAre
  <2>4. m # 0 => m = Len(wire) - Probes
    BY <2>3
  <2> HIDE DEF m
  <2>5. m # 0 => Len(wire) = m + Probes
    <3>1. PICK n \in Nat : n = Len(wire)
      BY <2>2
    <3>2. PICK p \in {0, 1} : p = Probes
      BY <2>1
    <3>3. m # 0 => m = n - p
      BY <2>4, <3>1, <3>2
    <3>4. m # 0 => n = m + p
      BY <3>3
    <3>. QED  BY <3>1, <3>2, <3>4
  <2>. QED  BY <2>1, <2>2, <2>5
<1> HIDE DEF m, k
<1>4. ASSUME NEW i \in 1..m
      PROVE  Tries[i].step = "generation" /\ (i \in 1..k <=> Tries[i].fate # "open")
  <2>1. Probes + i \in 1..Len(wire) /\ ~(Probes + i <= Probes) /\ (Probes + i = Len(wire) <=> i = m)
    <3>1. m \in Nat /\ m # 0
      BY <1>1
    <3>2. Len(wire) = m + Probes /\ Probes \in Nat
      BY <1>3, <3>1
    <3>. QED  BY <3>1, <3>2
  <2>2. Tries[i] = wire[Probes + i]
    BY <1>1
  <2>3. Tries[i].step = "generation"
    <3>1. wire[Probes + i].step # "preflight"
      BY <1>3, <2>1 DEF IInv, ProbedFirst
    <3>2. wire[Probes + i] \in Exchange
      <4> DEFINE S == Exchange
      <4>1. wire \in Seq(S)
        BY DEF IInv, Shape
      <4> HIDE DEF S
      <4>2. wire[Probes + i] \in S
        BY <2>1, <4>1, ElementOfSeq
      <4>. QED  BY <4>2 DEF S
    <3>3. wire[Probes + i].step \in {"preflight", "generation"}
      BY <3>2 DEF Exchange
    <3>. QED  BY <2>2, <3>1, <3>3
  <2>4. Tries[i].fate = "open" <=> pc \in Awaiting \cup {"dropped"} /\ i = m
    <3>1. wire[Probes + i].fate = "open" <=>
             pc \in Awaiting \cup {"dropped"} /\ Probes + i = Len(wire)
      BY <1>3, <2>1 DEF IInv, OnlyLastOpen
    <3>. QED  BY <2>1, <2>2, <3>1
  <2>5. i \in 1..k <=> ~(pc \in Awaiting \cup {"dropped"} /\ i = m)
    <3>1. CASE m = k /\ (pc \in Awaiting \cup {"dropped"} => m = 0)
      BY <1>1, <3>1
    <3>2. CASE m = k + 1 /\ pc \in {"posted", "reading", "dropped"}
      <4>1. i \in 1..k <=> i # m
        BY <1>1, <3>2
      <4>. QED  BY <3>2, <4>1 DEF Awaiting
    <3>. QED  BY <1>2, <3>1, <3>2
  <2>. QED  BY <2>3, <2>4, <2>5
<1>5. ASSUME NEW i \in 1..k
      PROVE  /\ i \in 1..m
             /\ attempts[i].success <=> Natural(Tries[i])
             /\ attempts[i].retryable <=> Transient(Tries[i])
             /\ i < m => attempts[i].retryable
  <2>1. i \in 1..m
    BY <1>1, <1>2
  <2>2. Tries[i] = wire[Probes + i]
    BY <1>1, <2>1
  <2>3. /\ attempts[i].success <=> Natural(wire[Probes + i])
        /\ attempts[i].retryable <=> Transient(wire[Probes + i])
        /\ pc # "returned" \/ i < Len(attempts) => attempts[i].retryable
    BY <1>1 DEF IInv, RowsMatch
  <2>4. i < m => pc # "returned" \/ i < Len(attempts)
    <3>1. CASE m = k
      BY <3>1 DEF k
    <3>2. CASE m # k
      BY <1>2, <3>2
    <3>. QED  BY <3>1, <3>2
  <2>. QED  BY <2>1, <2>2, <2>3, <2>4
<1>6. m <= MaxAttempts
  <2>1. m \in Nat /\ k \in Nat /\ MaxAttempts = 2
    BY <1>1, <1>3
  <2>2. (m = k /\ k <= MaxAttempts) \/ (m = k + 1 /\ k < MaxAttempts)
    BY <1>2
  <2>. QED  BY <2>1, <2>2
<1>7. \A i \in 1..(m - 1) : attempts[i].retryable
  <2>1. \A i \in 1..(m - 1) : i \in 1..k /\ i < m
    BY <1>1, <1>2
  <2>. QED  BY <1>5, <2>1
<1>8. At("returned") =>
         LET transient == attempts # <<>> /\ Last(attempts).retryable
         IN  /\ result.retryable <=> transient
             /\ transient => Len(attempts) = MaxAttempts
  BY DEF IInv, Answered, At, Last
<1>9. /\ \A i \in DOMAIN Tries : Tries[i].step = "generation"
      /\ \A i \in DOMAIN Tries : i \in DOMAIN attempts <=> Tries[i].fate # "open"
  BY <1>1, <1>4
<1>10. /\ DOMAIN attempts \subseteq DOMAIN Tries
       /\ \A i \in DOMAIN attempts :
             /\ attempts[i].success <=> Natural(Tries[i])
             /\ attempts[i].retryable <=> Transient(Tries[i])
  BY <1>1, <1>5
<1>. QED  BY <1>6, <1>7, <1>8, <1>9, <1>10 DEF AttemptsMatchWire, m

LEMMA EvidenceIsOfLast == IInv => EvidenceOfClosingExchange
<1> SUFFICES ASSUME IInv, pc = "returned" PROVE EvidenceOfClosingExchange
  BY DEF EvidenceOfClosingExchange, At
<1>1. CASE wire = <<>>
  BY <1>1 DEF IInv, Answered, EvidenceOfClosingExchange
<1>2. CASE wire # <<>>
  <2>1. PICK last : last = wire[Len(wire)]
    OBVIOUS
  <2>2. AnswerOf(last, result) /\ Last(wire) = last
    BY <1>2, <2>1 DEF IInv, Answered, Last
  <2>3. /\ Elapsed <= Len(wire) * Timeout /\ EndToEnd(attempts, Elapsed)
        /\ \A i \in DOMAIN attempts : attempts[i].duration <= Timeout
    BY DEF IInv, Timed, Awaiting
  <2>4. Elapsed <= Elapsed
    BY DEF IInv, Shape, Timed, Elapsed
  <2>5. ASSUME result.usage # Nothing
        PROVE  result.usage.latency <= Elapsed /\ EndToEnd(attempts, result.usage.latency)
    <3>1. PICK latency : latency = result.usage.latency
      OBVIOUS
    <3>2. latency = Elapsed
      BY <2>2, <2>5, <3>1 DEF AnswerOf
    <3>3. latency <= Elapsed /\ EndToEnd(attempts, latency)
      BY <2>3, <2>4, <3>2
    <3>. QED  BY <3>1, <3>3
  <2>6. /\ (result.usage # Nothing) <=> (last.status # Nothing)
        /\ result.usage # Nothing =>
              /\ result.usage.id = last.id
              /\ result.usage.tokens = IF Extract(name, last.envelope) = Nothing THEN Nothing
                                       ELSE Extract(name, last.envelope).tokens
        /\ result.raw # Nothing =>
              /\ result.raw.try = Len(wire)
              /\ last.step = "generation" /\ last.fate \in {"broken", "complete"}
              /\ last.received <= BodyLimit
        /\ Natural(last) => result.raw # Nothing
    BY <2>2 DEF AnswerOf
  <2>. QED  BY <1>2, <2>2, <2>3, <2>5, <2>6 DEF EvidenceOfClosingExchange
<1>. QED  BY <1>1, <1>2

LEMMA AcceptedIsObject == IInv => AcceptedIsNatural
<1> SUFFICES ASSUME IInv, pc = "returned", wire # <<>> PROVE AcceptedIsNatural
  BY DEF AcceptedIsNatural, At
<1>1. PICK last, envelope, x : /\ last = wire[Len(wire)] /\ envelope = last.envelope
                               /\ x = Extract(name, envelope)
  OBVIOUS
<1>2. result.ok <=> Natural(last) /\ IsObject(x.text)
  BY <1>1 DEF IInv, Answered, AnswerOf
<1>3. Natural(last) <=> x # Nothing /\ x.natural
  BY <1>1 DEF Natural
<1>4. IsObject(x.text) <=> x.text = Object
  BY DEF IsObject
<1>5. Last(wire).envelope = envelope
  BY <1>1 DEF Last
<1>6. CASE envelope = Nothing
  <2>1. x = Nothing
    BY <1>1, <1>6 DEF Extract
  <2>. QED  BY <1>2, <1>3, <1>5, <1>6, <2>1 DEF AcceptedIsNatural
<1>7. CASE envelope # Nothing
  <2>1. name \in Providers
    BY DEF IInv, Shape
  <2>2. Len(wire) \in DOMAIN wire
    <3> DEFINE S == Exchange
    <3>1. wire \in Seq(S)
      BY DEF IInv, Shape
    <3> HIDE DEF S
    <3>2. Len(wire) \in Nat /\ DOMAIN wire = 1..Len(wire) /\ Len(wire) # 0
      BY <3>1, LenProperties, EmptySeq
    <3>. QED  BY <3>2
  <2>3. envelope \in Envelopes[name]
    BY <1>1, <1>7, <2>2 DEF IInv, OnlyLastOpen
  <2>4. envelope \in EnvelopeType(name)
    BY <1>7, <2>1, <2>3, EnvelopeAssumption
  <2>5. FaithfulTo(x, ~Unobjected(envelope), OneObject(PartsOf(envelope)))
    BY <1>1, <1>7, <2>1, <2>4, ExtractFaithful
  <2>6. (x # Nothing /\ x.natural /\ x.text = Object) <=>
           Unobjected(envelope) /\ OneObject(PartsOf(envelope))
    BY <2>5 DEF FaithfulTo
  <2>7. result.ok <=> envelope # Nothing /\ Unobjected(envelope) /\ OneObject(PartsOf(envelope))
    BY <1>2, <1>3, <1>4, <1>7, <2>6
  <2>. QED  BY <1>5, <2>7 DEF AcceptedIsNatural
<1>. QED  BY <1>6, <1>7

LEMMA RequestsOfWire == IInv => OneRequest
<1> SUFFICES ASSUME IInv, NEW i \in DOMAIN wire
             PROVE  /\ wire[i].request = prepared
                    /\ prepared.key # "malformed" /\ prepared.base \notin {"malformed", "ends_in_api"}
                    /\ prepared.key = "unset" => name = "ollama"
                    /\ wire[i].step = "preflight" <=> (name = "ollama" /\ i = 1)
                    /\ i > 1 /\ name = "ollama" => Success(wire[1].status)
  BY DEF OneRequest
<1> DEFINE S == Exchange
<1>1. wire \in Seq(S)
  BY DEF IInv, Shape
<1> HIDE DEF S
<1>2. /\ Len(wire) \in Nat /\ i \in 1..Len(wire) /\ wire[i] \in S /\ wire # <<>>
  <2>1. Len(wire) \in Nat /\ DOMAIN wire = 1..Len(wire)
    BY <1>1, LenProperties
  <2>2. wire[i] \in S
    BY <1>1, <2>1, ElementOfSeq
  <2>3. wire # <<>>
    BY <2>1, EmptySeq
  <2>. QED  BY <2>1, <2>2, <2>3
<1>3. wire[i].request = prepared
  <2>1. wire[i] \in Exchange
    BY <1>2 DEF S
  <2>. QED  BY <2>1 DEF Exchange
<1>4. /\ prepared.key # "malformed" /\ prepared.base \notin {"malformed", "ends_in_api"}
      /\ prepared.key = "unset" => name = "ollama"
  BY <1>2 DEF IInv, Usable
<1>5. wire[i].step = "preflight" <=> (name = "ollama" /\ i = 1)
  <2>1. wire[i].step = "preflight" <=> i <= Probes
    BY DEF IInv, ProbedFirst
  <2>2. i <= Probes <=> (name = "ollama" /\ i = 1)
    BY <1>2 DEF Probes
  <2>. QED  BY <2>1, <2>2
<1>6. i > 1 /\ name = "ollama" => Success(wire[1].status)
  <2>1. i > 1 => Len(wire) > 1
    BY <1>2
  <2>. QED  BY <2>1 DEF IInv, ProbedFirst
<1>. QED  BY <1>3, <1>4, <1>5, <1>6

\* The rows of the record are the truth about the wire: one for each
\* generation request whose outcome the call saw, in order, a success and
\* retryable exactly where that outcome was, and no request beyond the budget
\* (run_generation_attempts).
THEOREM RowsAreTheWire == Spec => []AttemptsMatchWire
BY Invariance, RowsMatchWire, PTL DEF Inv

\* An answer has the usage and the raw text of the exchange that closed the
\* call and of no earlier one, within the limit on a body, and a latency that
\* covers every attempt and no more than an allowance for each request.
THEOREM EvidenceIsOfTheClosing == Spec => []EvidenceOfClosingExchange
BY Invariance, EvidenceIsOfLast, PTL DEF Inv

\* Whatever the provider sends, the caller gets a proposal exactly when the
\* last exchange brought an envelope that completed naturally and whose text,
\* all of it and in order, is one object.
THEOREM AcceptedIsWhole == Spec => []AcceptedIsNatural
BY Invariance, AcceptedIsObject, PTL DEF Inv

\* All requests of a call go to one place with one usable credential, however
\* the environment changes meanwhile, and Ollama is asked to generate only
\* after a preflight that succeeded.
THEOREM RequestsAreOne == Spec => []OneRequest
BY Invariance, RequestsOfWire, PTL DEF Inv
=============================================================================

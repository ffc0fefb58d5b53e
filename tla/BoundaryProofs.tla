---------------------------- MODULE BoundaryProofs ----------------------------
(***************************************************************************)
(* Proofs about the texts at the program's edges, for texts of any length, *)
(* limits of any size and every instant since the epoch: the bounded       *)
(* reading of an image, the name of a record's file and the scan of a      *)
(* Content-Type decide what their references say.                          *)
(***************************************************************************)
EXTENDS TextBoundary, InductionProofs, SequenceTheorems

-----------------------------------------------------------------------------
(* The beginning of an image *)

\* What a text is encoded in.
OctetSymbols == Characters \cup {"continued"}

Encoded(c) == IF c = "w" THEN <<"w", "continued">> ELSE <<c>>

\* Octets encodes character by character, as its definition reads.
LEMMA OctetsDefined ==
    ASSUME NEW text \in Seq(Characters)
    PROVE  \E f \in [0..Len(text) -> Seq(OctetSymbols)] :
              /\ f[0] = <<>> /\ \A i \in 1..Len(text) : f[i] = f[i - 1] \o Encoded(text[i])
              /\ Octets(text) = f[Len(text)]
<1> DEFINE n == Len(text)
           Body(f) == [i \in 0..n |-> IF i = 0 THEN <<>> ELSE f[i - 1] \o Encoded(text[i])]
           step == [i \in 1..n |-> [x \in Seq(OctetSymbols) |-> x \o Encoded(text[i])]]
           Octet == CHOOSE f : f = Body(f)
<1>0. n \in Nat /\ \A i \in 1..n : text[i] \in Characters
  BY ElementOfSeq, LenProperties
<1>1. \A i \in 1..n : Encoded(text[i]) \in Seq(OctetSymbols)
  <2>1. ASSUME NEW c \in Characters PROVE Encoded(c) \in Seq(OctetSymbols)
    <3>1. c \in OctetSymbols /\ "w" \in OctetSymbols /\ "continued" \in OctetSymbols
      BY DEF OctetSymbols, Characters
    <3>2. <<c>> \in Seq(OctetSymbols) /\ <<"w", "continued">> \in Seq(OctetSymbols)
      BY <3>1
    <3>. QED  BY <3>2 DEF Encoded
  <2>. QED  BY <1>0, <2>1
<1>2. step \in [1..n -> [Seq(OctetSymbols) -> Seq(OctetSymbols)]]
  <2>1. \A i \in 1..n : \A x \in Seq(OctetSymbols) : x \o Encoded(text[i]) \in Seq(OctetSymbols)
    BY <1>1, ConcatProperties
  <2>. QED  BY <2>1
<1>3. <<>> \in Seq(OctetSymbols)
  BY EmptySeq
<1>4. PICK f \in [0..n -> Seq(OctetSymbols)] :
        f[0] = <<>> /\ \A i \in 1..n : f[i] = step[i][f[i - 1]]
  <2> DEFINE States == Seq(OctetSymbols)
  <2>1. step \in [1..n -> [States -> States]] /\ <<>> \in States
    BY <1>2, <1>3
  <2> HIDE DEF step, n, States
  <2>2. \E f : Recursion(f, n, States, <<>>, step)
    BY <1>0, <2>1, RecursionDefines
  <2>3. PICK f : Recursion(f, n, States, <<>>, step)
    BY <2>2
  <2>4. f \in [0..n -> States] /\ f[0] = <<>> /\ \A i \in 1..n : f[i] = step[i][f[i - 1]]
    BY <2>3 DEF Recursion
  <2>. QED  BY <2>4 DEF States
<1>5. \A i \in 1..n : f[i] = f[i - 1] \o Encoded(text[i])
  <2>1. \A i \in 1..n : i - 1 \in 0..n
    BY <1>0
  <2>. QED  BY <1>4, <2>1
<1>6. f = Body(f)
  <2>1. \A i \in 0..n : i = 0 \/ i \in 1..n
    BY <1>0
  <2> HIDE DEF n
  <2>. QED  BY <1>4, <1>5, <2>1
<1>7. Octet = Body(Octet)
  <2> HIDE DEF Body
  <2>. QED  BY <1>6
<1>8. Octets(text) = Octet[n]
  BY DEF Octets, Encoded
<1>9. Octet \in [0..n -> Seq(OctetSymbols)] /\ Octet[0] = <<>>
      /\ \A i \in 1..n : Octet[i] = Octet[i - 1] \o Encoded(text[i])
  <2> DEFINE S == {i \in Nat : i <= n => Octet[i] \in Seq(OctetSymbols)}
  <2> HIDE DEF Octet
  <2>1. Octet[0] = <<>> /\ \A i \in 1..n : Octet[i] = Octet[i - 1] \o Encoded(text[i])
    <3>1. 0 \in 0..n /\ \A i \in 1..n : i \in 0..n /\ i # 0
      BY <1>0
    <3> HIDE DEF n
    <3>. QED  BY <1>7, <3>1
  <2>2. 0 \in S
    BY <1>3, <2>1
  <2>3. ASSUME NEW i \in Nat, i \in S PROVE i + 1 \in S
    <3>1. SUFFICES ASSUME i + 1 <= n PROVE Octet[i + 1] \in Seq(OctetSymbols)
      OBVIOUS
    <3>2. i + 1 \in 1..n /\ (i + 1) - 1 = i /\ i <= n
      BY <1>0, <3>1
    <3>3. Octet[i + 1] = Octet[i] \o Encoded(text[i + 1]) /\ Octet[i] \in Seq(OctetSymbols)
      BY <2>1, <2>3, <3>2
    <3>. QED  BY <1>1, <3>2, <3>3, ConcatProperties
  <2>4. Nat \subseteq S
    <3> HIDE DEF S
    <3>. QED  BY <2>2, <2>3, SetInduction
  <2>5. \A i \in 0..n : Octet[i] \in Seq(OctetSymbols)
    BY <1>0, <2>4
  <2>6. Octet = [i \in 0..n |-> Octet[i]]
    BY <1>7
  <2>. QED  BY <2>1, <2>5, <2>6
<1> HIDE DEF Octet
<1>. QED  BY <1>8, <1>9

\* The second octet of a wide character follows its first.
LEMMA ContinuedFollowsWide ==
    ASSUME NEW text \in Seq(Characters)
    PROVE  /\ Octets(text) \in Seq(OctetSymbols)
           /\ \A k \in 1..Len(Octets(text)) : Octets(text)[k] = "continued" =>
                 k - 1 \in 1..Len(Octets(text)) /\ Octets(text)[k - 1] = "w"
<1> DEFINE Follows(o) == \A k \in 1..Len(o) : o[k] = "continued"
        => k - 1 \in 1..Len(o) /\ o[k - 1] = "w"
<1>0. Len(text) \in Nat /\ \A i \in 1..Len(text) : text[i] \in Characters
  BY ElementOfSeq, LenProperties
<1>1. PICK f \in [0..Len(text) -> Seq(OctetSymbols)] :
              /\ f[0] = <<>> /\ \A i \in 1..Len(text) : f[i] = f[i - 1] \o Encoded(text[i])
              /\ Octets(text) = f[Len(text)]
  BY OctetsDefined
<1> DEFINE S == {i \in Nat : i <= Len(text) => Follows(f[i])}
<1>2. 0 \in S
  BY <1>1
<1>3. ASSUME NEW i \in Nat, i \in S PROVE i + 1 \in S
  <2>1. SUFFICES ASSUME i + 1 <= Len(text) PROVE Follows(f[i + 1])
    OBVIOUS
  <2>2. i + 1 \in 1..Len(text) /\ (i + 1) - 1 = i /\ i <= Len(text) /\ i \in 0..Len(text)
    BY <1>0, <2>1
  <2> DEFINE o == f[i]
             e == Encoded(text[i + 1])
  <2>3. o \in Seq(OctetSymbols) /\ Len(o) \in Nat /\ Follows(o) /\ f[i + 1] = o \o e
    <3>1. o \in Seq(OctetSymbols)
      BY <1>1, <2>2
    <3>2. f[i + 1] = o \o e
      <4> HIDE DEF e
      <4>1. f[i + 1] = f[(i + 1) - 1] \o Encoded(text[i + 1])
        BY <1>1, <2>2
      <4>. QED  BY <2>2, <4>1 DEF e
    <3>. QED  BY <1>3, <2>2, <3>1, <3>2, LenProperties
  <2>4. /\ e \in Seq(OctetSymbols) /\ Len(e) \in Nat
        /\ \/ Len(e) = 1 /\ e[1] # "continued"
           \/ Len(e) = 2 /\ e[1] = "w" /\ e[2] = "continued"
    <3>1. text[i + 1] \in Characters /\ text[i + 1] # "continued"
      BY <1>0, <2>2 DEF Characters, Alphabet
    <3>2. CASE text[i + 1] = "w"
      <4>1. e = <<"w", "continued">>
        BY <3>2 DEF Encoded
      <4>. QED  BY <4>1 DEF OctetSymbols, Characters
    <3>3. CASE text[i + 1] # "w"
      <4>1. e = <<text[i + 1]>>
        BY <3>3 DEF Encoded
      <4>. QED  BY <3>1, <4>1 DEF OctetSymbols
    <3>. QED  BY <3>2, <3>3
  <2> HIDE DEF o, e
  <2>5. /\ Len(o \o e) = Len(o) + Len(e)
        /\ \A k \in 1..(Len(o) + Len(e)) : (o \o e)[k] = IF k <= Len(o) THEN o[k] ELSE e[k - Len(o)]
    BY <2>3, <2>4, ConcatProperties
  <2>6. ASSUME NEW k \in 1..Len(o \o e), (o \o e)[k] = "continued"
        PROVE  k - 1 \in 1..Len(o \o e) /\ (o \o e)[k - 1] = "w"
    <3>1. CASE k <= Len(o)
      <4>1. k \in 1..Len(o) /\ o[k] = "continued"
        BY <2>3, <2>5, <2>6, <3>1
      <4>2. k - 1 \in 1..Len(o) /\ o[k - 1] = "w"
        BY <2>3, <4>1
      <4>. QED  BY <2>3, <2>4, <2>5, <4>2
    <3>2. CASE k > Len(o)
      <4>1. e[k - Len(o)] = "continued" /\ k - Len(o) \in 1..Len(e)
        BY <2>3, <2>4, <2>5, <2>6, <3>2
      <4>2. k - Len(o) = 2 /\ Len(e) = 2 /\ e[1] = "w"
        <5>1. k - Len(o) \in Int /\ 1 <= k - Len(o) /\ k - Len(o) <= Len(e)
          BY <2>3, <2>4, <4>1
        <5>2. Len(e) = 1 \/ Len(e) = 2
          BY <2>4
        <5>3. \A x \in Int : 1 <= x /\ (x <= 1 \/ x <= 2) => x = 1 \/ x = 2
          OBVIOUS
        <5>4. k - Len(o) <= 1 \/ k - Len(o) <= 2
          BY <5>1, <5>2
        <5>5. k - Len(o) = 1 \/ k - Len(o) = 2
          BY <5>1, <5>3, <5>4
        <5>. QED  BY <2>4, <4>1, <5>1, <5>5
      <4>3. k - 1 \in 1..Len(o \o e) /\ ~(k - 1 <= Len(o)) /\ (k - 1) - Len(o) = 1
        BY <2>3, <2>5, <4>2
      <4>. QED  BY <2>5, <4>2, <4>3
    <3>. QED  BY <2>3, <3>1, <3>2
  <2>. QED  BY <2>3, <2>6
<1>4. Len(text) \in S
  <2> HIDE DEF S
  <2>1. Nat \subseteq S
    BY <1>2, <1>3, SetInduction
  <2>. QED  BY <1>0, <2>1
<1>5. Octets(text) \in Seq(OctetSymbols) /\ Follows(Octets(text))
  BY <1>0, <1>1, <1>4
<1>. QED  BY <1>5

\* A beginning of a text of octets.
LEMMA BeginningOf ==
    ASSUME NEW S, NEW o \in Seq(S), NEW m \in 0..Len(o)
    PROVE  /\ SubSeq(o, 1, m) \in Seq(S) /\ Len(SubSeq(o, 1, m)) = m
           /\ \A i \in 1..m : SubSeq(o, 1, m)[i] = o[i]
<1>1. m \in Nat /\ \A i \in 1..m : o[i] \in S
  BY ElementOfSeq, LenProperties
<1>. QED  BY <1>1, SubSeqProperties

\* Of base64, whatever ends with a group of four before its last is base64 too,
\* and not padded.
LEMMA BeginningOfBase64 ==
    ASSUME NEW S, NEW o \in Seq(S), NEW m \in 1..Len(o), NEW w \in 1..(m - 1), w % 4 = 0,
           IsBase64(SubSeq(o, 1, m))
    PROVE  IsBase64(SubSeq(o, 1, w)) /\ Padding(SubSeq(o, 1, w)) = 0
<1> DEFINE long  == SubSeq(o, 1, m)
           short == SubSeq(o, 1, w)
<1>1. /\ m \in Nat /\ w \in Nat /\ Len(o) \in Nat /\ Len(long) = m /\ Len(short) = w /\ w >= 1
      /\ \A i \in 1..m : long[i] = o[i]
      /\ \A i \in 1..w : short[i] = o[i]
  BY BeginningOf, LenProperties
<1> HIDE DEF long, short
<1>2. m % 4 = 0 /\ Padding(long) \in 0..2 /\ \A i \in 1..(m - Padding(long)) : long[i] \in Alphabet
  <2>1. Padding(long) \in 0..2
    BY DEF Padding
  <2>. QED  BY <1>1, <2>1 DEF IsBase64, long
<1>3. w <= m - 4
  BY <1>1, <1>2
<1>4. \A i \in 1..w : short[i] \in Alphabet
  BY <1>1, <1>2, <1>3
<1>5. short[w] # "="
  BY <1>1, <1>4 DEF Alphabet
<1>6. Padding(short) = 0
  BY <1>1, <1>5 DEF Padding
<1>7. IsBase64(short)
  BY <1>1, <1>4, <1>6 DEF IsBase64
<1>. QED  BY <1>6, <1>7 DEF short

\* The witness is whole groups of four, one more than a part may have.
LEMMA WitnessBounds ==
    ASSUME NEW max \in Nat
    PROVE  /\ Witness(max) \in Nat /\ Witness(max) >= 4 /\ Witness(max) % 4 = 0
           /\ (Witness(max) \div 4) * 3 > max
           /\ \A n \in Nat : n % 4 = 0 /\ n < Witness(max) => (n \div 4) * 3 <= max
<1>1. PICK q \in Nat, r \in 0..2 : max = 3 * q + r /\ max \div 3 = q
  OBVIOUS
<1>2. Witness(max) = (q + 1) * 4
  BY <1>1 DEF Witness
<1> HIDE DEF Witness
<1>3. ASSUME NEW n \in Nat, n % 4 = 0, n < Witness(max) PROVE (n \div 4) * 3 <= max
  <2>1. PICK k \in Nat : n = 4 * k /\ n \div 4 = k
    BY <1>3
  <2>. QED  BY <1>1, <1>2, <1>3, <2>1
<1>. QED  BY <1>1, <1>2, <1>3

\* A text with a base64 beginning that is too large has one that ends with the
\* witness.
LEMMA OverflowAtWitness ==
    ASSUME NEW S, NEW o \in Seq(S), NEW max \in Nat, NEW n \in 1..Len(o),
           IsPrefixBase64(o, n),
           DecodedLength(SubSeq(o, 1, n)) > max \/ n > Witness(max)
    PROVE  /\ Witness(max) \in 1..n /\ IsPrefixBase64(o, Witness(max))
           /\ DecodedLength(SubSeq(o, 1, Witness(max))) > max
<1> DEFINE w == Witness(max)
           Bytes(m) == DecodedLength(SubSeq(o, 1, m))
<1>0. n \in Nat /\ Len(o) \in Nat /\ n <= Len(o) /\ n >= 1
  BY LenProperties
<1>1. /\ w \in Nat /\ w >= 4 /\ w % 4 = 0 /\ (w \div 4) * 3 > max
      /\ n % 4 = 0 /\ n < w => (n \div 4) * 3 <= max
  BY <1>0, WitnessBounds
<1>2. \A m \in 1..Len(o) : /\ Len(SubSeq(o, 1, m)) = m
                           /\ Bytes(m) = (m \div 4) * 3 - Padding(SubSeq(o, 1, m))
                           /\ Padding(SubSeq(o, 1, m)) \in 0..2
  <2>1. ASSUME NEW m \in 1..Len(o)
        PROVE  Len(SubSeq(o, 1, m)) = m
    BY <1>0, BeginningOf
  <2>2. \A octets : Padding(octets) \in 0..2
    BY DEF Padding
  <2>3. ASSUME NEW m \in 1..Len(o) PROVE Bytes(m) = (m \div 4) * 3 - Padding(SubSeq(o, 1, m))
    BY <2>1 DEF DecodedLength
  <2> HIDE DEF Bytes
  <2>. QED  BY <2>1, <2>2, <2>3
<1> HIDE DEF w, Bytes
<1>3. n % 4 = 0
  BY <1>0, <1>2 DEF IsPrefixBase64, IsBase64
<1>4. n >= w
  <2>1. CASE n < w
    <3>1. Bytes(n) > max
      BY <1>0, <1>1, <2>1 DEF Bytes, w
    <3>2. (n \div 4) * 3 <= max /\ n \div 4 \in Nat
      BY <1>0, <1>1, <1>3, <2>1
    <3>3. Bytes(n) <= (n \div 4) * 3
      <4>1. Padding(SubSeq(o, 1, n)) \in 0..2
              /\ Bytes(n) = (n \div 4) * 3 - Padding(SubSeq(o, 1, n))
        BY <1>0, <1>2
      <4>2. \A p \in 0..2, k \in Nat : k * 3 - p <= k * 3
        OBVIOUS
      <4>. QED  BY <3>2, <4>1, <4>2
    <3>4. Bytes(n) \in Int
      <4>1. Padding(SubSeq(o, 1, n)) \in 0..2
              /\ Bytes(n) = (n \div 4) * 3 - Padding(SubSeq(o, 1, n))
        BY <1>0, <1>2
      <4>. QED  BY <3>2, <4>1
    <3>. QED  BY <3>1, <3>2, <3>3, <3>4
  <2>. QED  BY <1>0, <1>1, <2>1
<1>5. CASE n = w
  <2>1. Bytes(w) > max
    BY <1>0, <1>1, <1>5 DEF Bytes, w
  <2>. QED  BY <1>0, <1>1, <1>5, <2>1 DEF Bytes, w
<1>6. CASE n > w
  <2>1. w \in 1..(n - 1) /\ w \in 1..Len(o)
    BY <1>0, <1>1, <1>6
  <2>2. IsBase64(SubSeq(o, 1, w)) /\ Padding(SubSeq(o, 1, w)) = 0
    BY <1>1, <2>1, BeginningOfBase64 DEF IsPrefixBase64
  <2>3. Bytes(w) = (w \div 4) * 3
    <3>1. Bytes(w) = (w \div 4) * 3 - Padding(SubSeq(o, 1, w))
      BY <1>2, <2>1
    <3>. QED  BY <1>1, <2>2, <3>1
  <2>. QED  BY <1>0, <1>1, <2>1, <2>2, <2>3 DEF IsPrefixBase64, Bytes, w
<1>. QED  BY <1>0, <1>1, <1>4, <1>5, <1>6

\* The decision made on the witness is that of the whole text.
THEOREM PngDecides ==
    ASSUME NEW text \in Seq(Characters), NEW isPng \in BOOLEAN, NEW max \in Nat
    PROVE  Png(text, isPng, max) = PngReference(text, isPng, max)
<1> DEFINE o == Octets(text)
           w == Witness(max)
           Over(n) == IsPrefixBase64(o, n) /\ DecodedLength(SubSeq(o, 1, n)) > max
           overflows == \E n \in 1..Len(o) : Over(n)
<1>1. o \in Seq(OctetSymbols) /\ Len(o) \in Nat
  BY ContinuedFollowsWide, LenProperties
<1>0. /\ IsPrefixBase64(o, Len(o)) <=> IsBase64(o)
      /\ DecodedLength(SubSeq(o, 1, Len(o))) = DecodedLength(o)
  <2>1. SubSeq(o, 1, Len(o)) = o
    BY <1>1, SubSeqFull
  <2>. QED  BY <2>1 DEF IsPrefixBase64
<1>2. w \in Nat /\ w >= 4
  BY WitnessBounds
<1>3. overflows => w <= Len(o) /\ Over(w)
  <2>1. ASSUME NEW n \in 1..Len(o), Over(n) PROVE w <= Len(o) /\ Over(w)
    <3> HIDE DEF o
    <3>. QED  BY <1>1, <1>2, <2>1, OverflowAtWitness
  <2>. QED  BY <2>1
<1>4. w <= Len(o) /\ Over(w) => overflows
  <2> HIDE DEF Over, o, w
  <2>. QED  BY <1>1, <1>2
<1>5. IsBase64(o) /\ Len(o) > w => overflows
  <2>1. SUFFICES ASSUME IsBase64(o), Len(o) > w PROVE Over(w)
    <3> HIDE DEF o, w, Over, overflows
    <3>. QED  BY <1>1, <1>2, <1>4
  <2>2. Len(o) \in 1..Len(o) /\ IsPrefixBase64(o, Len(o))
    <3> HIDE DEF o, w
    <3>1. Len(o) \in 1..Len(o)
      BY <1>1, <1>2, <2>1
    <3>. QED  BY <1>0, <2>1, <3>1
  <2> HIDE DEF o
  <2>. QED  BY <1>1, <2>1, <2>2, OverflowAtWitness
<1>6. w + 1 \in 1..Len(o) /\ o[w + 1] = "continued" => ~IsPrefixBase64(o, w)
  <2>1. SUFFICES ASSUME w + 1 \in 1..Len(o), o[w + 1] = "continued", IsBase64(SubSeq(o, 1, w))
                 PROVE  FALSE
    BY DEF IsPrefixBase64
  <2>2. o[w] = "w" /\ (w + 1) - 1 = w
    BY <1>2, <2>1, ContinuedFollowsWide
  <2> HIDE DEF o, w
  <2>3. Len(SubSeq(o, 1, w)) = w /\ SubSeq(o, 1, w)[w] = o[w]
    BY <1>1, <1>2, <2>1, BeginningOf
  <2>4. Padding(SubSeq(o, 1, w)) = 0
    BY <1>2, <2>2, <2>3 DEF Padding
  <2>5. SubSeq(o, 1, w)[w] \in Alphabet
    BY <1>2, <2>1, <2>3, <2>4 DEF IsBase64
  <2>. QED  BY <2>2, <2>3, <2>5 DEF Alphabet
<1> HIDE DEF o, w, overflows
<1>7. PngReference(text, isPng, max) = IF overflows THEN Refused("too large")
                                       ELSE IF ~IsBase64(o) THEN Refused("not base64")
                                       ELSE IF ~isPng THEN Refused("not png")
                                       ELSE Part(DecodedLength(o))
  BY DEF PngReference, o, overflows
<1>8. CASE Len(o) > w
  <2> DEFINE splits == o[w + 1] = "continued"
             part   == SubSeq(o, 1, w)
  <2>1. Png(text, isPng, max) = IF splits \/ ~IsBase64(part) THEN Refused("not base64")
                                ELSE IF DecodedLength(part) > max THEN Refused("too large")
                                ELSE Refused("not base64")
    BY <1>8 DEF Png, o, w
  <2>2. w + 1 \in 1..Len(o)
    BY <1>1, <1>2, <1>8
  <2>3. overflows <=> IsBase64(part) /\ DecodedLength(part) > max
    BY <1>1, <1>2, <1>3, <1>4, <1>8 DEF IsPrefixBase64
  <2>4. splits => ~IsBase64(part)
    BY <1>6, <2>2 DEF IsPrefixBase64
  <2>5. ~overflows => ~IsBase64(o)
    BY <1>5, <1>8
  <2> HIDE DEF splits, part
  <2>. QED  BY <1>7, <2>1, <2>3, <2>4, <2>5
<1>9. CASE ~(Len(o) > w)
  <2>1. overflows => IsBase64(o) /\ DecodedLength(o) > max
    <3>1. overflows => w = Len(o)
      <4> HIDE DEF Over
      <4>1. overflows => w <= Len(o)
        BY <1>3
      <4>2. w <= Len(o) => w = Len(o)
        BY <1>1, <1>2, <1>9
      <4>. QED  BY <4>1, <4>2
    <3>2. overflows => Over(Len(o))
      BY <1>3, <3>1
    <3>. QED  BY <1>0, <3>2
  <2>2. IsBase64(o) /\ DecodedLength(o) > max => overflows
    <3>1. SUFFICES ASSUME IsBase64(o), DecodedLength(o) > max PROVE overflows
      OBVIOUS
    <3>2. Len(o) # 0
      <4>1. Len(o) = 0 => DecodedLength(o) = 0
        BY DEF DecodedLength, Padding
      <4>. QED  BY <3>1, <4>1
    <3>3. Len(o) \in 1..Len(o)
      BY <1>1, <3>2
    <3>4. Over(Len(o))
      BY <1>0, <3>1
    <3>. QED  BY <3>3, <3>4 DEF overflows
  <2>3. Png(text, isPng, max) = IF ~IsBase64(o) THEN Refused("not base64")
                                ELSE IF DecodedLength(o) > max THEN Refused("too large")
                                ELSE IF ~isPng THEN Refused("not png")
                                ELSE Part(DecodedLength(o))
    BY <1>9 DEF Png, o, w
  <2> DEFINE sound == IsBase64(o)
             large == DecodedLength(o) > max
  <2>4. overflows <=> sound /\ large
    BY <2>1, <2>2
  <2>5. CASE sound /\ large
    BY <1>7, <2>3, <2>4, <2>5
  <2>6. CASE ~sound
    BY <1>7, <2>3, <2>4, <2>6
  <2>7. CASE sound /\ ~large
    BY <1>7, <2>3, <2>4, <2>7
  <2>. QED  BY <2>5, <2>6, <2>7
<1>. QED  BY <1>8, <1>9

-----------------------------------------------------------------------------
(* The name of a file *)

\* Days of a year from March on before the month that many after it.
FromMarch(k) == (153 * k + 2) \div 5

\* Days of year y before month m, of which the first two end the year before.
BeforeMonth(y, m) ==
    IF m <= 2 THEN FromMarch(m + 9) - 306
    ELSE 59 + Truth(IsLeap(y)) + FromMarch(m - 3)

\* The months' lengths add up.
LEMMA MonthsAddUp ==
    ASSUME NEW y \in Nat, NEW m \in 1..12, NEW d
    PROVE  DaysToDate(y, m, d) = DaysToYear(y) + BeforeMonth(y, m) + d - 1
<1> DEFINE Body(f) == [k \in 1..12 |-> IF k = 1 THEN 0 ELSE f[k - 1] + MonthLength(y, k - 1)]
           table   == [k \in 1..12 |-> BeforeMonth(y, k)]
           before  == CHOOSE f : f = Body(f)
<1>1. ASSUME NEW k \in 2..12
      PROVE  BeforeMonth(y, k) = BeforeMonth(y, k - 1) + MonthLength(y, k - 1)
  <2>1. BeforeMonth(y, 1) = 0 /\ BeforeMonth(y, 2) = 31
    BY DEF BeforeMonth, FromMarch
  <2>2. Truth(IsLeap(y)) = (IF IsLeap(y) THEN 1 ELSE 0)
    BY DEF Truth
  <2>. QED  BY <2>1, <2>2 DEF BeforeMonth, FromMarch, MonthLength
<1>2. BeforeMonth(y, 1) = 0
  BY DEF BeforeMonth, FromMarch
<1>3. table = Body(table)
  <2>1. \A k \in 1..12 : k # 1 => k \in 2..12 /\ k - 1 \in 1..12
    OBVIOUS
  <2>. QED  BY <1>1, <1>2, <2>1
<1>4. before = Body(before)
  <2> HIDE DEF Body
  <2>. QED  BY <1>3
<1>5. DaysToDate(y, m, d) = DaysToYear(y) + before[m] + d - 1
  BY DEF DaysToDate
<1> HIDE DEF before
<1>6. before[1] = 0 /\ \A k \in 2..12 : before[k] = before[k - 1] + MonthLength(y, k - 1)
  BY <1>4
<1>7. before[m] = BeforeMonth(y, m)
  <2> DEFINE S == {n \in Nat : n + 1 \in 1..12 => before[n + 1] = BeforeMonth(y, n + 1)}
  <2>1. 0 \in S
    BY <1>2, <1>6
  <2>2. ASSUME NEW n \in Nat, n \in S PROVE n + 1 \in S
    <3>1. SUFFICES ASSUME (n + 1) + 1 \in 1..12
                   PROVE  before[(n + 1) + 1] = BeforeMonth(y, (n + 1) + 1)
      OBVIOUS
    <3>2. n + 1 \in 1..12 /\ (n + 1) + 1 \in 2..12 /\ ((n + 1) + 1) - 1 = n + 1
      BY <3>1
    <3>3. before[n + 1] = BeforeMonth(y, n + 1)
      BY <2>2, <3>2
    <3>. QED  BY <1>1, <1>6, <3>2, <3>3
  <2>3. Nat \subseteq S
    <3> HIDE DEF S
    <3>. QED  BY <2>1, <2>2, SetInduction
  <2>4. m - 1 \in Nat /\ (m - 1) + 1 = m
    OBVIOUS
  <2>. QED  BY <2>3, <2>4
<1>. QED  BY <1>5, <1>7

\* What a quotient is.
LEMMA Quotient ==
    ASSUME NEW n \in Nat, NEW d \in Nat \ {0}
    PROVE  n \div d \in Nat /\ d * (n \div d) <= n /\ n < d * (n \div d) + d
OBVIOUS

\* The year of an era, which begins in March, and the day in it.
LEMMA YearOfEraBounds ==
    ASSUME NEW e \in Nat, e <= 146096, NEW a \in Int, NEW b \in Int, NEW c \in Int,
           NEW y \in Int, NEW f \in Int, NEW h \in Int, NEW r \in Int,
           1460 * a <= e, e < 1460 * a + 1460,
           36524 * b <= e, e < 36524 * b + 36524,
           146096 * c <= e, e < 146096 * c + 146096,
           365 * y <= e - a + b - c, e - a + b - c < 365 * y + 365,
           4 * f <= y, y < 4 * f + 4, 100 * h <= y, y < 100 * h + 100,
           r = e - (365 * y + f - h)
    PROVE  /\ 0 <= y /\ y <= 399 /\ 0 <= r /\ r <= 365
           /\ r = 365 => y = 4 * f + 3 /\ (y # 100 * h + 99 \/ y = 399)
BY SMTT(60)

DayOf(e) == e - (365 * YearOfEra(e) + YearOfEra(e) \div 4 - YearOfEra(e) \div 100)

\* A year of an era begins within it, and its 366th day is that of a leap year.
LEMMA DayOfEraYear ==
    ASSUME NEW e \in Nat, e <= 146096
    PROVE  /\ YearOfEra(e) \in Nat /\ YearOfEra(e) <= 399 /\ DayOf(e) \in Nat /\ DayOf(e) <= 365
           /\ DayOf(e) = 365 => IsLeap(YearOfEra(e) + 1)
<1> DEFINE a == e \div 1460
           b == e \div 36524
           c == e \div 146096
           x == e - a + b - c
           y == x \div 365
           f == y \div 4
           h == y \div 100
           r == e - (365 * y + f - h)
<1>0. YearOfEra(e) = y /\ DayOf(e) = r
  BY DEF YearOfEra, DayOf
<1>1. e \in Nat /\ e <= 146096
  OBVIOUS
<1>2. a \in Nat /\ 1460 * a <= e /\ e < 1460 * a + 1460
  BY <1>1, Quotient
<1>3. b \in Nat /\ 36524 * b <= e /\ e < 36524 * b + 36524
  BY <1>1, Quotient
<1>4. c \in Nat /\ 146096 * c <= e /\ e < 146096 * c + 146096
  BY <1>1, Quotient
<1> HIDE DEF a, b, c
<1>5. x \in Nat
  BY <1>1, <1>2, <1>3, <1>4
<1>6. y \in Nat /\ 365 * y <= x /\ x < 365 * y + 365
  <2> HIDE DEF x
  <2>. QED  BY <1>5, Quotient
<1> HIDE DEF y
<1>7. f \in Nat /\ 4 * f <= y /\ y < 4 * f + 4
  BY <1>6, Quotient
<1>8. h \in Nat /\ 100 * h <= y /\ y < 100 * h + 100
  BY <1>6, Quotient
<1> HIDE DEF f, h
<1>9. r \in Int
  BY <1>1, <1>6, <1>7, <1>8
<1>10. /\ 0 <= y /\ y <= 399 /\ 0 <= r /\ r <= 365
       /\ r = 365 => y = 4 * f + 3 /\ (y # 100 * h + 99 \/ y = 399)
  BY <1>1, <1>2, <1>3, <1>4, <1>5, <1>6, <1>7, <1>8, <1>9, YearOfEraBounds
<1> HIDE DEF x, r
<1>11. ASSUME r = 365 PROVE IsLeap(y + 1)
  <2>1. y = 4 * f + 3
    BY <1>10, <1>11
  <2>2. (y + 1) % 4 = 0
    BY <1>6, <1>7, <2>1
  <2>3. y # 100 * h + 99 => (y + 1) % 100 # 0
    BY <1>6, <1>8
  <2>4. (399 + 1) % 400 = 0
    OBVIOUS
  <2>. QED  BY <1>10, <1>11, <2>2, <2>3, <2>4 DEF IsLeap
<1>. QED  BY <1>0, <1>6, <1>9, <1>10, <1>11

\* A year's length is 365 days, and one more when it is a leap year.
LEMMA YearLength ==
    ASSUME NEW y \in Nat, y >= 1
    PROVE  DaysToYear(y + 1) = DaysToYear(y) + 365 + Truth(IsLeap(y))
<1> DEFINE Q(n, d) == n \div d
<1>1. Q(y, 4) - Q(y - 1, 4) = (IF y % 4 = 0 THEN 1 ELSE 0)
  OBVIOUS
<1>2. Q(y, 100) - Q(y - 1, 100) = (IF y % 100 = 0 THEN 1 ELSE 0)
  OBVIOUS
<1>3. Q(y, 400) - Q(y - 1, 400) = (IF y % 400 = 0 THEN 1 ELSE 0)
  OBVIOUS
<1>4. (y % 400 = 0 => y % 100 = 0) /\ (y % 100 = 0 => y % 4 = 0)
  OBVIOUS
<1>5. Truth(IsLeap(y)) = (IF y % 4 = 0 THEN 1 ELSE 0) - (IF y % 100 = 0 THEN 1
        ELSE 0) + (IF y % 400 = 0 THEN 1 ELSE 0)
  BY <1>4 DEF Truth, IsLeap
<1>6. /\ Q(y, 4) \in Int /\ Q(y - 1, 4) \in Int /\ Q(y, 100) \in Int
      /\ Q(y - 1, 100) \in Int /\ Q(y, 400) \in Int /\ Q(y - 1, 400) \in Int
      /\ Q(1969, 4) \in Int /\ Q(1969, 100) \in Int /\ Q(1969, 400) \in Int
  OBVIOUS
<1>7. /\ DaysToYear(y) = 365 * (y - 1970) + (Q(y - 1, 4) - Q(1969, 4)) - (Q(y - 1, 100) - Q(1969, 100)) + (Q(y - 1, 400) - Q(1969, 400))
      /\ DaysToYear(y + 1) = 365 * ((y + 1) - 1970) + (Q(y, 4) - Q(1969, 4)) - (Q(y, 100) - Q(1969, 100)) + (Q(y, 400) - Q(1969, 400))
  <2>1. (y + 1) - 1 = y
    OBVIOUS
  <2>. QED  BY <2>1 DEF DaysToYear
<1> HIDE DEF Q
<1>. QED  BY <1>1, <1>2, <1>3, <1>5, <1>6, <1>7

\* The days before the first of March in year y of an era.
MarchFirst(era, y) ==
    DaysToYear(y + 400 * era + 1) - 306 + 719468 = 146097 * era + (365 * y + y \div 4 - y \div 100)

\* Eras and years, counted from March, add up to days.
LEMMA ErasAddUp ==
    ASSUME NEW era \in Nat, NEW y \in Nat, y <= 399
    PROVE  MarchFirst(era, y)
<1> DEFINE Y == y + 400 * era
<1>1. Y \div 4 = y \div 4 + 100 * era
  OBVIOUS
<1>2. Y \div 100 = y \div 100 + 4 * era
  OBVIOUS
<1>3. Y \div 400 = era
  OBVIOUS
<1>4. 1969 \div 4 = 492 /\ 1969 \div 100 = 19 /\ 1969 \div 400 = 4
  OBVIOUS
<1>5. Y \in Nat /\ (Y + 1) - 1 = Y
  OBVIOUS
<1>6. DaysToYear(Y + 1) = 365 * ((Y + 1) - 1970) + (Y \div 4 - 1969 \div 4) - (Y \div 100 - 1969 \div 100) + (Y \div 400 - 1969 \div 400)
  <2> HIDE DEF Y
  <2>. QED  BY <1>5 DEF DaysToYear
<1>7. y \div 4 \in Int /\ y \div 100 \in Int
  OBVIOUS
<1>8. DaysToYear(Y + 1) - 306 + 719468 = 146097 * era + (365 * y + y \div 4 - y \div 100)
  BY <1>1, <1>2, <1>3, <1>4, <1>6, <1>7
<1>. QED  BY <1>8 DEF MarchFirst

\* The month a day of a year from March on is in.
March(r) == (5 * r + 2) \div 153

\* A day of a year from March on lies in the month it is put in.
LEMMA MarchBounds ==
    ASSUME NEW r \in Nat, r <= 365
    PROVE  /\ March(r) \in 0..11
           /\ FromMarch(March(r)) <= r /\ r < FromMarch(March(r) + 1)
<1>1. March(r) \in 0..11 /\ 153 * March(r) <= 5 * r + 2 /\ 5 * r + 2 < 153 * March(r) + 153
  BY DEF March
<1>2. \A k \in 0..12 : 5 * FromMarch(k) <= 153 * k + 2 /\ 153 * k + 2 < 5 * FromMarch(k) + 5
        /\ FromMarch(k) \in Int
  BY DEF FromMarch
<1>. QED  BY <1>1, <1>2

MonthOf(r) == IF March(r) < 10 THEN March(r) + 3 ELSE March(r) - 9

\* The era of a day since the epoch, and the day in it.
Era(n)      == (n + 719468) \div 146097
DayOfEra(n) == (n + 719468) - Era(n) * 146097

\* The calendar's conversion, by its parts.
LEMMA CivilParts ==
    ASSUME NEW n
    PROVE  CivilFromDays(n) = DateInEra(Era(n), YearOfEra(DayOfEra(n)), DayOf(DayOfEra(n)))
BY SMT DEF CivilFromDays, DayOf, Era, DayOfEra

\* A day of a year from March on is a day of its month.
LEMMA DayInMonth ==
    ASSUME NEW r \in Nat, r <= 365, NEW y \in Nat, MonthOf(r) = 2 /\ r = 365 => IsLeap(y)
    PROVE  /\ MonthOf(r) \in 1..12
           /\ r - FromMarch(March(r)) + 1 \in 1..MonthLength(y, MonthOf(r))
<1>1. March(r) \in 0..11 /\ FromMarch(March(r)) <= r /\ r < FromMarch(March(r) + 1)
  BY MarchBounds
<1>2. FromMarch(11) = 337
  BY DEF FromMarch
<1>3. ASSUME NEW k \in 0..10
      PROVE  FromMarch(k + 1) - FromMarch(k) = (IF k \in {1, 3, 6, 8} THEN 30
              ELSE 31) /\ FromMarch(k) \in Int
  BY DEF FromMarch
<1>4. CASE March(r) = 11
  <2>1. MonthOf(r) = 2
    BY <1>4 DEF MonthOf
  <2>2. MonthLength(y, 2) = (IF IsLeap(y) THEN 29 ELSE 28)
    BY DEF MonthLength
  <2>3. r - 337 + 1 <= 29 /\ (r # 365 => r - 337 + 1 <= 28) /\ r - 337 + 1 >= 1
    BY <1>1, <1>2, <1>4
  <2>4. r - 337 + 1 \in 1..MonthLength(y, 2)
    BY <2>1, <2>2, <2>3
  <2>. QED  BY <1>2, <1>4, <2>1, <2>4
<1>5. CASE March(r) # 11
  <2>1. March(r) \in 0..10
    BY <1>1, <1>5
  <2>2. MonthOf(r) \in 1..12 /\ MonthOf(r) # 2 /\ (MonthOf(r) \in {4, 6, 9, 11}
          <=> March(r) \in {1, 3, 6, 8})
    BY <2>1 DEF MonthOf
  <2>3. MonthLength(y, MonthOf(r)) = (IF March(r) \in {1, 3, 6, 8} THEN 30 ELSE 31)
    BY <2>2 DEF MonthLength
  <2>4. FromMarch(March(r) + 1) - FromMarch(March(r)) = MonthLength(y, MonthOf(r))
          /\ FromMarch(March(r)) \in Int
    BY <1>3, <2>1, <2>3
  <2>5. FromMarch(March(r) + 1) \in Int
    BY <2>1 DEF FromMarch
  <2>6. r - FromMarch(March(r)) + 1 \in Int /\ r - FromMarch(March(r)) + 1 >= 1
    BY <1>1, <2>4
  <2>7. MonthLength(y, MonthOf(r)) \in Int
    BY <2>3
  <2>8. r - FromMarch(March(r)) + 1 <= MonthLength(y, MonthOf(r))
    BY <1>1, <2>4, <2>5, <2>7
  <2>. QED  BY <2>2, <2>6, <2>7, <2>8
<1>. QED  BY <1>4, <1>5

\* The calendar's conversion gives a date that exists, and that of the day.
THEOREM CalendarDecides ==
    ASSUME NEW n \in Nat
    PROVE  LET date == CivilFromDays(n) IN
           /\ date.year \in Nat /\ date.month \in 1..12
           /\ date.day \in 1..MonthLength(date.year, date.month)
           /\ DaysToDate(date.year, date.month, date.day) = n
<1> DEFINE era == Era(n)
           e == DayOfEra(n)
           r == DayOf(e)
           Y == YearOfEra(e) + 400 * era
           m == MonthOf(r)
           y == Y + Truth(m <= 2)
           d == r - FromMarch(March(r)) + 1
<1>1. era \in Nat /\ era >= 4 /\ e \in Nat /\ e <= 146096 /\ 146097 * era + e = n + 719468
  <2>1. n + 719468 \in Nat /\ n + 719468 >= 719468
    OBVIOUS
  <2>2. era \in Nat /\ 146097 * era <= n + 719468 /\ n + 719468 < 146097 * era + 146097
    BY <2>1, Quotient DEF Era
  <2>3. e = (n + 719468) - era * 146097
    BY DEF DayOfEra
  <2> HIDE DEF era, e
  <2>. QED  BY <2>1, <2>2, <2>3
<1>2. CivilFromDays(n) = [year |-> YearOfEra(e) + era * 400 + Truth(m <= 2), month |-> m, day |-> d]
  <2>1. CivilFromDays(n) = DateInEra(era, YearOfEra(e), r)
    BY CivilParts
  <2> HIDE DEF era, e, r
  <2>. QED  BY <2>1 DEF DateInEra, MonthOf, March, FromMarch
<1> HIDE DEF era, e
<1>3. /\ YearOfEra(e) \in Nat /\ YearOfEra(e) <= 399 /\ r \in Nat /\ r <= 365
      /\ r = 365 => IsLeap(YearOfEra(e) + 1)
  BY <1>1, DayOfEraYear
<1>4. r = e - (365 * YearOfEra(e) + YearOfEra(e) \div 4 - YearOfEra(e) \div 100)
  BY DEF DayOf
<1>5. DaysToYear(Y + 1) - 306 + r = n
  <2>1. DaysToYear(Y + 1) - 306 + 719468 = 146097 * era + (365 * YearOfEra(e) + YearOfEra(e) \div 4 - YearOfEra(e) \div 100)
    <3>1. MarchFirst(era, YearOfEra(e))
      BY <1>1, <1>3, ErasAddUp
    <3>. QED  BY <3>1 DEF MarchFirst
  <2>2. DaysToYear(Y + 1) \in Int
    BY <1>1, <1>3 DEF DaysToYear
  <2>3. YearOfEra(e) \div 4 \in Int /\ YearOfEra(e) \div 100 \in Int
    BY <1>3
  <2> HIDE DEF Y, r
  <2>. QED  BY <1>1, <1>3, <1>4, <2>1, <2>2, <2>3
<1>6. r = 365 => IsLeap(Y + 1)
  <2>1. SUFFICES ASSUME IsLeap(YearOfEra(e) + 1) PROVE IsLeap(Y + 1)
    BY <1>3
  <2>2. Y + 1 = (YearOfEra(e) + 1) + 400 * era
    BY <1>1, <1>3
  <2>3. ASSUME NEW z \in Nat PROVE /\ (z + 400 * era) % 4 = z % 4
                                   /\ (z + 400 * era) % 100 = z % 100
                                   /\ (z + 400 * era) % 400 = z % 400
    BY <1>1
  <2>4. YearOfEra(e) + 1 \in Nat
    BY <1>3
  <2>. QED  BY <2>1, <2>2, <2>3, <2>4 DEF IsLeap
<1>7. Y \in Nat /\ Y >= 1
  BY <1>1, <1>3
<1> HIDE DEF Y, r
<1>8. y \in Nat /\ (m <= 2 => y = Y + 1) /\ (~(m <= 2) => y = Y)
  BY <1>7 DEF Truth
<1>9. m \in 1..12 /\ d \in 1..MonthLength(y, m)
  <2>1. m = 2 /\ r = 365 => IsLeap(y)
    BY <1>6, <1>8
  <2>. QED  BY <1>3, <1>8, <2>1, DayInMonth
<1>10. March(r) \in 0..11 /\ FromMarch(March(r)) \in Int
  BY <1>3, MarchBounds DEF FromMarch
<1>11. DaysToYear(y) + BeforeMonth(y, m) + d - 1 = n
  <2>1. CASE m <= 2
    <3>1. March(r) = m + 9
      BY <1>10, <2>1 DEF MonthOf
    <3>2. BeforeMonth(y, m) = FromMarch(March(r)) - 306
      BY <2>1, <3>1 DEF BeforeMonth
    <3>3. DaysToYear(Y + 1) \in Int
      BY <1>7 DEF DaysToYear
    <3>. QED  BY <1>3, <1>5, <1>8, <1>10, <2>1, <3>2, <3>3
  <2>2. CASE ~(m <= 2)
    <3>1. March(r) = m - 3
      BY <1>10, <2>2 DEF MonthOf
    <3>2. BeforeMonth(y, m) = 59 + Truth(IsLeap(Y)) + FromMarch(March(r))
      BY <1>8, <2>2, <3>1 DEF BeforeMonth
    <3>3. DaysToYear(Y + 1) = DaysToYear(Y) + 365 + Truth(IsLeap(Y))
      BY <1>7, YearLength
    <3>4. DaysToYear(Y) \in Int /\ Truth(IsLeap(Y)) \in Int
      BY <1>7 DEF DaysToYear, Truth
    <3>. QED  BY <1>3, <1>5, <1>8, <1>10, <2>2, <3>2, <3>3, <3>4
  <2>. QED  BY <2>1, <2>2
<1>12. DaysToDate(y, m, d) = n
  BY <1>8, <1>9, <1>11, MonthsAddUp
<1>13. CivilFromDays(n) = [year |-> y, month |-> m, day |-> d]
  <2>1. YearOfEra(e) + era * 400 + Truth(m <= 2) = y
    BY <1>1, <1>3 DEF Y, Truth
  <2>. QED  BY <1>2, <2>1
<1> HIDE DEF y, m, d
<1>. QED  BY <1>8, <1>9, <1>12, <1>13

\* The time of day a stamp holds is the second it was made from.
LEMMA TimeOfDay ==
    ASSUME NEW s \in Nat, s < 86400
    PROVE  /\ s \div 3600 \in 0..23 /\ (s % 3600) \div 60 \in 0..59 /\ s % 60 \in 0..59
           /\ ((s \div 3600) * 60 + (s % 3600) \div 60) * 60 + (s % 60) = s
<1> DEFINE h == s \div 3600
           q == s \div 60
<1>1. q \in Nat /\ 60 * q <= s /\ s < 60 * q + 60
  OBVIOUS
<1>2. s % 60 \in 0..59 /\ 60 * q + (s % 60) = s
  <2>1. s % 60 \in 0..59
    OBVIOUS
  <2>2. 60 * q + (s % 60) = s
    OBVIOUS
  <2>. QED  BY <2>1, <2>2
<1>3. h \in Nat /\ 3600 * h <= s /\ s < 3600 * h + 3600
  OBVIOUS
<1>4. s % 3600 = s - 3600 * h
  OBVIOUS
<1>5. (s % 3600) \div 60 = q - 60 * h
  <2>1. s % 3600 \in Nat /\ s % 3600 = s - 3600 * h
    BY <1>4
  <2>2. ASSUME NEW x \in Nat PROVE x \div 60 \in Nat /\ 60 * (x \div 60) <= x
          /\ x < 60 * (x \div 60) + 60
    OBVIOUS
  <2>3. (s % 3600) \div 60 \in Nat /\ 60 * ((s % 3600) \div 60) <= s % 3600
          /\ s % 3600 < 60 * ((s % 3600) \div 60) + 60
    BY <2>1, <2>2
  <2> HIDE DEF h, q
  <2>. QED  BY <1>1, <1>3, <2>1, <2>3
<1> HIDE DEF h, q
<1>6. h <= 23
  BY <1>3
<1>7. q - 60 * h \in 0..59
  BY <1>1, <1>3
<1>8. s % 60 \in 0..59 /\ (h * 60 + (q - 60 * h)) * 60 + (s % 60) = s
  <2>1. (h * 60 + (q - 60 * h)) * 60 = 60 * q
    BY <1>1, <1>3
  <2>. QED  BY <1>1, <1>2, <2>1
<1>9. h = s \div 3600
  BY DEF h
<1>. QED  BY <1>3, <1>5, <1>6, <1>7, <1>8, <1>9

\* A stamp is a UTC time, and the one it was made from.
LEMMA StampDecides ==
    ASSUME NEW at, at = [day |-> at.day, second |-> at.second, micro |-> at.micro],
           at.day \in Nat, at.second \in Nat, at.second < 86400
    PROVE  IsUtc(UtcParts(at)) /\ InstantOf(UtcParts(at)) = at
<1> DEFINE date == CivilFromDays(at.day)
           s == at.second
           h == s \div 3600
           p == (s % 3600) \div 60
           q == s % 60
<1>1. UtcParts(at) = <<date.year, date.month, date.day, h, p, q, at.micro>>
  BY DEF UtcParts
<1>2. /\ date.month \in 1..12 /\ date.day \in 1..MonthLength(date.year, date.month)
      /\ DaysToDate(date.year, date.month, date.day) = at.day
  BY CalendarDecides
<1>3. h \in 0..23 /\ p \in 0..59 /\ q \in 0..59 /\ (h * 60 + p) * 60 + q = s
  <2>1. s \in Nat /\ s < 86400
    OBVIOUS
  <2> HIDE DEF s
  <2>. QED  BY <2>1, TimeOfDay
<1> HIDE DEF date, h, p, q
<1>4. IsUtc(UtcParts(at))
  BY <1>1, <1>2, <1>3 DEF IsUtc
<1>5. InstantOf(UtcParts(at)) = [day |-> at.day, second |-> s, micro |-> at.micro]
  BY <1>1, <1>2, <1>3 DEF InstantOf
<1>. QED  BY <1>4, <1>5

\* An identity holds no separator of a name's parts.
LEMMA NoPlus ==
    ASSUME NEW limit, NEW text \in Seq(NameCharacters), IsIdentity(text, limit), NEW i \in 1..Len(text)
    PROVE  text[i] # "+"
<1>1. ToSet(text) \subseteq {"x"} \cup {"_", ".", "-"}
  BY DEF IsIdentity, Punctuation
<1>2. text[i] \in ToSet(text)
  BY DEF ToSet
<1>. QED  BY <1>1, <1>2

\* A name made of two identities is read as those, and in no other way.
THEOREM NameDecides ==
    ASSUME NEW limit, NEW app \in Seq(NameCharacters), NEW id \in Seq(NameCharacters),
           IsIdentity(app, limit), IsIdentity(id, limit), NEW at,
           InstantOf(UtcParts(at)) = at
    PROVE  NameReadings(FileName(app, id, at)) = {<<app, id, at>>}
<1> DEFINE t == app \o <<"+">> \o id \o <<"+">>
           n == Len(app)
<1>1. FileName(app, id, at) = [text |-> t, stamp |-> UtcParts(at)]
  BY DEF FileName
<1>2. /\ n \in Nat /\ Len(id) \in Nat /\ t \in Seq(NameCharacters) /\ Len(t) = n + Len(id) + 2
      /\ \A i \in 1..n : t[i] = app[i]
      /\ t[n + 1] = "+"
      /\ \A i \in 1..Len(id) : t[n + 1 + i] = id[i]
  <2> DEFINE a == app \o <<"+">>
             b == a \o id
  <2>1. "+" \in NameCharacters
    BY DEF NameCharacters
  <2>2. /\ n \in Nat /\ a \in Seq(NameCharacters) /\ Len(a) = n + 1 /\ a[n + 1] = "+"
        /\ \A i \in 1..n : a[i] = app[i]
    BY <2>1
  <2> HIDE DEF a
  <2>3. /\ b \in Seq(NameCharacters) /\ Len(b) = n + 1 + Len(id) /\ Len(id) \in Nat
        /\ \A i \in 1..(n + 1) : b[i] = a[i]
        /\ \A i \in 1..Len(id) : b[n + 1 + i] = id[i]
    <3>1. b \in Seq(NameCharacters) /\ Len(b) = Len(a) + Len(id) /\ Len(id) \in Nat
      BY <2>2
    <3>2. \A i \in 1..Len(b) : b[i] = IF i <= Len(a) THEN a[i] ELSE id[i - Len(a)]
      BY <2>2, ConcatProperties
    <3>3. \A i \in 1..Len(id) : n + 1 + i \in 1..Len(b) /\ ~(n + 1 + i <= Len(a))
            /\ (n + 1 + i) - Len(a) = i
      BY <2>2, <3>1
    <3> HIDE DEF b
    <3>. QED  BY <2>2, <3>1, <3>2, <3>3
  <2> DEFINE plus == <<"+">>
  <2>4. t = b \o plus
    BY DEF a, b
  <2> HIDE DEF b, t
  <2>5. plus \in Seq(NameCharacters) /\ Len(plus) = 1
    BY <2>1
  <2> HIDE DEF plus
  <2>6. /\ t \in Seq(NameCharacters) /\ Len(t) = Len(b) + 1
        /\ \A i \in 1..(Len(b) + 1) : t[i] = IF i <= Len(b) THEN b[i] ELSE plus[i - Len(b)]
    <3>1. b \in Seq(NameCharacters) /\ plus \in Seq(NameCharacters)
      BY <2>3, <2>5
    <3> DEFINE joined == b \o plus
    <3>2. /\ joined \in Seq(NameCharacters) /\ Len(joined) = Len(b) + Len(plus)
          /\ \A i \in 1..(Len(b) + Len(plus)) :
                joined[i] = IF i <= Len(b) THEN b[i] ELSE plus[i - Len(b)]
      BY <3>1, ConcatProperties
    <3>3. t = joined
      BY <2>4
    <3> HIDE DEF joined
    <3>. QED  BY <2>5, <3>2, <3>3
  <2>7. \A i \in 1..Len(b) : t[i] = b[i]
    BY <2>3, <2>6
  <2> HIDE DEF n
  <2>8. \A i \in 1..n : t[i] = app[i]
    BY <2>2, <2>3, <2>7
  <2>9. t[n + 1] = "+"
    BY <2>2, <2>3, <2>7
  <2>10. \A i \in 1..Len(id) : t[n + 1 + i] = id[i]
    <3>1. \A i \in 1..Len(id) : n + 1 + i \in 1..Len(b)
      BY <2>2, <2>3
    <3>. QED  BY <2>3, <2>7, <3>1
  <2>11. Len(t) = n + Len(id) + 2
    BY <2>2, <2>3, <2>6
  <2>. QED  BY <2>2, <2>3, <2>6, <2>8, <2>9, <2>10, <2>11
<1>3. \A i \in 1..n : app[i] # "+"
  BY NoPlus
<1>4. \A i \in 1..Len(id) : id[i] # "+"
  BY NoPlus
<1> HIDE DEF t
<1>5. {i \in 1..(Len(t) - 1) : t[i] = "+"} = {n + 1}
  <2>1. ASSUME NEW i \in 1..(Len(t) - 1), i # n + 1 PROVE t[i] # "+"
    <3>1. CASE i <= n
      BY <1>2, <1>3, <3>1
    <3>2. CASE i > n
      <4>1. i - (n + 1) \in 1..Len(id) /\ i = n + 1 + (i - (n + 1))
        BY <1>2, <2>1, <3>2
      <4>2. t[i] = id[i - (n + 1)]
        BY <1>2, <4>1
      <4>. QED  BY <1>4, <4>1, <4>2
    <3>. QED  BY <1>2, <3>1, <3>2
  <2>2. n + 1 \in 1..(Len(t) - 1)
    BY <1>2
  <2>. QED  BY <1>2, <2>1, <2>2
<1>6. SubSeq(t, 1, (n + 1) - 1) = app
  <2>1. SubSeq(t, 1, n) = [i \in 1..n |-> t[i]]
    BY <1>2
  <2>2. app = [i \in 1..n |-> app[i]]
    OBVIOUS
  <2>3. (n + 1) - 1 = n
    BY <1>2
  <2>. QED  BY <1>2, <2>1, <2>2, <2>3
<1>7. SubSeq(t, (n + 1) + 1, Len(t) - 1) = id
  <2> DEFINE u == SubSeq(t, (n + 1) + 1, Len(t) - 1)
  <2>1. u \in Seq(NameCharacters) /\ Len(u) = Len(id) /\ \A i \in 1..Len(id) : u[i] = t[n + 1 + i]
    <3>1. (Len(t) - 1) - ((n + 1) + 1) + 1 = Len(id)
            /\ \A i \in 1..Len(id) : ((n + 1) + 1) + i - 1 = n + 1 + i
      BY <1>2
    <3>2. (n + 1) + 1 \in 1..(Len(t) + 1) /\ Len(t) - 1 \in 0..Len(t)
      BY <1>2
    <3>. QED  BY <1>2, <3>1, <3>2
  <2> HIDE DEF u
  <2>2. u \in Seq(NameCharacters) /\ id \in Seq(NameCharacters)
          /\ \A i \in 1..Len(id) : u[i] = id[i]
    BY <1>2, <2>1
  <2>3. u = id
    BY <2>1, <2>2, SeqEqual
  <2>. QED  BY <2>3 DEF u
<1>8. NameReadings(FileName(app, id, at)) =
        {<<SubSeq(t, 1, i - 1), SubSeq(t, i + 1, Len(t) - 1), at>> : i \in {i \in 1..(Len(t) - 1) : t[i] = "+"}}
  BY <1>1 DEF NameReadings
<1>. QED  BY <1>5, <1>6, <1>7, <1>8

-----------------------------------------------------------------------------
(* The scan of a Content-Type *)

\* The least element of a set of numbers, and the greatest of a bounded one.
LEMMA MinIs ==
    ASSUME NEW S \in SUBSET Nat, NEW x \in S, \A y \in S : x <= y
    PROVE  Min(S) = x
<1>1. \A z \in S : (\A y \in S : z <= y) => z = x
  OBVIOUS
<1>. QED  BY <1>1 DEF Min

\* Numbers have a least one.
LEMMA MinLeast ==
    ASSUME NEW S \in SUBSET Nat, S # {}
    PROVE  Min(S) \in S /\ \A y \in S : Min(S) <= y
<1>1. \E x \in S : \A y \in S : x <= y
  <2> DEFINE R == {ss \in Nat \X Nat : ss[1] < ss[2]}
  <2>1. IsWellFoundedOn(R, Nat)
    BY NatWellFounded
  <2>2. PICK x \in S : \A y \in S : <<y, x>> \notin R
    <3> HIDE DEF R
    <3>. QED  BY <2>1, WFMin
  <2>3. \A y \in S : x <= y
    <3>1. ASSUME NEW y \in S, ~(x <= y) PROVE FALSE
      <4>1. y \in Nat /\ x \in Nat /\ y < x
        BY <3>1
      <4>. QED  BY <2>2, <4>1
    <3>. QED  BY <3>1
  <2>. QED  BY <2>3
<1>. QED  BY <1>1 DEF Min

\* Numbers up to a bound have a greatest one.
LEMMA MaxGreatest ==
    ASSUME NEW n \in Nat, NEW S \in SUBSET (0..n), S # {}
    PROVE  Max(S) \in S /\ \A y \in S : y <= Max(S)
<1> DEFINE T == {n - x : x \in S}
<1>1. T \subseteq Nat /\ T # {}
  <2>1. \A x \in S : n - x \in Nat
    OBVIOUS
  <2>. QED  BY <2>1
<1>2. PICK x \in S : Min(T) = n - x
  <2> HIDE DEF T
  <2>1. Min(T) \in T
    BY <1>1, MinLeast
  <2>. QED  BY <2>1 DEF T
<1>3. \A y \in T : Min(T) <= y
  <2> HIDE DEF T
  <2>. QED  BY <1>1, MinLeast
<1>4. \A y \in S : x >= y
  <2>1. ASSUME NEW y \in S PROVE x >= y
    <3>1. n - y \in T
      OBVIOUS
    <3>2. n - x <= n - y
      BY <1>2, <1>3, <3>1
    <3>3. x \in Int /\ y \in Int
      OBVIOUS
    <3>. QED  BY <3>2, <3>3
  <2>. QED  BY <2>1
<1>5. \E z \in S : \A y \in S : z >= y
  BY <1>4
<1>6. Max(S) \in S /\ \A y \in S : Max(S) >= y
  BY <1>5 DEF Max
<1>. QED  BY <1>6

\* Where a sequence first holds a symbol.
LEMMA FirstIs ==
    ASSUME NEW S, NEW s \in Seq(S), NEW c
    PROVE  /\ First(c, s) \in 1..(Len(s) + 1)
           /\ First(c, s) <= Len(s) => s[First(c, s)] = c
           /\ \A i \in 1..Len(s) : i < First(c, s) => s[i] # c
<1> DEFINE places == {i \in DOMAIN s : s[i] = c} \cup {Len(s) + 1}
<1>1. Len(s) \in Nat /\ DOMAIN s = 1..Len(s)
  OBVIOUS
<1>2. places \in SUBSET Nat /\ places # {} /\ Len(s) + 1 \in places
  BY <1>1
<1>3. First(c, s) = Min(places)
  BY DEF First
<1>4. \A i \in places : (i \in 1..Len(s) /\ s[i] = c) \/ i = Len(s) + 1
  BY <1>1
<1>5. \A i \in 1..Len(s) : s[i] = c => i \in places
  BY <1>1
<1> HIDE DEF places
<1>6. First(c, s) \in places /\ \A i \in places : First(c, s) <= i
  BY <1>2, <1>3, MinLeast
<1>7. First(c, s) \in 1..(Len(s) + 1) /\ (First(c, s) <= Len(s) => s[First(c, s)] = c)
  BY <1>1, <1>4, <1>6
<1>8. ASSUME NEW i \in 1..Len(s), i < First(c, s) PROVE s[i] # c
  BY <1>1, <1>5, <1>6, <1>7, <1>8
<1>. QED  BY <1>7, <1>8

\* A place that holds the symbol, with none before it, is the first.
LEMMA FirstAt ==
    ASSUME NEW S, NEW s \in Seq(S), NEW c, NEW n \in 1..(Len(s) + 1),
           n <= Len(s) => s[n] = c, \A i \in 1..Len(s) : i < n => s[i] # c
    PROVE  First(c, s) = n
<1>1. /\ First(c, s) \in 1..(Len(s) + 1)
      /\ First(c, s) <= Len(s) => s[First(c, s)] = c
      /\ \A i \in 1..Len(s) : i < First(c, s) => s[i] # c
  BY FirstIs
<1>2. Len(s) \in Nat
  OBVIOUS
<1>. QED  BY <1>1, <1>2

\* The parts of a sequence before and after a place.
LEMMA PartsOf ==
    ASSUME NEW S, NEW s \in Seq(S), NEW m \in 1..(Len(s) + 1), NEW n \in Nat, n <= Len(s), m <= n + 1
    PROVE  /\ SubSeq(s, m, n) \in Seq(S)
           /\ Len(SubSeq(s, m, n)) = n - m + 1
           /\ \A i \in 1..(n - m + 1) : SubSeq(s, m, n)[i] = s[m + i - 1]
<1>1. \A i \in m..n : s[i] \in S
  BY ElementOfSeq
<1>2. n - m + 1 \in Nat /\ m \in Int /\ n \in Int /\ (~(m <= n) => n - m + 1 = 0)
  OBVIOUS
<1>. QED  BY <1>1, <1>2, SubSeqProperties

\* Trimming leaves a part, and drops nothing but spaces.
LEMMA TrimmedIs ==
    ASSUME NEW raw \in Seq(Symbols)
    PROVE  \E a \in 1..(Len(raw) + 1), b \in 0..Len(raw) :
             /\ a <= b + 1
             /\ TrimOws(raw) \in Seq(Symbols) /\ Len(TrimOws(raw)) = b - a + 1
             /\ \A i \in 1..(b - a + 1) : TrimOws(raw)[i] = raw[a + i - 1]
             /\ \A i \in 1..Len(raw) : i < a \/ i > b => raw[i] = "space"
<1> DEFINE kept == {i \in DOMAIN raw : raw[i] # "space"}
           n == Len(raw)
           trim == TrimOws(raw)
<1>1. n \in Nat /\ DOMAIN raw = 1..n /\ kept \in SUBSET (0..n)
  OBVIOUS
<1>2. \A i \in 1..n : i \notin kept => raw[i] = "space"
  BY <1>1
<1>3. kept \subseteq 1..n
  BY <1>1
<1>4. trim = IF kept = {} THEN <<>> ELSE SubSeq(raw, Min(kept), Max(kept))
  BY DEF TrimOws
<1> HIDE DEF kept, trim
<1>5. CASE kept = {}
  <2>1. trim = <<>>
    BY <1>4, <1>5
  <2>2. trim \in Seq(Symbols) /\ Len(trim) = 0
    BY <2>1
  <2>3. 1 \in 1..(n + 1) /\ 0 \in 0..n /\ 1 <= 0 + 1 /\ Len(trim) = 0 - 1 + 1
    BY <1>1, <2>2
  <2>4. \A i \in 1..n : raw[i] = "space"
    BY <1>2, <1>5
  <2>5. \A i \in 1..(0 - 1 + 1) : trim[i] = raw[1 + i - 1]
    OBVIOUS
  <2>. QED  BY <2>2, <2>3, <2>4, <2>5 DEF trim
<1>6. CASE kept # {}
  <2> DEFINE a == Min(kept)
             b == Max(kept)
  <2>1. a \in kept /\ \A i \in kept : a <= i
    <3>1. kept \in SUBSET Nat
      BY <1>1
    <3>. QED  BY <1>6, <3>1, MinLeast
  <2>2. b \in kept /\ \A i \in kept : i <= b
    BY <1>1, <1>6, MaxGreatest
  <2>3. trim = SubSeq(raw, a, b)
    BY <1>4, <1>6
  <2> HIDE DEF a, b
  <2>4. a \in 1..(n + 1) /\ b \in 0..n /\ a <= b
    BY <1>1, <1>3, <2>1, <2>2
  <2>5. /\ trim \in Seq(Symbols) /\ Len(trim) = b - a + 1
        /\ \A i \in 1..(b - a + 1) : trim[i] = raw[a + i - 1]
    BY <1>1, <2>3, <2>4, PartsOf
  <2>6. ASSUME NEW i \in 1..n, i < a \/ i > b PROVE raw[i] = "space"
    <3>1. i \notin kept
      BY <1>1, <2>1, <2>2, <2>4, <2>6
    <3>. QED  BY <1>2, <3>1
  <2>7. a \in 1..(n + 1) /\ b \in 0..n /\ a <= b + 1
    BY <1>1, <2>4
  <2>8. \A i \in 1..n : i < a \/ i > b => raw[i] = "space"
    BY <2>6
  <2>. QED  BY <2>5, <2>7, <2>8 DEF trim
<1>. QED  BY <1>5, <1>6

ScanStates == {"outside", "inside", "escape"}

\* The boundary scan, symbol by symbol.
LEMMA ScanIs ==
    ASSUME NEW s \in Seq(Symbols)
    PROVE  /\ \A i \in 0..Len(s) : Scan(s)[i] \in ScanStates
           /\ Scan(s)[0] = "outside"
           /\ \A i \in 1..Len(s) : Scan(s)[i] = AfterSymbol(Scan(s)[i - 1], s[i])
<1> DEFINE n == Len(s)
           Body(f) == [i \in 0..n |-> IF i = 0 THEN "outside" ELSE AfterSymbol(f[i - 1], s[i])]
           step == [i \in 1..n |-> [x \in ScanStates |-> AfterSymbol(x, s[i])]]
           F == CHOOSE f : f = Body(f)
<1>0. n \in Nat
  OBVIOUS
<1>1. step \in [1..n -> [ScanStates -> ScanStates]] /\ "outside" \in ScanStates
  BY DEF AfterSymbol, ScanStates
<1>2. PICK f \in [0..n -> ScanStates] : f[0] = "outside" /\ \A i \in 1..n : f[i] = step[i][f[i - 1]]
  <2> HIDE DEF step, n
  <2>1. PICK f : Recursion(f, n, ScanStates, "outside", step)
    BY <1>0, <1>1, RecursionDefines
  <2>. QED  BY <2>1 DEF Recursion
<1>3. \A i \in 1..n : f[i] = AfterSymbol(f[i - 1], s[i])
  <2>1. \A i \in 1..n : i - 1 \in 0..n /\ f[i - 1] \in ScanStates
    BY <1>0, <1>2
  <2>. QED  BY <1>2, <2>1
<1>4. f = Body(f)
  <2>1. \A i \in 0..n : i = 0 \/ i \in 1..n
    BY <1>0
  <2> HIDE DEF n, step
  <2>. QED  BY <1>2, <1>3, <2>1
<1>5. F = Body(F)
  <2> HIDE DEF Body
  <2>. QED  BY <1>4
<1>6. Scan(s) = F
  BY DEF Scan
<1> HIDE DEF F
<1>7. F[0] = "outside" /\ \A i \in 1..n : F[i] = AfterSymbol(F[i - 1], s[i])
  <2>1. 0 \in 0..n /\ \A i \in 1..n : i \in 0..n /\ i # 0
    BY <1>0
  <2> HIDE DEF n, step
  <2>. QED  BY <1>5, <2>1
<1>8. \A i \in 0..n : F[i] \in ScanStates
  <2> DEFINE T == {i \in Nat : i <= n => F[i] = f[i]}
  <2>1. 0 \in T
    BY <1>2, <1>7
  <2>2. ASSUME NEW i \in Nat, i \in T PROVE i + 1 \in T
    <3>1. i + 1 <= n => i + 1 \in 1..n /\ (i + 1) - 1 = i /\ F[i] = f[i]
      BY <1>0, <2>2
    <3>. QED  BY <1>3, <1>7, <3>1
  <2>3. Nat \subseteq T
    <3> HIDE DEF T
    <3>. QED  BY <2>1, <2>2, SetInduction
  <2>4. \A i \in 0..n : i \in Nat /\ i <= n
    BY <1>0
  <2>. QED  BY <1>2, <2>3, <2>4
<1>. QED  BY <1>6, <1>7, <1>8

\* What each character of a quoted string is.
LEMMA EscapingIs ==
    ASSUME NEW s \in Seq(Symbols)
    PROVE  /\ \A i \in 0..Len(s) : Escaping(s)[i] \in {"escape", "character"}
           /\ Escaping(s)[0] = "character"
           /\ \A i \in 1..Len(s) : Escaping(s)[i] = IF i > 1 /\ s[i] = "backslash"
                   /\ Escaping(s)[i - 1] # "escape" THEN "escape" ELSE "character"
<1> DEFINE n == Len(s)
           Body(f) == [i \in 0..n |-> IF i > 1 /\ s[i] = "backslash" /\ f[i - 1] # "escape"
                   THEN "escape" ELSE "character"]
           step == [i \in 1..n |-> [x \in {"escape", "character"} |-> IF i > 1
                   /\ s[i] = "backslash" /\ x # "escape" THEN "escape" ELSE "character"]]
           F == CHOOSE f : f = Body(f)
<1>0. n \in Nat
  OBVIOUS
<1>1. step \in [1..n -> [{"escape", "character"} -> {"escape", "character"}]]
        /\ "character" \in {"escape", "character"}
  OBVIOUS
<1>2. PICK f \in [0..n -> {"escape", "character"}] : f[0] = "character"
        /\ \A i \in 1..n : f[i] = step[i][f[i - 1]]
  <2> HIDE DEF step, n
  <2>1. PICK f : Recursion(f, n, {"escape", "character"}, "character", step)
    BY <1>0, <1>1, RecursionDefines
  <2>. QED  BY <2>1 DEF Recursion
<1>3. \A i \in 1..n : f[i] = IF i > 1 /\ s[i] = "backslash" /\ f[i - 1] # "escape"
        THEN "escape" ELSE "character"
  <2>1. \A i \in 1..n : i - 1 \in 0..n /\ f[i - 1] \in {"escape", "character"}
    BY <1>0, <1>2
  <2>. QED  BY <1>2, <2>1
<1>4. f = Body(f)
  <2>1. \A i \in 0..n : i = 0 \/ i \in 1..n
    BY <1>0
  <2> HIDE DEF n, step
  <2>. QED  BY <1>2, <1>3, <2>1
<1>5. F = Body(F)
  <2> HIDE DEF Body
  <2>. QED  BY <1>4
<1>6. Escaping(s) = F
  BY DEF Escaping
<1> HIDE DEF F
<1>7. F[0] = "character" /\ \A i \in 1..n : F[i] = IF i > 1 /\ s[i] = "backslash"
        /\ F[i - 1] # "escape" THEN "escape" ELSE "character"
  <2>1. 0 \in 0..n /\ \A i \in 1..n : i \in 0..n
    BY <1>0
  <2>2. \A i \in 0..n : F[i] = IF i > 1 /\ s[i] = "backslash" /\ F[i - 1] # "escape"
          THEN "escape" ELSE "character"
    <3> HIDE DEF n, step
    <3>. QED  BY <1>5
  <2> HIDE DEF n, step
  <2>. QED  BY <2>1, <2>2
<1>8. \A i \in 0..n : F[i] \in {"escape", "character"}
  <2> DEFINE T == {i \in Nat : i <= n => F[i] = f[i]}
  <2>1. 0 \in T
    BY <1>2, <1>7
  <2>2. ASSUME NEW i \in Nat, i \in T PROVE i + 1 \in T
    <3>1. i + 1 <= n => i + 1 \in 1..n /\ (i + 1) - 1 = i /\ F[i] = f[i]
      BY <1>0, <2>2
    <3>. QED  BY <1>3, <1>7, <3>1
  <2>3. Nat \subseteq T
    <3> HIDE DEF T
    <3>. QED  BY <2>1, <2>2, SetInduction
  <2>4. \A i \in 0..n : i \in Nat /\ i <= n
    BY <1>0
  <2>. QED  BY <1>2, <2>3, <2>4
<1>. QED  BY <1>6, <1>7, <1>8

\* Where the parameter after one that starts at a place starts.
NextStart(s, start) ==
    LET end == FindBoundary(SubSeq(s, start, Len(s)))
    IN  IF start \notin 1..(Len(s) + 1) \/ end = 0 THEN 0 ELSE start + end

\* The boundary of a parameter is in it, behind its end, or nowhere.
LEMMA BoundaryIs ==
    ASSUME NEW s \in Seq(Symbols)
    PROVE  /\ FindBoundary(s) \in 0..(Len(s) + 1)
           /\ FindBoundary(s) \in 1..Len(s) => s[FindBoundary(s)] = "semicolon"
<1> DEFINE ends == {i \in DOMAIN s : s[i] = "semicolon" /\ Scan(s)[i - 1] = "outside"}
<1>1. Len(s) \in Nat /\ DOMAIN s = 1..Len(s)
  OBVIOUS
<1>2. FindBoundary(s) = IF ends # {} THEN Min(ends) ELSE IF Scan(s)[Len(s)] = "outside"
        THEN Len(s) + 1 ELSE 0
  BY DEF FindBoundary
<1>3. ends \subseteq 1..Len(s) /\ \A i \in ends : s[i] = "semicolon"
  BY <1>1
<1> HIDE DEF ends
<1>4. ends # {} => Min(ends) \in ends
  <2>1. ends \in SUBSET Nat
    BY <1>3
  <2>. QED  BY <2>1, MinLeast
<1>5. CASE ends # {}
  <2>1. FindBoundary(s) = Min(ends)
    BY <1>2, <1>5
  <2>2. FindBoundary(s) \in 1..Len(s) /\ s[FindBoundary(s)] = "semicolon"
    BY <1>3, <1>4, <1>5, <2>1
  <2>. QED  BY <1>1, <2>2
<1>6. CASE ends = {}
  BY <1>1, <1>2, <1>6
<1>. QED  BY <1>5, <1>6

\* Where the parameters start, one after the other.
LEMMA StartsAre ==
    ASSUME NEW s \in Seq(Symbols)
    PROVE  /\ \A i \in 0..Len(s) : Starts(s)[i] \in Nat
           /\ Starts(s)[0] = First("semicolon", s) + 1
           /\ \A i \in 1..Len(s) : Starts(s)[i] = NextStart(s, Starts(s)[i - 1])
<1> DEFINE n == Len(s)
           Body(f) == [i \in 0..n |-> IF i = 0 THEN First("semicolon", s) + 1
                   ELSE NextStart(s, f[i - 1])]
           step == [i \in 1..n |-> [x \in Nat |-> NextStart(s, x)]]
           F == CHOOSE f : f = Body(f)
<1>0. n \in Nat
  OBVIOUS
<1>1. step \in [1..n -> [Nat -> Nat]] /\ First("semicolon", s) + 1 \in Nat
  <2>1. First("semicolon", s) \in 1..(n + 1)
    BY FirstIs
  <2>2. ASSUME NEW x \in Nat PROVE NextStart(s, x) \in Nat
    <3>1. CASE x \in 1..(n + 1)
      <4>1. SubSeq(s, x, n) \in Seq(Symbols) /\ Len(SubSeq(s, x, n)) \in Nat
        BY <1>0, <3>1, PartsOf
      <4>2. FindBoundary(SubSeq(s, x, n)) \in Nat
        <5> DEFINE t == SubSeq(s, x, n)
        <5>1. t \in Seq(Symbols) /\ Len(t) \in Nat
          BY <4>1
        <5> HIDE DEF t
        <5>2. FindBoundary(t) \in 0..(Len(t) + 1)
          BY <5>1, BoundaryIs
        <5>3. FindBoundary(t) \in Nat
          BY <5>1, <5>2
        <5>. QED  BY <5>3 DEF t
      <4>. QED  BY <2>2, <4>2 DEF NextStart
    <3>2. CASE x \notin 1..(n + 1)
      BY <3>2 DEF NextStart
    <3>. QED  BY <3>1, <3>2
  <2>3. \A i \in 1..n : [x \in Nat |-> NextStart(s, x)] \in [Nat -> Nat]
    BY <2>2
  <2>4. step \in [1..n -> [Nat -> Nat]]
    <3> HIDE DEF n
    <3>. QED  BY <2>3
  <2>5. First("semicolon", s) + 1 \in Nat
    BY <1>0, <2>1
  <2>. QED  BY <2>4, <2>5
<1>2. PICK f \in [0..n -> Nat] : f[0] = First("semicolon", s) + 1
        /\ \A i \in 1..n : f[i] = step[i][f[i - 1]]
  <2> HIDE DEF step, n
  <2>1. PICK f : Recursion(f, n, Nat, First("semicolon", s) + 1, step)
    BY <1>0, <1>1, RecursionDefines
  <2>. QED  BY <2>1 DEF Recursion
<1>3. \A i \in 1..n : f[i] = NextStart(s, f[i - 1])
  <2>1. \A i \in 1..n : i - 1 \in 0..n /\ f[i - 1] \in Nat
    BY <1>0, <1>2
  <2>. QED  BY <1>2, <2>1
<1>4. f = Body(f)
  <2>1. \A i \in 0..n : i = 0 \/ i \in 1..n
    BY <1>0
  <2> HIDE DEF n, step
  <2>. QED  BY <1>2, <1>3, <2>1
<1>5. F = Body(F)
  <2> HIDE DEF Body
  <2>. QED  BY <1>4
<1>6. Starts(s) = F
  BY DEF Starts, NextStart
<1> HIDE DEF F
<1>7. F[0] = First("semicolon", s) + 1 /\ \A i \in 1..n : F[i] = NextStart(s, F[i - 1])
  <2>1. 0 \in 0..n /\ \A i \in 1..n : i \in 0..n /\ i # 0
    BY <1>0
  <2> HIDE DEF n, step
  <2>. QED  BY <1>5, <2>1
<1>8. \A i \in 0..n : F[i] \in Nat
  <2> DEFINE T == {i \in Nat : i <= n => F[i] = f[i]}
  <2>1. 0 \in T
    BY <1>2, <1>7
  <2>2. ASSUME NEW i \in Nat, i \in T PROVE i + 1 \in T
    <3>1. i + 1 <= n => i + 1 \in 1..n /\ (i + 1) - 1 = i /\ F[i] = f[i]
      BY <1>0, <2>2
    <3>. QED  BY <1>3, <1>7, <3>1
  <2>3. Nat \subseteq T
    <3> HIDE DEF T
    <3>. QED  BY <2>1, <2>2, SetInduction
  <2>4. \A i \in 0..n : i \in Nat /\ i <= n
    BY <1>0
  <2>. QED  BY <1>2, <2>3, <2>4
<1>. QED  BY <1>6, <1>7, <1>8

-----------------------------------------------------------------------------
\* A value that is one quoted string.
Closed(v) == v[1] = "quote" /\ ClosingQuote(v) = Len(v)

\* Only its last quote closes a quoted string.
LEMMA ClosedIs ==
    ASSUME NEW v \in Seq(Symbols), v # <<>>
    PROVE  Closed(v) <=>
             /\ Len(v) >= 2 /\ v[1] = "quote" /\ v[Len(v)] = "quote"
             /\ Escaping(v)[Len(v) - 1] # "escape"
             /\ \A j \in 2..(Len(v) - 1) : v[j] = "quote" => Escaping(v)[j - 1] = "escape"
<1> DEFINE closes == {i \in 2..Len(v) : v[i] = "quote" /\ Escaping(v)[i - 1] # "escape"}
           n == Len(v)
<1>1. n \in Nat /\ n >= 1
  BY EmptySeq
<1>2. ClosingQuote(v) = IF closes = {} THEN 0 ELSE Min(closes)
  BY DEF ClosingQuote
<1>3. closes \in SUBSET Nat /\ closes \subseteq 2..n
  BY <1>1
<1>4. ASSUME ClosingQuote(v) = n
      PROVE  n \in closes /\ \A j \in 2..(n - 1) : j \notin closes
  <2> HIDE DEF closes
  <2>1. closes # {} /\ Min(closes) = n
    BY <1>1, <1>2, <1>4
  <2>2. n \in closes /\ \A j \in closes : n <= j
    BY <1>3, <2>1, MinLeast
  <2>. QED  BY <1>1, <2>2
<1>5. ASSUME n \in closes, \A j \in 2..(n - 1) : j \notin closes
      PROVE  ClosingQuote(v) = n
  <2> HIDE DEF closes
  <2>1. \A j \in closes : n <= j
    BY <1>1, <1>3, <1>5
  <2>2. Min(closes) = n
    BY <1>3, <1>5, <2>1, MinIs
  <2>. QED  BY <1>2, <1>5, <2>2
<1>6. n \in closes <=> n >= 2 /\ v[n] = "quote" /\ Escaping(v)[n - 1] # "escape"
  BY <1>1
<1>7. \A j \in 2..(n - 1) : j \notin closes <=> (v[j] = "quote" => Escaping(v)[j - 1] = "escape")
  BY <1>1
<1> HIDE DEF closes, n
<1>8. Closed(v) <=> v[1] = "quote" /\ ClosingQuote(v) = n
  BY DEF Closed, n
<1>9. ClosingQuote(v) = n <=> n \in closes /\ \A j \in 2..(n - 1) : j \notin closes
  BY <1>4, <1>5
<1>10. Closed(v) <=>
             /\ n >= 2 /\ v[1] = "quote" /\ v[n] = "quote"
             /\ Escaping(v)[n - 1] # "escape"
             /\ \A j \in 2..(n - 1) : v[j] = "quote" => Escaping(v)[j - 1] = "escape"
  BY <1>6, <1>7, <1>8, <1>9
<1>. QED  BY <1>10 DEF n

\* The places of the escapes in a quoted string.
Escapes(v) == {i \in 2..(Len(v) - 1) : Escaping(v)[i] = "escape"}

\* The grammar and the scan agree on what a quoted string is, and on its escapes.
LEMMA QuotedIs ==
    ASSUME NEW v \in Seq(Symbols), v # <<>>, NEW E
    PROVE  QuotedAs(v, E) <=> Closed(v) /\ E = Escapes(v)
<1> DEFINE n == Len(v)
           e == Escaping(v)
<1>1. n \in Nat /\ n >= 1
  BY EmptySeq
<1>2. /\ \A i \in 0..n : e[i] \in {"escape", "character"}
      /\ \A i \in 1..n : e[i] = IF i > 1 /\ v[i] = "backslash" /\ e[i - 1] # "escape"
              THEN "escape" ELSE "character"
  BY EscapingIs
<1>3. Closed(v) <=>
             /\ n >= 2 /\ v[1] = "quote" /\ v[n] = "quote" /\ e[n - 1] # "escape"
             /\ \A j \in 2..(n - 1) : v[j] = "quote" => e[j - 1] = "escape"
  BY ClosedIs
<1>4. QuotedAs(v, E) <=>
             /\ n >= 2 /\ v[1] = "quote" /\ v[n] = "quote"
             /\ E \subseteq 2..(n - 2)
             /\ \A i \in E : v[i] = "backslash" /\ i + 1 \notin E
             /\ \A i \in 2..(n - 1) : i \in E \/ i - 1 \in E \/ v[i] \notin {"quote", "backslash"}
  BY DEF QuotedAs
<1>5. Escapes(v) = {i \in 2..(n - 1) : e[i] = "escape"}
  BY DEF Escapes
<1> HIDE DEF n, e
<1>6. ASSUME QuotedAs(v, E) PROVE Closed(v) /\ E = Escapes(v)
  <2> DEFINE S == {k \in Nat : k + 1 <= n - 1 => (k + 1 \in E <=> e[k + 1] = "escape")}
  <2>1. 0 \in S
    <3>1. 1 \notin E
      BY <1>4, <1>6
    <3>2. e[1] = "character"
      BY <1>1, <1>2
    <3>. QED  BY <3>1, <3>2
  <2>2. ASSUME NEW k \in Nat, k \in S PROVE k + 1 \in S
    <3>1. SUFFICES ASSUME (k + 1) + 1 <= n - 1 PROVE (k + 1) + 1 \in E <=> e[(k + 1) + 1] = "escape"
      OBVIOUS
    <3> DEFINE i == k + 1
    <3>2. i \in 1..n /\ i + 1 \in 2..(n - 1) /\ i + 1 \in 1..n /\ (i + 1) - 1 = i /\ i + 1 > 1
      BY <1>1, <3>1
    <3>3. i \in E <=> e[i] = "escape"
      BY <1>1, <2>2, <3>1
    <3> HIDE DEF i
    <3>4. e[i + 1] = IF v[i + 1] = "backslash" /\ e[i] # "escape" THEN "escape" ELSE "character"
      BY <1>2, <3>2
    <3>5. i + 1 \in E => v[i + 1] = "backslash" /\ i \notin E
      BY <1>4, <1>6
    <3>6. i + 1 \in E \/ i \in E \/ v[i + 1] # "backslash"
      BY <1>4, <1>6, <3>2
    <3>7. i + 1 \in E <=> e[i + 1] = "escape"
      BY <3>3, <3>4, <3>5, <3>6
    <3>. QED  BY <3>7 DEF i
  <2>3. Nat \subseteq S
    <3> HIDE DEF S
    <3>. QED  BY <2>1, <2>2, SetInduction
  <2>4. \A i \in 1..(n - 1) : i \in E <=> e[i] = "escape"
    <3>1. ASSUME NEW i \in 1..(n - 1) PROVE i \in E <=> e[i] = "escape"
      <4>1. i - 1 \in Nat /\ (i - 1) + 1 = i /\ i <= n - 1
        BY <1>1
      <4>2. i - 1 \in S
        BY <2>3, <4>1
      <4>. QED  BY <4>1, <4>2
    <3>. QED  BY <3>1
  <2> HIDE DEF S
  <2>5. E \subseteq 2..(n - 1)
    BY <1>1, <1>4, <1>6
  <2>6. E = Escapes(v)
    <3>1. \A i \in 2..(n - 1) : i \in 1..(n - 1)
      BY <1>1
    <3>. QED  BY <1>5, <2>4, <2>5, <3>1
  <2>7. e[n - 1] # "escape"
    <3>1. n - 1 \in 1..(n - 1) /\ n - 1 \notin 2..(n - 2)
      BY <1>1, <1>4, <1>6
    <3>. QED  BY <1>4, <1>6, <2>4, <3>1
  <2>8. ASSUME NEW j \in 2..(n - 1), v[j] = "quote" PROVE e[j - 1] = "escape"
    <3>1. j \notin E
      BY <1>4, <1>6, <2>8
    <3>2. j - 1 \in E
      BY <1>4, <1>6, <2>8, <3>1
    <3>3. j - 1 \in 1..(n - 1)
      BY <1>1
    <3>. QED  BY <2>4, <3>2, <3>3
  <2>. QED  BY <1>3, <1>4, <1>6, <2>6, <2>7, <2>8
<1>7. ASSUME Closed(v), E = Escapes(v) PROVE QuotedAs(v, E)
  <2>1. \A i \in E : i \in 2..(n - 1) /\ e[i] = "escape"
    BY <1>5, <1>7
  <2>2. \A i \in 2..(n - 1) : e[i] = "escape" => i \in E
    BY <1>5, <1>7
  <2>3. E \subseteq 2..(n - 2)
    <3>1. ASSUME NEW i \in E PROVE i \in 2..(n - 2)
      <4>1. i # n - 1
        BY <1>3, <1>7, <2>1
      <4>. QED  BY <1>1, <2>1, <4>1
    <3>. QED  BY <3>1
  <2>4. ASSUME NEW i \in E PROVE v[i] = "backslash" /\ i + 1 \notin E
    <3>1. i \in 1..n /\ i + 1 \in 1..n /\ (i + 1) - 1 = i /\ e[i] = "escape"
      BY <1>1, <2>1
    <3>2. v[i] = "backslash"
      BY <1>2, <3>1
    <3>3. e[i + 1] = "character"
      BY <1>2, <3>1
    <3>. QED  BY <2>1, <3>2, <3>3
  <2>5. ASSUME NEW i \in 2..(n - 1), i \notin E, v[i] \in {"quote", "backslash"} PROVE i - 1 \in E
    <3>1. i \in 1..n /\ i > 1 /\ i - 1 \in 1..n
      BY <1>1
    <3>2. e[i - 1] = "escape"
      <4>1. e[i] # "escape"
        BY <2>2, <2>5
      <4>. QED  BY <1>2, <1>3, <1>7, <2>5, <3>1, <4>1
    <3>3. i - 1 > 1
      BY <1>2, <3>1, <3>2
    <3>4. i - 1 \in 2..(n - 1)
      BY <1>1, <3>1, <3>3
    <3>. QED  BY <2>2, <3>2, <3>4
  <2>. QED  BY <1>3, <1>4, <1>7, <2>3, <2>4, <2>5
<1>. QED  BY <1>6, <1>7

\* What a value reads as.
LEMMA ValuesAre ==
    ASSUME NEW v \in Seq(Symbols), v # <<>>
    PROVE  Values(v) = IF Closed(v) THEN {Unescaped(v)} ELSE IF IsToken(v) THEN {v} ELSE {}
<1> DEFINE n == Len(v)
           E == Escapes(v)
           es == {e \in SUBSET {i \in DOMAIN v : v[i] = "backslash"} : QuotedAs(v, e)}
<1>1. n \in Nat /\ n >= 1 /\ DOMAIN v = 1..n
  BY EmptySeq
<1>2. \A e \in es : Closed(v) /\ e = E
  BY QuotedIs
<1>3. Closed(v) => E \in es
  <2>1. SUFFICES ASSUME Closed(v) PROVE E \in es
    OBVIOUS
  <2>2. QuotedAs(v, E)
    BY <2>1, QuotedIs
  <2>3. \A i \in E : i \in 1..n /\ v[i] = "backslash"
    BY <1>1, <2>2 DEF QuotedAs
  <2>. QED  BY <1>1, <2>2, <2>3
<1>4. Values(v) = (IF IsToken(v) THEN {v} ELSE {}) \cup {Picked(v, 2..(n - 1) \ e) : e \in es}
  BY DEF Values
<1>5. Unescaped(v) = Picked(v, 2..(n - 1) \ E)
  <2>1. {i \in 2..(n - 1) : Escaping(v)[i] # "escape"} = 2..(n - 1) \ E
    BY DEF Escapes
  <2>2. Unescaped(v) = Picked(v, {i \in 2..(n - 1) : Escaping(v)[i] # "escape"})
    BY DEF Unescaped
  <2>. QED  BY <2>1, <2>2
<1>6. Closed(v) => ~IsToken(v)
  <2>1. Closed(v) => v[1] = "quote" /\ v[1] \in ToSet(v)
    BY <1>1 DEF Closed, ToSet
  <2>2. "quote" \notin TokenSymbols
    BY DEF TokenSymbols
  <2>. QED  BY <2>1, <2>2 DEF IsToken
<1> HIDE DEF es, E, n
<1>7. CASE Closed(v)
  <2>1. es = {E}
    BY <1>2, <1>3, <1>7
  <2>. QED  BY <1>4, <1>5, <1>6, <1>7, <2>1
<1>8. CASE ~Closed(v)
  <2>1. es = {}
    BY <1>2, <1>8
  <2>. QED  BY <1>4, <1>8, <2>1
<1>. QED  BY <1>7, <1>8

-----------------------------------------------------------------------------
\* A text that the boundary scan leaves outside of quotes, with no separator there.
Whole(raw) ==
    /\ Scan(raw)[Len(raw)] = "outside"
    /\ \A i \in 1..Len(raw) : raw[i] = "semicolon" => Scan(raw)[i - 1] # "outside"

\* What the scan makes of a text that holds one value, from behind the place q
\* to the place b.
LEMMA ValueScanned ==
    ASSUME NEW raw \in Seq(Symbols), NEW q \in 0..Len(raw), NEW b \in 0..Len(raw), q < b,
           NEW v \in Seq(Symbols), Len(v) = b - q, \A j \in 1..(b - q) : v[j] = raw[q + j],
           \A i \in 1..Len(raw) : i <= q \/ i > b => raw[i] \notin {"quote", "semicolon"},
           Closed(v) \/ IsToken(v)
    PROVE  Whole(raw)
<1> DEFINE n == Len(raw)
           c == Scan(raw)
           e == Escaping(v)
           inner(i) == q < i /\ i < b /\ Closed(v)
           g == [i \in 0..n |-> IF inner(i) THEN IF e[i - q] = "escape" THEN "escape"
                   ELSE "inside" ELSE "outside"]
<1>1. n \in Nat /\ v # <<>>
  <2>1. Len(v) # 0
    BY q < b, Len(v) = b - q
  <2>. QED  BY <2>1
<1>2. c[0] = "outside" /\ \A i \in 1..n : c[i] = AfterSymbol(c[i - 1], raw[i])
  BY ScanIs
<1>3. Closed(v) =>
        /\ b - q >= 2 /\ v[1] = "quote" /\ v[b - q] = "quote" /\ e[b - q - 1] # "escape"
        /\ \A j \in 2..(b - q - 1) : v[j] = "quote" => e[j - 1] = "escape"
  BY <1>1, ClosedIs
<1>4. \A j \in 1..(b - q) : e[j] = IF j > 1 /\ v[j] = "backslash" /\ e[j - 1] # "escape"
        THEN "escape" ELSE "character"
  BY EscapingIs
<1>5. ~Closed(v) => \A j \in 1..(b - q) : v[j] \in TokenSymbols
  BY DEF IsToken, ToSet
<1>6. \A x \in TokenSymbols : x \notin {"quote", "semicolon"}
  BY DEF TokenSymbols
<1>7. \A i \in 1..n : q < i /\ i <= b => i - q \in 1..(b - q) /\ raw[i] = v[i - q]
  <2>1. ASSUME NEW i \in 1..n, q < i, i <= b PROVE i - q \in 1..(b - q) /\ raw[i] = v[i - q]
    <3>1. i - q \in 1..(b - q) /\ q + (i - q) = i
      BY <2>1
    <3>. QED  BY <3>1
  <2>. QED  BY <2>1
<1>8. \A i \in 1..n : i <= q \/ i > b \/ ~Closed(v) => raw[i] \notin {"quote", "semicolon"}
  <2>1. ASSUME NEW i \in 1..n, i <= q \/ i > b \/ ~Closed(v)
          PROVE raw[i] \notin {"quote", "semicolon"}
    <3>1. CASE i <= q \/ i > b
      BY <3>1
    <3>2. CASE q < i /\ i <= b /\ ~Closed(v)
      BY <1>5, <1>6, <1>7, <3>2
    <3>. QED  BY <2>1, <3>1, <3>2
  <2>. QED  BY <2>1
<1> HIDE DEF n, c, e
<1>9. \A i \in 0..n : g[i] = IF inner(i) THEN IF e[i - q] = "escape" THEN "escape"
        ELSE "inside" ELSE "outside"
  OBVIOUS
<1>10. ASSUME NEW i \in 1..n PROVE g[i] = AfterSymbol(g[i - 1], raw[i])
  <2>1. i \in 0..n /\ i - 1 \in 0..n
    BY <1>1
  <2>2. CASE i <= q \/ i > b \/ ~Closed(v)
    <3>1. g[i] = "outside" /\ g[i - 1] = "outside"
      BY <1>1, <1>9, <2>1, <2>2
    <3>2. raw[i] # "quote"
      BY <1>8, <2>2
    <3>. QED  BY <3>1, <3>2 DEF AfterSymbol
  <2>3. CASE i = q + 1 /\ Closed(v)
    <3>1. i - q = 1 /\ i < b /\ 1 \in 1..(b - q)
      BY <1>1, <1>3, <2>3
    <3>2. g[i - 1] = "outside" /\ raw[i] = "quote"
      BY <1>1, <1>3, <1>7, <1>9, <2>1, <2>3, <3>1
    <3>3. e[1] = "character"
      BY <1>4, <3>1
    <3>4. g[i] = "inside"
      BY <1>9, <2>1, <2>3, <3>1, <3>3
    <3>. QED  BY <3>2, <3>4 DEF AfterSymbol
  <2>4. CASE q + 1 < i /\ i < b /\ Closed(v)
    <3> DEFINE j == i - q
    <3>1. j \in 2..(b - q - 1) /\ j \in 1..(b - q) /\ j - 1 \in 1..(b - q)
            /\ (i - 1) - q = j - 1 /\ j > 1
      BY <1>1, <2>4
    <3>2. raw[i] = v[j]
      BY <1>1, <1>7, <2>4
    <3>3. inner(i) /\ inner(i - 1)
      BY <1>1, <2>4
    <3> HIDE DEF inner
    <3>4. g[i] = (IF e[j] = "escape" THEN "escape" ELSE "inside")
      BY <1>9, <2>1, <3>3
    <3>5. g[i - 1] = (IF e[j - 1] = "escape" THEN "escape" ELSE "inside")
      BY <1>9, <2>1, <3>1, <3>3
    <3> HIDE DEF j, g
    <3>6. e[j] = IF v[j] = "backslash" /\ e[j - 1] # "escape" THEN "escape" ELSE "character"
      BY <1>4, <3>1
    <3>7. v[j] = "quote" => e[j - 1] = "escape"
      BY <1>3, <2>4, <3>1
    <3>. QED  BY <3>2, <3>4, <3>5, <3>6, <3>7 DEF AfterSymbol
  <2>5. CASE i = b /\ Closed(v)
    <3>1. inner(i - 1) /\ ~inner(i) /\ (i - 1) - q = b - q - 1 /\ i - q = b - q /\ q < i /\ i <= b
      BY <1>1, <1>3, <2>5
    <3>2. raw[i] = "quote" /\ e[b - q - 1] # "escape"
      BY <1>3, <1>7, <2>5, <3>1
    <3> HIDE DEF inner
    <3>3. g[i] = "outside" /\ g[i - 1] = "inside"
      BY <1>9, <2>1, <3>1, <3>2
    <3>. QED  BY <3>2, <3>3 DEF AfterSymbol
  <2>6. i \in Int /\ q \in Int /\ b \in Int
    OBVIOUS
  <2>7. i <= q \/ i > b \/ i = q + 1 \/ (q + 1 < i /\ i < b) \/ i = b
    BY <2>6
  <2>. QED  BY <2>2, <2>3, <2>4, <2>5, <2>7
<1>11. g[0] = "outside" /\ g[n] = "outside"
  <2>1. 0 \in 0..n /\ n \in 0..n
    BY <1>1
  <2>2. ~(q < 0) /\ ~(n < b)
    BY <1>1 DEF n
  <2>. QED  BY <1>9, <2>1, <2>2
<1> HIDE DEF g
<1>12. \A i \in 0..n : c[i] = g[i]
  <2> DEFINE S == {i \in Nat : i <= n => c[i] = g[i]}
  <2>1. 0 \in S
    BY <1>2, <1>11
  <2>2. ASSUME NEW i \in Nat, i \in S PROVE i + 1 \in S
    <3>1. SUFFICES ASSUME i + 1 <= n PROVE c[i + 1] = g[i + 1]
      OBVIOUS
    <3>2. i + 1 \in 1..n /\ (i + 1) - 1 = i /\ i <= n
      BY <1>1, <3>1
    <3>3. c[i] = g[i]
      BY <2>2, <3>2
    <3>. QED  BY <1>2, <1>10, <3>2, <3>3
  <2>3. Nat \subseteq S
    <3> HIDE DEF S
    <3>. QED  BY <2>1, <2>2, SetInduction
  <2>4. \A i \in 0..n : i \in Nat /\ i <= n
    BY <1>1
  <2>. QED  BY <2>3, <2>4
<1>13. ASSUME NEW i \in 1..n, raw[i] = "semicolon" PROVE c[i - 1] # "outside"
  <2>1. q < i /\ i <= b /\ Closed(v)
    BY <1>8, <1>13
  <2>2. raw[i] = v[i - q]
    BY <1>7, <2>1
  <2>3. i - q # 1
    BY <1>3, <1>13, <2>1, <2>2
  <2>4. inner(i - 1)
    BY <1>1, <2>1, <2>3
  <2>5. i - 1 \in 0..n
    BY <1>1
  <2> HIDE DEF inner
  <2>6. g[i - 1] # "outside"
    BY <1>9, <2>4, <2>5
  <2>. QED  BY <1>12, <2>5, <2>6
<1>14. n \in 0..n
  BY <1>1
<1>15. c[n] = "outside"
  BY <1>11, <1>12, <1>14
<1>. QED  BY <1>13, <1>15 DEF Whole, n, c

\* The name and the value of a parameter.
LEMMA PartsAt ==
    ASSUME NEW p \in Seq(Symbols), NEW e \in 1..Len(p)
    PROVE  /\ Before(p, e) \in Seq(Symbols) /\ Len(Before(p, e)) = e - 1
           /\ \A i \in 1..(e - 1) : Before(p, e)[i] = p[i]
           /\ After(p, e) \in Seq(Symbols) /\ Len(After(p, e)) = Len(p) - e
           /\ \A i \in 1..(Len(p) - e) : After(p, e)[i] = p[e + i]
<1>1. Len(p) \in Nat
  OBVIOUS
<1>2. /\ Before(p, e) \in Seq(Symbols) /\ Len(Before(p, e)) = (e - 1) - 1 + 1
      /\ \A i \in 1..((e - 1) - 1 + 1) : Before(p, e)[i] = p[1 + i - 1]
  <2>1. 1 \in 1..(Len(p) + 1) /\ e - 1 \in Nat /\ e - 1 <= Len(p) /\ 1 <= (e - 1) + 1
    BY <1>1
  <2>. QED  BY <2>1, PartsOf DEF Before
<1>3. /\ After(p, e) \in Seq(Symbols) /\ Len(After(p, e)) = Len(p) - (e + 1) + 1
      /\ \A i \in 1..(Len(p) - (e + 1) + 1) : After(p, e)[i] = p[(e + 1) + i - 1]
  <2>1. e + 1 \in 1..(Len(p) + 1) /\ Len(p) \in Nat /\ Len(p) <= Len(p) /\ e + 1 <= Len(p) + 1
    BY <1>1
  <2>. QED  BY <2>1, PartsOf DEF After
<1>4. (e - 1) - 1 + 1 = e - 1 /\ Len(p) - (e + 1) + 1 = Len(p) - e
  BY <1>1
<1>5. \A i \in Int : 1 + i - 1 = i /\ (e + 1) + i - 1 = e + i
  BY <1>1
<1>6. \A i \in 1..(e - 1) : i \in Int
  OBVIOUS
<1>7. \A i \in 1..(Len(p) - e) : i \in Int
  OBVIOUS
<1>. QED  BY <1>2, <1>3, <1>4, <1>5, <1>6, <1>7

\* A token holds token symbols only.
LEMMA TokenIs ==
    ASSUME NEW p \in Seq(Symbols), IsToken(p), NEW i \in 1..Len(p)
    PROVE  p[i] \in TokenSymbols
<1>1. p[i] \in ToSet(p)
  BY DEF ToSet
<1>. QED  BY <1>1 DEF IsToken

\* The scan's way to read a trimmed parameter.
Parsed(p) ==
    LET e == First("equals", p)
        v == After(p, e)
    IN  IF e > Len(p) \/ ~IsToken(Before(p, e)) \/ v = <<>> THEN Malformed
        ELSE IF Closed(v) THEN [name |-> Before(p, e), value |-> Unescaped(v)]
        ELSE IF IsToken(v) THEN [name |-> Before(p, e), value |-> v]
        ELSE Malformed

\* parse_parameter trims first.
LEMMA ParsedTrimmed ==
    ASSUME NEW raw
    PROVE  ParseParameter(raw) = Parsed(TrimOws(raw))
BY DEF ParseParameter, Parsed, Closed

\* The grammar reads a parameter as the scan does, or not at all.
LEMMA ReadingsAre ==
    ASSUME NEW p \in Seq(Symbols)
    PROVE  Readings(p) = IF Parsed(p) = Malformed THEN {} ELSE {Parsed(p)}
<1> DEFINE e == First("equals", p)
           n == Len(p)
           name == Before(p, e)
           v == After(p, e)
           places == {x \in DOMAIN p : p[x] = "equals" /\ IsToken(Before(p, x))}
           Read(x) == {[name |-> Before(p, x), value |-> value] : value \in Values(After(p, x))}
<1>1. n \in Nat /\ DOMAIN p = 1..n
  OBVIOUS
<1>2. e \in 1..(n + 1) /\ (e <= n => p[e] = "equals")
  BY FirstIs
<1>3. \A x \in places : x = e
  <2>1. ASSUME NEW x \in places PROVE x = e
    <3>1. x \in 1..n /\ p[x] = "equals" /\ IsToken(Before(p, x))
      BY <1>1
    <3>2. /\ Before(p, x) \in Seq(Symbols) /\ Len(Before(p, x)) = x - 1
          /\ \A i \in 1..(x - 1) : Before(p, x)[i] = p[i]
      BY <3>1, PartsAt
    <3>3. \A i \in 1..(x - 1) : p[i] \in TokenSymbols
      BY <3>1, <3>2, TokenIs
    <3>4. \A i \in 1..n : i < x => p[i] # "equals"
      <4>1. \A i \in 1..n : i < x => i \in 1..(x - 1)
        BY <1>1, <3>1
      <4>. QED  BY <3>3, <4>1 DEF TokenSymbols
    <3>5. x \in 1..(n + 1)
      BY <1>1, <3>1
    <3>. QED  BY <3>1, <3>4, <3>5, FirstAt
  <2>. QED  BY <2>1
<1>4. e <= n /\ IsToken(name) => e \in places
  BY <1>1, <1>2
<1>5. ~(e <= n /\ IsToken(name)) => places = {}
  <2>1. \A x \in places : x <= n /\ IsToken(Before(p, x))
    BY <1>1
  <2> HIDE DEF places
  <2>. QED  BY <1>3, <2>1
<1>6. Readings(p) = UNION {Read(x) : x \in places}
  BY DEF Readings
<1>7. Parsed(p) =
        IF e > n \/ ~IsToken(name) \/ v = <<>> THEN Malformed
        ELSE IF Closed(v) THEN [name |-> name, value |-> Unescaped(v)]
        ELSE IF IsToken(v) THEN [name |-> name, value |-> v]
        ELSE Malformed
  BY DEF Parsed
<1>8. Read(e) = {[name |-> name, value |-> value] : value \in Values(v)}
  OBVIOUS
<1> HIDE DEF places, Read, e
<1>9. CASE ~(e <= n /\ IsToken(name))
  <2>1. Parsed(p) = Malformed
    BY <1>1, <1>2, <1>7, <1>9
  <2>. QED  BY <1>5, <1>6, <1>9, <2>1
<1>10. CASE e <= n /\ IsToken(name)
  <2>1. Readings(p) = Read(e)
    <3>1. places = {e}
      BY <1>3, <1>4, <1>10
    <3>. QED  BY <1>6, <3>1
  <2>2. v \in Seq(Symbols)
    BY <1>1, <1>2, <1>10, PartsAt
  <2>3. name # <<>>
    BY <1>10 DEF IsToken
  <2>4. ~(e > n)
    BY <1>1, <1>2, <1>10
  <2>5. Read(e) = {[name |-> name, value |-> value] : value \in Values(v)}
    BY <1>8
  <2>6. \A x : [name |-> name, value |-> x] # Malformed
    BY <2>3 DEF Malformed
  <2> HIDE DEF v, name
  <2>7. CASE v = <<>>
    <3>1. Values(<<>>) = {}
      <4>1. ~IsToken(<<>>)
        BY DEF IsToken
      <4>2. \A x : ~QuotedAs(<<>>, x)
        BY DEF QuotedAs
      <4>. QED  BY <4>1, <4>2 DEF Values
    <3>2. Parsed(p) = Malformed
      BY <1>7, <2>7
    <3>. QED  BY <2>1, <2>5, <2>7, <3>1, <3>2
  <2>8. CASE v # <<>>
    <3>1. Values(v) = IF Closed(v) THEN {Unescaped(v)} ELSE IF IsToken(v) THEN {v} ELSE {}
      BY <2>2, <2>8, ValuesAre
    <3>2. Parsed(p) =
            IF Closed(v) THEN [name |-> name, value |-> Unescaped(v)]
            ELSE IF IsToken(v) THEN [name |-> name, value |-> v]
            ELSE Malformed
      BY <1>7, <1>10, <2>4, <2>8
    <3>3. Readings(p) = {[name |-> name, value |-> value] : value \in Values(v)}
      BY <2>1, <2>5
    <3>4. CASE Closed(v)
      BY <2>6, <3>1, <3>2, <3>3, <3>4
    <3>5. CASE ~Closed(v) /\ IsToken(v)
      BY <2>6, <3>1, <3>2, <3>3, <3>5
    <3>6. CASE ~Closed(v) /\ ~IsToken(v)
      BY <3>1, <3>2, <3>3, <3>6
    <3>. QED  BY <3>4, <3>5, <3>6
  <2>. QED  BY <2>7, <2>8
<1>. QED  BY <1>9, <1>10

\* The boundary scan runs over a parameter that reads without a stop.
LEMMA ParsedWhole ==
    ASSUME NEW raw \in Seq(Symbols), Parsed(TrimOws(raw)) # Malformed
    PROVE  Whole(raw)
<1> DEFINE p == TrimOws(raw)
           e == First("equals", p)
           v == After(p, e)
<1>1. PICK a \in 1..(Len(raw) + 1), b \in 0..Len(raw) :
             /\ a <= b + 1
             /\ p \in Seq(Symbols) /\ Len(p) = b - a + 1
             /\ \A i \in 1..(b - a + 1) : p[i] = raw[a + i - 1]
             /\ \A i \in 1..Len(raw) : i < a \/ i > b => raw[i] = "space"
  BY TrimmedIs
<1>2. e <= Len(p) /\ IsToken(Before(p, e)) /\ v # <<>> /\ (Closed(v) \/ IsToken(v))
  <2>1. e \in 1..(Len(p) + 1) /\ Len(p) \in Nat
    BY <1>1, FirstIs
  <2>2. ~(e > Len(p) \/ ~IsToken(Before(p, e)) \/ v = <<>>) /\ (Closed(v) \/ IsToken(v))
    BY DEF Parsed
  <2>. QED  BY <2>1, <2>2
<1>3. e \in 1..Len(p) /\ p[e] = "equals"
  <2>1. e \in 1..(Len(p) + 1) /\ Len(p) \in Nat /\ (e <= Len(p) => p[e] = "equals")
    BY <1>1, FirstIs
  <2>. QED  BY <1>2, <2>1
<1> HIDE DEF p, e
<1>4. /\ Before(p, e) \in Seq(Symbols) /\ Len(Before(p, e)) = e - 1
      /\ \A i \in 1..(e - 1) : Before(p, e)[i] = p[i]
      /\ v \in Seq(Symbols) /\ Len(v) = Len(p) - e
      /\ \A i \in 1..(Len(p) - e) : v[i] = p[e + i]
  BY <1>1, <1>3, PartsAt
<1>5. \A i \in 1..(e - 1) : p[i] \in TokenSymbols
  BY <1>2, <1>4, TokenIs
<1> DEFINE q == a + e - 1
           n == Len(raw)
<1>6. n \in Nat /\ e \in Nat
  BY <1>1, <1>3
<1>7. Len(v) # 0
  BY <1>2, <1>4, EmptySeq
<1> HIDE DEF v
<1>8. q \in 0..n /\ b \in 0..n /\ q < b /\ Len(v) = b - q
  BY <1>1, <1>3, <1>4, <1>6, <1>7
<1>9. ASSUME NEW j \in 1..(b - q) PROVE v[j] = raw[q + j]
  <2>1. j \in 1..(Len(p) - e) /\ e + j \in 1..(b - a + 1) /\ a + (e + j) - 1 = q + j
    BY <1>1, <1>3, <1>6, <1>8
  <2>. QED  BY <1>1, <1>4, <2>1
<1>10. ASSUME NEW i \in 1..n, i <= q \/ i > b PROVE raw[i] \notin {"quote", "semicolon"}
  <2>1. CASE i < a \/ i > b
    BY <1>1, <2>1
  <2>2. CASE a <= i /\ i <= b
    <3> DEFINE j == i - a + 1
    <3>1. j \in 1..e /\ j \in 1..(b - a + 1) /\ a + j - 1 = i
      BY <1>1, <1>3, <1>6, <1>8, <1>10, <2>2
    <3>2. raw[i] = p[j]
      BY <1>1, <3>1
    <3>3. j = e \/ j \in 1..(e - 1)
      BY <1>6, <3>1
    <3> HIDE DEF j
    <3>. QED  BY <1>3, <1>5, <3>2, <3>3 DEF TokenSymbols
  <2>3. i < a \/ i > b \/ (a <= i /\ i <= b)
    BY <1>1, <1>6
  <2>. QED  BY <2>1, <2>2, <2>3
<1> HIDE DEF q
<1>. QED  BY <1>2, <1>4, <1>8, <1>9, <1>10, ValueScanned

-----------------------------------------------------------------------------
\* The boundary of what begins with a whole text and then a semicolon, or ends.
LEMMA BoundaryAt ==
    ASSUME NEW t \in Seq(Symbols), NEW raw \in Seq(Symbols), Len(raw) <= Len(t),
           \A i \in 1..Len(raw) : raw[i] = t[i], Whole(raw),
           Len(raw) < Len(t) => t[Len(raw) + 1] = "semicolon"
    PROVE  FindBoundary(t) = Len(raw) + 1
<1> DEFINE k == Len(raw)
           n == Len(t)
           c == Scan(t)
           w == Scan(raw)
           ends == {i \in DOMAIN t : t[i] = "semicolon" /\ c[i - 1] = "outside"}
<1>1. k \in Nat /\ n \in Nat /\ k <= n /\ DOMAIN t = 1..n
  OBVIOUS
<1>2. c[0] = "outside" /\ \A i \in 1..n : c[i] = AfterSymbol(c[i - 1], t[i])
  BY ScanIs
<1>3. w[0] = "outside" /\ \A i \in 1..k : w[i] = AfterSymbol(w[i - 1], raw[i])
  BY ScanIs
<1>4. w[k] = "outside" /\ \A i \in 1..k : raw[i] = "semicolon" => w[i - 1] # "outside"
  BY DEF Whole
<1>5. FindBoundary(t) = IF ends # {} THEN Min(ends) ELSE IF c[n] = "outside" THEN n + 1 ELSE 0
  BY DEF FindBoundary
<1>6. \A i \in 1..k : raw[i] = t[i]
  OBVIOUS
<1>7. k < n => t[k + 1] = "semicolon"
  OBVIOUS
<1> HIDE DEF c, w, k, n
<1>8. \A i \in 0..k : c[i] = w[i]
  <2> DEFINE S == {i \in Nat : i <= k => c[i] = w[i]}
  <2>1. 0 \in S
    BY <1>2, <1>3
  <2>2. ASSUME NEW i \in Nat, i \in S PROVE i + 1 \in S
    <3>1. i + 1 <= k => i + 1 \in 1..k /\ i + 1 \in 1..n /\ (i + 1) - 1 = i /\ c[i] = w[i]
      BY <1>1, <2>2
    <3>. QED  BY <1>2, <1>3, <1>6, <3>1
  <2>3. Nat \subseteq S
    <3> HIDE DEF S
    <3>. QED  BY <2>1, <2>2, SetInduction
  <2>4. \A i \in 0..k : i \in Nat /\ i <= k
    BY <1>1
  <2>. QED  BY <2>3, <2>4
<1>9. \A i \in 1..k : i \notin ends
  <2>1. \A i \in 1..k : i - 1 \in 0..k
    BY <1>1
  <2>. QED  BY <1>4, <1>6, <1>8, <2>1
<1>10. c[k] = "outside"
  BY <1>1, <1>4, <1>8
<1>11. ends \subseteq 1..n
  BY <1>1
<1>12. CASE k < n
  <2>1. k + 1 \in ends
    BY <1>1, <1>7, <1>10, <1>12
  <2> HIDE DEF ends
  <2>2. \A i \in ends : k + 1 <= i
    BY <1>1, <1>9, <1>11
  <2>3. ends \in SUBSET Nat
    BY <1>1, <1>11
  <2>4. Min(ends) = k + 1
    BY <2>1, <2>2, <2>3, MinIs
  <2>. QED  BY <1>5, <2>1, <2>4 DEF k
<1>13. CASE k = n
  <2> HIDE DEF ends
  <2>1. ends = {}
    BY <1>9, <1>11, <1>13
  <2>. QED  BY <1>5, <1>10, <1>13, <2>1 DEF k
<1>. QED  BY <1>1, <1>12, <1>13

\* A parameter that reads ends where the scan finds its boundary.
LEMMA ParameterEnds ==
    ASSUME NEW s \in Seq(Symbols), NEW c \in 0..Len(s), NEW d \in Nat, c < d, d <= Len(s) + 1,
           d <= Len(s) => s[d] = "semicolon",
           Parsed(TrimOws(SubSeq(s, c + 1, d - 1))) # Malformed
    PROVE  NextStart(s, c + 1) = d + 1
<1> DEFINE n == Len(s)
           t == SubSeq(s, c + 1, n)
           raw == SubSeq(s, c + 1, d - 1)
<1>1. n \in Nat /\ c + 1 \in 1..(n + 1) /\ d - 1 \in Nat /\ d - 1 <= n /\ c + 1 <= (d - 1) + 1
        /\ c + 1 <= n + 1
  OBVIOUS
<1>2. /\ t \in Seq(Symbols) /\ Len(t) = n - (c + 1) + 1
      /\ \A i \in 1..(n - (c + 1) + 1) : t[i] = s[(c + 1) + i - 1]
  BY <1>1, PartsOf
<1>3. /\ raw \in Seq(Symbols) /\ Len(raw) = (d - 1) - (c + 1) + 1
      /\ \A i \in 1..((d - 1) - (c + 1) + 1) : raw[i] = s[(c + 1) + i - 1]
  BY <1>1, PartsOf
<1>4. Whole(raw)
  BY <1>3, ParsedWhole
<1>5. NextStart(s, c + 1) = IF c + 1 \notin 1..(n + 1) \/ FindBoundary(t) = 0 THEN 0
        ELSE (c + 1) + FindBoundary(t)
  BY DEF NextStart
<1> HIDE DEF t, raw
<1>6. Len(raw) <= Len(t) /\ \A i \in 1..Len(raw) : raw[i] = t[i]
  <2>1. Len(raw) <= Len(t) /\ \A i \in 1..Len(raw) : i \in 1..(n - (c + 1) + 1)
    BY <1>1, <1>2, <1>3
  <2>. QED  BY <1>2, <1>3, <2>1
<1>7. Len(raw) < Len(t) => t[Len(raw) + 1] = "semicolon"
  <2>1. SUFFICES ASSUME Len(raw) < Len(t) PROVE t[Len(raw) + 1] = "semicolon"
    OBVIOUS
  <2>2. d <= n /\ Len(raw) + 1 \in 1..(n - (c + 1) + 1) /\ (c + 1) + (Len(raw) + 1) - 1 = d
    BY <1>1, <1>2, <1>3, <2>1
  <2>. QED  BY <1>2, <2>2
<1>8. FindBoundary(t) = Len(raw) + 1
  BY <1>2, <1>3, <1>4, <1>6, <1>7, BoundaryAt
<1>. QED  BY <1>1, <1>3, <1>5, <1>8

\* Where a cut's segment ends.
NextCut(s, cuts, c) == Min({d \in cuts : d > c} \cup {Len(s) + 1})

\* The next cut is behind this one, or the end of the field.
LEMMA NextCutIs ==
    ASSUME NEW s \in Seq(Symbols), NEW cuts \in SUBSET (1..Len(s)), NEW c \in 0..Len(s)
    PROVE  /\ NextCut(s, cuts, c) \in cuts \cup {Len(s) + 1} /\ NextCut(s, cuts, c) \in Nat
           /\ c < NextCut(s, cuts, c) /\ NextCut(s, cuts, c) <= Len(s) + 1
           /\ \A d \in cuts : d > c => NextCut(s, cuts, c) <= d
<1> DEFINE T == {d \in cuts : d > c} \cup {Len(s) + 1}
<1>1. Len(s) \in Nat
  OBVIOUS
<1>2. T \in SUBSET Nat /\ T # {} /\ \A d \in T : (d \in cuts /\ d > c) \/ d = Len(s) + 1
  <2>1. \A d \in T : (d \in cuts /\ d > c) \/ d = Len(s) + 1
    OBVIOUS
  <2>2. T # {}
    OBVIOUS
  <2>3. \A d \in cuts : d \in Nat
    BY <1>1
  <2>4. T \subseteq Nat
    <3>1. Len(s) + 1 \in Nat
      BY <1>1
    <3> HIDE DEF T
    <3>2. ASSUME NEW d \in T PROVE d \in Nat
      BY <2>1, <2>3, <3>1
    <3>. QED  BY <3>2
  <2>. QED  BY <2>1, <2>2, <2>4
<1>3. \A d \in cuts : d > c => d \in T
  OBVIOUS
<1>4. Len(s) + 1 \in T
  OBVIOUS
<1>5. NextCut(s, cuts, c) = Min(T)
  BY DEF NextCut
<1> HIDE DEF T
<1>6. Min(T) \in T /\ \A d \in T : Min(T) <= d
  BY <1>2, MinLeast
<1>7. Min(T) \in Nat /\ c < Min(T)
  <2>1. Min(T) \in Nat
    BY <1>2, <1>6
  <2>2. CASE Min(T) \in cuts /\ Min(T) > c
    BY <2>1, <2>2
  <2>3. CASE Min(T) = Len(s) + 1
    BY <1>1, <2>3
  <2>. QED  BY <1>2, <1>6, <2>1, <2>2, <2>3
<1>. QED  BY <1>2, <1>3, <1>4, <1>5, <1>6, <1>7

\* A cut with none before it but behind this one is the next.
LEMMA NextCutAt ==
    ASSUME NEW s \in Seq(Symbols), NEW cuts \in SUBSET (1..Len(s)), NEW c \in 0..Len(s),
           NEW e \in cuts \cup {Len(s) + 1}, c < e, \A d \in cuts : d > c => e <= d
    PROVE  NextCut(s, cuts, c) = e
<1>1. /\ NextCut(s, cuts, c) \in cuts \cup {Len(s) + 1} /\ NextCut(s, cuts, c) \in Nat
      /\ c < NextCut(s, cuts, c) /\ NextCut(s, cuts, c) <= Len(s) + 1
      /\ \A d \in cuts : d > c => NextCut(s, cuts, c) <= d
  BY NextCutIs
<1>2. Len(s) \in Nat /\ e \in Nat /\ e <= Len(s) + 1
  OBVIOUS
<1>3. NextCut(s, cuts, c) <= e
  BY <1>1, <1>2
<1>4. e <= NextCut(s, cuts, c)
  BY <1>1, <1>2
<1>. QED  BY <1>1, <1>2, <1>3, <1>4

\* A segment lasts to the next cut.
LEMMA SegmentIs ==
    ASSUME NEW s, NEW cuts, NEW c
    PROVE  Segment(s, cuts, c) = TrimOws(SubSeq(s, c + 1, NextCut(s, cuts, c) - 1))
BY DEF Segment, NextCut

\* A media type holds no semicolon.
LEMMA MediaIs ==
    ASSUME NEW raw \in Seq(Symbols), IsMediaType(TrimOws(raw)), NEW i \in 1..Len(raw)
    PROVE  raw[i] # "semicolon"
<1> DEFINE p == TrimOws(raw)
           e == First("slash", p)
<1>1. PICK a \in 1..(Len(raw) + 1), b \in 0..Len(raw) :
             /\ a <= b + 1
             /\ p \in Seq(Symbols) /\ Len(p) = b - a + 1
             /\ \A j \in 1..(b - a + 1) : p[j] = raw[a + j - 1]
             /\ \A j \in 1..Len(raw) : j < a \/ j > b => raw[j] = "space"
  BY TrimmedIs
<1>2. e <= Len(p) /\ IsToken(Before(p, e)) /\ IsToken(After(p, e))
  BY DEF IsMediaType
<1>3. e \in 1..Len(p) /\ p[e] = "slash"
  <2>1. e \in 1..(Len(p) + 1) /\ Len(p) \in Nat /\ (e <= Len(p) => p[e] = "slash")
    BY <1>1, FirstIs
  <2>. QED  BY <1>2, <2>1
<1> HIDE DEF p, e
<1>4. /\ Before(p, e) \in Seq(Symbols) /\ Len(Before(p, e)) = e - 1
      /\ \A j \in 1..(e - 1) : Before(p, e)[j] = p[j]
      /\ After(p, e) \in Seq(Symbols) /\ Len(After(p, e)) = Len(p) - e
      /\ \A j \in 1..(Len(p) - e) : After(p, e)[j] = p[e + j]
  BY <1>1, <1>3, PartsAt
<1>5. \A j \in 1..(e - 1) : p[j] \in TokenSymbols
  BY <1>2, <1>4, TokenIs
<1>6. \A j \in 1..(Len(p) - e) : p[e + j] \in TokenSymbols
  BY <1>2, <1>4, TokenIs
<1>7. \A j \in 1..Len(p) : p[j] # "semicolon"
  <2>1. ASSUME NEW j \in 1..Len(p) PROVE p[j] # "semicolon"
    <3>1. Len(p) \in Nat /\ e \in Nat
      BY <1>1, <1>3
    <3>2. j \in 1..(e - 1) \/ j = e \/ (j - e \in 1..(Len(p) - e) /\ e + (j - e) = j)
      BY <3>1
    <3>. QED  BY <1>3, <1>5, <1>6, <3>2 DEF TokenSymbols
  <2>. QED  BY <2>1
<1>8. CASE a <= i /\ i <= b
  <2>1. i - a + 1 \in 1..(b - a + 1) /\ a + (i - a + 1) - 1 = i
    BY <1>1, <1>8
  <2>. QED  BY <1>1, <1>7, <2>1
<1>9. CASE i < a \/ i > b
  BY <1>1, <1>9
<1>10. i \in Int /\ a \in Int /\ b \in Int
  OBVIOUS
<1>. QED  BY <1>8, <1>9, <1>10

-----------------------------------------------------------------------------
\* Where the parameters of a field that has some start: one behind the other, each
\* behind a semicolon, and none after the last.
LEMMA StartsRise ==
    ASSUME NEW s \in Seq(Symbols), First("semicolon", s) <= Len(s)
    PROVE  /\ Count(s) \in 0..Len(s)
           /\ Starts(s)[0] = First("semicolon", s) + 1
           /\ \A n \in 0..Count(s) : Starts(s)[n] \in (n + 2)..(Len(s) + 2)
           /\ \A n \in 0..Count(s) : Starts(s)[n] <= Len(s) + 1 => s[Starts(s)[n] - 1] = "semicolon"
           /\ \A n \in 1..Count(s) : /\ Starts(s)[n - 1] <= Len(s) + 1
                                     /\ Starts(s)[n - 1] < Starts(s)[n]
                                     /\ Starts(s)[n] = NextStart(s, Starts(s)[n - 1])
           /\ \A n \in 1..Len(s) : Starts(s)[n] # 0 => n <= Count(s)
<1> DEFINE N == Len(s)
           S == Starts(s)
           C == Count(s)
           kept == {n \in 0..N : n = 0 \/ S[n] # 0}
           first == First("semicolon", s)
<1>1. N \in Nat
  OBVIOUS
<1>2. /\ \A n \in 0..N : S[n] \in Nat
      /\ S[0] = first + 1
      /\ \A n \in 1..N : S[n] = NextStart(s, S[n - 1])
  BY StartsAre
<1>3. first \in 1..N /\ s[first] = "semicolon"
  BY FirstIs
<1>4. C = Max(kept)
  BY DEF Count
<1>5. kept \in SUBSET (0..N) /\ 0 \in kept /\ \A n \in kept : n = 0 \/ S[n] # 0
  BY <1>1
<1>6. \A n \in 1..N : S[n] # 0 => n \in kept
  BY <1>1
<1> HIDE DEF N, S, C, kept, first
<1>7. C \in kept /\ \A n \in kept : n <= C
  <2>1. kept # {}
    BY <1>5
  <2>. QED  BY <1>1, <1>4, <1>5, <2>1, MaxGreatest
<1>8. C \in 0..N
  BY <1>5, <1>7
<1>9. ASSUME NEW n \in 1..N, S[n] # 0
      PROVE  /\ S[n - 1] \in 1..(N + 1) /\ S[n - 1] < S[n] /\ S[n] <= N + 2
             /\ S[n] <= N + 1 => s[S[n] - 1] = "semicolon"
  <2> DEFINE start == S[n - 1]
             t == SubSeq(s, start, N)
             end == FindBoundary(t)
  <2>1. S[n] = IF start \notin 1..(N + 1) \/ end = 0 THEN 0 ELSE start + end
    BY <1>2, <1>9 DEF NextStart, N
  <2>2. start \in 1..(N + 1) /\ end # 0 /\ S[n] = start + end
    BY <1>9, <2>1
  <2> HIDE DEF start
  <2>3. /\ t \in Seq(Symbols) /\ Len(t) = N - start + 1
        /\ \A i \in 1..(N - start + 1) : t[i] = s[start + i - 1]
    <3>1. N \in Nat /\ N <= Len(s) /\ start \in 1..(Len(s) + 1) /\ start <= N + 1
      BY <1>1, <2>2 DEF N
    <3>. QED  BY <3>1, PartsOf
  <2> HIDE DEF t
  <2>4. end \in 0..(Len(t) + 1) /\ (end \in 1..Len(t) => t[end] = "semicolon")
    BY <2>3, BoundaryIs
  <2> HIDE DEF end
  <2>5. end \in 1..(N - start + 2)
    BY <1>1, <2>2, <2>3, <2>4
  <2>6. start < S[n] /\ S[n] <= N + 2
    BY <1>1, <2>2, <2>5
  <2>7. S[n] <= N + 1 => s[S[n] - 1] = "semicolon"
    <3>1. SUFFICES ASSUME S[n] <= N + 1 PROVE s[S[n] - 1] = "semicolon"
      OBVIOUS
    <3>2. end \in 1..(N - start + 1) /\ start + end - 1 = S[n] - 1
      BY <1>1, <2>2, <2>5, <3>1
    <3>. QED  BY <2>3, <2>4, <3>2
  <2>. QED  BY <2>2, <2>6, <2>7 DEF start
<1>10. \A n \in 0..C : n > 0 => S[n] # 0
  <2> DEFINE T == {k \in Nat : C - k > 0 => S[C - k] # 0}
  <2>1. 0 \in T
    BY <1>5, <1>7, <1>8
  <2>2. ASSUME NEW k \in Nat, k \in T PROVE k + 1 \in T
    <3>1. SUFFICES ASSUME C - (k + 1) > 0 PROVE S[C - (k + 1)] # 0
      OBVIOUS
    <3>2. C - k \in 1..N /\ S[C - k] # 0 /\ (C - k) - 1 = C - (k + 1)
      BY <1>1, <1>8, <2>2, <3>1
    <3>3. S[(C - k) - 1] \in 1..(N + 1)
      BY <1>9, <3>2
    <3>. QED  BY <1>1, <3>2, <3>3
  <2>3. Nat \subseteq T
    <3> HIDE DEF T
    <3>. QED  BY <2>1, <2>2, SetInduction
  <2>4. ASSUME NEW n \in 0..C, n > 0 PROVE S[n] # 0
    <3>1. C - n \in Nat /\ C - (C - n) = n
      BY <1>1, <1>8
    <3>. QED  BY <2>3, <2>4, <3>1
  <2>. QED  BY <2>4
<1>11. ASSUME NEW n \in 1..C
       PROVE  /\ S[n - 1] \in 1..(N + 1) /\ S[n - 1] < S[n] /\ S[n] <= N + 2
              /\ S[n] <= N + 1 => s[S[n] - 1] = "semicolon"
              /\ S[n] = NextStart(s, S[n - 1])
  <2>1. n \in 1..N /\ n \in 0..C /\ n > 0
    BY <1>1, <1>8
  <2>2. S[n] # 0
    BY <1>10, <2>1
  <2>. QED  BY <1>2, <1>9, <2>1, <2>2
<1>12. ASSUME NEW n \in 0..C PROVE S[n] >= n + 2
  <2> DEFINE T == {k \in Nat : k <= C => S[k] >= k + 2}
  <2>1. 0 \in T
    BY <1>1, <1>2, <1>3
  <2>2. ASSUME NEW k \in Nat, k \in T PROVE k + 1 \in T
    <3>1. SUFFICES ASSUME k + 1 <= C PROVE S[k + 1] >= (k + 1) + 2
      OBVIOUS
    <3>2. k + 1 \in 1..C /\ (k + 1) - 1 = k /\ S[k] >= k + 2 /\ k \in 0..N /\ k + 1 \in 0..N
      BY <1>1, <1>8, <2>2, <3>1
    <3>3. S[k] < S[k + 1]
      BY <1>11, <3>2
    <3>4. S[k] \in Nat /\ S[k + 1] \in Nat
      BY <1>2, <3>2
    <3>. QED  BY <3>2, <3>3, <3>4
  <2>3. Nat \subseteq T
    <3> HIDE DEF T
    <3>. QED  BY <2>1, <2>2, SetInduction
  <2>4. n \in Nat /\ n <= C
    BY <1>8
  <2>. QED  BY <2>3, <2>4
<1>13. ASSUME NEW n \in 0..C
       PROVE  /\ S[n] \in (n + 2)..(N + 2) /\ (S[n] <= N + 1 => s[S[n] - 1] = "semicolon")
  <2>1. CASE n = 0
    <3>1. S[0] = first + 1 /\ (first + 1) - 1 = first
      BY <1>2, <1>3
    <3>. QED  BY <1>1, <1>3, <2>1, <3>1
  <2>2. CASE n # 0
    <3>1. n \in 1..C /\ n \in 0..N
      BY <1>1, <1>8, <2>2
    <3>2. S[n] <= N + 2 /\ (S[n] <= N + 1 => s[S[n] - 1] = "semicolon")
      BY <1>11, <3>1
    <3>3. S[n] \in Nat /\ S[n] >= n + 2
      BY <1>2, <1>12, <3>1
    <3>. QED  BY <1>1, <3>1, <3>2, <3>3
  <2>. QED  BY <2>1, <2>2
<1>14. \A n \in 1..N : S[n] # 0 => n <= C
  BY <1>6, <1>7
<1>15. \A n \in 1..C : S[n - 1] <= N + 1
  BY <1>1, <1>11
<1>. QED  BY <1>2, <1>8, <1>11, <1>13, <1>14, <1>15 DEF N, S, C, first

\* Later parameters start later.
LEMMA StartsInOrder ==
    ASSUME NEW s \in Seq(Symbols), First("semicolon", s) <= Len(s),
           NEW m \in 0..Count(s), NEW n \in 0..Count(s), m < n
    PROVE  Starts(s)[m] < Starts(s)[n]
<1> DEFINE S == Starts(s)
           C == Count(s)
           T == {k \in Nat : m + 1 + k <= C => S[m] < S[m + 1 + k]}
<1>1. C \in Nat /\ \A i \in 0..C : S[i] \in Nat
  <2>1. C \in 0..Len(s) /\ \A i \in 0..C : S[i] \in (i + 2)..(Len(s) + 2)
    BY StartsRise
  <2>2. Len(s) \in Nat
    OBVIOUS
  <2> HIDE DEF C, S
  <2>. QED  BY <2>1, <2>2
<1>2. \A i \in 1..C : S[i - 1] < S[i]
  BY StartsRise
<1>3. m \in 0..C /\ n \in 0..C
  OBVIOUS
<1> HIDE DEF C, S
<1>4. 0 \in T
  <2>1. m + 1 <= C => m + 1 \in 1..C /\ (m + 1) - 1 = m /\ m + 1 + 0 = m + 1
    BY <1>1, <1>3
  <2>2. m + 1 + 0 = m + 1
    BY <1>3
  <2>. QED  BY <1>2, <2>1, <2>2
<1>5. ASSUME NEW k \in Nat, k \in T PROVE k + 1 \in T
  <2>1. SUFFICES ASSUME m + 1 + (k + 1) <= C PROVE S[m] < S[m + 1 + (k + 1)]
    OBVIOUS
  <2> DEFINE i == m + 1 + (k + 1)
  <2>2. i \in 1..C /\ i - 1 = m + 1 + k /\ m + 1 + k <= C /\ i \in 0..C /\ i - 1 \in 0..C
    BY <1>1, <1>3, <2>1
  <2>3. S[m] < S[i - 1]
    BY <1>5, <2>2
  <2> HIDE DEF i
  <2>4. S[i - 1] < S[i] /\ S[m] \in Nat /\ S[i - 1] \in Nat /\ S[i] \in Nat
    BY <1>1, <1>2, <1>3, <2>2
  <2>5. S[m] < S[i]
    BY <2>3, <2>4
  <2>. QED  BY <2>5 DEF i
<1>6. Nat \subseteq T
  <2> HIDE DEF T
  <2>. QED  BY <1>4, <1>5, SetInduction
<1>7. n - m - 1 \in Nat /\ m + 1 + (n - m - 1) = n /\ n <= C
  BY <1>1, <1>3
<1>8. S[m] < S[n]
  BY <1>6, <1>7
<1>. QED  BY <1>8 DEF S

-----------------------------------------------------------------------------
\* A charset parameter, and the one that is supported.
IsCharset(parameter) == parameter # Malformed /\ parameter.name = <<"charset">>
Supported == [name |-> <<"charset">>, value |-> <<"utf-8">>]

\* The scanner decides by the parameters between the starts.
ScannerAdmits(s) ==
    LET C == Count(s) IN
    /\ "invalid" \notin ToSet(s)
    /\ IsMediaType(TrimOws(Before(s, First("semicolon", s))))
    /\ Starts(s)[C] = Len(s) + 2
    /\ \A n \in 1..C : Parameter(s, n) # Malformed
    /\ \A m, n \in 1..C : IsCharset(Parameter(s, m)) /\ IsCharset(Parameter(s, n)) => m = n
    /\ \A n \in 1..C : IsCharset(Parameter(s, n)) => Parameter(s, n).value = <<"utf-8">>

\* uses_supported_charset, by starts instead of a list of parameters.
LEMMA ScannerDecides ==
    ASSUME NEW s \in Seq(Symbols), First("semicolon", s) <= Len(s)
    PROVE  UsesSupportedCharset(<<s>>) <=> ScannerAdmits(s)
<1> DEFINE C == Count(s)
           ps == Parameters(s)
           par == [n \in 1..C |-> Parameter(s, n)]
           T == {Parameter(s, n) : n \in 1..C} \cup {Malformed}
           rest == IF Starts(s)[C] = Len(s) + 2 THEN <<>> ELSE <<Malformed>>
           charsets == {n \in DOMAIN ps : ps[n] # Malformed /\ ps[n].name = <<"charset">>}
<1>1. C \in Nat /\ Len(s) \in Nat
  <2>1. C \in 0..Len(s)
    BY StartsRise
  <2>. QED  BY <2>1
<1>2. ~(First("semicolon", s) > Len(s))
  <2>1. First("semicolon", s) \in Nat /\ Len(s) \in Nat
    BY FirstIs
  <2>. QED  BY <2>1
<1>3. ps = par \o rest
  BY <1>2 DEF Parameters
<1>4. par \in Seq(T) /\ Len(par) = C /\ \A n \in 1..C : par[n] = Parameter(s, n)
  <2> HIDE DEF C
  <2>. QED  BY <1>1
<1>5. UsesSupportedCharset(<<s>>) <=>
        /\ "invalid" \notin ToSet(s)
        /\ IsMediaType(TrimOws(Before(s, First("semicolon", s))))
        /\ Malformed \notin ToSet(ps)
        /\ \A m, n \in charsets : m = n
        /\ \A n \in charsets : ps[n].value = <<"utf-8">>
  <2>1. <<s>> # <<>> /\ <<s>>[1] = s /\ Len(<<s>>) = 1
    OBVIOUS
  <2>. QED  BY <2>1 DEF UsesSupportedCharset
<1>6. \A n \in charsets : n \in DOMAIN ps /\ IsCharset(ps[n])
  BY DEF IsCharset
<1>7. \A n \in DOMAIN ps : IsCharset(ps[n]) => n \in charsets
  BY DEF IsCharset
<1> HIDE DEF par, ps, T, charsets, C
<1>8. CASE Starts(s)[C] = Len(s) + 2
  <2>1. ps = par
    <3>1. rest = <<>>
      BY <1>8
    <3>. QED  BY <1>3, <1>4, <3>1, ConcatEmptySeq
  <2>2. DOMAIN ps = 1..C /\ \A n \in 1..C : ps[n] = Parameter(s, n)
    BY <1>4, <2>1
  <2>3. Malformed \notin ToSet(ps) <=> \A n \in 1..C : Parameter(s, n) # Malformed
    BY <2>2 DEF ToSet
  <2>4. (\A m, n \in charsets : m = n)
          <=> \A m, n \in 1..C : IsCharset(Parameter(s, m)) /\ IsCharset(Parameter(s, n)) => m = n
    BY <1>6, <1>7, <2>2
  <2>5. (\A n \in charsets : ps[n].value = <<"utf-8">>)
          <=> \A n \in 1..C : IsCharset(Parameter(s, n)) => Parameter(s, n).value = <<"utf-8">>
    BY <1>6, <1>7, <2>2
  <2>. QED  BY <1>5, <1>8, <2>3, <2>4, <2>5 DEF ScannerAdmits, C
<1>9. CASE Starts(s)[C] # Len(s) + 2
  <2>1. ps = par \o <<Malformed>>
    BY <1>3, <1>9
  <2>2. Malformed \in T
    BY DEF T
  <2>3. ps = Append(par, Malformed)
    BY <1>4, <2>1, <2>2, AppendIsConcat
  <2>4. ps[C + 1] = Malformed /\ Len(ps) = C + 1 /\ ps \in Seq(T)
    BY <1>4, <2>2, <2>3, AppendProperties
  <2>5. C + 1 \in DOMAIN ps
    BY <1>1, <2>4
  <2>6. Malformed \in ToSet(ps)
    BY <2>4, <2>5 DEF ToSet
  <2>. QED  BY <1>5, <1>9, <2>6 DEF ScannerAdmits, C
<1>. QED  BY <1>8, <1>9

\* The grammar decides by cuts at semicolons.
CutsAdmit(s, cuts) ==
    LET Read(c) == Readings(Segment(s, cuts, c)) IN
    /\ IsMediaType(Segment(s, cuts, 0))
    /\ \A c \in cuts : Read(c) # {}
    /\ \A c, d \in cuts : (\E r \in Read(c) : r.name = <<"charset">>)
            /\ (\E r \in Read(d) : r.name = <<"charset">>) => c = d
    /\ \A c \in cuts : (\E r \in Read(c) : r.name = <<"charset">>) => Supported \in Read(c)

\* The grammar, by cuts.
LEMMA GrammarDecides ==
    ASSUME NEW s
    PROVE  GrammarAdmits(s) <=>
             /\ "invalid" \notin ToSet(s)
             /\ \E cuts \in SUBSET {i \in DOMAIN s : s[i] = "semicolon"} : CutsAdmit(s, cuts)
<1> DEFINE Read(cuts, c) == Readings(Segment(s, cuts, c))
           charsets(cuts) == {c \in cuts : \E r \in Read(cuts, c) : r.name = <<"charset">>}
<1>1. ASSUME NEW cuts
      PROVE  CutsAdmit(s, cuts) <=>
                 /\ IsMediaType(Segment(s, cuts, 0))
                 /\ \A c \in cuts : Read(cuts, c) # {}
                 /\ \A c, d \in charsets(cuts) : c = d
                 /\ \A c \in charsets(cuts) : [name |-> <<"charset">>, value |-> <<"utf-8">>] \in Read(cuts, c)
  BY DEF CutsAdmit, Supported
<1>2. GrammarAdmits(s) <=>
        /\ "invalid" \notin ToSet(s)
        /\ \E cuts \in SUBSET {i \in DOMAIN s : s[i] = "semicolon"} :
                 /\ IsMediaType(Segment(s, cuts, 0))
                 /\ \A c \in cuts : Read(cuts, c) # {}
                 /\ \A c, d \in charsets(cuts) : c = d
                 /\ \A c \in charsets(cuts) : [name |-> <<"charset">>, value |-> <<"utf-8">>] \in Read(cuts, c)
  BY DEF GrammarAdmits
<1> HIDE DEF Read, charsets
<1>. QED  BY <1>1, <1>2

\* A part of a field, trimmed, is a text.
LEMMA PartTrimmed ==
    ASSUME NEW s \in Seq(Symbols), NEW c \in 0..Len(s), NEW d \in Nat, c < d, d <= Len(s) + 1
    PROVE  /\ SubSeq(s, c + 1, d - 1) \in Seq(Symbols) /\ Len(SubSeq(s, c + 1, d - 1)) = d - 1 - c
           /\ \A i \in 1..(d - 1 - c) : SubSeq(s, c + 1, d - 1)[i] = s[c + i]
           /\ TrimOws(SubSeq(s, c + 1, d - 1)) \in Seq(Symbols)
<1>1. c + 1 \in 1..(Len(s) + 1) /\ d - 1 \in Nat /\ d - 1 <= Len(s) /\ c + 1 <= (d - 1) + 1
  OBVIOUS
<1>2. (d - 1) - (c + 1) + 1 = d - 1 - c
  OBVIOUS
<1>3. \A i \in 1..(d - 1 - c) : (c + 1) + i - 1 = c + i
  OBVIOUS
<1>4. /\ SubSeq(s, c + 1, d - 1) \in Seq(Symbols)
        /\ Len(SubSeq(s, c + 1, d - 1)) = (d - 1) - (c + 1) + 1
      /\ \A i \in 1..((d - 1) - (c + 1) + 1) : SubSeq(s, c + 1, d - 1)[i] = s[(c + 1) + i - 1]
  BY <1>1, PartsOf
<1>5. /\ SubSeq(s, c + 1, d - 1) \in Seq(Symbols) /\ Len(SubSeq(s, c + 1, d - 1)) = d - 1 - c
      /\ \A i \in 1..(d - 1 - c) : SubSeq(s, c + 1, d - 1)[i] = s[c + i]
  BY <1>2, <1>3, <1>4
<1>6. TrimOws(SubSeq(s, c + 1, d - 1)) \in Seq(Symbols)
  BY <1>5, TrimmedIs
<1>. QED  BY <1>5, <1>6

\* The grammar's segment between two starts reads as the scanner's parameter.
LEMMA SegmentReads ==
    ASSUME NEW s \in Seq(Symbols), First("semicolon", s) <= Len(s), NEW cuts,
           NEW n \in 1..Count(s), NextCut(s, cuts, Starts(s)[n - 1] - 1) = Starts(s)[n] - 1
    PROVE  Readings(Segment(s, cuts, Starts(s)[n - 1] - 1)) =
             IF Parameter(s, n) = Malformed THEN {} ELSE {Parameter(s, n)}
<1> DEFINE S == Starts(s)
           c == S[n - 1] - 1
           d == S[n] - 1
           p == TrimOws(SubSeq(s, c + 1, d - 1))
<1>1. S[n - 1] \in 2..(Len(s) + 2) /\ S[n] \in 2..(Len(s) + 2) /\ S[n - 1] < S[n]
        /\ S[n - 1] <= Len(s) + 1
  <2>1. /\ Count(s) \in 0..Len(s)
        /\ \A i \in 0..Count(s) : S[i] \in (i + 2)..(Len(s) + 2)
        /\ S[n - 1] <= Len(s) + 1 /\ S[n - 1] < S[n]
    BY StartsRise
  <2>2. n \in 0..Count(s) /\ n - 1 \in 0..Count(s) /\ n \in Nat /\ n - 1 \in Nat
    BY <2>1
  <2>3. S[n - 1] \in ((n - 1) + 2)..(Len(s) + 2) /\ S[n] \in (n + 2)..(Len(s) + 2)
    BY <2>1, <2>2
  <2>4. \A x : (x \in ((n - 1) + 2)..(Len(s) + 2) \/ x \in (n + 2)..(Len(s) + 2))
          => x \in 2..(Len(s) + 2)
    BY <2>2
  <2>. QED  BY <2>1, <2>3, <2>4
<1> HIDE DEF S
<1>2. c \in 0..Len(s) /\ d \in Nat /\ c < d /\ d <= Len(s) + 1 /\ c + 1 = S[n - 1]
        /\ d - 1 = S[n] - 2
  <2>1. Len(s) \in Nat
    OBVIOUS
  <2>2. S[n - 1] \in Nat /\ 2 <= S[n - 1] /\ S[n] \in Nat /\ S[n] <= Len(s) + 2
    BY <1>1, <2>1
  <2>3. c \in 0..Len(s) /\ c + 1 = S[n - 1]
    BY <1>1, <2>1, <2>2
  <2>4. d \in Nat /\ d <= Len(s) + 1 /\ d - 1 = S[n] - 2
    BY <1>1, <2>1, <2>2
  <2>5. c < d
    BY <1>1, <2>2
  <2>. QED  BY <2>3, <2>4, <2>5
<1>3. p \in Seq(Symbols)
  BY <1>2, PartTrimmed
<1>4. Segment(s, cuts, c) = p
  BY SegmentIs DEF S
<1>5. Parameter(s, n) = Parsed(p)
  <2>1. Parameter(s, n) = ParseParameter(SubSeq(s, S[n - 1], S[n] - 2))
    BY DEF Parameter, S
  <2>2. Parameter(s, n) = ParseParameter(SubSeq(s, c + 1, d - 1))
    BY <1>2, <2>1
  <2>. QED  BY <2>2, ParsedTrimmed
<1> HIDE DEF p, c
<1>6. Readings(Segment(s, cuts, c)) = IF Parsed(p) = Malformed THEN {} ELSE {Parsed(p)}
  BY <1>3, <1>4, ReadingsAre
<1>. QED  BY <1>5, <1>6 DEF c, S

\* A field that the scanner admits is cut where its parameters start.
LEMMA ScannerCuts ==
    ASSUME NEW s \in Seq(Symbols), First("semicolon", s) <= Len(s), ScannerAdmits(s)
    PROVE  \E cuts \in SUBSET {i \in DOMAIN s : s[i] = "semicolon"} : CutsAdmit(s, cuts)
<1> DEFINE N == Len(s)
           S == Starts(s)
           C == Count(s)
           first == First("semicolon", s)
           cuts == {S[n - 1] - 1 : n \in 1..C}
<1>1. N \in Nat /\ DOMAIN s = 1..N /\ first \in 1..N
  <2>1. first \in 1..(N + 1) /\ N \in Nat
    BY FirstIs
  <2>. QED  BY <2>1
<1>2. /\ C \in 0..N /\ S[0] = first + 1
      /\ \A n \in 0..C : S[n] \in (n + 2)..(N + 2)
      /\ \A n \in 0..C : S[n] <= N + 1 => s[S[n] - 1] = "semicolon"
      /\ \A n \in 1..C : S[n - 1] <= N + 1 /\ S[n - 1] < S[n]
  BY StartsRise
<1>0. \A n \in 0..C : S[n] \in Nat
  <2>1. \A n \in 0..Len(s) : S[n] \in Nat
    BY StartsAre
  <2>. QED  BY <1>1, <1>2, <2>1
<1>3. /\ S[C] = N + 2 /\ IsMediaType(TrimOws(Before(s, first)))
      /\ \A n \in 1..C : Parameter(s, n) # Malformed
      /\ \A m, n \in 1..C : IsCharset(Parameter(s, m)) /\ IsCharset(Parameter(s, n)) => m = n
      /\ \A n \in 1..C : IsCharset(Parameter(s, n)) => Parameter(s, n).value = <<"utf-8">>
  BY DEF ScannerAdmits
<1>4. \A m, n \in 0..C : m < n => S[m] < S[n]
  BY StartsInOrder
<1> HIDE DEF N, S, C, first
<1>5. C >= 1
  BY <1>1, <1>2, <1>3
<1>6. ASSUME NEW n \in 1..C
      PROVE  /\ n - 1 \in 0..C /\ n \in 0..C
             /\ S[n - 1] - 1 \in 1..N /\ s[S[n - 1] - 1] = "semicolon" /\ S[n] \in 2..(N + 2)
             /\ S[n] - 1 \in cuts \cup {N + 1}
  <2>1. n - 1 \in 0..C /\ n \in 0..C /\ n \in Nat
    BY <1>1, <1>2
  <2>2. S[n - 1] \in ((n - 1) + 2)..(N + 2) /\ S[n - 1] <= N + 1 /\ S[n] \in (n + 2)..(N + 2)
    BY <1>2, <2>1
  <2>3. S[n - 1] - 1 \in 1..N /\ S[n] \in 2..(N + 2)
    BY <1>1, <2>1, <2>2
  <2>4. s[S[n - 1] - 1] = "semicolon"
    BY <1>2, <2>1
  <2>5. CASE n = C
    BY <1>1, <1>3, <2>1, <2>3, <2>4, <2>5
  <2>6. CASE n # C
    <3>1. n + 1 \in 1..C /\ (n + 1) - 1 = n
      BY <1>1, <1>2, <2>6
    <3>2. S[n] - 1 \in cuts
      BY <3>1
    <3>. QED  BY <2>1, <2>3, <2>4, <3>2
  <2>. QED  BY <2>5, <2>6
<1>7. cuts \in SUBSET {i \in DOMAIN s : s[i] = "semicolon"} /\ cuts \in SUBSET (1..N)
  BY <1>1, <1>6
<1>8. ASSUME NEW n \in 1..C PROVE NextCut(s, cuts, S[n - 1] - 1) = S[n] - 1
  <2> DEFINE c == S[n - 1] - 1
             e == S[n] - 1
  <2>1. c \in 0..N /\ e \in cuts \cup {N + 1} /\ c < e
    <3>1. S[n - 1] < S[n] /\ S[n - 1] \in Nat /\ S[n] \in Nat
      BY <1>0, <1>2, <1>6
    <3>2. c < e
      BY <3>1
    <3>3. c \in 0..N
      BY <1>1, <1>6
    <3>4. e \in cuts \cup {N + 1}
      BY <1>6
    <3>. QED  BY <3>2, <3>3, <3>4
  <2>2. ASSUME NEW d \in cuts, d > c PROVE e <= d
    <3>1. PICK k \in 1..C : d = S[k - 1] - 1
      OBVIOUS
    <3>2. S[k - 1] - 1 \in 1..N /\ S[n - 1] - 1 \in 1..N /\ k - 1 \in 0..C /\ n \in 0..C
            /\ n - 1 \in 0..C
      BY <1>6
    <3>3. S[k - 1] > S[n - 1] /\ S[k - 1] \in Nat /\ S[n - 1] \in Nat
      <4>2. S[k - 1] \in Nat /\ S[n - 1] \in Nat
        BY <1>0, <3>2
      <4>. QED  BY <2>2, <3>1, <4>2
    <3>4. ~(k - 1 < n - 1) /\ k - 1 # n - 1
      <4>1. k - 1 < n - 1 => S[k - 1] < S[n - 1]
        BY <1>4, <3>2
      <4>. QED  BY <3>3, <4>1
    <3>5. k - 1 = n \/ n < k - 1
      BY <1>1, <1>2, <3>4
    <3>6. S[n] = S[k - 1] \/ S[n] < S[k - 1]
      BY <1>4, <3>2, <3>5
    <3>7. S[n] \in 2..(N + 2)
      BY <1>6
    <3>8. S[n] \in Nat
      BY <1>1, <3>7
    <3>9. S[n] <= S[k - 1]
      BY <3>3, <3>6, <3>8
    <3>. QED  BY <3>1, <3>3, <3>8, <3>9
  <2> HIDE DEF c, e, cuts
  <2>3. NextCut(s, cuts, c) = e
    BY <1>7, <2>1, <2>2, NextCutAt DEF N
  <2>. QED  BY <2>3 DEF c, e
<1>9. NextCut(s, cuts, 0) = first
  <2>1. 0 \in 0..N /\ 0 < first /\ 1 \in 1..C
    BY <1>1, <1>2, <1>5
  <2>2. first = S[1 - 1] - 1
    BY <1>1, <1>2
  <2>3. first \in cuts
    BY <2>1, <2>2
  <2>4. ASSUME NEW d \in cuts PROVE first <= d
    <3>1. PICK k \in 1..C : d = S[k - 1] - 1
      OBVIOUS
    <3>2. k - 1 \in 0..C /\ 0 \in 0..C /\ d \in 1..N /\ (k - 1 = 0 \/ 0 < k - 1)
      <4>1. k - 1 \in 0..C /\ d \in 1..N
        BY <1>6, <3>1
      <4>. QED  BY <1>1, <1>2, <4>1
    <3>3. S[0] = S[k - 1] \/ S[0] < S[k - 1]
      BY <1>4, <3>2
    <3>4. S[k - 1] = d + 1
      <4>2. S[k - 1] \in Nat
        BY <1>0, <3>2
      <4>. QED  BY <3>1, <4>2
    <3>. QED  BY <1>1, <1>2, <3>2, <3>3, <3>4
  <2> HIDE DEF cuts
  <2>. QED  BY <1>7, <2>1, <2>3, <2>4, NextCutAt DEF N
<1>10. ASSUME NEW n \in 1..C PROVE Readings(Segment(s, cuts, S[n - 1] - 1)) = {Parameter(s, n)}
  <2> HIDE DEF cuts
  <2>. QED  BY <1>3, <1>8, SegmentReads DEF S, C
<1>11. IsMediaType(Segment(s, cuts, 0))
  <2>1. Segment(s, cuts, 0) = TrimOws(SubSeq(s, 0 + 1, first - 1))
    BY <1>9, SegmentIs
  <2>2. Segment(s, cuts, 0) = TrimOws(Before(s, first))
    BY <2>1 DEF Before
  <2>. QED  BY <1>3, <2>2
<1>12. \A c \in cuts : \E n \in 1..C : c = S[n - 1] - 1
  OBVIOUS
<1> HIDE DEF cuts
<1>13. \A c \in cuts : Readings(Segment(s, cuts, c)) # {}
  BY <1>10, <1>12
<1>14. ASSUME NEW n \in 1..C, \E r \in Readings(Segment(s, cuts, S[n - 1] - 1)) : r.name = <<"charset">>
       PROVE  IsCharset(Parameter(s, n))
  BY <1>3, <1>10, <1>14 DEF IsCharset
<1>15. ASSUME NEW c \in cuts, NEW d \in cuts,
              \E r \in Readings(Segment(s, cuts, c)) : r.name = <<"charset">>,
              \E r \in Readings(Segment(s, cuts, d)) : r.name = <<"charset">>
       PROVE  c = d
  <2>1. PICK m \in 1..C : c = S[m - 1] - 1
    BY <1>12
  <2>2. PICK n \in 1..C : d = S[n - 1] - 1
    BY <1>12
  <2>3. IsCharset(Parameter(s, m)) /\ IsCharset(Parameter(s, n))
    BY <1>14, <1>15, <2>1, <2>2
  <2>4. m = n
    BY <1>3, <2>3
  <2>. QED  BY <2>1, <2>2, <2>4
<1>16. ASSUME NEW c \in cuts, \E r \in Readings(Segment(s, cuts, c)) : r.name = <<"charset">>
       PROVE  Supported \in Readings(Segment(s, cuts, c))
  <2>1. PICK n \in 1..C : c = S[n - 1] - 1
    BY <1>12
  <2>2. IsCharset(Parameter(s, n))
    BY <1>14, <1>16, <2>1
  <2>3. Parameter(s, n).name = <<"charset">> /\ Parameter(s, n).value = <<"utf-8">>
    BY <1>3, <2>2 DEF IsCharset
  <2>4. Readings(Segment(s, cuts, c)) = {Parameter(s, n)}
    BY <1>10, <2>1
  <2>5. PICK p \in Seq(Symbols) : Segment(s, cuts, c) = p
    <3> DEFINE d == NextCut(s, cuts, c)
    <3>1. c \in 0..Len(s) /\ d \in Nat /\ c < d /\ d <= Len(s) + 1
      <4>1. c \in 0..Len(s) /\ cuts \in SUBSET (1..Len(s))
        BY <1>1, <1>7 DEF N
      <4>. QED  BY <4>1, NextCutIs
    <3>2. TrimOws(SubSeq(s, c + 1, d - 1)) \in Seq(Symbols)
      <4> HIDE DEF d
      <4>. QED  BY <3>1, PartTrimmed
    <3>. QED  BY <3>2, SegmentIs
  <2>6. Parameter(s, n) = Parsed(p) /\ Parsed(p) # Malformed
    <3>1. Readings(p) = IF Parsed(p) = Malformed THEN {} ELSE {Parsed(p)}
      BY ReadingsAre
    <3>. QED  BY <2>4, <2>5, <3>1
  <2>7. \E x, y : Parsed(p) = [name |-> x, value |-> y]
    BY <2>6 DEF Parsed
  <2>8. Parameter(s, n) = Supported
    BY <2>3, <2>6, <2>7 DEF Supported
  <2>. QED  BY <2>4, <2>8
<1>17. CutsAdmit(s, cuts)
  BY <1>11, <1>13, <1>15, <1>16 DEF CutsAdmit
<1>. QED  BY <1>7, <1>17

\* A field that is cut as the grammar wants is cut where the scanner finds its
\* parameters, so the scanner admits it.
LEMMA GrammarCuts ==
    ASSUME NEW s \in Seq(Symbols), First("semicolon", s) <= Len(s), "invalid" \notin ToSet(s),
           NEW cuts \in SUBSET {i \in DOMAIN s : s[i] = "semicolon"}, CutsAdmit(s, cuts),
           NextCut(s, cuts, 0) = First("semicolon", s)
    PROVE  ScannerAdmits(s)
<1> DEFINE N == Len(s)
           S == Starts(s)
           C == Count(s)
           first == First("semicolon", s)
           J(n) == /\ S[n] - 1 \in cuts \cup {N + 1}
                   /\ n > 0 => NextCut(s, cuts, S[n - 1] - 1) = S[n] - 1
<1>1. N \in Nat /\ DOMAIN s = 1..N /\ first \in 1..N
  <2>1. first \in 1..(N + 1) /\ N \in Nat
    BY FirstIs
  <2>. QED  BY <2>1
<1>2. /\ C \in 0..N /\ S[0] = first + 1
      /\ \A n \in 0..C : S[n] \in (n + 2)..(N + 2)
      /\ \A n \in 1..C : /\ S[n - 1] <= N + 1 /\ S[n - 1] < S[n]
                         /\ S[n] = NextStart(s, S[n - 1])
      /\ \A n \in 1..N : S[n] # 0 => n <= C
  BY StartsRise
<1>3. \A n \in 0..N : S[n] \in Nat
  BY StartsAre
<1>4. cuts \in SUBSET (1..N) /\ \A c \in cuts : s[c] = "semicolon"
  BY <1>1
<1>5. /\ IsMediaType(Segment(s, cuts, 0))
      /\ \A c \in cuts : Readings(Segment(s, cuts, c)) # {}
      /\ \A c, d \in cuts : (\E r \in Readings(Segment(s, cuts, c)) : r.name = <<"charset">>)
                              /\ (\E r \in Readings(Segment(s, cuts, d)) : r.name = <<"charset">>) => c = d
      /\ \A c \in cuts : (\E r \in Readings(Segment(s, cuts, c)) : r.name = <<"charset">>)
                            => Supported \in Readings(Segment(s, cuts, c))
  BY DEF CutsAdmit
<1>6. NextCut(s, cuts, 0) = first
  OBVIOUS
<1>7. \A m, n \in 0..C : m < n => S[m] < S[n]
  BY StartsInOrder
<1> HIDE DEF N, S, C, first
<1>8. ASSUME NEW c \in cuts PROVE NextStart(s, c + 1) = NextCut(s, cuts, c) + 1
  <2> DEFINE d == NextCut(s, cuts, c)
  <2>1. c \in 0..Len(s) /\ cuts \in SUBSET (1..Len(s))
    BY <1>1, <1>4 DEF N
  <2>2. d \in cuts \cup {Len(s) + 1} /\ d \in Nat /\ c < d /\ d <= Len(s) + 1
    BY <2>1, NextCutIs
  <2>3. d <= Len(s) => s[d] = "semicolon"
    <3>1. Len(s) \in Nat
      OBVIOUS
    <3>2. d <= Len(s) => d # Len(s) + 1
      BY <2>2, <3>1
    <3>. QED  BY <1>4, <2>2, <3>2
  <2>4. Readings(TrimOws(SubSeq(s, c + 1, d - 1))) # {}
    BY <1>5, SegmentIs
  <2> HIDE DEF d
  <2>5. TrimOws(SubSeq(s, c + 1, d - 1)) \in Seq(Symbols)
    BY <2>1, <2>2, PartTrimmed
  <2>6. Parsed(TrimOws(SubSeq(s, c + 1, d - 1))) # Malformed
    BY <2>4, <2>5, ReadingsAre
  <2>7. NextStart(s, c + 1) = d + 1
    BY <2>1, <2>2, <2>3, <2>6, ParameterEnds
  <2>. QED  BY <2>7 DEF d
<1>9. ASSUME NEW n \in Nat, n <= C PROVE J(n)
  <2> DEFINE T == {k \in Nat : k <= C => J(k)}
  <2>1. J(0)
    <3>1. NextCut(s, cuts, 0) \in cuts \cup {Len(s) + 1}
      <4>1. 0 \in 0..Len(s) /\ cuts \in SUBSET (1..Len(s))
        BY <1>1, <1>4 DEF N
      <4>. QED  BY <4>1, NextCutIs
    <3>2. S[0] - 1 = first
      BY <1>1, <1>2
    <3>. QED  BY <1>6, <3>1, <3>2 DEF N
  <2>2. ASSUME NEW k \in Nat, k \in T PROVE k + 1 \in T
    <3>1. SUFFICES ASSUME k + 1 <= C PROVE J(k + 1)
      OBVIOUS
    <3>2. k + 1 \in 1..C /\ (k + 1) - 1 = k /\ k \in 0..N /\ k + 1 \in 0..N /\ k <= C /\ k + 1 > 0
      BY <1>1, <1>2, <3>1
    <3>3. S[k] - 1 \in cuts \cup {N + 1} /\ S[k] <= N + 1 /\ S[k + 1] = NextStart(s, S[k])
            /\ S[k] \in Nat
      BY <1>2, <1>3, <2>2, <3>2
    <3>4. S[k] - 1 \in cuts /\ (S[k] - 1) + 1 = S[k]
      BY <1>1, <3>3
    <3> DEFINE d == NextCut(s, cuts, S[k] - 1)
    <3>5. S[k + 1] = d + 1
      <4>1. NextStart(s, (S[k] - 1) + 1) = NextCut(s, cuts, S[k] - 1) + 1
        BY <1>8, <3>4
      <4>. QED  BY <3>3, <3>4, <4>1
    <3>6. d \in cuts \cup {N + 1} /\ d \in Nat
      <4>1. S[k] - 1 \in 0..Len(s) /\ cuts \in SUBSET (1..Len(s))
        BY <1>1, <1>4, <3>4 DEF N
      <4>. QED  BY <4>1, NextCutIs DEF N
    <3> HIDE DEF d
    <3>7. S[k + 1] - 1 = d
      BY <3>5, <3>6
    <3>8. NextCut(s, cuts, S[(k + 1) - 1] - 1) = S[k + 1] - 1
      BY <3>2, <3>7 DEF d
    <3>. QED  BY <3>6, <3>7, <3>8
  <2>3. Nat \subseteq T
    <3>1. 0 \in T
      BY <2>1
    <3> HIDE DEF T
    <3>. QED  BY <2>2, <3>1, SetInduction
  <2> HIDE DEF J
  <2>. QED  BY <1>9, <2>3
<1>10. S[C] = N + 2
  <2>1. C \in Nat /\ C \in 0..N /\ S[C] \in Nat /\ S[C] \in (C + 2)..(N + 2)
    BY <1>1, <1>2, <1>3
  <2>2. S[C] - 1 \in cuts \cup {N + 1}
    BY <1>9, <2>1
  <2>3. ASSUME S[C] - 1 \in cuts PROVE FALSE
    <3>1. NextStart(s, (S[C] - 1) + 1) = NextCut(s, cuts, S[C] - 1) + 1
      BY <1>8, <2>3
    <3>2. (S[C] - 1) + 1 = S[C]
      BY <2>1
    <3>3. S[C] <= N + 1
      BY <1>1, <1>4, <2>1, <2>3
    <3>4. C + 1 \in 1..N /\ (C + 1) - 1 = C
      BY <1>1, <2>1, <3>3
    <3>5. S[C + 1] = NextStart(s, S[C])
      <4>1. \A n \in 1..Len(s) : S[n] = NextStart(s, S[n - 1])
        BY StartsAre DEF S
      <4>. QED  BY <3>4, <4>1 DEF N
    <3>6. NextCut(s, cuts, S[C] - 1) \in Nat
      <4>1. S[C] - 1 \in 0..Len(s) /\ cuts \in SUBSET (1..Len(s))
        BY <1>1, <1>4, <2>3 DEF N
      <4>. QED  BY <4>1, NextCutIs
    <3>7. S[C + 1] # 0
      BY <3>1, <3>2, <3>5, <3>6
    <3>. QED  BY <1>2, <2>1, <3>4, <3>7
  <2>. QED  BY <1>1, <2>1, <2>2, <2>3
<1>11. ASSUME NEW n \in 1..C
       PROVE  S[n - 1] - 1 \in cuts /\ Readings(Segment(s, cuts, S[n - 1] - 1)) = {Parameter(s, n)}
              /\ Parameter(s, n) # Malformed
  <2>1. n \in Nat /\ n - 1 \in Nat /\ n <= C /\ n - 1 <= C /\ n > 0 /\ n - 1 \in 0..N
    BY <1>1, <1>2
  <2>2. S[n - 1] - 1 \in cuts \cup {N + 1} /\ NextCut(s, cuts, S[n - 1] - 1) = S[n] - 1
    BY <1>9, <2>1
  <2>3. S[n - 1] - 1 \in cuts
    <3>1. S[n - 1] <= N + 1 /\ S[n - 1] \in Nat
      BY <1>2, <1>3, <2>1
    <3>. QED  BY <1>1, <2>2, <3>1
  <2>4. Readings(Segment(s, cuts, S[n - 1] - 1)) =
             IF Parameter(s, n) = Malformed THEN {} ELSE {Parameter(s, n)}
    BY <2>2, SegmentReads DEF S, C
  <2>. QED  BY <1>5, <2>3, <2>4
<1>12. ASSUME NEW m \in 1..C, NEW n \in 1..C, IsCharset(Parameter(s, m)), IsCharset(Parameter(s, n))
       PROVE  m = n
  <2>1. S[m - 1] - 1 = S[n - 1] - 1
    BY <1>5, <1>11, <1>12 DEF IsCharset
  <2>2. m - 1 \in 0..C /\ n - 1 \in 0..C /\ m - 1 \in 0..N /\ n - 1 \in 0..N /\ m \in Int
          /\ n \in Int
    BY <1>1, <1>2
  <2>3. S[m - 1] \in Nat /\ S[n - 1] \in Nat
    BY <1>3, <2>2
  <2>4. S[m - 1] = S[n - 1]
    BY <2>1, <2>3
  <2>5. ~(m - 1 < n - 1) /\ ~(n - 1 < m - 1)
    BY <1>7, <2>2, <2>3, <2>4
  <2>. QED  BY <2>2, <2>5
<1>13. ASSUME NEW n \in 1..C, IsCharset(Parameter(s, n))
       PROVE  Parameter(s, n).value = <<"utf-8">>
  <2>1. Supported \in Readings(Segment(s, cuts, S[n - 1] - 1))
    BY <1>5, <1>11, <1>13 DEF IsCharset
  <2>2. Parameter(s, n) = Supported
    BY <1>11, <2>1
  <2>. QED  BY <2>2 DEF Supported
<1>14. IsMediaType(TrimOws(Before(s, first)))
  <2>1. Segment(s, cuts, 0) = TrimOws(SubSeq(s, 0 + 1, first - 1))
    BY <1>6, SegmentIs
  <2>2. Segment(s, cuts, 0) = TrimOws(Before(s, first))
    BY <2>1 DEF Before
  <2>. QED  BY <1>5, <2>2
<1>. QED  BY <1>10, <1>11, <1>12, <1>13, <1>14 DEF ScannerAdmits, N, S, C, first

\* The media type, which holds no semicolon, ends at the first of them.
LEMMA MediaEnds ==
    ASSUME NEW s \in Seq(Symbols), NEW cuts \in SUBSET {i \in DOMAIN s : s[i] = "semicolon"},
           IsMediaType(Segment(s, cuts, 0))
    PROVE  NextCut(s, cuts, 0) = First("semicolon", s)
<1> DEFINE d == NextCut(s, cuts, 0)
           raw == SubSeq(s, 0 + 1, d - 1)
<1>1. Len(s) \in Nat /\ 0 \in 0..Len(s) /\ cuts \in SUBSET (1..Len(s))
        /\ \A c \in cuts : s[c] = "semicolon"
  OBVIOUS
<1>2. d \in cuts \cup {Len(s) + 1} /\ d \in Nat /\ 0 < d /\ d <= Len(s) + 1
  BY <1>1, NextCutIs
<1> HIDE DEF d
<1>3. /\ raw \in Seq(Symbols) /\ Len(raw) = d - 1 - 0
      /\ \A i \in 1..(d - 1 - 0) : raw[i] = s[0 + i]
  BY <1>1, <1>2, PartTrimmed
<1>4. IsMediaType(TrimOws(raw))
  BY SegmentIs DEF d
<1> HIDE DEF raw
<1>5. \A i \in 1..Len(raw) : raw[i] # "semicolon"
  BY <1>3, <1>4, MediaIs
<1>6. ASSUME NEW i \in 1..Len(s), i < d PROVE s[i] # "semicolon"
  <2>1. i \in 1..(d - 1 - 0) /\ i \in 1..Len(raw) /\ 0 + i = i
    BY <1>1, <1>2, <1>3, <1>6
  <2>. QED  BY <1>3, <1>5, <2>1
<1>7. d \in 1..(Len(s) + 1) /\ (d <= Len(s) => s[d] = "semicolon")
  BY <1>1, <1>2
<1>8. First("semicolon", s) = d
  BY <1>6, <1>7, FirstAt
<1>. QED  BY <1>8 DEF d

\* The scanner and the grammar agree on every field.
THEOREM CharsetDecides ==
    ASSUME NEW s \in Seq(Symbols)
    PROVE  UsesSupportedCharset(<<s>>) <=> GrammarAdmits(s)
<1> DEFINE first == First("semicolon", s)
           semicolons == {i \in DOMAIN s : s[i] = "semicolon"}
<1>1. Len(s) \in Nat /\ first \in 1..(Len(s) + 1) /\ \A i \in 1..Len(s) : i < first
        => s[i] # "semicolon"
  BY FirstIs
<1>2. GrammarAdmits(s) <=> "invalid" \notin ToSet(s)
        /\ \E cuts \in SUBSET semicolons : CutsAdmit(s, cuts)
  BY GrammarDecides
<1>3. \A cuts \in SUBSET semicolons : CutsAdmit(s, cuts) => NextCut(s, cuts, 0) = first
  BY MediaEnds DEF CutsAdmit
<1>4. CASE first <= Len(s)
  <2>1. UsesSupportedCharset(<<s>>) <=> ScannerAdmits(s)
    BY <1>4, ScannerDecides
  <2>2. ScannerAdmits(s) => "invalid" \notin ToSet(s)
    BY DEF ScannerAdmits
  <2>3. ScannerAdmits(s) => \E cuts \in SUBSET semicolons : CutsAdmit(s, cuts)
    BY <1>4, ScannerCuts
  <2>4. ASSUME "invalid" \notin ToSet(s), NEW cuts \in SUBSET semicolons, CutsAdmit(s, cuts)
        PROVE  ScannerAdmits(s)
    <3>1. NextCut(s, cuts, 0) = first
      BY <1>3, <2>4
    <3>. QED  BY <1>4, <2>4, <3>1, GrammarCuts
  <2> HIDE DEF first, semicolons
  <2>. QED  BY <1>2, <2>1, <2>2, <2>3, <2>4
<1>5. CASE ~(first <= Len(s))
  <2>1. first = Len(s) + 1 /\ first > Len(s)
    BY <1>1, <1>5
  <2>2. semicolons = {}
    <3>1. \A i \in 1..Len(s) : s[i] # "semicolon"
      BY <1>1, <2>1
    <3>. QED  BY <3>1
  <2>3. NextCut(s, {}, 0) = first
    <3>1. {} \in SUBSET (1..Len(s)) /\ 0 \in 0..Len(s) /\ first \in {} \cup {Len(s) + 1}
            /\ 0 < first
      BY <1>1, <2>1
    <3>2. \A d \in {} : d > 0 => first <= d
      OBVIOUS
    <3> DEFINE cuts == {}
    <3>3. /\ cuts \in SUBSET (1..Len(s)) /\ 0 \in 0..Len(s)
            /\ first \in cuts \cup {Len(s) + 1} /\ 0 < first
          /\ \A d \in cuts : d > 0 => first <= d
      BY <3>1, <3>2
    <3> HIDE DEF first, cuts
    <3>4. NextCut(s, cuts, 0) = first
      BY <3>3, NextCutAt
    <3>. QED  BY <3>4 DEF cuts
  <2>4. Segment(s, {}, 0) = TrimOws(Before(s, first))
    <3>1. Segment(s, {}, 0) = TrimOws(SubSeq(s, 0 + 1, first - 1))
      BY <2>3, SegmentIs
    <3>. QED  BY <3>1 DEF Before
  <2>5. CutsAdmit(s, {}) <=> IsMediaType(TrimOws(Before(s, first)))
    BY <2>4 DEF CutsAdmit
  <2>6. (\E cuts \in SUBSET semicolons : CutsAdmit(s, cuts)) <=> CutsAdmit(s, {})
    BY <2>2
  <2>7. Parameters(s) = <<>>
    BY <2>1 DEF Parameters
  <2>8. UsesSupportedCharset(<<s>>) <=> "invalid" \notin ToSet(s)
          /\ IsMediaType(TrimOws(Before(s, first)))
    <3>1. <<s>> # <<>> /\ <<s>>[1] = s /\ Len(<<s>>) = 1
      OBVIOUS
    <3>2. DOMAIN Parameters(s) = {} /\ Malformed \notin ToSet(Parameters(s))
      BY <2>7 DEF ToSet
    <3>. QED  BY <3>1, <3>2 DEF UsesSupportedCharset
  <2> HIDE DEF first, semicolons
  <2>. QED  BY <1>2, <2>5, <2>6, <2>8
<1>. QED  BY <1>4, <1>5

-----------------------------------------------------------------------------
(* The decisions of every behaviour *)

Images == [text : Seq(Characters), png : BOOLEAN, max : Nat]
Names  == [application : Seq(NameCharacters), logId : Seq(NameCharacters), at : Instants]

\* What is decided about is a text of its kind.
TextTyped ==
    /\ subject = "field" => input \in Seq(Symbols)
    /\ subject = "image" => input \in Images
    /\ subject = "name" => input \in Names

\* The first texts, and those they grow to.
LEMMA TextsTyped == TextSpec => []TextTyped
<1>1. ASSUME TextInit PROVE TextTyped
  <2>1. ASSUME NEW field \in FieldStarts PROVE field \in Seq(Symbols)
    <3> DEFINE a == Media
               b == <<"charset", "equals">>
               c == <<"charset", "equals", "quote">>
               d == <<"charset", "equals", "utf-8", "semicolon">>
               e == <<"t", "equals", "quote", "backslash">>
    <3>1. {"t", "charset", "utf-8", "semicolon", "equals", "slash", "quote", "backslash"} \subseteq Symbols
      BY DEF Symbols, TokenSymbols, Separators
    <3>2. /\ a \in Seq(Symbols) /\ b \in Seq(Symbols) /\ c \in Seq(Symbols) /\ d \in Seq(Symbols)
          /\ e \in Seq(Symbols) /\ <<>> \in Seq(Symbols)
      BY <3>1 DEF Media
    <3>3. field \in {<<>>, a, a \o b, a \o c, a \o d, a \o e}
      BY DEF FieldStarts
    <3> HIDE DEF a, b, c, d, e
    <3>. QED  BY <3>2, <3>3, ConcatProperties
  <2>2. ASSUME NEW image \in ImageStarts PROVE image \in Images
    <3>1. PICK n \in 8..(Max(MaxBytes) + 9), png \in BOOLEAN, max \in MaxBytes :
            image = [text |-> [i \in 1..n |-> "A"], png |-> png, max |-> max]
      BY DEF ImageStarts
    <3>2. n \in Nat /\ max \in Nat /\ "A" \in Characters
      BY BoundaryAssumption DEF Characters, Alphabet
    <3>3. [i \in 1..n |-> "A"] \in Seq(Characters)
      BY <3>2
    <3>. QED  BY <3>1, <3>2, <3>3 DEF Images
  <2>3. ASSUME NEW name \in NameStarts PROVE name \in Names
    <3>1. "x" \in NameCharacters
      BY DEF NameCharacters
    <3>2. <<"x">> \in Seq(NameCharacters) /\ <<>> \in Seq(NameCharacters)
      BY <3>1
    <3>3. NamedInstants \subseteq Instants
      BY BoundaryAssumption
    <3>4. PICK at \in Instants : name = NameOf(<<"x">>, <<"x">>, at)
            \/ name = NameOf(<<>>, <<>>, at)
      BY <3>3 DEF NameStarts
    <3>5. ASSUME NEW t \in Seq(NameCharacters) PROVE NameOf(t, t, at) \in Names
      BY DEF NameOf, Names
    <3>. QED  BY <3>2, <3>4, <3>5
  <2>4. CASE \E field \in FieldStarts : Start("field", field)
    BY <2>1, <2>4 DEF Start, TextTyped
  <2>5. CASE \E image \in ImageStarts : Start("image", image)
    BY <2>2, <2>5 DEF Start, TextTyped
  <2>6. CASE \E name \in NameStarts : Start("name", name)
    BY <2>3, <2>6 DEF Start, TextTyped
  <2>. QED  BY <1>1, <2>4, <2>5, <2>6 DEF TextInit
<1>2. ASSUME TextTyped, [TextNext]_vars PROVE TextTyped'
  <2>1. CASE GrowField
    <3>1. subject = "field" /\ subject' = "field"
      BY <2>1 DEF GrowField, Grow
    <3>2. PICK symbol \in Symbols : input' = Append(input, symbol)
      BY <2>1 DEF GrowField
    <3>3. input' \in Seq(Symbols)
      BY <1>2, <3>1, <3>2, AppendProperties DEF TextTyped
    <3>. QED  BY <3>1, <3>3 DEF TextTyped
  <2>2. CASE GrowImage
    <3>1. subject = "image" /\ subject' = "image" /\ input \in Images
      BY <1>2, <2>2 DEF GrowImage, Grow, TextTyped
    <3>2. PICK c \in Characters : input' = [input EXCEPT !.text = Append(@, c)]
      BY <2>2 DEF GrowImage
    <3>3. Append(input.text, c) \in Seq(Characters)
      BY <3>1, AppendProperties DEF Images
    <3>4. input' \in Images
      BY <3>1, <3>2, <3>3 DEF Images
    <3>. QED  BY <3>1, <3>4 DEF TextTyped
  <2>3. CASE GrowName
    <3>1. subject = "name" /\ subject' = "name" /\ input \in Names
      BY <1>2, <2>3 DEF GrowName, Grow, TextTyped
    <3>2. PICK c \in NameCharacters :
            \/ input' = [input EXCEPT !.application = Append(@, c)]
            \/ input' = [input EXCEPT !.logId = Append(@, c)]
      BY <2>3 DEF GrowName
    <3>3. Append(input.application, c) \in Seq(NameCharacters)
            /\ Append(input.logId, c) \in Seq(NameCharacters)
      BY <3>1, AppendProperties DEF Names
    <3>4. input' \in Names
      BY <3>1, <3>2, <3>3 DEF Names
    <3>. QED  BY <3>1, <3>4 DEF TextTyped
  <2>4. CASE UNCHANGED vars
    BY <1>2, <2>4 DEF vars, TextTyped
  <2>. QED  BY <1>2, <2>1, <2>2, <2>3, <2>4 DEF TextNext
<1>. QED  BY <1>1, <1>2, PTL DEF TextSpec

\* The scan of a Content-Type admits what the grammar admits, for fields of any
\* length.
THEOREM CharsetsDecided == TextSpec => []CharsetDecidedByGrammar
<1>1. TextTyped => CharsetDecidedByGrammar
  BY CharsetDecides DEF TextTyped, CharsetDecidedByGrammar
<1>. QED  BY <1>1, TextsTyped, PTL

\* Reading a bounded beginning of an image decides like reading it all, for
\* texts of any length and every limit.
THEOREM ImagesDecided == TextSpec => []ImageDecidedByBeginning
<1>1. ASSUME TextTyped, subject = "image"
      PROVE  LET png == input.png /\ Len(input.text) > 10 IN
             Png(input.text, png, input.max) = PngReference(input.text, png, input.max)
  <2>1. input.text \in Seq(Characters) /\ input.max \in Nat
    BY <1>1 DEF TextTyped, Images
  <2>2. (input.png /\ Len(input.text) > 10) \in BOOLEAN
    OBVIOUS
  <2>. QED  BY <2>1, <2>2, PngDecides
<1>2. TextTyped => ImageDecidedByBeginning
  BY <1>1 DEF ImageDecidedByBeginning
<1>. QED  BY <1>2, TextsTyped, PTL

\* The name of a file tells its identities and the instant of its creation, for
\* identities of any length and every instant since the epoch.
THEOREM NamesDecided == TextSpec => []NameTellsItsParts
<1>1. ASSUME TextTyped, subject = "name",
             IsIdentity(input.application, MaxIdentity), IsIdentity(input.logId, MaxIdentity)
      PROVE  LET name == FileName(input.application, input.logId, input.at) IN
             /\ IsUtc(name.stamp)
             /\ NameReadings(name) = {<<input.application, input.logId, input.at>>}
  <2> DEFINE app == input.application
             id == input.logId
             at == input.at
  <2>1. app \in Seq(NameCharacters) /\ id \in Seq(NameCharacters) /\ at \in Instants
    BY <1>1 DEF TextTyped, Names
  <2>2. /\ at = [day |-> at.day, second |-> at.second, micro |-> at.micro]
        /\ at.day \in Nat /\ at.second \in Nat /\ at.second < 86400
    BY <2>1, BoundaryAssumption
  <2>3. IsIdentity(app, MaxIdentity) /\ IsIdentity(id, MaxIdentity)
    BY <1>1
  <2> HIDE DEF app, id, at
  <2>4. IsUtc(UtcParts(at)) /\ InstantOf(UtcParts(at)) = at
    BY <2>2, StampDecides
  <2>5. NameReadings(FileName(app, id, at)) = {<<app, id, at>>}
    BY <2>1, <2>3, <2>4, NameDecides
  <2>6. FileName(app, id, at).stamp = UtcParts(at)
    BY DEF FileName
  <2>. QED  BY <2>4, <2>5, <2>6 DEF app, id, at
<1>2. TextTyped => NameTellsItsParts
  BY <1>1 DEF NameTellsItsParts
<1>. QED  BY <1>2, TextsTyped, PTL
=============================================================================

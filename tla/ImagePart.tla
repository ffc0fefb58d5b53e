------------------------------ MODULE ImagePart ------------------------------
(***************************************************************************)
(* ImagePart::png: the admission of one PNG, given as base64 text, into a  *)
(* model request.  The text may be of any size, so at most a witness of    *)
(* its beginning is decoded, as long as it takes to prove an overflow.     *)
(*                                                                         *)
(* A character is "A", of the base64 alphabet with trailing bits that are  *)
(* zero; "B", of the alphabet with others; "="; "!", any other octet; or   *)
(* "w", two octets of UTF-8.  Whether the first bytes are the signature of *)
(* a PNG is a fact of the text.                                            *)
(***************************************************************************)
EXTENDS Naturals, Sequences

Alphabet   == {"A", "B"}
Characters == Alphabet \cup {"=", "!", "w"}

\* Byte by byte: a wide character is two octets, neither of them base64.
Octets(text) ==
    LET octets[i \in 0..Len(text)] ==
            IF i = 0 THEN <<>>
            ELSE octets[i - 1] \o IF text[i] = "w" THEN <<"w", "continued">> ELSE <<text[i]>>
    IN  octets[Len(text)]

Padding(octets) ==
    LET n == Len(octets) IN
    IF n = 0 \/ octets[n] # "=" THEN 0 ELSE IF octets[n - 1] # "=" THEN 1 ELSE 2

\* The engine takes whole groups of four, padded only at the very end and with
\* the bits that fall away all zero.
IsBase64(octets) ==
    LET n == Len(octets)
        padding == Padding(octets)
    IN  /\ n % 4 = 0
        /\ \A i \in 1..(n - padding) : octets[i] \in Alphabet
        /\ padding > 0 => octets[n - padding] = "A"

DecodedLength(octets) == (Len(octets) \div 4) * 3 - Padding(octets)

-----------------------------------------------------------------------------

\* IMAGE_PART_DECODE_WITNESS_BASE64_BYTES
\* (The variant stops one group too early.)
WitnessShort(maxBytes) == (maxBytes \div 3) * 4

Witness(maxBytes) == (maxBytes \div 3 + 1) * 4

\* png: an error, or the number of bytes the part was admitted with.
Refused(why)  == [admitted |-> FALSE, why |-> why, bytes |-> 0]
Part(bytes)   == [admitted |-> TRUE, why |-> "png", bytes |-> bytes]

Png(text, isPng, maxBytes) ==
    LET octets  == Octets(text)
        witness == Witness(maxBytes)
        unread  == Len(octets) > witness
        input   == IF unread THEN SubSeq(octets, 1, witness) ELSE octets
        splits  == unread /\ octets[witness + 1] = "continued"
    IN  IF splits \/ ~IsBase64(input) THEN Refused("not base64")
        ELSE IF DecodedLength(input) > maxBytes THEN Refused("too large")
        ELSE IF unread THEN Refused("not base64")
        ELSE IF ~isPng THEN Refused("not png")
        ELSE Part(DecodedLength(input))

-----------------------------------------------------------------------------
(* Reference: the text is read from its beginning, group by group *)

IsPrefixBase64(octets, n) == IsBase64(SubSeq(octets, 1, n))

\* The text is admitted as a whole or not at all.  It is too large when some
\* beginning of it, all of it base64, already is; then the rest may be anything.
PngReference(text, isPng, maxBytes) ==
    LET octets == Octets(text)
        overflows == \E n \in 1..Len(octets) :
            IsPrefixBase64(octets, n) /\ DecodedLength(SubSeq(octets, 1, n)) > maxBytes
    IN  IF overflows THEN Refused("too large")
        ELSE IF ~IsBase64(octets) THEN Refused("not base64")
        ELSE IF ~isPng THEN Refused("not png")
        ELSE Part(DecodedLength(octets))
=============================================================================

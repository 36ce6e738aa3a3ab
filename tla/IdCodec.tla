------------------------------ MODULE IdCodec -------------------------------
(***************************************************************************)
(* Identifiers as byte strings.  appendVarint concatenates encodings.      *)
(* Nothing in the program takes an identifier apart again: ReadVarints is  *)
(* the reader that the properties use, which calls vintDecode for one      *)
(* integer after the other.                                                *)
(***************************************************************************)
EXTENDS Varint

\* appendVarint, word after word, upon nothing.  Its integers are 32 bits wide, those of
\* vintEncode, which it calls, are 64.
Identifier(words) ==
    LET ret[n \in 0 .. Len(words)] == IF n = 0 THEN <<>> ELSE ret[n - 1] \o VintEncode(words[n])
    IN  ret[Len(words)]

\* One turn of the reader: the integer in front of the bytes not yet read goes behind those
\* read.
ReadVarint(s) ==
    LET d == VintDecode(s.rest)
    IN  IF s.rest = <<>> THEN s
        ELSE [rest |-> SubSeq(s.rest, d.len + 1, Len(s.rest)), vals |-> Append(s.vals, d.val)]

\* As there are no more integers than bytes, one turn for each byte is enough.
ReadVarints(bytes) ==
    LET after[n \in 0 .. Len(bytes)] ==
            IF n = 0 THEN [rest |-> bytes, vals |-> <<>>] ELSE ReadVarint(after[n - 1])
    IN  after[Len(bytes)].vals

\* The order of byte strings, in which a key-value store keeps the records.
Before(s, t) ==
    \E n \in 0 .. Len(s) :
        /\ n < Len(t)
        /\ \A i \in 1 .. n : s[i] = t[i]
        /\ n = Len(s) \/ s[n + 1] < t[n + 1]
=============================================================================

------------------------------ MODULE DealWire -------------------------------
(***************************************************************************)
(* How the payloads of the distributed deal are framed (wire,              *)
(* deal/src/distributed.rs).  A buffer is a sequence of words; an u32 is   *)
(* one word, and a group element or a proof is the sequence of words it is *)
(* written as, behind its length.                                          *)
(***************************************************************************)
EXTENDS Integers, SequencesExt

Field(element) == <<Len(element)>> \o element

Fields(elements) == FlattenSeq([i \in DOMAIN elements |-> Field(elements[i])])

\* serialize of KeyAnnouncement, ShuffleMessage and RevealMessage.
KeyBytes(seat, public, proof, info) == <<seat>> \o Fields(<<public, proof, info>>)
ShuffleBytes(seat, deck, proof) ==
  <<seat, Len(deck)>> \o Fields(deck) \o Field(proof)
RevealBytes(seat, position, token, proof, public) ==
  <<seat, position>> \o Fields(<<token, proof, public>>)

-----------------------------------------------------------------------------
(* Reading.  A position is how much of the buffer is behind it. *)

Cut == -1     \* Err(UnknownCard): the buffer ends too soon

\* read_u32: the position behind a word.
WordEnd(buf, at) == IF at = Cut \/ at + 1 > Len(buf) THEN Cut ELSE at + 1

\* Mutant of FieldEnd: a field that is cut short is what is left of it.
FieldEndClipped(buf, at) ==
  LET start == WordEnd(buf, at)
  IN IF start = Cut THEN Cut
     ELSE IF start + buf[start] > Len(buf) THEN Len(buf) ELSE start + buf[start]

\* read_field: the position behind a field, if all of it is there.
FieldEnd(buf, at) ==
  LET start == WordEnd(buf, at)
  IN IF start = Cut THEN Cut
     ELSE IF start + buf[start] > Len(buf) THEN Cut ELSE start + buf[start]

\* The words of the header and then the fields, as they were written; <<>> when
\* a read fails.  Nothing asks whether the last field ends the buffer.
ReadAll(buf, header, count) ==
  LET end[i \in 0 .. count] ==
        IF i = 0 THEN header
        ELSE CHOOSE behind \in {FieldEnd(buf, at) : at \in {end[i - 1]}} : TRUE
      field(i) == SubSeq(buf, WordEnd(buf, end[i - 1]) + 1, end[i])
  IN IF header = Cut \/ end[count] = Cut THEN <<>>
     ELSE SubSeq(buf, 1, header) \o [i \in 1 .. count |-> field(i)]

\* deserialize of the three payloads.
ReadKey(buf) == ReadAll(buf, WordEnd(buf, 0), 3)
ReadReveal(buf) == ReadAll(buf, WordEnd(buf, WordEnd(buf, 0)), 3)
ReadShuffle(buf) ==
  LET header == WordEnd(buf, WordEnd(buf, 0))
  IN IF header = Cut THEN <<>> ELSE ReadAll(buf, header, buf[header] + 1)
=============================================================================

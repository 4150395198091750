-------------------------------- MODULE Wire --------------------------------
(***************************************************************************)
(* RHP's frames on a TCP stream (rhp/wire.ts): a body behind a length of   *)
(* two bytes, the high one first, and the deframer that finds the bodies   *)
(* again however TCP has cut the stream.  The bytes of a body are tokens   *)
(* of the module that uses this one.                                       *)
(***************************************************************************)
EXTENDS Integers, Sequences

CONSTANT Base   \* values a byte of the length can have (256)

ASSUME BaseAssumption == Base \in Nat \ {0, 1}

Size(n) == [kind |-> "size", n |-> n]
Sizes == {Size(n) : n \in 0..(Base - 1)}

\* The longest body the two bytes can announce; a longer one is refused.
MaxPayload == Base * Base - 1

Framed(body) == <<Size(Len(body) \div Base), Size(Len(body) % Base)>> \o body

Length(b) == Base * b[1].n + b[2].n

Complete(b) == Len(b) >= 2 /\ Len(b) - 2 >= Length(b)

\* A turn of the loop of push() takes a complete body off the front.
Body(b) == SubSeq(b, 3, Length(b) + 2)
Rest(b) == SubSeq(b, Length(b) + 3, Len(b))
=============================================================================

------------------------------- MODULE Rfc6455 --------------------------------
(***************************************************************************)
(* The frames of RFC 6455 as a peer puts them on the wire: the reference   *)
(* the parser is compared with.  Payloads are sequences of bytes.  Masking *)
(* keys are all zero, a key the RFC allows and whose masking changes       *)
(* nothing.                                                                *)
(***************************************************************************)
LOCAL INSTANCE Integers
LOCAL INSTANCE Sequences

\* The three length formats.
LengthField(form, n) ==
  CASE form = 7  -> <<n>>
    [] form = 16 -> <<126, n \div 256, n % 256>>
    [] form = 64 -> <<127, 0, 0, 0, 0, 0, 0, n \div 256, n % 256>>

\* The second byte of a masked frame carries the mask bit.
WithMaskBit(field) == [field EXCEPT ![1] = @ + 128]

FrameBytes(fin, opcode, form, masked, payload) ==
  LET field == LengthField(form, Len(payload))
  IN <<(IF fin THEN 128 ELSE 0) + opcode>>
     \o (IF masked THEN WithMaskBit(field) \o <<0, 0, 0, 0>> ELSE field)
     \o payload
===============================================================================

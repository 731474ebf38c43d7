---------------------------- MODULE LoraChecksum ----------------------------
(***************************************************************************)
(* The checksum of a LoRa frame (lora_protocol.cpp): the exclusive or of   *)
(* the bytes of its payload.                                               *)
(***************************************************************************)
EXTENDS Naturals, Sequences
LOCAL INSTANCE Bitwise
LOCAL INSTANCE SequencesExt

loraXorChecksum(p) == FoldLeft(LAMBDA sum, b : sum ^^ b, 0, p)

=============================================================================

----------------------------- MODULE LoraPacket -----------------------------
(***************************************************************************)
(* The frames charger and mower exchange over LoRa (lora_protocol.cpp):    *)
(*                                                                         *)
(*     start start | addrHi addrLo | length + 1 | payload | sum | end end  *)
(*                                                                         *)
(* A module of pure operators.  The checksum is a parameter: what is said  *)
(* of the frames holds for every one.  ChargerLora abstracts a frame to    *)
(* its payload, which these operators justify: a frame that is read alone, *)
(* or after noise without start bytes, gives back the payload it was built *)
(* from, and nothing else is ever taken for one.                           *)
(***************************************************************************)
EXTENDS Naturals, Sequences

CONSTANT Checksum(_)    \* of a payload

Byte == 0..255

StartByte == 2
EndByte == 3
MaxPayload == 128

\* The frame of payload p, or nothing when it is too long.
loraBuildPacket(addrHi, addrLo, p) ==
    IF Len(p) > MaxPayload
    THEN <<>>
    ELSE <<StartByte, StartByte, addrHi, addrLo, Len(p) + 1>> \o p
         \o <<Checksum(p), EndByte, EndByte>>

\* The places where two start markers stand.
Starts(raw) ==
    {i \in 1..(Len(raw) - 1) : raw[i] = StartByte /\ raw[i + 1] = StartByte}

\* Only the first of them is looked at.
IsFirstStart(raw, s) == s \in Starts(raw) /\ \A i \in Starts(raw) : s <= i

\* The bytes after the header at s that the length field speaks of.
Payload(raw, s) == SubSeq(raw, s + 5, s + 3 + raw[s + 4])

\* A frame of n bytes of payload stands at s: it is complete, ends with the two end
\* markers, and its checksum is that of the payload.
FrameAt(raw, s, n) ==
    /\ n + s + 7 <= Len(raw)
    /\ raw[n + s + 6] = EndByte
    /\ raw[n + s + 7] = EndByte
    /\ raw[n + s + 5] = Checksum(Payload(raw, s))

\* The payload of the first frame in raw, or nothing.
loraParsePacket(raw) ==
    IF /\ Len(raw) >= 8
       /\ \E s \in Starts(raw) :
            /\ IsFirstStart(raw, s)
            /\ s + 4 <= Len(raw)
            /\ raw[s + 4] \in 2..(MaxPayload + 1)
            /\ FrameAt(raw, s, raw[s + 4] - 1)
    THEN Payload(raw, CHOOSE s \in Starts(raw) : IsFirstStart(raw, s))
    ELSE <<>>

=============================================================================

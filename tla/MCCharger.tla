------------------------------ MODULE MCCharger ------------------------------
(***************************************************************************)
(* Instances of Charger for TLC.                                           *)
(***************************************************************************)
EXTENDS Charger, TLC

Lora(channel) == [addr |-> 0, channel |-> channel]

Zero == Lora(0)

\* The band the storage holds.
Band == [hc |-> 3, lc |-> 1]

\* A charger that was provisioned, on channel 2 of the band.
Provisioned == {[wifi |-> TRUE, mqtt |-> TRUE, lora |-> Lora(2), band |-> Band]}

\* A new one; and two whose WiFi settings are still missing, on a channel inside the
\* band, and on one above it.
Unprovisioned ==
    {[wifi |-> FALSE, mqtt |-> FALSE, lora |-> None, band |-> None]} \cup
    {[wifi |-> FALSE, mqtt |-> FALSE, lora |-> Lora(c), band |-> Band] : c \in {2, 4}}

AnyStorage == Provisioned \cup Unprovisioned

\* The app asks for another address, a channel and a band.
AppRequests == {[lora |-> [addr |-> 1, channel |-> 3], band |-> [hc |-> 4, lc |-> 3]]}

\* What the relay of orders is fed.
RelayInputs ==
    [order |-> 2, ota |-> 1, other |-> 1, offline |-> 1,
     gnss |-> 1, hall |-> 1, power |-> 1, cut |-> 1]

\* What provisioning is fed.
ProvisionInputs ==
    [set_wifi |-> 1, set_mqtt |-> 1, set_rtk |-> 1, set_lora |-> 1,
     clear |-> 1, commit |-> 1, link |-> 1, time |-> 0]

\* Orders alone; the LoRa settings alone; outages alone.
OrderInputs == [order |-> 2]
LoraInputs == [set_lora |-> 1]
OutageInputs == [link |-> 1, time |-> 0]

-----------------------------------------------------------------------------
(* The sort of the channel scan chooses the quietest channel *)

Sort == INSTANCE ChannelSort

\* Every scan of up to 5 channels with three readings, ties among them.
ASSUME SortFindsQuietest ==
    \A n \in 1..5 : \A rssi \in [1..n -> 4..6] :
        LET arr == [i \in 1..n |-> [rssi |-> rssi[i], channel |-> i]]
        IN  Sort!bubbleSortBestChannel(arr) = Quietest(arr)

-----------------------------------------------------------------------------
(* The frames *)

Sum == INSTANCE LoraChecksum
Frame == INSTANCE LoraPacket WITH Checksum <- Sum!loraXorChecksum

\* Payloads of up to three bytes, the markers among them.
SmallPayloads == UNION {[1..n -> {2, 3, 52}] : n \in 1..3}

\* The heartbeat's frame is the one test_lora_protocol.cpp expects.
ASSUME HeartbeatFrame ==
    Frame!loraBuildPacket(0, 3, <<52, 1>>) = <<2, 2, 0, 3, 3, 52, 1, 53, 3, 3>>

\* The checksum is a byte, and tells one changed byte.
ASSUME SumTellsOneByte ==
    \A p \in SmallPayloads :
        /\ Sum!loraXorChecksum(p) \in Frame!Byte
        /\ \A i \in DOMAIN p : \A b \in {0, 2, 3, 52, 255} \ {p[i]} :
              Sum!loraXorChecksum([p EXCEPT ![i] = b]) # Sum!loraXorChecksum(p)

\* A frame is read back after noise without start bytes, before another frame, and cut
\* short it is nothing.
ASSUME FramesAreReadBack ==
    \A p \in SmallPayloads, hi \in {0, 2}, noise \in {<<>>, <<3>>, <<2, 0>>} :
        LET f == Frame!loraBuildPacket(hi, 3, p)
        IN  /\ Frame!loraParsePacket(noise \o f \o f) = p
            /\ Frame!loraParsePacket(noise \o SubSeq(f, 1, Len(f) - 1)) = <<>>

\* The condition on the noise is needed: half a start marker before it loses a frame.
ASSUME HalfAMarkerLosesAFrame ==
    Frame!loraParsePacket(<<2>> \o Frame!loraBuildPacket(0, 3, <<52, 1>>)) = <<>>

-----------------------------------------------------------------------------
(* What comments in the code say of it, and the instances refute *)

\* relayAndWait "Returns 0 on success, 1 on error/timeout.": an order answered with
\* success is the last the mower carried out.
AnsweredOkMeansRun == [][credited' # credited => lastRun = accepted]_vars

\* set_lora_info "Save to NVS after scan": the settings asked for are not stored while
\* the scan for a channel waits or runs.
SettingsSavedAfterScan ==
    [][StoreLoraInfo => ~scanning /\ \A i \in DOMAIN loraQueue : loraQueue[i].id # "scan"]_vars

\* set_lora_info "Save to NVS after scan": with the answer sent and the scan over, the
\* address asked for is the stored one.
AskedAddressIsStored ==
    asked # None /\ blePc = "idle" /\ loraPc = "receive" /\ ~scanning /\ loraQueue = <<>>
    => nvs.lora.addr = asked.lora.addr

\* "WiFi lost for 60s -> restart BLE provisioning": the loop starts BLE only when the
\* link has been away for that long.
BleWaitsForOutage ==
    [][LoopLink /\ bleActive' => bleActive \/ outage = LostLimit]_vars

=============================================================================

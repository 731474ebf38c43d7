-------------------------- MODULE LoraPacket_proofs --------------------------
(***************************************************************************)
(* What the frames of LoraPacket guarantee, for every checksum, address,   *)
(* payload and noise.                                                      *)
(***************************************************************************)
EXTENDS LoraPacket, SequenceTheorems, TLAPS

\* Two first start markers are the same one.
LEMMA FirstStartUnique ==
    ASSUME NEW raw \in Seq(Byte), NEW s, NEW t,
           IsFirstStart(raw, s), IsFirstStart(raw, t)
    PROVE  s = t
  BY DEF IsFirstStart, Starts

\* The length field of a payload, and back.
LEMMA LengthField ==
    /\ \A n \in Nat : n <= MaxPayload => n + 1 \in Byte
    /\ \A n \in Nat : n >= 1 /\ n <= MaxPayload => n + 1 \in 2..(MaxPayload + 1)
    /\ \A n \in 2..(MaxPayload + 1) : n - 1 \in 1..MaxPayload /\ n = (n - 1) + 1
  BY DEF Byte, MaxPayload

\* The bytes of a frame, one by one.
LEMMA FrameBytes ==
    ASSUME NEW hi \in Byte, NEW lo \in Byte, NEW p \in Seq(Byte),
           Len(p) <= MaxPayload, Checksum(p) \in Byte
    PROVE  LET f == loraBuildPacket(hi, lo, p) IN
           /\ f \in Seq(Byte)
           /\ Len(f) = Len(p) + 8
           /\ f[1] = StartByte /\ f[2] = StartByte
           /\ f[3] = hi /\ f[4] = lo /\ f[5] = Len(p) + 1
           /\ \A i \in 1..Len(p) : f[i + 5] = p[i]
           /\ f[Len(p) + 6] = Checksum(p)
           /\ f[Len(p) + 7] = EndByte /\ f[Len(p) + 8] = EndByte
  <1> DEFINE h == <<StartByte, StartByte, hi, lo, Len(p) + 1>>
             e == <<Checksum(p), EndByte, EndByte>>
  <1>3. Len(p) \in Nat
    BY LenProperties
  <1>1. /\ h \in Seq(Byte) /\ Len(h) = 5
        /\ h[1] = StartByte /\ h[2] = StartByte /\ h[3] = hi /\ h[4] = lo
        /\ h[5] = Len(p) + 1
    <2>2. Len(p) + 1 \in Byte
      BY <1>3, LengthField
    <2>3. StartByte \in Byte
      BY DEF Byte, StartByte
    <2> QED BY <2>2, <2>3
  <1>2. e \in Seq(Byte) /\ Len(e) = 3 /\ e[1] = Checksum(p) /\ e[2] = EndByte /\ e[3] = EndByte
    BY DEF Byte, EndByte
  <1> HIDE DEF h, e
  <1>4. /\ h \o p \in Seq(Byte)
        /\ Len(h \o p) = 5 + Len(p)
        /\ \A i \in 1..(5 + Len(p)) : (h \o p)[i] = IF i <= 5 THEN h[i] ELSE p[i - 5]
    <2>1. /\ h \o p \in Seq(Byte)
          /\ Len(h \o p) = Len(h) + Len(p)
          /\ \A i \in 1..(Len(h) + Len(p)) :
               (h \o p)[i] = IF i <= Len(h) THEN h[i] ELSE p[i - Len(h)]
      BY <1>1, ConcatProperties
    <2> QED BY <1>1, <1>3, <2>1
  <1> DEFINE hp == h \o p
  <1> HIDE DEF hp
  <1>5. /\ hp \in Seq(Byte)
        /\ Len(hp) = 5 + Len(p)
        /\ \A i \in 1..(5 + Len(p)) : hp[i] = IF i <= 5 THEN h[i] ELSE p[i - 5]
    BY <1>4 DEF hp
  <1>6. /\ hp \o e \in Seq(Byte)
        /\ Len(hp \o e) = 8 + Len(p)
        /\ \A i \in 1..(8 + Len(p)) :
             (hp \o e)[i] = IF i <= 5 + Len(p) THEN hp[i] ELSE e[i - (5 + Len(p))]
    <2>1. /\ hp \o e \in Seq(Byte)
          /\ Len(hp \o e) = Len(hp) + Len(e)
          /\ \A i \in 1..(Len(hp) + Len(e)) :
               (hp \o e)[i] = IF i <= Len(hp) THEN hp[i] ELSE e[i - Len(hp)]
      BY <1>2, <1>5, ConcatProperties
    <2>2. Len(hp) + Len(e) = 8 + Len(p)
      BY <1>2, <1>3, <1>5
    <2> QED BY <1>5, <2>1, <2>2
  <1> DEFINE f == hp \o e
  <1>7. loraBuildPacket(hi, lo, p) = f
    BY <1>3 DEF loraBuildPacket, hp, h, e, MaxPayload
  <1> HIDE DEF f
  <1>8. /\ f \in Seq(Byte)
        /\ Len(f) = 8 + Len(p)
        /\ \A i \in 1..(8 + Len(p)) :
             f[i] = IF i <= 5 + Len(p) THEN hp[i] ELSE e[i - (5 + Len(p))]
    BY <1>6 DEF f
  <1>9. \A i \in 1..5 : f[i] = h[i]
    BY <1>3, <1>5, <1>8
  <1>10. \A i \in 1..Len(p) : f[i + 5] = p[i]
    BY <1>3, <1>5, <1>8
  <1>11. \A i \in 1..3 : f[i + 5 + Len(p)] = e[i]
    BY <1>3, <1>8
  <1>12. /\ f[Len(p) + 6] = e[1] /\ f[Len(p) + 7] = e[2] /\ f[Len(p) + 8] = e[3]
    BY <1>3, <1>8
  <1> QED BY <1>1, <1>2, <1>3, <1>7, <1>8, <1>9, <1>10, <1>12

\* Noise in front shifts a frame; it moves the first start marker no further.
LEMMA FirstStartAfterNoise ==
    ASSUME NEW noise \in Seq(Byte), NEW f \in Seq(Byte),
           Starts(Append(noise, StartByte)) = {},
           Len(f) >= 2, f[1] = StartByte, f[2] = StartByte
    PROVE  IsFirstStart(noise \o f, Len(noise) + 1)
  <1> DEFINE raw == noise \o f
             N == Len(noise)
  <1>1. /\ raw \in Seq(Byte)
        /\ Len(raw) = N + Len(f)
        /\ \A i \in 1..(N + Len(f)) : raw[i] = IF i <= N THEN noise[i] ELSE f[i - N]
    BY ConcatProperties
  <1>2. N \in Nat /\ Len(f) \in Nat
    BY LenProperties
  <1>3. /\ Append(noise, StartByte) \in Seq(Byte)
        /\ Len(Append(noise, StartByte)) = N + 1
        /\ \A i \in 1..N : Append(noise, StartByte)[i] = noise[i]
        /\ Append(noise, StartByte)[N + 1] = StartByte
    BY AppendProperties DEF Byte, StartByte
  <1> HIDE DEF raw, N
  <1>4. raw[N + 1] = StartByte /\ raw[N + 2] = StartByte
    BY <1>1, <1>2
  <1>5. N + 1 \in Starts(raw)
    BY <1>1, <1>2, <1>4 DEF Starts
  <1>6. ASSUME NEW i \in Starts(raw), i < N + 1
        PROVE  FALSE
    <2>1. i \in 1..N /\ raw[i] = StartByte /\ raw[i + 1] = StartByte
      BY <1>1, <1>2, <1>6 DEF Starts
    <2>2. Append(noise, StartByte)[i] = StartByte
      BY <1>1, <1>2, <1>3, <2>1
    <2>3. Append(noise, StartByte)[i + 1] = StartByte
      BY <1>1, <1>2, <1>3, <2>1
    <2>4. i \in Starts(Append(noise, StartByte))
      BY <1>2, <1>3, <2>1, <2>2, <2>3 DEF Starts
    <2> QED BY <2>4
  <1>7. \A i \in Starts(raw) : N + 1 <= i
    BY <1>1, <1>2, <1>6 DEF Starts
  <1> QED BY <1>5, <1>7 DEF IsFirstStart, raw, N

\* A frame the charger builds is read back as the payload it was built from, whatever
\* follows it, when what precedes it holds no start marker and does not end with half
\* of one.
THEOREM ParseInvertsBuild ==
    ASSUME NEW hi \in Byte, NEW lo \in Byte, NEW p \in Seq(Byte),
           Checksum(p) \in Byte,
           1 <= Len(p), Len(p) <= MaxPayload,
           NEW noise \in Seq(Byte), Starts(Append(noise, StartByte)) = {},
           NEW rest \in Seq(Byte)
    PROVE  loraParsePacket(noise \o (loraBuildPacket(hi, lo, p) \o rest)) = p
  <1> DEFINE f == loraBuildPacket(hi, lo, p)
             fr == f \o rest
             raw == noise \o fr
             N == Len(noise)
             L == Len(p)
  <1>1. N \in Nat /\ L \in Nat /\ Len(rest) \in Nat
    BY LenProperties
  <1>2. /\ f \in Seq(Byte)
        /\ Len(f) = L + 8
        /\ f[1] = StartByte /\ f[2] = StartByte /\ f[5] = L + 1
        /\ \A i \in 1..L : f[i + 5] = p[i]
        /\ f[L + 6] = Checksum(p)
        /\ f[L + 7] = EndByte /\ f[L + 8] = EndByte
    BY FrameBytes
  <1> HIDE DEF f
  <1>3. /\ fr \in Seq(Byte)
        /\ Len(fr) = Len(f) + Len(rest)
        /\ \A i \in 1..(Len(f) + Len(rest)) : fr[i] = IF i <= Len(f) THEN f[i] ELSE rest[i - Len(f)]
    BY <1>2, ConcatProperties
  <1> HIDE DEF fr
  <1>4. \A i \in 1..(L + 8) : fr[i] = f[i]
    BY <1>1, <1>2, <1>3
  <1>5. /\ raw \in Seq(Byte)
        /\ Len(raw) = N + Len(fr)
        /\ \A i \in 1..(N + Len(fr)) : raw[i] = IF i <= N THEN noise[i] ELSE fr[i - N]
    BY <1>3, ConcatProperties
  <1>6. IsFirstStart(raw, N + 1)
    <2>1. fr[1] = StartByte /\ fr[2] = StartByte /\ Len(fr) >= 2
      BY <1>1, <1>2, <1>3, <1>4
    <2> QED BY <1>3, <2>1, FirstStartAfterNoise
  <1> HIDE DEF raw, N, L
  <1>7. ASSUME NEW i \in 1..(L + 8)
        PROVE  raw[N + i] = f[i]
    <2>1. /\ N + i \in 1..(N + Len(fr))
          /\ ~ (N + i <= N)
          /\ (N + i) - N = i
      BY <1>1, <1>2, <1>3
    <2> QED BY <1>4, <1>5, <2>1
  <1>8. /\ raw[N + 5] = L + 1
        /\ \A i \in 1..L : raw[N + 5 + i] = p[i]
        /\ raw[N + L + 6] = Checksum(p)
        /\ raw[N + L + 7] = EndByte
        /\ raw[N + L + 8] = EndByte
    <2>1. ASSUME NEW i \in 1..L
          PROVE  raw[N + 5 + i] = p[i]
      <3>1. i + 5 \in 1..(L + 8) /\ N + 5 + i = N + (i + 5)
        BY <1>1
      <3> QED BY <1>2, <1>7, <3>1
    <2> QED BY <1>1, <1>2, <1>7, <2>1
  <1>9. Len(raw) >= N + L + 8
    BY <1>1, <1>2, <1>3, <1>5
  <1>10. Payload(raw, N + 1) = p
    <2>1. Payload(raw, N + 1) = SubSeq(raw, N + 6, N + 5 + L)
      <3>1. (N + 1) + 4 = N + 5 /\ (N + 1) + 5 = N + 6
        BY <1>1
      <3>2. (N + 1) + 3 + (L + 1) = N + 5 + L
        BY <1>1
      <3> QED BY <1>8, <3>1, <3>2 DEF Payload
    <2>2. \A i \in (N + 6)..(N + 5 + L) : raw[i] \in Byte
      BY <1>1, <1>5, <1>9, ElementOfSeq
    <2>3. /\ SubSeq(raw, N + 6, N + 5 + L) \in Seq(Byte)
          /\ Len(SubSeq(raw, N + 6, N + 5 + L)) =
               IF N + 6 <= N + 5 + L THEN (N + 5 + L) - (N + 6) + 1 ELSE 0
          /\ \A i \in 1..((N + 5 + L) - (N + 6) + 1) :
               SubSeq(raw, N + 6, N + 5 + L)[i] = raw[(N + 6) + i - 1]
      BY <1>1, <2>2, SubSeqProperties
    <2>4. Len(SubSeq(raw, N + 6, N + 5 + L)) = L
      BY <1>1, <2>3 DEF L
    <2>5. \A i \in 1..L : SubSeq(raw, N + 6, N + 5 + L)[i] = p[i]
      BY <1>1, <1>8, <2>3
    <2> QED BY <2>1, <2>3, <2>4, <2>5, SeqEqual DEF L
  <1>11. FrameAt(raw, N + 1, raw[N + 5] - 1)
    BY <1>1, <1>8, <1>9, <1>10 DEF FrameAt
  <1>12. (CHOOSE s \in Starts(raw) : IsFirstStart(raw, s)) = N + 1
    BY <1>5, <1>6, FirstStartUnique DEF IsFirstStart
  <1>13. /\ Len(raw) >= 8
         /\ N + 1 \in Starts(raw)
         /\ (N + 1) + 4 <= Len(raw)
         /\ raw[(N + 1) + 4] \in 2..(MaxPayload + 1)
    <2>2. L + 1 \in 2..(MaxPayload + 1)
      BY <1>1, LengthField DEF L
    <2>3. (N + 1) + 4 = N + 5
      BY <1>1
    <2> QED BY <1>1, <1>6, <1>8, <1>9, <2>2, <2>3 DEF IsFirstStart
  <1>14. loraParsePacket(raw) = Payload(raw, N + 1)
    <2>1. (N + 1) + 4 = N + 5
      BY <1>1
    <2> QED BY <1>6, <1>11, <1>12, <1>13, <2>1 DEF loraParsePacket
  <1> QED BY <1>10, <1>14 DEF raw, fr, f

\* Whatever the receiver takes for a payload stands in its buffer as the frame that the
\* sender builds from it, for some address: noise, a cut frame and a frame with a
\* wrong sum are never taken for one.
THEOREM ParseIsSound ==
    ASSUME NEW raw \in Seq(Byte), loraParsePacket(raw) # <<>>,
           \A q \in Seq(Byte) : Checksum(q) \in Byte
    PROVE  \E s \in 1..Len(raw), hi \in Byte, lo \in Byte :
              LET p == loraParsePacket(raw) IN
              /\ IsFirstStart(raw, s)
              /\ SubSeq(raw, s, s + Len(p) + 7) = loraBuildPacket(hi, lo, p)
  <1> DEFINE p == loraParsePacket(raw)
  <1>1. PICK s \in Starts(raw) :
           /\ IsFirstStart(raw, s)
           /\ s + 4 <= Len(raw)
           /\ raw[s + 4] \in 2..(MaxPayload + 1)
           /\ FrameAt(raw, s, raw[s + 4] - 1)
    BY DEF loraParsePacket
  <1>2. p = Payload(raw, s)
    <2>1. (CHOOSE t \in Starts(raw) : IsFirstStart(raw, t)) = s
      BY <1>1, FirstStartUnique
    <2>2. p = Payload(raw, CHOOSE t \in Starts(raw) : IsFirstStart(raw, t))
      BY DEF loraParsePacket
    <2> QED BY <2>1, <2>2
  <1> DEFINE L == raw[s + 4] - 1
  <1>3. /\ s \in 1..(Len(raw) - 1) /\ Len(raw) \in Nat
        /\ raw[s] = StartByte /\ raw[s + 1] = StartByte
    BY <1>1, LenProperties DEF Starts
  <1>4. L \in 1..MaxPayload /\ raw[s + 4] = L + 1
    BY <1>1, LengthField
  <1> HIDE DEF L
  <1>5. /\ L + s + 7 <= Len(raw)
        /\ raw[L + s + 5] = Checksum(Payload(raw, s))
        /\ raw[L + s + 6] = EndByte
        /\ raw[L + s + 7] = EndByte
    BY <1>1 DEF FrameAt, L
  <1>6. /\ p \in Seq(Byte)
        /\ Len(p) = L
        /\ \A i \in 1..L : p[i] = raw[s + 4 + i]
    <2>1. p = SubSeq(raw, s + 5, s + 4 + L)
      <3>1. s + 3 + raw[s + 4] = s + 4 + L
        BY <1>3, <1>4 DEF MaxPayload
      <3> QED BY <1>2, <3>1 DEF Payload
    <2>2. \A i \in (s + 5)..(s + 4 + L) : raw[i] \in Byte
      BY <1>3, <1>4, <1>5, ElementOfSeq DEF MaxPayload
    <2>3. /\ SubSeq(raw, s + 5, s + 4 + L) \in Seq(Byte)
          /\ Len(SubSeq(raw, s + 5, s + 4 + L)) =
               IF s + 5 <= s + 4 + L THEN (s + 4 + L) - (s + 5) + 1 ELSE 0
          /\ \A i \in 1..((s + 4 + L) - (s + 5) + 1) :
               SubSeq(raw, s + 5, s + 4 + L)[i] = raw[(s + 5) + i - 1]
      BY <1>3, <1>4, <2>2, SubSeqProperties DEF MaxPayload
    <2> HIDE DEF p
    <2>4. (s + 4 + L) - (s + 5) + 1 = L /\ s + 5 <= s + 4 + L
      BY <1>3, <1>4 DEF MaxPayload
    <2>5. \A i \in 1..L : (s + 5) + i - 1 = s + 4 + i
      BY <1>3, <1>4 DEF MaxPayload
    <2> QED BY <2>1, <2>3, <2>4, <2>5
  <1> HIDE DEF p
  <1>7. PICK hi \in Byte, lo \in Byte : raw[s + 2] = hi /\ raw[s + 3] = lo
    BY <1>1, <1>3, ElementOfSeq
  <1> DEFINE f == loraBuildPacket(hi, lo, p)
             g == SubSeq(raw, s, s + L + 7)
  <1>8. /\ f \in Seq(Byte)
        /\ Len(f) = L + 8
        /\ f[1] = StartByte /\ f[2] = StartByte
        /\ f[3] = hi /\ f[4] = lo /\ f[5] = L + 1
        /\ \A i \in 1..L : f[i + 5] = p[i]
        /\ f[L + 6] = Checksum(p)
        /\ f[L + 7] = EndByte /\ f[L + 8] = EndByte
    <2>1. p \in Seq(Byte) /\ Len(p) <= MaxPayload /\ Checksum(p) \in Byte
      BY <1>4, <1>6 DEF MaxPayload
    <2>2. /\ f \in Seq(Byte)
          /\ Len(f) = Len(p) + 8
          /\ f[1] = StartByte /\ f[2] = StartByte
          /\ f[3] = hi /\ f[4] = lo /\ f[5] = Len(p) + 1
          /\ \A i \in 1..Len(p) : f[i + 5] = p[i]
          /\ f[Len(p) + 6] = Checksum(p)
          /\ f[Len(p) + 7] = EndByte /\ f[Len(p) + 8] = EndByte
      BY <2>1, FrameBytes
    <2> HIDE DEF f
    <2> QED BY <1>6, <2>2
  <1> HIDE DEF f
  <1>9. /\ g \in Seq(Byte)
        /\ Len(g) = L + 8
        /\ \A i \in 1..(L + 8) : g[i] = raw[s + i - 1]
    <2>1. \A i \in s..(s + L + 7) : raw[i] \in Byte
      BY <1>3, <1>4, <1>5, ElementOfSeq DEF MaxPayload
    <2>2. /\ g \in Seq(Byte)
          /\ Len(g) = IF s <= s + L + 7 THEN (s + L + 7) - s + 1 ELSE 0
          /\ \A i \in 1..((s + L + 7) - s + 1) : g[i] = raw[s + i - 1]
      BY <1>3, <1>4, <2>1, SubSeqProperties DEF MaxPayload
    <2>3. s <= s + L + 7 /\ (s + L + 7) - s + 1 = L + 8
      BY <1>3, <1>4 DEF MaxPayload
    <2> QED BY <2>2, <2>3
  <1> HIDE DEF g
  <1>10. ASSUME NEW i \in 1..(L + 8)
         PROVE  g[i] = f[i]
    <2>1. i \in 1..5 \/ i \in 6..(L + 5) \/ i \in (L + 6)..(L + 8)
      BY <1>4 DEF MaxPayload
    <2>2. CASE i \in 1..5
      <3>1. i = 1 \/ i = 2 \/ i = 3 \/ i = 4 \/ i = 5
        BY <2>2
      <3>2. /\ s + 1 - 1 = s /\ s + 2 - 1 = s + 1 /\ s + 3 - 1 = s + 2
            /\ s + 4 - 1 = s + 3 /\ s + 5 - 1 = s + 4
        BY <1>3
      <3> QED BY <1>3, <1>4, <1>7, <1>8, <1>9, <3>1, <3>2
    <2>3. CASE i \in 6..(L + 5)
      <3>1. i - 5 \in 1..L /\ s + 4 + (i - 5) = s + i - 1 /\ (i - 5) + 5 = i
        BY <1>3, <1>4, <2>3 DEF MaxPayload
      <3> QED BY <1>6, <1>8, <1>9, <3>1
    <2>4. CASE i \in (L + 6)..(L + 8)
      <3>1. i = L + 6 \/ i = L + 7 \/ i = L + 8
        BY <1>4, <2>4 DEF MaxPayload
      <3>2. /\ s + (L + 6) - 1 = L + s + 5
            /\ s + (L + 7) - 1 = L + s + 6
            /\ s + (L + 8) - 1 = L + s + 7
        BY <1>3, <1>4 DEF MaxPayload
      <3> QED BY <1>2, <1>5, <1>8, <1>9, <3>1, <3>2
    <2> QED BY <2>1, <2>2, <2>3, <2>4
  <1>11. g = f
    BY <1>8, <1>9, <1>10, SeqEqual
  <1>12. s \in 1..Len(raw)
    BY <1>3
  <1>13. SubSeq(raw, s, s + Len(p) + 7) = loraBuildPacket(hi, lo, p)
    BY <1>6, <1>11 DEF f, g
  <1> QED BY <1>1, <1>7, <1>12, <1>13 DEF p

=============================================================================

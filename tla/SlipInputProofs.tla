-------------------------- MODULE SlipInputProofs --------------------------
(***************************************************************************)
(* Theorems about SlipInput for any size of the buffer and any bounds:     *)
(* what the receiver makes of a damaged, lost or interrupted frame.  The   *)
(* invariant relates the buffer of the code to the frame the peer sent.    *)
(***************************************************************************)
EXTENDS SlipInput, SequenceTheorems, TLAPS

\* The buffer ends with the frame, and is the frame unless the last
\* FRAME_END made a packet and left it in the buffer.
Whole == IsSuffix(frame, buf) /\ (before # "packet" => buf = frame)

\* The other thing that may be in the buffer of a line without SC_ERROR: the
\* line was closed behind a FRAME_ESCAPE, sc_escape outlived that, and the
\* frame began with a transposed code.  No packet begins like that.
Garbled ==
  /\ before # "packet" /\ Len(buf) = Len(frame)
  /\ buf # <<>> /\ buf[1] # IP /\ frame[1] # IP

\* sc_escape says what the peer did, or is a leftover and nothing has been
\* stored since the line was opened.
EscapeKnown == escape = coded \/ (escape /\ buf = <<>> /\ before # "packet")

\* SC_ERROR is set for every damaged frame and, after a frame that was thrown
\* away, for no other: that is what makes the next FRAME_END reset it at the
\* right time.  It is still set when the line was closed in a damaged frame.
ErrorKnown ==
  /\ hurt \/ before = "damaged" => error
  /\ before = "dropped" /\ error => hurt

\* What is in the buffer of an open line unless SC_ERROR is set.
BufferKnown == open /\ ~error => (Whole \/ Garbled) /\ EscapeKnown

\* The inductive invariant.
IInv == TypeOK /\ PacketsAccounted /\ ErrorKnown /\ BufferKnown

-----------------------------------------------------------------------------
(* Sequences.                                                              *)

\* A suffix, without Reverse.
LEMMA SuffixFacts ==
  ASSUME NEW S, NEW s \in Seq(S), NEW t \in Seq(S)
  PROVE  IsSuffix(s, t) <=>
           /\ Len(s) <= Len(t)
           /\ \A k \in 1..Len(s) : s[k] = t[Len(t) - Len(s) + k]
<1> DEFINE r == Reverse(s)
           u == Reverse(t)
<1>1. Len(s) \in Nat /\ Len(t) \in Nat
  BY LenProperties
<1>2. /\ r = [i \in 1..Len(s) |-> s[(Len(s) - i) + 1]]
      /\ u = [i \in 1..Len(t) |-> t[(Len(t) - i) + 1]]
  BY DEF Reverse
<1>3. Len(r) = Len(s) /\ Len(u) = Len(t)
  BY <1>1, <1>2
<1> HIDE DEF r, u
<1>4. SubSeq(r, 1, Len(s)) = [i \in 1..Len(s) |-> r[i]]
  BY <1>1, <1>3
<1>5. SubSeq(u, 1, Len(s)) = [i \in 1..Len(s) |-> u[i]]
  BY <1>1, <1>3
<1>6. IsSuffix(s, t) <=> Len(s) <= Len(t) /\ \A i \in 1..Len(s) : r[i] = u[i]
  BY <1>1, <1>3, <1>4, <1>5 DEF IsSuffix, IsPrefix, r, u
<1>7. ASSUME Len(s) <= Len(t)
      PROVE  (\A i \in 1..Len(s) : r[i] = u[i])
               <=> \A k \in 1..Len(s) : s[k] = t[Len(t) - Len(s) + k]
  <2>1. \A i \in 1..Len(s) : r[i] = s[(Len(s) - i) + 1] /\ u[i] = t[(Len(t) - i) + 1]
    BY <1>1, <1>2, <1>7
  <2>2. ASSUME \A i \in 1..Len(s) : r[i] = u[i], NEW k \in 1..Len(s)
        PROVE  s[k] = t[Len(t) - Len(s) + k]
    <3> DEFINE i == Len(s) - k + 1
    <3>1. i \in 1..Len(s) /\ (Len(s) - i) + 1 = k /\ (Len(t) - i) + 1 = Len(t) - Len(s) + k
      BY <1>1
    <3> HIDE DEF i
    <3>2. QED BY <2>1, <2>2, <3>1
  <2>3. ASSUME \A k \in 1..Len(s) : s[k] = t[Len(t) - Len(s) + k], NEW i \in 1..Len(s)
        PROVE  r[i] = u[i]
    <3> DEFINE k == Len(s) - i + 1
    <3>1. /\ k \in 1..Len(s) /\ (Len(s) - i) + 1 = k
          /\ (Len(t) - i) + 1 = Len(t) - Len(s) + k
      BY <1>1
    <3> HIDE DEF k
    <3>2. QED BY <2>1, <2>3, <3>1
  <2>4. QED BY <2>2, <2>3
<1>8. QED BY <1>6, <1>7

\* The same character behind both keeps a suffix a suffix.
LEMMA SuffixAppend ==
  ASSUME NEW S, NEW s \in Seq(S), NEW t \in Seq(S), NEW c \in S, IsSuffix(s, t)
  PROVE  IsSuffix(Append(s, c), Append(t, c))
<1>1. Len(s) \in Nat /\ Len(t) \in Nat
  BY LenProperties
<1>2. /\ Len(s) <= Len(t)
      /\ \A k \in 1..Len(s) : s[k] = t[Len(t) - Len(s) + k]
  BY SuffixFacts
<1>3. /\ Append(s, c) \in Seq(S) /\ Len(Append(s, c)) = Len(s) + 1
      /\ \A k \in 1..Len(s) : Append(s, c)[k] = s[k]
      /\ Append(s, c)[Len(s) + 1] = c
  BY AppendProperties
<1>4. /\ Append(t, c) \in Seq(S) /\ Len(Append(t, c)) = Len(t) + 1
      /\ \A k \in 1..Len(t) : Append(t, c)[k] = t[k]
      /\ Append(t, c)[Len(t) + 1] = c
  BY AppendProperties
<1>5. ASSUME NEW k \in 1..Len(s) + 1
      PROVE  Append(s, c)[k] = Append(t, c)[(Len(t) + 1) - (Len(s) + 1) + k]
  <2>1. CASE k = Len(s) + 1
    <3>1. (Len(t) + 1) - (Len(s) + 1) + k = Len(t) + 1
      BY <1>1, <2>1
    <3>2. QED BY <1>3, <1>4, <2>1, <3>1
  <2>2. CASE k \in 1..Len(s)
    <3>1. /\ (Len(t) + 1) - (Len(s) + 1) + k = Len(t) - Len(s) + k
          /\ Len(t) - Len(s) + k \in 1..Len(t)
      BY <1>1, <1>2, <2>2
    <3>2. QED BY <1>2, <1>3, <1>4, <2>2, <3>1
  <2>3. k = Len(s) + 1 \/ k \in 1..Len(s)
    BY <1>1
  <2>4. QED BY <2>1, <2>2, <2>3
<1> DEFINE a == Append(s, c)
           b == Append(t, c)
<1> HIDE DEF a, b
<1>6. Len(a) = Len(s) + 1 /\ Len(b) = Len(t) + 1 /\ a \in Seq(S) /\ b \in Seq(S)
  BY <1>3, <1>4 DEF a, b
<1>7. Len(a) <= Len(b) /\ \A k \in 1..Len(a) : a[k] = b[Len(b) - Len(a) + k]
  <2>1. \A k \in 1..Len(s) + 1 : a[k] = b[(Len(t) + 1) - (Len(s) + 1) + k]
    BY <1>5 DEF a, b
  <2>2. QED BY <1>1, <1>2, <1>6, <2>1
<1>8. IsSuffix(a, b)
  BY <1>6, <1>7, SuffixFacts
<1>9. QED BY <1>8 DEF a, b

\* Nothing at all ends every sequence.
LEMMA SuffixEmpty ==
  ASSUME NEW S, NEW t \in Seq(S)
  PROVE  IsSuffix(<<>>, t)
<1>1. <<>> \in Seq(S) /\ Len(<<>>) = 0 /\ Len(t) \in Nat
  BY EmptySeq, LenProperties
<1> DEFINE e == <<>>
<1> HIDE DEF e
<1>2. e \in Seq(S) /\ Len(e) = 0
  BY <1>1 DEF e
<1>3. Len(e) <= Len(t) /\ \A k \in 1..Len(e) : e[k] = t[Len(t) - Len(e) + k]
  BY <1>1, <1>2
<1>4. IsSuffix(e, t)
  BY <1>2, <1>3, SuffixFacts
<1>5. QED BY <1>4 DEF e

-----------------------------------------------------------------------------
(* The parts of slinput.                                                   *)

LEMMA Different ==
  /\ FRAME_END \notin {FRAME_ESCAPE, TRANS_FRAME_END, TRANS_FRAME_ESCAPE, IP}
  /\ FRAME_ESCAPE \notin {TRANS_FRAME_END, TRANS_FRAME_ESCAPE, IP}
  /\ TRANS_FRAME_END \notin {TRANS_FRAME_ESCAPE, IP}
  /\ TRANS_FRAME_ESCAPE # IP
<1> DEFINE t == <<FRAME_END, FRAME_ESCAPE, TRANS_FRAME_END, TRANS_FRAME_ESCAPE, IP>>
<1>1. \A a, b \in 1..5 : t[a] = t[b] => a = b
  BY SlipInputAssumption DEF IsInjective
<1>2. /\ t[1] = FRAME_END /\ t[2] = FRAME_ESCAPE /\ t[3] = TRANS_FRAME_END
      /\ t[4] = TRANS_FRAME_ESCAPE /\ t[5] = IP
  OBVIOUS
<1> HIDE DEF t
<1>3. QED BY <1>1, <1>2

\* The character is behind the others, or the buffer was full.
LEMMA StoreFacts ==
  ASSUME TypeOK, NEW c \in Chars, Store(c)
  PROVE  /\ buf' \in Seq(Chars) /\ Len(buf') <= SlMax
         /\ escape' = FALSE /\ error' \in BOOLEAN
         /\ \/ /\ Len(buf) < SlMax /\ error' = error /\ buf' = Append(buf, c)
               /\ Len(buf') = Len(buf) + 1
            \/ Len(buf) = SlMax /\ error' = TRUE /\ buf' = <<>>
<1>1. buf \in Seq(Chars) /\ Len(buf) \in Nat /\ Len(buf) <= SlMax /\ error \in BOOLEAN
  BY LenProperties DEF TypeOK
<1>2. CASE Len(buf) < SlMax
  <2>1. buf' = Append(buf, c) /\ escape' = FALSE /\ error' = error
    BY <1>2 DEF Store
  <2>2. Append(buf, c) \in Seq(Chars) /\ Len(Append(buf, c)) = Len(buf) + 1
    BY <1>1, AppendProperties
  <2>3. QED BY <1>1, <1>2, <2>1, <2>2, SlipInputAssumption
<1>3. CASE ~(Len(buf) < SlMax)
  <2>1. buf' = <<>> /\ escape' = FALSE /\ error' = TRUE
    BY <1>3 DEF Store, newpack
  <2>2. buf' \in Seq(Chars) /\ Len(buf') = 0
    BY <2>1, EmptySeq
  <2>3. Len(buf) = SlMax /\ Len(buf') <= SlMax
    BY <1>1, <1>3, <2>2, SlipInputAssumption
  <2>4. QED BY <2>1, <2>2, <2>3
<1>4. QED BY <1>2, <1>3

LEMMA HandFacts ==
  ASSUME TypeOK, PacketsAccounted, HandToIp(buf)
  PROVE  /\ passed' = buf /\ passed' # NULL /\ passed' \in Seq(Chars)
         /\ ipackets' \in 0..MaxPackets /\ ipqlen' \in Nat /\ iqdrops' \in Nat
         /\ ipackets' = ipqlen' + iqdrops' /\ ipqlen' <= ipqmax
         /\ spilled' \in 0..SlMax
<1>1. /\ ipackets \in 0..MaxPackets /\ ipqlen \in Nat /\ iqdrops \in Nat
      /\ buf \in Seq(Chars) /\ ipqmax \in Nat
  BY SlipInputAssumption DEF TypeOK
<1>2. passed' = buf /\ passed' # NULL
  BY <1>1, SlipInputAssumption DEF HandToIp
<1>3. /\ ipackets < MaxPackets /\ ipackets' = ipackets + 1
      /\ \/ ipqlen >= ipqmax /\ iqdrops' = iqdrops + 1 /\ ipqlen' = ipqlen
         \/ ~(ipqlen >= ipqmax) /\ ipqlen' = ipqlen + 1 /\ iqdrops' = iqdrops
  BY DEF HandToIp
<1>4. spilled' \in 0..SlMax
  <2>1. Len(buf) \in 0..SlMax /\ spilled' = Spill(buf)
    BY LenProperties, SlipInputAssumption DEF TypeOK, HandToIp
  <2>2. QED BY <2>1, SlipInputAssumption DEF Spill
<1>5. QED BY <1>1, <1>2, <1>3, <1>4, SlipInputAssumption DEF PacketsAccounted

-----------------------------------------------------------------------------
(* One character.                                                          *)

\* It is damaged.
LEMMA DamagedStep ==
  ASSUME IInv, NEW c \in Chars, slinput(c, TRUE)
  PROVE  /\ passed' = NULL /\ spilled' = 0
         /\ UNCHANGED <<open, buf, escape, ipqlen, ipqmax, ipackets, iqdrops, before>>
         /\ frame' = <<>> /\ coded' = FALSE /\ hurt' = TRUE /\ error' = TRUE
BY DEF slinput, NoPacket, PeerSends

\* A FRAME_ESCAPE.
LEMMA EscapeStep ==
  ASSUME IInv, slinput(FRAME_ESCAPE, FALSE)
  PROVE  /\ passed' = NULL /\ spilled' = 0 /\ escape' = TRUE /\ coded' = TRUE /\ hurt' = hurt
         /\ UNCHANGED <<open, buf, error, ipqlen, ipqmax, ipackets, iqdrops, before>>
         /\ frame' = IF hurt THEN <<>> ELSE frame
<1>1. Len(frame) \in Nat /\ Len(frame) <= SlMax /\ hurt \in BOOLEAN
  BY LenProperties DEF IInv, TypeOK
<1>2. FRAME_ESCAPE # FRAME_END
  BY Different
<1>3. /\ passed' = NULL /\ spilled' = 0 /\ escape' = TRUE
      /\ UNCHANGED <<open, buf, error, ipqlen, ipqmax, ipackets, iqdrops>>
  BY <1>2 DEF slinput, NoPacket
<1>4. /\ coded' = TRUE /\ UNCHANGED before
      /\ hurt' = (hurt \/ FALSE \/ Len(frame) > SlMax)
      /\ frame' = IF hurt \/ FALSE \/ Len(frame) > SlMax THEN <<>> ELSE frame
  BY <1>2 DEF slinput, PeerSends
<1>5. ~(Len(frame) > SlMax)
  BY <1>1, SlipInputAssumption
<1>6. QED BY <1>1, <1>3, <1>4, <1>5

\* A FRAME_END: a packet is made of what is in the buffer, or not.
LEMMA EndStep ==
  ASSUME IInv, slinput(FRAME_END, FALSE)
  PROVE  /\ open /\ coded' = FALSE /\ frame' = <<>> /\ hurt' = FALSE
         /\ escape' = FALSE /\ UNCHANGED <<open, ipqmax>>
         /\ \/ /\ passed' = NULL /\ before' = "dropped" /\ error' = FALSE /\ buf' = <<>>
               /\ spilled' = 0
               /\ UNCHANGED <<ipqlen, ipackets, iqdrops>>
               /\ ~error => Len(buf) < 3 \/ buf[1] # IP
            \/ /\ ~error /\ Len(buf) >= 3 /\ buf[1] = IP /\ passed' # NULL
               /\ before' = "packet" /\ HandToIp(buf) /\ Store(IP)
<1>1. FRAME_ESCAPE # FRAME_END
  BY Different
<1>2. /\ open /\ FrameEnd /\ UNCHANGED <<open, ipqmax>>
      /\ coded' = FALSE /\ frame' = <<>> /\ hurt' = FALSE
      /\ before' = IF passed' = NULL THEN "dropped" ELSE "packet"
  BY <1>1 DEF slinput, PeerSends
<1>3. error \in BOOLEAN
  BY DEF IInv, TypeOK
<1>4. CASE /\ error' = FALSE /\ newpack /\ NoPacket
           /\ ~error => Len(buf) < 3 \/ buf[1] # IP
  BY <1>2, <1>4 DEF newpack, NoPacket
<1>5. CASE ~error /\ Len(buf) >= 3 /\ buf[1] = IP /\ HandToIp(buf) /\ Store(IP)
  <2>1. passed' # NULL
    BY <1>5, HandFacts DEF IInv
  <2>2. escape' = FALSE
    BY <1>5, StoreFacts DEF IInv, Chars
  <2>3. QED BY <1>2, <1>5, <2>1, <2>2
<1>6. QED BY <1>2, <1>3, <1>4, <1>5 DEF FrameEnd

\* Any other character, which is stored.
LEMMA OtherStep ==
  ASSUME IInv, NEW c \in Chars, c # FRAME_ESCAPE, c # FRAME_END, slinput(c, FALSE)
  PROVE  /\ open /\ passed' = NULL /\ spilled' = 0 /\ coded' = FALSE
         /\ UNCHANGED <<open, ipqlen, ipqmax, ipackets, iqdrops, before>>
         /\ Translated(c) \in Chars /\ Decoded(c) \in Chars /\ Store(Translated(c))
         /\ hurt' = (hurt \/ Len(frame) = SlMax)
         /\ frame' = IF hurt' THEN <<>> ELSE Append(frame, Decoded(c))
         /\ Append(frame, Decoded(c)) \in Seq(Chars)
         /\ Len(Append(frame, Decoded(c))) = Len(frame) + 1
<1>1. /\ frame \in Seq(Chars) /\ Len(frame) \in Nat /\ Len(frame) <= SlMax
      /\ hurt \in BOOLEAN
  BY LenProperties DEF IInv, TypeOK
<1>2. Translated(c) \in Chars /\ Decoded(c) \in Chars
  BY DEF Translated, Decoded, Chars
<1>3. /\ Append(frame, Decoded(c)) \in Seq(Chars)
      /\ Len(Append(frame, Decoded(c))) = Len(frame) + 1
  BY <1>1, <1>2, AppendProperties
<1>4. /\ open /\ passed' = NULL /\ spilled' = 0 /\ Store(Translated(c))
      /\ UNCHANGED <<open, ipqlen, ipqmax, ipackets, iqdrops>>
  BY DEF slinput, NoPacket
<1> DEFINE bad == hurt \/ FALSE \/ Len(Append(frame, Decoded(c))) > SlMax
<1>5. /\ coded' = FALSE /\ UNCHANGED before /\ hurt' = bad
      /\ frame' = IF bad THEN <<>> ELSE Append(frame, Decoded(c))
  BY DEF slinput, PeerSends
<1>6. bad <=> hurt \/ Len(frame) = SlMax
  BY <1>1, <1>3, SlipInputAssumption
<1> HIDE DEF bad
<1>7. hurt' = (hurt \/ Len(frame) = SlMax)
  BY <1>1, <1>5, <1>6
<1>8. QED BY <1>2, <1>3, <1>4, <1>5, <1>7
-----------------------------------------------------------------------------
(* The invariant.                                                          *)

LEMMA InitIInv == Init => IInv
<1> SUFFICES ASSUME Init PROVE IInv
  OBVIOUS
<1> USE DEF Init
<1>1. <<>> \in Seq(Chars) /\ Len(<<>>) = 0
  BY EmptySeq
<1>2. TypeOK
  <2>1. buf \in Seq(Chars) /\ Len(buf) <= SlMax /\ frame \in Seq(Chars) /\ Len(frame) <= SlMax
    BY <1>1, SlipInputAssumption
  <2>2. /\ ipqlen \in Nat /\ ipqmax \in {0, IpqMaxlen} /\ ipackets \in 0..MaxPackets
        /\ spilled \in 0..SlMax
    BY SlipInputAssumption
  <2>3. QED BY <2>1, <2>2 DEF TypeOK
<1>3. PacketsAccounted /\ ErrorKnown /\ BufferKnown
  BY DEF PacketsAccounted, ErrorKnown, BufferKnown
<1>4. QED BY <1>2, <1>3 DEF IInv

\* The buffer of a line without SC_ERROR holds at least the frame.
LEMMA BufferHoldsFrame ==
  ASSUME IInv, open, ~error
  PROVE  /\ ~hurt /\ Len(frame) <= Len(buf)
         /\ before # "packet" => Len(frame) = Len(buf)
<1>1. /\ buf \in Seq(Chars) /\ frame \in Seq(Chars)
      /\ Len(buf) \in Nat /\ Len(frame) \in Nat
  BY LenProperties DEF IInv, TypeOK
<1>2. CASE Whole
  BY <1>1, <1>2, SuffixFacts DEF Whole, IInv, ErrorKnown
<1>3. CASE Garbled
  BY <1>1, <1>3 DEF Garbled, IInv, ErrorKnown
<1>4. QED BY <1>2, <1>3 DEF IInv, BufferKnown

\* A step that leaves the buffer empty and a frame without characters.
LEMMA FreshBuffer ==
  ASSUME buf' = <<>>, frame' = <<>>
  PROVE  Whole'
<1>1. IsSuffix(<<>>, <<>>)
  BY EmptySeq, SuffixEmpty
<1>2. QED BY <1>1 DEF Whole

\* A character that is stored without an error, in both readings.
LEMMA StoredKnown ==
  ASSUME IInv, NEW c \in Chars, c # FRAME_ESCAPE, c # FRAME_END, slinput(c, FALSE), ~error'
  PROVE  Whole' \/ Garbled'
<1> DEFINE t == Translated(c)
           d == Decoded(c)
<1>1. /\ t \in Chars /\ d \in Chars /\ Store(t) /\ open
      /\ hurt' = (hurt \/ Len(frame) = SlMax) /\ before' = before
      /\ frame' = IF hurt' THEN <<>> ELSE Append(frame, d)
  BY OtherStep
<1>2. /\ buf \in Seq(Chars) /\ frame \in Seq(Chars)
      /\ Len(buf) \in Nat /\ Len(frame) \in Nat
  BY LenProperties DEF IInv, TypeOK
<1>3. Len(buf) < SlMax /\ ~error /\ buf' = Append(buf, t)
  BY <1>1, StoreFacts DEF IInv
<1>4. /\ ~hurt /\ Len(frame) <= Len(buf)
      /\ before # "packet" => Len(frame) = Len(buf)
  BY <1>1, <1>3, BufferHoldsFrame
<1>5. frame' = Append(frame, d)
  <2>1. Len(frame) # SlMax
    BY <1>2, <1>3, <1>4, SlipInputAssumption
  <2>2. ~hurt'
    BY <1>1, <1>4, <2>1
  <2>3. QED BY <1>1, <2>2
<1>6. /\ Len(buf') = Len(buf) + 1 /\ \A k \in 1..Len(buf) : buf'[k] = buf[k]
      /\ buf'[Len(buf) + 1] = t /\ buf' # <<>>
  <2> HIDE DEF t
  <2>1. QED BY <1>1, <1>2, <1>3, AppendProperties
<1>7. /\ Len(frame') = Len(frame) + 1 /\ \A k \in 1..Len(frame) : frame'[k] = frame[k]
      /\ frame'[Len(frame) + 1] = d
  <2> HIDE DEF d
  <2>1. QED BY <1>1, <1>2, <1>5, AppendProperties
<1>8. CASE Garbled
  <2>1. Len(buf) > 0 /\ Len(frame) > 0
    BY <1>2, <1>8, EmptySeq DEF Garbled
  <2>2. buf'[1] = buf[1] /\ frame'[1] = frame[1]
    BY <1>2, <1>6, <1>7, <2>1
  <2>3. Len(buf') = Len(frame')
    BY <1>6, <1>7, <1>8 DEF Garbled
  <2>4. QED BY <1>1, <1>6, <1>8, <2>2, <2>3 DEF Garbled
<1>9. CASE Whole /\ t = d
  <2> HIDE DEF t, d
  <2>1. IsSuffix(frame', buf')
    BY <1>1, <1>2, <1>3, <1>5, <1>9, SuffixAppend DEF Whole
  <2>2. before' # "packet" => buf' = frame'
    BY <1>1, <1>3, <1>5, <1>9 DEF Whole
  <2>3. QED BY <2>1, <2>2 DEF Whole
<1>10. CASE Whole /\ t # d
  <2>1. ~(escape = coded)
    <3>1. escape \in BOOLEAN /\ coded \in BOOLEAN
      BY DEF IInv, TypeOK
    <3>2. ASSUME escape = TRUE, coded = TRUE PROVE t = d
      BY <3>2, Different DEF Translated, Decoded
    <3>3. ASSUME escape = FALSE, coded = FALSE PROVE t = d
      BY <3>3 DEF Translated, Decoded
    <3>4. QED BY <1>10, <3>1, <3>2, <3>3
  <2>2. buf = <<>> /\ before # "packet" /\ frame = <<>>
    BY <1>1, <1>3, <1>10, <2>1 DEF IInv, BufferKnown, EscapeKnown, Whole
  <2>3. t # IP /\ d # IP
    BY <1>10, Different DEF Translated, Decoded
  <2>4. Len(buf) = 0 /\ Len(frame) = 0
    BY <2>2, EmptySeq
  <2> HIDE DEF t, d
  <2>5. buf'[1] = t /\ frame'[1] = d /\ Len(buf') = Len(frame')
    BY <1>6, <1>7, <2>4
  <2>6. QED BY <1>1, <1>6, <2>2, <2>3, <2>5 DEF Garbled
<1>11. QED BY <1>1, <1>3, <1>8, <1>9, <1>10 DEF IInv, BufferKnown

LEMMA OtherKeepsKnown ==
  ASSUME IInv, NEW c \in Chars, c # FRAME_ESCAPE, c # FRAME_END, slinput(c, FALSE)
  PROVE  ErrorKnown' /\ BufferKnown'
<1>1. /\ open /\ coded' = FALSE /\ before' = before
      /\ Translated(c) \in Chars /\ Store(Translated(c))
      /\ hurt' = (hurt \/ Len(frame) = SlMax)
  BY OtherStep
<1>2. /\ Len(buf) \in Nat /\ Len(frame) \in Nat /\ Len(frame) <= SlMax
      /\ hurt \in BOOLEAN /\ error \in BOOLEAN
  BY LenProperties DEF IInv, TypeOK
<1>3. /\ escape' = FALSE /\ error' \in BOOLEAN
      /\ \/ Len(buf) < SlMax /\ error' = error
         \/ Len(buf) = SlMax /\ error' = TRUE
  <2> DEFINE t == Translated(c)
  <2>1. t \in Chars /\ Store(t)
    BY <1>1
  <2> HIDE DEF t
  <2>2. /\ escape' = FALSE /\ error' \in BOOLEAN
        /\ \/ /\ Len(buf) < SlMax /\ error' = error /\ buf' = Append(buf, t)
              /\ Len(buf') = Len(buf) + 1
           \/ Len(buf) = SlMax /\ error' = TRUE /\ buf' = <<>>
    BY <2>1, StoreFacts DEF IInv
  <2>3. QED BY <2>2
<1>4. hurt' => error'
  <2>1. CASE error
    BY <1>3, <2>1
  <2>2. CASE ~error
    BY <1>1, <1>2, <1>3, <2>2, BufferHoldsFrame, SlipInputAssumption
  <2>3. QED BY <2>1, <2>2
<1>5. before' = "dropped" /\ error' => hurt'
  <2>1. CASE error
    BY <1>1, <2>1 DEF IInv, ErrorKnown
  <2>2. CASE ~error
    BY <1>1, <1>2, <1>3, <2>2, BufferHoldsFrame, SlipInputAssumption
  <2>3. QED BY <2>1, <2>2
<1>6. BufferKnown'
  BY <1>1, <1>3, StoredKnown DEF BufferKnown, EscapeKnown
<1>7. before' = "damaged" => error'
  <2>1. CASE error
    BY <1>3, <2>1
  <2>2. CASE ~error
    BY <1>1, <2>2 DEF IInv, ErrorKnown
  <2>3. QED BY <2>1, <2>2
<1>8. QED BY <1>4, <1>5, <1>6, <1>7 DEF ErrorKnown

\* slinput, whatever the character.
LEMMA InputStep ==
  ASSUME IInv, NEW c \in Chars, NEW damaged \in BOOLEAN, slinput(c, damaged)
  PROVE  IInv'
<1> USE DEF IInv
<1>0. /\ buf \in Seq(Chars) /\ Len(buf) \in Nat /\ Len(buf) <= SlMax
      /\ frame \in Seq(Chars) /\ Len(frame) \in Nat /\ Len(frame) <= SlMax
      /\ <<>> \in Seq(Chars) /\ Len(<<>>) = 0 /\ 0 <= SlMax /\ 0 \in 0..SlMax
  BY LenProperties, EmptySeq, SlipInputAssumption DEF TypeOK
<1>1. CASE damaged
  <2>1. /\ passed' = NULL /\ spilled' = 0
        /\ UNCHANGED <<open, buf, escape, ipqlen, ipqmax, ipackets, iqdrops, before>>
        /\ frame' = <<>> /\ coded' = FALSE /\ hurt' = TRUE /\ error' = TRUE
    BY <1>1, DamagedStep
  <2>2. TypeOK' /\ PacketsAccounted'
    BY <1>0, <2>1 DEF TypeOK, PacketsAccounted
  <2>3. ErrorKnown' /\ BufferKnown'
    BY <2>1 DEF ErrorKnown, BufferKnown
  <2>4. QED BY <2>2, <2>3
<1>2. CASE ~damaged /\ c = FRAME_ESCAPE
  <2>1. /\ passed' = NULL /\ spilled' = 0 /\ escape' = TRUE /\ coded' = TRUE /\ hurt' = hurt
        /\ UNCHANGED <<open, buf, error, ipqlen, ipqmax, ipackets, iqdrops, before>>
        /\ frame' = IF hurt THEN <<>> ELSE frame
    BY <1>2, EscapeStep
  <2>2. TypeOK' /\ PacketsAccounted'
    BY <1>0, <2>1 DEF TypeOK, PacketsAccounted
  <2>3. ErrorKnown'
    BY <2>1 DEF ErrorKnown
  <2>4. BufferKnown'
    <3> SUFFICES ASSUME open, ~error PROVE (Whole \/ Garbled)' /\ EscapeKnown'
      BY <2>1 DEF BufferKnown
    <3>1. frame' = frame
      BY <2>1 DEF ErrorKnown
    <3>2. (Whole \/ Garbled)'
      BY <2>1, <3>1 DEF BufferKnown, Whole, Garbled
    <3>3. QED BY <2>1, <3>2 DEF EscapeKnown
  <2>5. QED BY <2>2, <2>3, <2>4
<1>3. CASE ~damaged /\ c = FRAME_END
  <2>1. /\ open /\ coded' = FALSE /\ frame' = <<>> /\ hurt' = FALSE
        /\ escape' = FALSE /\ UNCHANGED <<open, ipqmax>>
    BY <1>3, EndStep
  <2>2. CASE /\ passed' = NULL /\ before' = "dropped" /\ error' = FALSE /\ buf' = <<>>
             /\ spilled' = 0
             /\ UNCHANGED <<ipqlen, ipackets, iqdrops>>
    <3>1. TypeOK' /\ PacketsAccounted'
      BY <1>0, <2>1, <2>2 DEF TypeOK, PacketsAccounted
    <3>2. ErrorKnown' /\ BufferKnown'
      BY <2>1, <2>2, FreshBuffer DEF ErrorKnown, BufferKnown, EscapeKnown
    <3>3. QED BY <3>1, <3>2
  <2>3. CASE before' = "packet" /\ HandToIp(buf) /\ Store(IP)
    <3>1. /\ buf' \in Seq(Chars) /\ Len(buf') <= SlMax /\ error' \in BOOLEAN
      BY <2>3, StoreFacts DEF Chars
    <3>2. /\ passed' \in Seq(Chars) /\ spilled' \in 0..SlMax
          /\ ipackets' \in 0..MaxPackets /\ ipqlen' \in Nat /\ iqdrops' \in Nat
          /\ ipackets' = ipqlen' + iqdrops' /\ ipqlen' <= ipqmax
      BY <2>3, HandFacts
    <3>3. TypeOK' /\ PacketsAccounted'
      BY <1>0, <2>1, <2>3, <3>1, <3>2 DEF TypeOK, PacketsAccounted
    <3>4. Whole'
      BY <2>1, <2>3, <3>1, SuffixEmpty DEF Whole
    <3>5. ErrorKnown' /\ BufferKnown'
      BY <2>1, <2>3, <3>4 DEF ErrorKnown, BufferKnown, EscapeKnown
    <3>6. QED BY <3>3, <3>5
  <2>4. QED BY <1>3, <2>2, <2>3, EndStep
<1>4. CASE ~damaged /\ c # FRAME_ESCAPE /\ c # FRAME_END
  <2>1. /\ passed' = NULL /\ spilled' = 0 /\ coded' = FALSE
        /\ UNCHANGED <<open, ipqlen, ipqmax, ipackets, iqdrops, before>>
        /\ Translated(c) \in Chars /\ Store(Translated(c))
        /\ hurt' = (hurt \/ Len(frame) = SlMax)
        /\ frame' = IF hurt' THEN <<>> ELSE Append(frame, Decoded(c))
        /\ Append(frame, Decoded(c)) \in Seq(Chars)
        /\ Len(Append(frame, Decoded(c))) = Len(frame) + 1
    BY <1>4, OtherStep
  <2>2. buf' \in Seq(Chars) /\ Len(buf') <= SlMax /\ escape' = FALSE /\ error' \in BOOLEAN
    BY <2>1, StoreFacts
  <2>3. hurt' \in BOOLEAN
    BY <2>1 DEF TypeOK
  <2>4. frame' \in Seq(Chars) /\ Len(frame') <= SlMax
    <3>1. CASE hurt'
      BY <1>0, <2>1, <3>1
    <3>2. CASE ~hurt'
      <4>1. frame' = Append(frame, Decoded(c)) /\ Len(frame) # SlMax
        BY <2>1, <3>2
      <4>2. QED BY <1>0, <2>1, <4>1, SlipInputAssumption
    <3>3. QED BY <3>1, <3>2
  <2>5. TypeOK' /\ PacketsAccounted'
    BY <1>0, <2>1, <2>2, <2>3, <2>4 DEF TypeOK, PacketsAccounted
  <2>6. ErrorKnown' /\ BufferKnown'
    BY <1>4, OtherKeepsKnown
  <2>7. QED BY <2>5, <2>6
<1>5. QED BY <1>1, <1>2, <1>3, <1>4

\* The line is opened: the buffer is new, sc_escape and SC_ERROR are not.
LEMMA OpenStep ==
  ASSUME IInv, slopen
  PROVE  IInv'
<1>1. /\ open' = TRUE /\ buf' = <<>> /\ frame' = <<>> /\ coded' = FALSE
      /\ hurt' = FALSE /\ passed' = NULL /\ spilled' = 0
      /\ before' = CASE hurt -> "damaged"
                     [] ~hurt /\ before = "packet" -> "opened"
                     [] OTHER -> before
      /\ UNCHANGED <<escape, error, ipqlen, ipqmax, ipackets, iqdrops>>
  BY DEF slopen, NoPacket
<1>2. <<>> \in Seq(Chars) /\ Len(<<>>) = 0 /\ 0 <= SlMax /\ 0 \in 0..SlMax
  BY EmptySeq, SlipInputAssumption
<1>3. \/ hurt /\ before' = "damaged"
      \/ ~hurt /\ before = "packet" /\ before' = "opened"
      \/ ~hurt /\ before # "packet" /\ before' = before
  <2>1. hurt \in BOOLEAN
    BY DEF IInv, TypeOK
  <2>2. QED BY <1>1, <2>1
<1>4. TypeOK' /\ PacketsAccounted'
  BY <1>1, <1>2, <1>3 DEF IInv, TypeOK, PacketsAccounted
<1>5. ErrorKnown'
  BY <1>1, <1>3 DEF IInv, ErrorKnown
<1>6. before' # "packet" /\ (escape' = FALSE \/ escape')
  BY <1>1, <1>3 DEF IInv, TypeOK
<1>7. BufferKnown'
  BY <1>1, <1>6, FreshBuffer DEF BufferKnown, EscapeKnown
<1>8. QED BY <1>4, <1>5, <1>7 DEF IInv

LEMMA CloseStep ==
  ASSUME IInv, slclose
  PROVE  IInv'
<1>1. /\ open' = FALSE /\ buf' = <<>> /\ passed' = NULL /\ spilled' = 0
      /\ UNCHANGED <<escape, error, ipqlen, ipqmax, ipackets, iqdrops, peer>>
  BY DEF slclose, NoPacket
<1>2. <<>> \in Seq(Chars) /\ Len(<<>>) = 0 /\ 0 <= SlMax /\ 0 \in 0..SlMax
  BY EmptySeq, SlipInputAssumption
<1>3. TypeOK' /\ PacketsAccounted'
  BY <1>1, <1>2 DEF IInv, TypeOK, PacketsAccounted, peer
<1>4. ErrorKnown' /\ BufferKnown'
  BY <1>1 DEF IInv, ErrorKnown, BufferKnown, peer
<1>5. QED BY <1>3, <1>4 DEF IInv

\* ipintrq gets its limit: the receiver is not concerned.
LEMMA LimitStep ==
  ASSUME IInv, ether_input
  PROVE  IInv'
<1>1. /\ ipqmax' = IpqMaxlen /\ passed' = NULL /\ spilled' = 0
      /\ UNCHANGED <<open, buf, escape, error, ipqlen, ipackets, iqdrops, peer>>
  BY DEF ether_input, NoPacket
<1>2. TypeOK' /\ PacketsAccounted'
  BY <1>1, SlipInputAssumption DEF IInv, TypeOK, PacketsAccounted, peer
<1>3. ErrorKnown' /\ BufferKnown'
  BY <1>1 DEF IInv, ErrorKnown, BufferKnown, Whole, Garbled, EscapeKnown, peer
<1>4. QED BY <1>2, <1>3 DEF IInv

\* The invariant is inductive.
LEMMA StepIInv == IInv /\ [Next]_vars => IInv'
<1> SUFFICES ASSUME IInv, [Next]_vars PROVE IInv'
  OBVIOUS
<1>1. ASSUME NEW c \in Chars, NEW damaged \in BOOLEAN, slinput(c, damaged) PROVE IInv'
  BY <1>1, InputStep
<1>2. CASE slopen
  BY <1>2, OpenStep
<1>3. CASE slclose
  BY <1>3, CloseStep
<1>4. CASE ether_input
  BY <1>4, LimitStep
<1>5. CASE UNCHANGED vars
  BY <1>5 DEF vars, code, peer, IInv, TypeOK, PacketsAccounted, ErrorKnown, BufferKnown,
              Whole, Garbled, EscapeKnown
<1>6. QED BY <1>1, <1>2, <1>3, <1>4, <1>5 DEF Next

\* The only step that makes a packet, and what is known then.
LEMMA PacketMade ==
  ASSUME IInv, Next, passed' # NULL
  PROVE  passed' = buf /\ spilled' = Spill(buf) /\ Whole /\ ~hurt
<1>1. PICK c \in Chars, damaged \in BOOLEAN : slinput(c, damaged)
  BY DEF Next, slopen, slclose, ether_input, NoPacket
<1>2. ~damaged
  BY <1>1, DamagedStep
<1>3. c = FRAME_END
  BY <1>1, <1>2, EscapeStep, OtherStep
<1>4. open /\ ~error /\ Len(buf) >= 3 /\ buf[1] = IP /\ HandToIp(buf)
  BY <1>1, <1>2, <1>3, EndStep
<1>5. passed' = buf /\ spilled' = Spill(buf)
  BY <1>4 DEF HandToIp
<1>6. Whole /\ ~hurt
  BY <1>4, BufferHoldsFrame DEF IInv, BufferKnown, Garbled
<1>7. QED BY <1>5, <1>6

-----------------------------------------------------------------------------
(* The theorems.                                                           *)

\* The inductive invariant holds in every reachable state.
THEOREM Invariance == Spec => []IInv
<1>1. QED BY InitIInv, StepIInv, PTL DEF Spec

\* The buffer stays within its cluster, for any size of it.
THEOREM TypeCorrect == Spec => []TypeOK
<1>1. IInv => TypeOK
  BY DEF IInv
<1>2. QED BY <1>1, Invariance, PTL

\* Every packet counted is on ipintrq or dropped, and ipintrq is within the
\* limit in force.
THEOREM NoPacketUncounted == Spec => []PacketsAccounted
<1>1. IInv => PacketsAccounted
  BY DEF IInv
<1>2. QED BY <1>1, Invariance, PTL

\* A packet ends with all of an undamaged frame.
THEOREM DamageStopsPackets == Spec => OnlyWholeFrames
<1>1. IInv /\ [Next]_vars => [passed' # NULL => ~hurt /\ IsSuffix(frame, passed')]_vars
  <2> SUFFICES ASSUME IInv, Next, passed' # NULL
               PROVE  ~hurt /\ IsSuffix(frame, passed')
    OBVIOUS
  <2>1. QED BY PacketMade DEF Whole
<1>2. QED BY <1>1, Invariance, PTL DEF Spec, OnlyWholeFrames

\* A packet that does not follow another one in the buffer is exactly the
\* frame that was sent, and overflows its mbuf just when that is too long.
THEOREM FirstFrameUnchanged == Spec => FirstFrameExact
<1>1. IInv /\ [Next]_vars =>
        [passed' # NULL /\ before # "packet" =>
           passed' = frame /\ (spilled' > 0 <=> Len(frame) > MhLen)]_vars
  <2> SUFFICES ASSUME IInv, Next, passed' # NULL, before # "packet"
               PROVE  passed' = frame /\ (spilled' > 0 <=> Len(frame) > MhLen)
    OBVIOUS
  <2>1. passed' = buf /\ spilled' = Spill(buf) /\ buf = frame
    BY PacketMade DEF Whole
  <2>2. Len(frame) \in Nat /\ MhLen \in Nat
    BY LenProperties, SlipInputAssumption DEF IInv, TypeOK
  <2>3. QED BY <2>1, <2>2 DEF Spill
<1>2. QED BY <1>1, Invariance, PTL DEF Spec, FirstFrameExact

\* A good frame ends only with an undamaged FRAME_END.
LEMMA GoodEnd ==
  ASSUME IInv, Next, GoodFrameEnds
  PROVE  slinput(FRAME_END, FALSE)
<1>1. /\ open /\ ~hurt /\ Len(frame) >= 3 /\ frame[1] = IP
      /\ open' /\ frame' = <<>> /\ ~hurt'
  BY DEF GoodFrameEnds
<1>2. frame # <<>>
  BY <1>1, EmptySeq
<1>3. PICK c \in Chars, damaged \in BOOLEAN : slinput(c, damaged)
  BY <1>1, <1>2 DEF Next, slopen, slclose, ether_input, peer
<1>4. ~damaged
  BY <1>1, <1>3, DamagedStep
<1>5. c # FRAME_ESCAPE
  BY <1>1, <1>2, <1>3, <1>4, EscapeStep
<1>6. c = FRAME_END
  <2> SUFFICES ASSUME c # FRAME_END PROVE FALSE
    OBVIOUS
  <2>1. /\ frame' = IF hurt' THEN <<>> ELSE Append(frame, Decoded(c))
        /\ Len(Append(frame, Decoded(c))) = Len(frame) + 1
    BY <1>3, <1>4, <1>5, OtherStep
  <2>2. Len(frame) \in Nat
    BY LenProperties DEF IInv, TypeOK
  <2>3. Append(frame, Decoded(c)) # <<>>
    BY <2>1, <2>2, EmptySeq
  <2>4. QED BY <1>1, <2>1, <2>3
<1>7. QED BY <1>3, <1>4, <1>6

\* After a frame that was thrown away the next good frame is a packet, and
\* the first frame of a line that was closed in a damaged one is not.
THEOREM GoodFramesArrive == Spec => OneFrameSwallowed
<1>1. ASSUME IInv, Next, GoodFrameEnds, before = "dropped" PROVE passed' # NULL
  <2>1. open /\ ~hurt /\ Len(frame) >= 3 /\ frame[1] = IP /\ ~error
    BY <1>1 DEF GoodFrameEnds, IInv, ErrorKnown
  <2>2. buf = frame
    BY <1>1, <2>1 DEF IInv, BufferKnown, Garbled, Whole
  <2>3. passed' # NULL \/ Len(buf) < 3 \/ buf[1] # IP
    BY <1>1, <2>1, GoodEnd, EndStep
  <2>4. ~(Len(buf) < 3)
    <3>1. Len(buf) \in Nat
      BY <1>1, LenProperties DEF IInv, TypeOK
    <3>2. QED BY <2>1, <2>2, <3>1
  <2>5. QED BY <2>1, <2>2, <2>3, <2>4
<1>2. ASSUME IInv, Next, GoodFrameEnds, before = "damaged"
      PROVE  passed' = NULL /\ before' = "dropped"
  BY <1>2, GoodEnd, EndStep DEF IInv, ErrorKnown
<1>3. IInv /\ [Next]_vars =>
        [GoodFrameEnds =>
           /\ before = "dropped" => passed' # NULL
           /\ before = "damaged" => passed' = NULL /\ before' = "dropped"]_vars
  BY <1>1, <1>2
<1>4. QED BY <1>3, Invariance, PTL DEF Spec, OneFrameSwallowed
=============================================================================

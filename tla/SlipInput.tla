----------------------------- MODULE SlipInput -----------------------------
(***************************************************************************)
(* The receiving half of one SLIP unit of net/if_sl.c: slinput with        *)
(* sl_btom, and what slopen, slinit and slclose do to the receive state.   *)
(*                                                                         *)
(* slinput is called by the tty driver with one character at a time.  A    *)
(* character is one of the four SLIP codes, IP (a byte whose high nibble   *)
(* is 4, the first byte of an IPv4 packet), or any other byte, which the   *)
(* unescaped transposed codes stand for.  It may come damaged: with a bit  *)
(* of TTY_ERRORMASK, or while the line has no carrier and is not CLOCAL.   *)
(*                                                                         *)
(* sc_buf..sc_mp is the sequence buf; SlMax is the room for it, SLMAX.     *)
(* sl_uncompress_tcp is a stub that returns 0, so SC_COMPRESS is never set *)
(* and a frame that does not start with IP is always an input error.       *)
(* Counters other than if_ipackets and if_iqdrops are left out.            *)
(*                                                                         *)
(* sl_btom copies the whole buffer into one mbuf with a packet header,     *)
(* which has room for MHLEN bytes, whatever the length is (the cluster of  *)
(* its other branch is for MCLBYTES or more, and SLMAX is less).  passed   *)
(* is what it copies, and spilled how much of that lands behind the mbuf;  *)
(* what it destroys there is not followed.                                 *)
(***************************************************************************)
EXTENDS Naturals, Sequences, SequencesExt

CONSTANTS
  FRAME_END, FRAME_ESCAPE, TRANS_FRAME_END, TRANS_FRAME_ESCAPE, IP,
  NULL,
  SlMax,       \* SLMAX, the room from sc_buf to sc_ep
  MhLen,       \* MHLEN, the room of an mbuf with a packet header
  IpqMaxlen,   \* the limit ether_input gives to ipintrq
  MaxPackets   \* bound on if_ipackets

Chars ==
  {FRAME_END, FRAME_ESCAPE, TRANS_FRAME_END, TRANS_FRAME_ESCAPE, IP}

ASSUME SlipInputAssumption ==
  /\ SlMax \in Nat /\ SlMax > 0 /\ MhLen \in Nat
  /\ IpqMaxlen \in Nat /\ MaxPackets \in Nat
  /\ IsInjective(<<FRAME_END, FRAME_ESCAPE, TRANS_FRAME_END, TRANS_FRAME_ESCAPE, IP>>)
  /\ NULL \notin Seq(Chars)

VARIABLES
  open,      \* t_sc of the tty points at the unit
  buf,       \* the characters from sc_buf to sc_mp
  escape,    \* sc_escape
  error,     \* SC_ERROR in sc_flags
  ipqlen, ipqmax, \* ifq_len and ifq_maxlen of ipintrq
  ipackets, iqdrops,
  passed,    \* what sl_btom copied in the last step, or NULL
  spilled,   \* how many bytes of it did not fit in the mbuf
  (* What the peer sent, for the properties only.                         *)
  frame,     \* the bytes of its frame so far, decoded
  coded,     \* its last character was FRAME_ESCAPE
  hurt,      \* the frame was damaged on the line or is longer than SlMax
  before     \* what came before the frame: a frame that was made a
             \* "packet", one that was "dropped", or the line being opened
             \* after it had been closed behind a packet ("opened") or
             \* within a frame that was damaged ("damaged")

code ==
  <<open, buf, escape, error, ipqlen, ipqmax, ipackets, iqdrops, passed, spilled>>
peer == <<frame, coded, hurt, before>>
vars == <<code, peer>>

Init ==
  /\ open = FALSE /\ buf = <<>> /\ escape = FALSE /\ error = FALSE
  /\ ipqlen = 0 /\ ipqmax = 0 /\ ipackets = 0 /\ iqdrops = 0
  /\ passed = NULL /\ spilled = 0
  /\ frame = <<>> /\ coded = FALSE /\ hurt = FALSE /\ before = "dropped"

-----------------------------------------------------------------------------
(* The peer.  The rules of RFC 1055 for a frame, independent of slinput.   *)

Decoded(c) ==
  CASE coded /\ c = TRANS_FRAME_END -> FRAME_END
    [] coded /\ c = TRANS_FRAME_ESCAPE -> FRAME_ESCAPE
    [] OTHER -> c

PeerSends(c, damaged) ==
  /\ coded' = (c = FRAME_ESCAPE /\ ~damaged)
  /\ IF c = FRAME_END /\ ~damaged
       THEN /\ frame' = <<>> /\ hurt' = FALSE
            /\ before' = IF passed' = NULL THEN "dropped" ELSE "packet"
       ELSE LET longer == IF c = FRAME_ESCAPE THEN frame
                                              ELSE Append(frame, Decoded(c))
                bad == hurt \/ damaged \/ Len(longer) > SlMax
            IN  /\ hurt' = bad
                /\ frame' = IF bad THEN <<>> ELSE longer
                /\ UNCHANGED before

-----------------------------------------------------------------------------
(* The parts of slinput.                                                   *)

\* Mutant: newpack does not set sc_mp back.
newpack_KeepsBuffer == buf' = buf /\ escape' = FALSE

\* newpack: the buffer is empty again.
newpack == buf' = <<>> /\ escape' = FALSE

\* Mutants: one character too many is stored; an overflow is not remembered.
Store_OneMore(c) ==
  IF Len(buf) <= SlMax
    THEN buf' = Append(buf, c) /\ escape' = FALSE /\ UNCHANGED error
    ELSE error' = TRUE /\ newpack

Store_ForgetsOverflow(c) ==
  /\ IF Len(buf) < SlMax THEN buf' = Append(buf, c) /\ escape' = FALSE
                         ELSE newpack
  /\ UNCHANGED error

\* The last statements of slinput: the character is stored, or the buffer
\* is full and what has been collected is thrown away.
Store(c) ==
  IF Len(buf) < SlMax
    THEN /\ buf' = Append(buf, c)
         /\ escape' = FALSE
         /\ UNCHANGED error
    ELSE error' = TRUE /\ newpack

\* Mutant: transposed codes are translated without a FRAME_ESCAPE before.
Translated_Always(c) ==
  CASE c = TRANS_FRAME_ESCAPE -> FRAME_ESCAPE
    [] c = TRANS_FRAME_END -> FRAME_END
    [] OTHER -> c

\* The switch on the character, for those that are stored.
Translated(c) ==
  CASE escape /\ c = TRANS_FRAME_ESCAPE -> FRAME_ESCAPE
    [] escape /\ c = TRANS_FRAME_END -> FRAME_END
    [] OTHER -> c

\* sl_btom: the bytes for which its mbuf has no room.
Spill(pkt) == IF Len(pkt) > MhLen THEN Len(pkt) - MhLen ELSE 0

\* Mutant: a packet that ipintrq has no room for is not counted as dropped.
HandToIp_Uncounted(pkt) ==
  /\ ipackets < MaxPackets
  /\ ipackets' = ipackets + 1
  /\ passed' = pkt /\ spilled' = Spill(pkt)
  /\ ipqlen' = IF ipqlen >= ipqmax THEN ipqlen ELSE ipqlen + 1
  /\ UNCHANGED iqdrops

\* sl_btom copies the packet; ipintrq has room for it or drops it.
HandToIp(pkt) ==
  /\ ipackets < MaxPackets
  /\ ipackets' = ipackets + 1
  /\ passed' = pkt /\ spilled' = Spill(pkt)
  /\ IF ipqlen >= ipqmax
       THEN iqdrops' = iqdrops + 1 /\ UNCHANGED ipqlen
       ELSE ipqlen' = ipqlen + 1 /\ UNCHANGED iqdrops

NoPacket ==
  /\ passed' = NULL /\ spilled' = 0
  /\ UNCHANGED <<ipqlen, ipackets, iqdrops>>

\* case FRAME_END.  A frame that is handed over leaves c with the version
\* bits of its first byte, and the switch falls out to the code that
\* stores c: the buffer is not emptied.
FrameEnd ==
  \/ /\ error
     /\ error' = FALSE
     /\ newpack /\ NoPacket
  \/ /\ ~error
     /\ Len(buf) < 3
     /\ newpack /\ NoPacket /\ UNCHANGED error
  \/ /\ ~error
     /\ Len(buf) >= 3
     /\ buf[1] # IP
     /\ newpack /\ NoPacket /\ UNCHANGED error
  \/ /\ ~error
     /\ Len(buf) >= 3
     /\ buf[1] = IP
     /\ HandToIp(buf)
     /\ Store(IP)

-----------------------------------------------------------------------------
(* The handlers.                                                           *)

slinput(c, damaged) ==
  /\ open
  /\ IF damaged
       THEN error' = TRUE /\ NoPacket /\ UNCHANGED <<buf, escape>>
     ELSE IF c = FRAME_ESCAPE
       THEN escape' = TRUE /\ NoPacket /\ UNCHANGED <<buf, error>>
     ELSE IF c = FRAME_END
       THEN FrameEnd
     ELSE Store(Translated(c)) /\ NoPacket
  /\ PeerSends(c, damaged)
  /\ UNCHANGED <<open, ipqmax>>

\* slopen with slinit: the pointers are set, sc_escape and sc_flags are not.
slopen ==
  /\ ~open
  /\ open' = TRUE
  /\ buf' = <<>>
  /\ frame' = <<>> /\ coded' = FALSE /\ hurt' = FALSE
  /\ before' = CASE hurt -> "damaged"
                 [] ~hurt /\ before = "packet" -> "opened"
                 [] OTHER -> before
  /\ NoPacket
  /\ UNCHANGED <<escape, error, ipqmax>>

\* slclose: t_sc, sc_ttyp and the buffer pointers become NULL.
slclose ==
  /\ open
  /\ open' = FALSE
  /\ buf' = <<>>
  /\ NoPacket
  /\ UNCHANGED <<escape, error, ipqmax, peer>>

\* ipintrq starts with a limit of 0 and gets one in ether_input.
ether_input ==
  /\ ipqmax' = IpqMaxlen
  /\ NoPacket
  /\ UNCHANGED <<open, buf, escape, error, peer>>

Next ==
  \/ \E c \in Chars, damaged \in BOOLEAN : slinput(c, damaged)
  \/ slopen \/ slclose \/ ether_input

Spec == Init /\ [][Next]_vars

-----------------------------------------------------------------------------
(* Properties.                                                             *)

\* The buffer stays within the cluster that slinit allocated, and every
\* other variable has a value of its type.
TypeOK ==
  /\ {open, escape, error, coded, hurt} \subseteq BOOLEAN
  /\ buf \in Seq(Chars) /\ Len(buf) <= SlMax
  /\ frame \in Seq(Chars) /\ Len(frame) <= SlMax
  /\ before \in {"packet", "dropped", "opened", "damaged"}
  /\ ipqlen \in Nat /\ ipqmax \in {0, IpqMaxlen}
  /\ ipackets \in 0..MaxPackets /\ iqdrops \in Nat
  /\ passed = NULL \/ passed \in Seq(Chars)
  /\ spilled \in 0..SlMax

\* The FRAME_END of an undamaged IPv4 frame of legal length arrives.
GoodFrameEnds ==
  /\ open /\ ~hurt
  /\ Len(frame) >= 3 /\ frame[1] = IP
  /\ open' /\ frame' = <<>> /\ ~hurt'

\* No packet is made from a frame in which a character was damaged or lost,
\* and a packet always ends with all the bytes of the frame that FRAME_END
\* has just closed.  The flag SC_ERROR has to survive everything that can
\* happen before that FRAME_END: escapes, an overflow of the buffer, and
\* the line being closed and opened again.
OnlyWholeFrames ==
  [][passed' # NULL => ~hurt /\ IsSuffix(frame, passed')]_vars

\* A packet is exactly the frame the peer sent unless another packet was
\* made since the buffer was last emptied: every escape is undone, also
\* when sc_escape was left set by the line that was closed before.  Its mbuf
\* then overflows just when the frame is longer than MHLEN, as frames up to
\* SLMAX may be; behind another packet a shorter one is enough.
FirstFrameExact ==
  [][passed' # NULL /\ before # "packet" =>
       passed' = frame /\ (spilled' > 0 <=> Len(frame) > MhLen)]_vars

\* An error costs the frame it is in and at most one good one.  A frame
\* behind one that was thrown away is never missed: neither SC_ERROR nor the
\* rest of a longer frame outlives the FRAME_END that closes it.  SC_ERROR
\* does outlive the line: when the line was closed within a damaged frame,
\* the first frame of the next line is always missed, good as it is, and
\* counts as the one thrown away.
OneFrameSwallowed ==
  [][GoodFrameEnds =>
       /\ before = "dropped" => passed' # NULL
       /\ before = "damaged" => passed' = NULL /\ before' = "dropped"]_vars

\* Every packet counted in if_ipackets is on ipintrq or in if_iqdrops, and
\* ipintrq never exceeds the limit in force.
PacketsAccounted == ipackets = ipqlen + iqdrops /\ ipqlen <= ipqmax

\* if_sl.c says where it sets SC_ERROR for a full buffer: "can't put lower,
\* would miss an extra frame".  Claim: no good frame that follows another
\* one on the line is missed.
NoExtraFrameMissed ==
  [][GoodFrameEnds /\ before = "packet" => passed' # NULL]_vars
=============================================================================

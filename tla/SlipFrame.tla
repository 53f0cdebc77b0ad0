----------------------------- MODULE SlipFrame -----------------------------
(***************************************************************************)
(* The characters that slstart of net/if_sl.c puts on t_outq for a packet, *)
(* for every chain that MbufChain builds.  SlipOutput decides which packet *)
(* is next; here is what becomes of it on the line.                        *)
(*                                                                         *)
(* room is the number of characters the clists can hold for the tty.  The  *)
(* bodies of putc, b_to_q and unputc are deleted in kern/tty_subr.c: putc  *)
(* fails when there is no room, as slstart expects, and b_to_q copies what *)
(* fits.                                                                   *)
(***************************************************************************)
EXTENDS MbufChain

CONSTANTS FRAME_END, FRAME_ESCAPE, TRANS_FRAME_END, TRANS_FRAME_ESCAPE

ASSUME SlipFrameAssumption ==
  Cardinality({FRAME_END, FRAME_ESCAPE, TRANS_FRAME_END, TRANS_FRAME_ESCAPE}) = 4

putc(q, c, room) == IF Len(q) < room THEN Append(q, c) ELSE q
b_to_q(q, s, room) == q \o SubSeq(s, 1, Min({Len(s), room - Len(q)}))
unputc(q) == Front(q)

\* Mutant: the scan ends at the first code, and so does what is copied.
PutMbuf_StopsAtCode(q, bytes, room) ==
  LET codes == {i \in DOMAIN bytes : bytes[i] \in {FRAME_END, FRAME_ESCAPE}}
      last == IF codes = {} THEN Len(bytes) ELSE Min(codes)
  IN b_to_q(q, SubSeq(bytes, 1, last - 1), room)

\* One mbuf.  The break at FRAME_END and FRAME_ESCAPE leaves the switch and
\* not the loop, so that the scan always ends at the end of the mbuf: no
\* character is escaped, and the one before cp is never copied.
PutMbuf(q, bytes, room) ==
  IF bytes = <<>> THEN q ELSE b_to_q(q, Front(bytes), room)

\* Mutant: no character is removed to make room for the last one.
PutFrame_NoUnput(q, c, room) ==
  LET begun == IF q = <<>> THEN putc(q, FRAME_END, room) ELSE q
      body == FoldLeft(LAMBDA r, m : PutMbuf(r, m.bytes, room), begun, c)
  IN putc(body, FRAME_END, room)

\* The whole packet c behind what is on t_outq.
PutFrame(q, c, room) ==
  LET begun == IF q = <<>> THEN putc(q, FRAME_END, room) ELSE q
      body == FoldLeft(LAMBDA r, m : PutMbuf(r, m.bytes, room), begun, c)
  IN IF Len(body) < room THEN putc(body, FRAME_END, room)
                         ELSE putc(unputc(body), FRAME_END, room)

-----------------------------------------------------------------------------
(* The receiver, by the rules of RFC 1055: the frames it finds in q.       *)

Meaning(c, escaped) ==
  IF escaped /\ c = TRANS_FRAME_END THEN FRAME_END
  ELSE IF escaped /\ c = TRANS_FRAME_ESCAPE THEN FRAME_ESCAPE ELSE c

Unframed(q) ==
  LET Step(s, c) ==
        IF c = FRAME_END
          THEN [frames |-> IF s.now = <<>> THEN s.frames ELSE Append(s.frames, s.now),
                now |-> <<>>, escaped |-> FALSE]
        ELSE IF c = FRAME_ESCAPE THEN [s EXCEPT !.escaped = TRUE]
        ELSE [s EXCEPT !.now = Append(@, Meaning(c, s.escaped)), !.escaped = FALSE]
  IN FoldLeft(Step, [frames |-> <<>>, now |-> <<>>, escaped |-> FALSE], q)

-----------------------------------------------------------------------------
(* Properties.                                                             *)

\* "End the packet normally": however little room the clists have, a frame
\* is closed by a FRAME_END, and the frames in front of it, whose last
\* character unputc may have removed, are still there.
FramesStayApart ==
  \A q \in {<<>>, <<FRAME_END, JUNK, FRAME_END>>} :
    \A room \in Max({1, Len(q)})..(Len(q) + Total(chain) + 2) :
      LET sent == PutFrame(q, chain, room)
      IN IsPrefix(q, sent) /\ Last(sent) = FRAME_END

\* What the far end gets of a packet for which there is room is what it makes
\* of the packet's own bytes without the last one of each mbuf: nothing else is
\* lost, and nothing is escaped.  So no packet with data crosses whole, and the
\* bytes that were kept arrive as one frame exactly if none of them is a
\* FRAME_END or a FRAME_ESCAPE; otherwise they are cut up or shortened.
LineLosesLastBytes ==
  LET got == Unframed(PutFrame(<<>>, chain, Total(chain) + 2)).frames
      kept == FlattenSeq([i \in DOMAIN chain |->
                IF chain[i].bytes = <<>> THEN <<>> ELSE Front(chain[i].bytes)])
  IN chain # <<>> =>
       /\ got = Unframed(Append(kept, FRAME_END)).frames
       /\ Data(chain) # <<>> => got # <<Data(chain)>>
       /\ kept = <<>> => got = <<>>
       /\ kept # <<>> => (got = <<kept>> <=>
                            ToSet(kept) \cap {FRAME_END, FRAME_ESCAPE} = {})

\* What the far end can rely on: a frame ends where the packet ends, and what
\* is missing inside follows from its mbufs and the codes among its bytes.
LineFrames == FramesStayApart /\ LineLosesLastBytes
=============================================================================

----------------------------- MODULE MbufChain -----------------------------
(***************************************************************************)
(* The operations on mbuf chains of kern/uipc_mbuf.c and sys/mbuf.h.       *)
(*                                                                         *)
(* A chain is the sequence of its mbufs along m_next.  An mbuf is a record *)
(* of the M_PKTHDR and M_EXT bits, m_pkthdr.len, the place of m_data (from *)
(* m_dat, or from the start of the cluster) and the m_len bytes from there *)
(* on.  Bytes past m_len are not kept: one that becomes valid without      *)
(* being written, and the space M_PREPEND makes, is JUNK.                   *)
(*                                                                         *)
(* m_copyback and m_copym may put more bytes into an mbuf than it has room *)
(* for.  Such an mbuf keeps them all here; what they destroy behind it is  *)
(* not followed.                                                           *)
(*                                                                         *)
(* The lengths are parameters; in the code MSIZE makes MLEN 88, pkthdr 16  *)
(* and MCLBYTES 2048.  malloc is taken to succeed.  m_free and m_pullup,   *)
(* which no other file calls, are operators that no step applies.          *)
(***************************************************************************)
EXTENDS Integers, SequencesExt, FiniteSetsExt

CONSTANTS
  MLEN,       \* room of an mbuf without header
  PKTHDR,     \* sizeof(struct pkthdr)
  MCLBYTES,   \* room of a cluster
  LONG,       \* sizeof(long), to which MH_ALIGN rounds
  JUNK,       \* a byte nobody wrote
  MaxMbufs, MaxBytes, MaxOps  \* bounds on the chains that are built

MHLEN == MLEN - PKTHDR
MINCLSIZE == MHLEN + MLEN

ASSUME MbufAssumption ==
  /\ MLEN \in Nat /\ PKTHDR \in Nat /\ 0 < PKTHDR /\ PKTHDR < MLEN
  /\ MCLBYTES \in Nat /\ MCLBYTES >= MINCLSIZE
  /\ LONG \in Nat \ {0}
  /\ MaxMbufs \in Nat \ {0} /\ MaxBytes \in Nat /\ MaxOps \in Nat
  /\ JUNK \notin Nat

VARIABLES
  chain,  \* the chain the operations work on, <<>> for NULL
  ops     \* operations on it since it was allocated

vars == <<chain, ops>>

-----------------------------------------------------------------------------
(* Chains.                                                                 *)

Total(c) == FoldLeft(LAMBDA n, m : n + Len(m.bytes), 0, c)

\* The bytes of c[1] up to c[i].
Upto(c, i) == Total(SubSeq(c, 1, i))

\* Where the loop "while m_len < offset: offset -= m_len" stops.
At(c, offset) == Min({i \in DOMAIN c : Upto(c, i) >= offset})

\* struct mbuf: M_PKTHDR, M_EXT, m_pkthdr.len, the distance of m_data from the
\* start of M_dat, and the m_len bytes there.
Mbuf == [hdr : BOOLEAN, ext : BOOLEAN, plen : Int, off : Nat,
         bytes : Seq(Nat \cup {JUNK})]

MGET == [hdr |-> FALSE, ext |-> FALSE, plen |-> 0, off |-> 0, bytes |-> <<>>]
MGETHDR == [MGET EXCEPT !.hdr = TRUE, !.off = PKTHDR]
m_getclr == [MGET EXCEPT !.ext = TRUE]

Zeros(n) == [i \in 1..n |-> 0]

\* Mutant: m_cat believes a header that is not there.
m_cat_AnyHeader(c, d) ==
  [c EXCEPT ![1].plen = IF c[1].hdr THEN @ + d[1].plen ELSE @] \o d

m_cat(c, d) ==
  LET added == IF d[1].hdr THEN d[1].plen ELSE Total(d)
  IN [c EXCEPT ![1].plen = IF c[1].hdr THEN @ + added ELSE @] \o d

\* c with as many zeroed mbufs as missing bytes need, appended with m_cat.
Extended(c, missing) ==
  LET zeroed == [MGET EXCEPT !.bytes = Zeros(MLEN)]
      count == IF missing > 0 THEN (missing + MLEN - 1) \div MLEN ELSE 0
  IN FoldLeft(LAMBDA d, z : m_cat(d, <<z>>), c, [i \in 1..count |-> zeroed])

-----------------------------------------------------------------------------
(* Reading.                                                                *)
\* Mutant: the offset is not reset after the first mbuf.
m_copydata_KeepsOffset(c, offset, len) ==
  LET Step(s, m) ==
        IF s.skipping /\ Len(m.bytes) < s.offset
          THEN [s EXCEPT !.offset = @ - Len(m.bytes)]
          ELSE LET n == Max({0, Min({Len(m.bytes) - s.offset, s.len})})
               IN [skipping |-> FALSE, offset |-> s.offset, len |-> s.len - n,
                   cp |-> s.cp \o SubSeq(m.bytes, s.offset + 1, s.offset + n)]
  IN FoldLeft(Step, [skipping |-> TRUE, offset |-> offset, len |-> len,
                     cp |-> <<>>], c).cp

m_copydata(c, offset, len) ==
  LET Step(s, m) ==
        IF s.skipping /\ Len(m.bytes) < s.offset
          THEN [s EXCEPT !.offset = @ - Len(m.bytes)]
          ELSE LET n == Min({Len(m.bytes) - s.offset, s.len})
               IN [skipping |-> FALSE, offset |-> 0, len |-> s.len - n,
                   cp |-> s.cp \o SubSeq(m.bytes, s.offset + 1, s.offset + n)]
  IN FoldLeft(Step, [skipping |-> TRUE, offset |-> offset, len |-> len,
                     cp |-> <<>>], c).cp

\* Mutant: every mbuf after the first is copied whole.
Piece_Whole(c, i, offset, len) ==
  SubSeq(c[i].bytes, Max({offset - Upto(c, i - 1), 0}) + 1, Len(c[i].bytes))

\* The bytes of mbuf i of c that lie in the len bytes from offset on.
Piece(c, i, offset, len) ==
  LET start == Upto(c, i - 1)
  IN SubSeq(c[i].bytes, Max({offset - start, 0}) + 1,
            Min({offset + len - start, Len(c[i].bytes)}))

\* Mutant: the further mbufs are got with MGETHDR as well.
m_copym_AllHeaders(c, offset, len) ==
  IF len = 0 THEN [source |-> c, copy |-> <<MGETHDR>>]
  ELSE LET source == Extended(c, offset + len - Total(c))
           first == At(source, offset)
           last == At(source, offset + len)
       IN [source |-> source,
           copy |-> [i \in 1..(last - first + 1) |->
             [MGETHDR EXCEPT !.bytes = Piece(source, first + i - 1, offset, len)]]]

\* The source chain as m_copym leaves it, and the copy.  The m_len of the
\* copy is set after m_cat, so that its m_pkthdr.len stays 0.
m_copym(c, offset, len) ==
  IF len = 0 THEN [source |-> c, copy |-> <<MGETHDR>>]
  ELSE LET source == Extended(c, offset + len - Total(c))
           first == At(source, offset)
           last == At(source, offset + len)
       IN [source |-> source,
           copy |-> [i \in 1..(last - first + 1) |->
             [IF i = 1 THEN MGETHDR ELSE MGET
                EXCEPT !.bytes = Piece(source, first + i - 1, offset, len)]]]

-----------------------------------------------------------------------------
(* Building and changing.                                                  *)
\* Mutant: the first mbuf is taken to have the room of one without header.
m_devget_HeaderForgotten(buf) ==
  LET len == Len(buf)
      count == IF len > MLEN THEN (len - 1) \div MLEN ELSE 0
  IN [i \in 1..(count + 1) |->
       [IF i = 1 THEN [MGETHDR EXCEPT !.plen = len] ELSE MGET EXCEPT !.bytes =
          SubSeq(buf, (i - 1) * MLEN + 1, Min({len, i * MLEN}))]]

m_devget(buf) ==
  LET len == Len(buf)
      further == IF len >= MINCLSIZE THEN m_getclr ELSE MGET
      room == IF len >= MINCLSIZE THEN MCLBYTES ELSE MLEN
      count == IF len > MHLEN THEN (len - MHLEN + room - 1) \div room ELSE 0
      From(i) == MHLEN + (i - 2) * room
  IN [i \in 1..(count + 1) |->
       IF i = 1
         THEN [MGETHDR EXCEPT !.plen = len,
                              !.bytes = SubSeq(buf, 1, Min({len, MHLEN}))]
         ELSE [further EXCEPT !.bytes =
                 SubSeq(buf, From(i) + 1, Min({len, From(i) + room}))]]

\* Mutant: the mbufs in front of the cut keep their data.
TrimFront_OnlyLast(c, n) ==
  LET k == At(c, n)
      rest == n - Upto(c, k - 1)
      cut == [c EXCEPT ![k].off = @ + rest,
                       ![k].bytes = SubSeq(@, rest + 1, Len(@))]
  IN [cut EXCEPT ![1].plen = IF c[1].hdr THEN @ - n ELSE @]

\* n > 0 takes n bytes away from the front.  Otherwise the first mbuf that
\* is as long as what the mbufs before it leave of -n loses as much at its end.
TrimFront(c, n) ==
  LET k == At(c, n)
      rest == n - Upto(c, k - 1)
      cut == [i \in DOMAIN c |->
               IF i < k THEN [c[i] EXCEPT !.bytes = <<>>]
               ELSE IF i = k
                 THEN [c[i] EXCEPT !.off = @ + rest,
                         !.bytes = SubSeq(@, rest + 1, Len(@))]
               ELSE c[i]]
  IN [cut EXCEPT ![1].plen = IF c[1].hdr THEN @ - n ELSE @]

TrimBack(c, n) ==
  LET k == At(c, n)
      rest == n - Upto(c, k - 1)
  IN IF n > Total(c) THEN c
     ELSE [c EXCEPT ![k].bytes = SubSeq(@, 1, Len(@) - rest)]

m_adj(c, n) == IF n > 0 THEN TrimFront(c, n) ELSE TrimBack(c, -n)

\* What get_total_len returns, wherever m_data points.
get_total_len(m) ==
  IF m.hdr /\ ~m.ext THEN MHLEN ELSE IF m.ext /\ ~m.hdr THEN MCLBYTES ELSE MLEN

RoomUpto(c, i) ==
  FoldLeft(LAMBDA n, m : n + get_total_len(m), 0, SubSeq(c, 1, i))

\* The copy into one mbuf: as much of the len bytes at cp as fit after offset.
CopyInto(m, offset, len, cp) ==
  LET room == get_total_len(m)
      n == Min({room - offset, len})
      old == IF m.bytes = <<>> THEN Zeros(offset) ELSE m.bytes
      m_len == IF Len(old) < offset + len THEN Min({room, offset + len})
                                          ELSE Len(old)
  IN [m EXCEPT !.bytes = [b \in 1..m_len |->
       IF b > offset /\ b <= offset + n THEN cp[b - offset]
       ELSE IF b <= Len(old) THEN old[b] ELSE JUNK]]

\* The mbuf to begin with is found by the rooms, not by the data; cp is not
\* advanced from one mbuf to the next.
m_copyback(c, offset, cp) ==
  LET len == Len(cp)
      source == IF len = 0 THEN c
                ELSE Extended(c, offset + len - RoomUpto(c, Len(c)))
      first == Min({i \in DOMAIN source : RoomUpto(source, i) >= offset})
      last == Min({i \in DOMAIN source : RoomUpto(source, i) >= offset + len})
  IN IF len = 0 THEN c
     ELSE [i \in DOMAIN source |->
       IF i < first \/ i > last THEN source[i]
       ELSE IF i = first
         THEN CopyInto(source[i], offset - RoomUpto(source, i - 1), len, cp)
         ELSE CopyInto(source[i], 0,
                       offset + len - RoomUpto(source, i - 1), cp)]

M_LEADINGSPACE(m) ==
  IF m.ext THEN 0 ELSE IF m.hdr THEN m.off - PKTHDR ELSE m.off

Junk(n) == [i \in 1..n |-> JUNK]

\* Mutant: M_ALIGN, which reckons with the room of an mbuf without header.
MH_ALIGN_Plain(m, n) == [m EXCEPT !.off = @ + LONG * ((MLEN - n) \div LONG)]

\* n bytes at the end of an mbuf with a header, on a long boundary.
MH_ALIGN(m, n) == [m EXCEPT !.off = @ + LONG * ((MHLEN - n) \div LONG)]

\* The new mbuf takes the header over: m_pkthdr, M_PKTHDR and the place of the
\* data; the flag is then cleared in the old one.
M_COPY_PKTHDR(from) == [MGETHDR EXCEPT !.plen = from.plen]

\* MH_ALIGN is applied to an mbuf without header too.
m_prepend(c, n) ==
  LET new == IF c[1].hdr THEN M_COPY_PKTHDR(c[1]) ELSE MGET
      aligned == IF n < MHLEN THEN MH_ALIGN(new, n) ELSE new
  IN <<[aligned EXCEPT !.bytes = Junk(n)]>>
       \o [c EXCEPT ![1].hdr = FALSE, ![1].plen = 0]

\* Mutant: the leading space is not looked at.
M_PREPEND_InPlace(c, n) ==
  [c EXCEPT ![1].off = @ - n, ![1].bytes = Junk(n) \o @,
            ![1].plen = IF c[1].hdr THEN @ + n ELSE @]

M_PREPEND(c, n) ==
  LET d == IF M_LEADINGSPACE(c[1]) > n
             THEN [c EXCEPT ![1].off = @ - n, ![1].bytes = Junk(n) \o @]
             ELSE m_prepend(c, n)
  IN [d EXCEPT ![1].plen = IF d[1].hdr THEN @ + n ELSE @]

-----------------------------------------------------------------------------
(* Releasing the first mbuf, and pulling data up into it.                  *)

\* The mbuf that follows inherits the flags and, whatever it has, its header
\* is written: rcvif, the second half of the pkthdr, always, and the length
\* if there was one.  Without a header its data begins at that place.
Inherits(n, m) ==
  LET from == IF m.hdr THEN 0 ELSE PKTHDR \div 2
      Hit(b) == ~n.ext /\ n.off + b > from /\ n.off + b <= PKTHDR
  IN [n EXCEPT !.hdr = @ \/ m.hdr, !.ext = @ \/ m.ext,
        !.plen = IF m.hdr THEN m.plen - Len(m.bytes) ELSE @,
        !.bytes = [b \in DOMAIN @ |-> IF Hit(b) THEN JUNK ELSE @[b]]]

\* Mutant: the length goes on unchanged.
m_free_WholeLength(c) ==
  IF Len(c) < 2 THEN <<>>
  ELSE <<[Inherits(c[2], c[1]) EXCEPT !.plen = IF c[1].hdr THEN c[1].plen ELSE @]>>
         \o SubSeq(c, 3, Len(c))

\* What m_free returns: the rest of the chain.
m_free(c) ==
  IF Len(c) < 2 THEN <<>>
  ELSE <<Inherits(c[2], c[1])>> \o SubSeq(c, 3, Len(c))

\* Mutant: the number of bytes asked for is left alone.
Pulled_KeepsLen(c, n, len) ==
  LET Step(s, m) ==
        IF s.stop \/ Len(s.n.bytes) >= s.len THEN [s EXCEPT !.stop = TRUE]
        ELSE LET from == IF s.own THEN s.n ELSE m
                 k == Min({Len(from.bytes), s.len - Len(from.bytes)})
             IN IF k < 0 THEN [s EXCEPT !.stop = TRUE, !.trap = TRUE]
                ELSE [s EXCEPT !.own = FALSE,
                       !.n.bytes = @ \o SubSeq(from.bytes, 1, k)]
  IN FoldLeft(Step, [n |-> n, len |-> len, stop |-> FALSE, trap |-> FALSE,
                     own |-> ~c[1].ext], c)

\* The loop of m_pullup.  n is the first mbuf itself, or a new one in place
\* of a cluster.  The share of mbuf m is taken from m_len of m, not of n,
\* and len counts down although m_len of n counts up.  In the first round n
\* may be m itself, and its own data is doubled.  A negative share is a
\* memcpy of an enormous size.
Pulled(c, n, len) ==
  LET Step(s, m) ==
        IF s.stop \/ Len(s.n.bytes) >= s.len THEN [s EXCEPT !.stop = TRUE]
        ELSE LET from == IF s.own THEN s.n ELSE m
                 k == Min({Len(from.bytes), s.len - Len(from.bytes)})
             IN IF k < 0 THEN [s EXCEPT !.stop = TRUE, !.trap = TRUE]
                ELSE [s EXCEPT !.own = FALSE, !.len = @ - k,
                       !.n.bytes = @ \o SubSeq(from.bytes, 1, k)]
  IN FoldLeft(Step, [n |-> n, len |-> len, stop |-> FALSE, trap |-> FALSE,
                     own |-> ~c[1].ext], c)

\* What m_pullup returns, <<>> for NULL and for the memcpy that ends the
\* program.  The chain behind a cluster is not linked to the new mbuf.
m_pullup(c, len) ==
  LET n == IF c[1].ext THEN [MGETHDR EXCEPT !.plen = c[1].plen] ELSE c[1]
      s == Pulled(c, n, len)
  IN IF s.trap \/ Len(s.n.bytes) # s.len THEN <<>>
     ELSE <<s.n>> \o (IF c[1].ext THEN <<>> ELSE Tail(c))

-----------------------------------------------------------------------------
(* The comparison the tests use (test.c).                                  *)

\* Mutant: the chains are compared as far as the shorter goes.
mbuf_equal_Prefix(c, d) ==
  /\ c[1].hdr = d[1].hdr /\ c[1].ext = d[1].ext
  /\ \A i \in DOMAIN c \cap DOMAIN d : c[i].bytes = d[i].bytes

\* Flags of the first mbuf, then lengths and bytes mbuf by mbuf.
mbuf_equal(c, d) ==
  /\ c[1].hdr = d[1].hdr /\ c[1].ext = d[1].ext
  /\ [i \in DOMAIN c |-> c[i].bytes] = [i \in DOMAIN d |-> d[i].bytes]

-----------------------------------------------------------------------------
(* A program that builds chains with them.                                 *)

\* Received or copied-in bytes, all different.
Fill(n) == [i \in 1..n |-> i]

Small(c) == Len(c) <= MaxMbufs /\ Total(c) <= MaxBytes

Init == chain = <<>> /\ ops = 0

\* MGET and MGETHDR.
Get ==
  /\ chain = <<>>
  /\ chain' \in {<<MGET>>, <<MGETHDR>>}
  /\ ops' = 0

Devget ==
  /\ chain = <<>>
  /\ \E n \in 0..MaxBytes : chain' = m_devget(Fill(n)) /\ Small(chain')
  /\ ops' = 0

\* One more operation, which leaves c.
Becomes(c) ==
  /\ chain # <<>> /\ ops < MaxOps
  /\ Small(c)
  /\ chain' = c /\ ops' = ops + 1

Copyback ==
  \E offset \in 0..RoomUpto(chain, Len(chain)), n \in 1..(MLEN + 1) :
    Becomes(m_copyback(chain, offset, Fill(n)))

\* m_adj follows NULL when n exceeds the length of the chain.
Adj ==
  \E n \in -(Total(chain) + 1)..Total(chain) : Becomes(m_adj(chain, n))

Prepend == \E n \in 1..MHLEN : Becomes(M_PREPEND(chain, n))

\* A copy of part of the chain, appended to it or released.
Copym ==
  \E offset \in 0..Total(chain), len \in 0..(MLEN + 1) :
    LET r == m_copym(chain, offset, len)
    IN Becomes(r.source) \/ Becomes(m_cat(r.source, r.copy))

\* A received packet or an empty mbuf is appended.
Cat ==
  \E n \in 0..MaxBytes :
    Becomes(m_cat(chain, m_devget(Fill(n)))) \/ Becomes(m_cat(chain, <<MGET>>))

Freem == chain # <<>> /\ chain' = <<>> /\ ops' = 0

Next ==
  Get \/ Devget \/ Copyback \/ Adj \/ Prepend \/ Copym \/ Cat \/ Freem

Spec == Init /\ [][Next]_vars

-----------------------------------------------------------------------------
(* Properties.  Data(c) is the reference: a chain stands for its bytes,    *)
(* wherever the boundaries of its mbufs are.                               *)

Data(c) == FlattenSeq([i \in DOMAIN c |-> c[i].bytes])

Stretch(s, offset, len) == SubSeq(s, offset + 1, offset + len)

HasRoom(m) ==
  IF m.ext THEN Len(m.bytes) <= MCLBYTES - m.off
  ELSE /\ m.off >= (IF m.hdr THEN PKTHDR ELSE 0)
       /\ m.off + Len(m.bytes) <= MLEN

AllFit(c) == \A i \in DOMAIN c : HasRoom(c[i])

\* m_pkthdr.len of the chain is the length of its data.
LengthRight(c) == c # <<>> /\ c[1].hdr => c[1].plen = Total(c)

\* The chain is built of mbufs, no longer than the bounds.
TypeOK ==
  /\ chain \in Seq(Mbuf)
  /\ Small(chain) /\ ops \in 0..MaxOps
  /\ \A i \in DOMAIN chain : ~(chain[i].hdr /\ chain[i].ext)

\* m_copydata delivers exactly the bytes asked for, whatever the boundaries,
\* empty mbufs in front included.
CopydataExact ==
  \A offset \in 0..Total(chain) : \A len \in 0..(Total(chain) - offset) :
    m_copydata(chain, offset, len) = Stretch(Data(chain), offset, len)

\* m_copym delivers the bytes asked for, zeros where the source runs out; the
\* source keeps its data and is only ever lengthened by zeros.
CopymExact ==
  chain # <<>> =>
    \A offset \in 0..Total(chain), len \in 0..(2 * MLEN) :
      LET r == m_copym(chain, offset, len)
          added == Total(r.source) - Total(chain)
      IN  /\ Data(r.source) = Data(chain) \o Zeros(added)
          /\ offset + len <= Total(chain) => r.source = chain
          /\ Data(r.copy) = Stretch(Data(r.source), offset, len)

\* How many of the len bytes from offset on lie in mbuf i of c.
Share(c, i, offset, len) ==
  Cardinality(((offset + 1)..(offset + len))
                \cap ((Upto(c, i - 1) + 1)..Upto(c, i)))

\* A packet in mbufs without clusters that keep within their room.
IsPacket(c) == AllFit(c) /\ c[1].hdr /\ \A i \in DOMAIN c : ~c[i].ext

\* m_copym gives each mbuf of the copy the share of one mbuf of the source and
\* does not look at its room: the copy keeps within its mbufs exactly if the
\* first share is at most MHLEN and every other at most MLEN.  That is certain
\* for MHLEN bytes or less, and for the front of a packet without clusters.
\* The copy has a packet header whose length is 0 whatever was copied.
CopyFits ==
  chain # <<>> =>
    \A offset \in 0..Total(chain), len \in 1..(2 * MLEN) :
      LET r == m_copym(chain, offset, len)
          Room(i) == IF i = At(r.source, offset) THEN MHLEN ELSE MLEN
      IN  /\ AllFit(r.copy) <=>
               \A i \in DOMAIN r.source : Share(r.source, i, offset, len) <= Room(i)
          /\ len <= MHLEN => AllFit(r.copy)
          /\ offset = 0 /\ len <= Total(chain) /\ IsPacket(chain) => AllFit(r.copy)
          /\ r.copy[1].hdr /\ r.copy[1].plen = 0

\* Trimming at the front takes exactly n bytes, keeps every mbuf within its
\* room, and takes n off m_pkthdr.len; the space it frees serves M_PREPEND.
TrimFrontExact ==
  \A n \in 1..Total(chain) :
    LET c == m_adj(chain, n)
    IN  /\ Data(c) = Stretch(Data(chain), n, Total(chain) - n)
        /\ AllFit(chain) => AllFit(c)
        /\ LengthRight(chain) => LengthRight(c)

\* M_PREPEND makes n bytes in front of the same data, inside an mbuf, and
\* counts them in m_pkthdr.len, in place or with a new mbuf.
PrependExact ==
  chain # <<>> =>
    \A n \in 1..MHLEN :
      LET c == M_PREPEND(chain, n)
      IN  /\ Data(c) = Junk(n) \o Data(chain)
          /\ AllFit(chain) => AllFit(c)
          /\ LengthRight(chain) => LengthRight(c)
          /\ c[1].hdr <=> chain[1].hdr

\* A frame received while no chain is held: m_devget splits it into mbufs that
\* have the room, across the change to clusters, and counts it in m_pkthdr.len.
DevgetExact ==
  chain = <<>> =>
    \A n \in 0..(MINCLSIZE + MCLBYTES) :
      LET c == m_devget(Fill(n))
      IN  /\ Data(c) = Fill(n) /\ AllFit(c) /\ c[1].hdr /\ c[1].plen = n
          /\ \A i \in 2..Len(c) : c[i].bytes # <<>>

\* m_cat counts what it appends, once, with or without a header on it: the
\* length of the result is right whenever those of the two chains are.
CatCounts ==
  chain # <<>> =>
    \A n \in 0..MaxBytes :
      \A d \in {m_devget(Fill(n)), m_copyback(<<MGET>>, 0, Fill(n + 1))} :
        LengthRight(chain) => /\ LengthRight(m_cat(chain, d))
                              /\ Data(m_cat(chain, d)) = Data(chain) \o Data(d)

\* m_free passes the packet header on with the length of what is left, and
\* keeps that data; it destroys at most the part of it that lies where the
\* next mbuf has, or would have, a header.
FreeKeepsRest ==
  Len(chain) >= 2 =>
    LET c == m_free(chain)
        spoilt == IF chain[2].ext THEN 0
                ELSE Min({Max({PKTHDR - chain[2].off, 0}), Len(chain[2].bytes)})
    IN  /\ Total(c) = Total(Tail(chain))
        /\ Stretch(Data(c), spoilt, Total(c) - spoilt)
             = Stretch(Data(Tail(chain)), spoilt, Total(c) - spoilt)
        /\ chain[1].hdr /\ LengthRight(chain) => c[1].hdr /\ LengthRight(c)

\* m_pullup never pulls anything up: the first mbuf has the len bytes asked
\* for, the right ones, afterwards exactly if it had exactly those before.
PullupNeverPulls ==
  chain # <<>> /\ ~chain[1].ext =>
    \A len \in 1..(Total(chain) + 1) :
      LET r == m_pullup(chain, len)
          good == r # <<>> /\ Len(r[1].bytes) = len
      IN  /\ good <=> len = Len(chain[1].bytes)
          /\ good => r = chain

\* A copy of a whole chain that begins with a packet header is equal to it
\* by the tests' comparison, unless it ends in mbufs without data.
CopyIsEqual ==
  chain # <<>> /\ Total(chain) > 0 =>
    (mbuf_equal(chain, m_copym(chain, 0, Total(chain)).copy) <=>
       chain[1].hdr /\ ~chain[1].ext /\ chain[Len(chain)].bytes # <<>>)

\* The three ways to copy out of a chain agree on its bytes: m_copydata,
\* m_copym, and the comparison of the tests; and it is known when a copy by
\* m_copym is too long for its mbufs.
CopiesExact == CopydataExact /\ CopymExact /\ CopyFits /\ CopyIsEqual

\* The operations that link and unlink mbufs keep data and packet length:
\* m_cat, m_free and m_pullup.
RelinkingExact == CatCounts /\ FreeKeepsRest /\ PullupNeverPulls

-----------------------------------------------------------------------------
(* What the comments say and the code does not.                            *)

\* "copy len bytes data from cp to mbuf's offset position": the bytes are
\* found at the offset afterwards.
CopybackPlaces ==
  chain # <<>> =>
    \A offset \in 0..Total(chain), n \in 1..(MLEN + 1) :
      Stretch(Data(m_copyback(chain, offset, Fill(n))), offset, n) = Fill(n)
=============================================================================

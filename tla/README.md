# A TLA+ model of tcp_imple

`tcp_imple` is a port of the networking part of 4.4BSD-Lite (the code that
*TCP/IP Illustrated, Volume 2* explains) to a user program: Windows 10, Visual
Studio 2015, x64. `main.c` calls the handlers in the order of the book's
chapters. Nothing runs concurrently and nothing is written to disk: a handler
runs to completion, `spl` calls are absent. What is hard in this code is
therefore not locking (with one exception, the macros for socket buffers). It
is the order of legal calls (open, close, open again; attach, configure, take
down), who owns a packet or an address at each moment, state that one handler
leaves and another one trusts, the wakeups between a driver and its callee, and
lists and buffers at their limits.

## 1. Inventory

| component | state it keeps | operations | calls and is called by |
|---|---|---|---|
| packet queues, `net/if.h`, `if_qflush` in `net/if.c` | `ifq_head`, `ifq_tail`, `ifq_len`, `ifq_maxlen`, `ifq_drops`; `m_nextpkt` in the mbufs | `IF_QFULL`, `IF_DROP`, `IF_ENQUEUE`, `IF_PREPEND`, `IF_DEQUEUE`, `if_qflush` | used by every driver for `if_snd`, by the inputs for `ipintrq` and `arpintrq`, by SLIP for `sc_fastq` |
| SLIP input, `net/if_sl.c` | `sc_buf`, `sc_mp`, `sc_ep`, `sc_escape`, `SC_ERROR` | `slinput`, `sl_btom`, `slinit` | called by the tty driver per character; appends to `ipintrq` |
| SLIP output and attachment, `net/if_sl.c` | `t_sc`, `sc_ttyp`, `t_line`, `sc_fastq`, `if_snd`, `t_outq` | `slattach`, `slopen`, `slclose`, `sloutput`, `slstart`, `sltioctl`, `slioctl` | `sloutput` calls `slstart` when the tty is idle, the tty driver calls it back otherwise |
| interface list and ioctl, `net/if.c` | `ifnet`, `if_index`, `ifnet_addrs`, `if_addrlist`, `if_flags` | `if_attach`, `ifinit`, `ifunit`, `ifioctl`, `ifconf`, `if_up`, `if_down`, `ifa_ifwith*`, `ifaof_ifpforaddr`, the walks of `test.c` | drivers attach; ioctl goes down to `if_ioctl` or to the protocol |
| mbuf chains, `kern/uipc_mbuf.c`, `sys/mbuf.h` | chains through `m_next`, `m_pkthdr` | `MGET`, `MGETHDR`, `MFREE`, `M_PREPEND`, `m_free`, `m_copydata`, `m_copym`, `m_copyback`, `m_adj`, `m_cat`, `m_devget`, `m_prepend`, `m_pullup` | everybody |
| Ethernet, `net/if_ethersubr.c` | none of its own | `ether_output`, `ether_input`, `ether_ifattach` | driver below, `ipintrq` and `arpintrq` above |
| LANCE driver, `hp300/dev/if_le.c` | `sc_txcnt`, `sc_iflags`, `IFF_OACTIVE` | `leattach`, `leread`, `lestart`, `leioctl` | `ether_input`, `if_snd` |
| loopback, `net/if_loop.c` | none of its own | `loopattach`, `looutput`, `loioctl` | `ipintrq` |
| internet addresses, `netinet/in.c`, `in.h`, `in_var.h` | list `in_ifaddr`, `ifa_ifp`, `ia_dstaddr`, masks | `in_control`, `in_netof`, `in_canforward`, `in_localaddr`, `in_broadcast`, `INADDR_TO_IFP`, `IFP_TO_IA` | from `ifioctl`; the addresses are also on the lists of `net/if.c` |
| domains, `kern/uipc_domain.c`, `sys/protosw.h`, `sys/domain.h` | list `domains`, switch tables, `max_linkhdr`, `max_hdr`, `max_datalen` | `domaininit`, `pfslowtimo`, `pffasttimo`, `pffindtype`, `pffindproto`, `pfctlinput` | `if_down` calls `pfctlinput` |
| socket buffers, `sys/socketvar.h` | `sb_cc`, `sb_mbcnt`, `sb_mb`, `SB_LOCK`, `SB_WANT` | `sblock`, `sbunlock`, `sballoc`, `sbfree`, `sbspace`, `soreadable`, `sowriteable`, `sosendallatonce` | nothing in the repository; a socket finds its protocol through the switch |
| stubs: `kern/tty.c`, `kern/tty_subr.c`, `kern/kern_clock.c`, `net/slcompress.c`, `net/bpf.c`, `net/route.c`, `net/radix.c`, `netinet/ip_input.c`, `netinet/if_ether.c` | | bodies deleted, they return 0 or nothing | |

What makes each component correct, and what threatens it:

* *Queues.* The header describes a proper list; a packet is in one place; the
  limit holds, also when it changes; the drop count is exact. The threat is stale pointers: `IF_DEQUEUE` leaves
  `m_nextpkt` in the packet, and a queue that runs empty keeps `ifq_tail`.
* *SLIP input.* A packet is the frame that was sent, damaged frames make no
  packet, good frames are not lost. The threats are flags that outlive the
  frame or the line they belong to, and a buffer at its limit.
* *SLIP output.* A queued packet is sent, in order of its queue, on the line it was
  queued for, as a frame of its own. The
  threats are lost wakeups between `sloutput`, `slstart` and the tty driver, a
  unit that changes its tty, and clists that are full in the middle of a frame.
* *Registry and ioctl.* Numbers, table and lists agree; a search finds what the
  list holds. The threats are the table that grows, and searches that read
  fields nobody filled in.
* *mbufs.* Lengths in the header and in the chain agree; a chain operation
  returns the bytes it is documented to return, in mbufs that have room for them,
  and leaves the source intact.
* *Ethernet, LANCE, loopback.* A packet is released exactly once on every path and
  never while it is queued; the flag word follows the up and down transitions.
  The threats are storage that is handed out again while a queue refers to it,
  handlers that share `ipintrq` and its limit, error returns that treat the packet
  differently, and flags that two handlers write.
* *Addresses.* An address belongs to one interface and is on its list; a command
  that fails changes nothing. The threat is that two lists share the elements
  while the commands search only one of them.
* *Domains.* A protocol is initialised before it is called and hears of what
  concerns it.
* *Socket buffers.* One process at a time uses a locked buffer, sleepers are
  woken, and the counters say what the chain holds. The threats are a lock whose
  macro hides whether it was taken, and that the chain and its counters change in
  different steps.

The concrete hazards, each at its line, are in `PROJECT.json` under `hazards`.

## 2. Modules

| module | models | extends or uses |
|---|---|---|
| `PacketFifo` | what a packet queue promises: a bounded FIFO with a count of lost packets | |
| `IfQueue` | the macros of `net/if.h` and `if_qflush` on linked lists | refines `PacketFifo` |
| `IfQueueProofs` | theorems about `IfQueue` | `IfQueue` |
| `SlipInput` | `slinput`, `sl_btom`, `slinit`, `slopen`, `slclose` for the receive state of one unit | |
| `SlipInputProofs` | theorems about `SlipInput` | `SlipInput` |
| `SlipOutput` | `slopen`, `slclose`, `sloutput`, `slstart`, `if_down`, `SIOCSIFFLAGS` for several units and ttys | its queues are the FIFOs of `PacketFifo` |
| `SlipOutputProofs` | theorems about `SlipOutput` | `SlipOutput` |
| `MbufChain` | the operations on mbuf chains | |
| `SlipFrame` | the characters `slstart` makes of a chain, and the receiver of RFC 1055 | `MbufChain` |
| `MbufChainProofs` | theorems about `MbufChain` and `SlipFrame` | `SlipFrame`, `SequenceFacts` |
| `PacketFlow` | `ether_output`, `ether_input`, the LANCE driver, loopback, the flag word | |
| `PacketFlowProofs` | theorems about `PacketFlow` | `PacketFlow` |
| `IfRegistry` | `if_attach`, the searches of `net/if.c`, `ifconf`, the walks of `test.c` | |
| `InAddress` | classes, nets and broadcasts of an internet address | |
| `InControl` | `in_control` and `ifioctl` | `IfRegistry`, `InAddress` |
| `InControlProofs` | theorems about `InControl`, `IfRegistry`, `InAddress` | `InControl`, `SequenceFacts` |
| `ProtocolSwitch` | `kern/uipc_domain.c` | |
| `SocketBuffer` | the macros of `sys/socketvar.h` | `ProtocolSwitch` |
| `SocketBufferProofs` | theorems about `SocketBuffer` and `ProtocolSwitch` | `SocketBuffer`, `SequenceFacts` |
| `SequenceFacts` | lemmas about folds, `FlattenSeq`, `Max` and `Min`, sums and remainders | |
| `MCIfQueue`, `MCSlipInput`, `MCSlipOutput`, `MCMbufChain`, `MCPacketFlow`, `MCInControl`, `MCSocketBuffer` | instances for TLC | |

**`IfQueue`.** `head`, `tail`, `len`, `maxlen` and `drops` are the five fields of
`struct ifqueue` for every queue at once; `nextpkt` is the field `m_nextpkt` of
every packet, allocated or not, because storage that is reused brings its old
contents until `MGETHDR` clears the field. `held` are the packets in local
variables of handlers, `free` is what `malloc` may hand out. Each macro is an
action together with the `IF_QFULL` test its callers make. `IsList` says what
it means that a header denotes a sequence, and `Chain(q)` is that sequence; the
refinement mapping gives it to `PacketFifo`. The model assumes of the callers
that they enqueue and release only a packet they hold. `ether_output` does
not keep to that (it releases the packet it has just enqueued,
`if_ethersubr.c:126-140`); it is not part of this model but
of `PacketFlow`.

**`SlipInput`.** `buf` is the sequence from `sc_buf` to `sc_mp`. A character is
one of the four SLIP codes or `IP`, which stands for a byte with high nibble 4;
unescaped transposed codes stand for any other data byte. `damaged` is the
disjunction of the two conditions at lines 200-202. The statement
`c = *sc_buf & 0xf0` at line 242 overwrites the character, so after a packet
was handed over the code that stores a character stores the version byte;
the disjunct of `FrameEnd` that calls `HandToIp` ends with `Store(IP)` for that
reason. `frame`, `coded`, `hurt` and `before` are ghosts: they follow what the
peer sent by the rules of RFC 1055 and are not read by any action of the code.
`before` says what the line carried last: a frame that became a packet, one that was
thrown away, or, after `slopen`, whether the line that was closed before left a
damaged frame behind. `sl_btom` takes a cluster only for `MCLBYTES` bytes or more,
which no packet has (`if_sl.c:162-181`); it copies every packet into one mbuf with a
packet header (`MhLen` bytes of room): `spilled` is how many bytes of the
packet were written behind the room of that mbuf. What they destroy there is not
followed; the packet is handed on with all its bytes. `MGETHDR` always succeeds.

**`SlipOutput`.** `slstart` is a loop with a choice in every round, so a round is
one step; `running` names the tty it runs for, and no other handler starts
meanwhile. `c_cc` counts chunks of characters: what matters is whether
`t_outq` is empty, at most at `SLIP_HIWAT`, or above it. The tty driver and the
clists have empty bodies in the repository, so their effect on `c_cc` is a
choice: `t_oproc` may send any part of what is there, appending a frame may add
any number of chunks including none, the flushes of `slopen` and `slclose`
empty `t_outq` or do nothing. `SetLine` (the caller of `slopen` sets `t_line`)
and `TtyOutput` (the driver sends, and calls back `slstart` when it runs dry,
as the comment at `if_sl.c:50-52` says) are external. `line` is a ghost: the tty
for which a queued packet was accepted; the tty of a unit that is closed takes it
back. `sloutput` is one step up to its call of `slstart`, as nothing runs between
its test of `t_outq` and that call: whether a wakeup could be lost in a kernel
with interrupts between these two lines is not a question this model answers.

**`MbufChain`.** The operations are pure functions from chains to chains, one per
C function, and the state machine around them builds chains the way `main.c`
does: a chain is allocated or received, and operations are applied to it. An
mbuf is a record: its flags, `m_pkthdr.len`, the place of `m_data` and the
`m_len` bytes there. The C loops over `m_next` become sums of the lengths in
front: `At(c, offset)` is the mbuf at which the loop "while m_len < offset"
stops, `Upto(c, i)` what it has subtracted. Where a loop carries more than that
(`m_copydata`) it is a fold. A byte that becomes valid without being written is
`JUNK`, equal to no byte. A write past the end of an mbuf is kept as data that
is longer than the room, and what it destroys next to the mbuf is not followed;
`AllFit` says that a chain has no such mbuf.
`m_adj` with a length beyond the end of the chain and a copy from an offset
beyond it follow NULL in the code; the model applies neither. The reference
definitions use `Data(c)`, the bytes of a chain regardless of its boundaries.

**`SlipFrame`.** `PutFrame(q, c, room)` is the rest of `slstart`: what a chain `c`
adds to a `t_outq` that holds `q` when the clists have `room`. `putc`, `b_to_q` and
`unputc` are external (their bodies are deleted): `putc` fails and `b_to_q` copies
less when there is no room, which is what `slstart` tests for. `Unframed` is a
receiver by the rules of RFC 1055. In the code the `break` at a character to be
escaped leaves the `switch` and not the loop, so that `PutMbuf` has no case for it.
The state machine of `MbufChain` supplies the chains; `SlipOutput` says which
packet is next.

**`PacketFlow`.** An element of `Packets` is the storage of a packet. `malloc`
(`Build`) hands out any storage that is not allocated, also storage that a queue still
refers to: `ether_output` releases what it has put on `if_snd`, and the next packet
may be built there. `MGETHDR` then clears its `m_nextpkt`, and so changes the queue
it is on. For that reason the queues are those of `net/if.h`, followed link by
link (`Path`): a header, `nextpkt` of all storage, and a length; the pointers of an
empty queue, which nothing reads, are taken to be NULL. `free` leaves the contents of
storage alone, and a second `free` changes nothing; that is an assumption about the C
library, which may do anything then. `live` is what `malloc` handed out, `again` what
was freed twice, `leaked` what nobody refers to any more, `reused` whether `malloc`
has handed out storage that was on an `if_snd`; they are there for the properties,
and no guard of a handler reads them but that of `malloc`, which reads `live`. Where a
loop follows NULL, the program has `stopped`. One action is one handler: `leread`
with `ether_input`, `ether_output` with `lestart` and the release at `bad:`,
`looutput`, `SIOCSIFFLAGS` with `if_down` and the driver's ioctl. `Refused`,
`Unresolved`, `Full` and `Enqueued` are the returns of `ether_output`. The route
is a record of what `ether_output` reads from it; for `looutput` it is which of the
flags that make it refuse are set. `htons` and `ntohs` are what
`endian.h` makes of them on the numbers: the low byte shifted right by 8 is zero, and
the high byte shifted left by 8 is back where it was, so the low byte becomes zero. `leioctl` reads
`ifa_flags` of the `ifreq` it is passed as an `ifaddr`; what it finds there is a
choice. `Consume` stands for `ipintr` and `arpintr`, whose bodies are deleted, and
is external.

**`IfRegistry`, `InAddress`, `InControl`.** The linked lists `ifnet`, `if_addrlist`
and `in_ifaddr` are sequences of the same elements: an address (`struct ifaddr`) is
a member of `Addrs`, the link address of an interface has the interface's name.
`table` is `ifnet_addrs`, with its real length. The searches are operators on a
description `D` of the addresses, and answer `"trap"` where the code reads through a
null pointer. `in_control(cmd, i, state, arg)` has four disjuncts: refused (the
search has written `ia_ifp` all the same), on the address found, on a new address,
and commands that need none; `Refusal` is the order of the tests of the first
switch, with `ia->ia_ifp = ifp` and `so_state && SS_PRIV` as they are written.
`SIOCSIFDSTADDR` stores the destination, asks the driver, and stores the old one again
when the driver refuses. A call that traps ends the program, hence `Alive` and the
absence of deadlock checking. `ifconf` is a fold over the entries the two loops come to. A link address is longer than `struct sockaddr` (20 bytes, not 16), so it takes
the branch at `if.c:58-67`, which copies it whole into the caller's buffer and then
advances by the `sa_len` of the local `ifr`, which nothing has set when the link
address comes first (and it always does): `SaLens` is what may stand there. The entry
occupies 36 bytes and the test for space is that of an entry of 32, so with 33 to 35
bytes left the last ones are written behind the buffer; and the comparison of an `int`
with a `sizeof` takes a negative space for a large one (`Roomy`). The entries that are
stored have their place and size in the model, what they overwrite is not followed.
`InAddress` works on sequences of four bytes, so that `ntohl` can be what its shifts
do to the bytes.

**`ProtocolSwitch`, `SocketBuffer`.** A walk over the domains is the sequence of hooks
it calls, kept in `calls` until the next operation. The switch tables are a
parameter, because the uses of `ADDDOMAIN` are commented out together with the
tables. `pffindproto` takes a protocol and never looks at it: the first entry of the
family with the right type is returned for any protocol, which `DomainsReady` states.
`SocketBuffer` has processes, since the comments of the macros are about
processes: `sb_lock` sleeps and tests again, an interrupted sleep returns an error. The
value of the macro `sblock` is 0 in every case (`, 0)`), so a caller that was refused
passes as if it held the lock; `intruded` remembers that this happened since the
buffer was last empty. `sballoc` and `sbfree` only count: a caller links or takes an
mbuf in one step (`Links`, `Takes`, external) and counts it in another one
(`Counting`). `middle` holds the changes that are not counted yet, the last one first:
nothing sleeps between the two steps, so that all that comes in between is an
interrupt, or the upcall of a caller that does not wait, and that returns before what
it interrupted goes on. The counters are words modulo `WORD`.

## 3. Runs

| run | instance | shows |
|---|---|---|
| `queues` | two queues with limits 3 and 1, four packets, three drops, packets symmetric | all interleavings of the macros, including a packet that moves from one queue to the other through the heap; a queue of three has a first, a middle and a last element; queue 2 is full with one |
| `slip_input` | room for five characters, `ipintrq` limit 1, two packets | a frame of three leaves room for one more character of the next frame; one of four fills the buffer with the byte that is stored after it; one of five overflows there; two packets give one queued and one dropped |
| `slip_extra_frame` | the same | finding: a good frame is missed after a frame that was passed on |
| `slip_output` | two units, two ttys, one interactive and two bulk packets, high water mark 1 of 2 | double opens, closes with packets queued, both queues in use; safety and, under fairness, liveness |
| `slip_stale_fastq` | one unit, two ttys | finding: packets on `sc_fastq` survive the line |
| `mbuf_chains` | rooms 5, 3 (header) and 9 (cluster), up to three mbufs and nine bytes, two operations on a new chain; SLIP codes among the bytes | every operation, applied to each of these chains with all offsets and lengths in range, against its reference definition; the frame of each chain for every amount of room |
| `mbuf_copyback` | the same | finding about `m_copyback` |
| `packet_flow` | a LANCE and the loopback interface, three packets, queues of two, five routes, four types | every return of every handler, with `ipintrq` empty, in use and full, `ifinit` before, between and after the attachments; storage handed out again while it is on `if_snd` |
| `packet_release` | the same | finding: a packet on `if_snd` is not allocated |
| `interfaces` | a LANCE, a SLIP line and loopback; a table of one entry; two addresses, one value; ten quads | the table is doubled twice; every command on every interface and on a name that is not attached, with every privilege; one address moved between three interfaces, deleted and made again; `ifconf` with buffers that end inside, between and behind the entries |
| `in_control_address` | the same | finding: an address changes its interface |
| `sockets` | two domains (the tables quoted in `domain.h`), three processes, mbufs with and without cluster, three mbufs, 32 for 2^32 | one process inside, one asleep and one that intrudes; one interrupted by two others between an mbuf and its count; a buffer over its limits, so that the space is negative |

Bounds. `MaxDrops` bounds `ifq_drops`, `MaxPackets` bounds `if_ipackets` (both
are counters that nothing in the code reads), `MaxChars` bounds `t_outq`, which
the clist limit bounds in a real kernel, `MaxChain` the mbufs of a socket buffer.
All are guards of the actions that count. `MaxMbufs`, `MaxBytes` and `MaxOps` bound
the chains of `MbufChain`: three mbufs give a first, a middle and a last one, two
operations give trimmed, prepended, empty and joined mbufs in every place, and the
properties apply one more operation to each chain; all bytes copied in are
different, so that a byte at a wrong place is seen. The rooms keep the order of the
real ones (header < plain < header + plain <= cluster), and `LONG` is 2 so that
`MH_ALIGN` rounds. Three packets are enough for `PacketFlow`: two fill a queue and
one is in a handler's hands. Once storage on `if_snd` has been handed out again the
links may be anything; the constraint `MCAfterReuse` of the run `packet_flow` then
follows a state further only while nothing has been released twice and nothing is
forgotten (the states reached are checked all the same). That leaves the reuse itself, the
flush and the consumers after it; what holds after a reuse without this bound is
proved. Two elements of `Inets` are enough for `InControl`: that
a second one is never on the list is one of its properties, and proved for any
number. The quads contain addresses of every class as they are and as `ntohl` makes
them. The other sizes are limits of the code itself with small values.

Fairness. `FairSpec` of `SlipOutput` assumes that `slstart`, once called, runs
on (weak fairness: a handler runs to completion) and that a tty with characters
to send eventually sends some (strong fairness of `TtyOutput`: the interrupt
stays pending while another handler runs, so it is enabled again and again
rather than continuously). No fairness is assumed of `sloutput`, `slopen`,
`slclose` or of the ioctl. `FairSpec` of `SocketBuffer` assumes that a process counts
what it has changed (weak fairness of `Counting`) and that one that was woken runs (weak
fairness of `sb_lock`): that is what a scheduler gives to a runnable process. It assumes
further that a process inside, whose work is finite, leaves at one of the moments
when it can (strong fairness of `Unlocking`: between an mbuf and its count it cannot).
Nothing is assumed of those who lock.
`interfaces` does not check for deadlock, because a null pointer ends the program.

### What each property says

Each run also checks one type invariant. Properties that are conjunctions have their
parts named in the module.

* `WellLinked`, `OnePlace`, `ImplementsFifo` (`queues`): the linked
  list is what callers think it is. `OnePlace` is the ownership property;
  `ImplementsFifo` is order, limit and loss count.
* `OnlyWholeFrames`, `FirstFrameExact`, `OneFrameSwallowed`, `PacketsAccounted`
  (`slip_input`): what holds of packets in spite of the buffer that is not
  emptied. A packet *ends with* the frame that was just closed; it *is* that
  frame when no other packet was made since the buffer was emptied, and then overflows
  its mbuf just when the frame is longer than `MHLEN`. An error costs
  the frame it is in and at most one good one: behind a frame that was thrown away the
  next good one arrives; after a line that was closed in a damaged frame, whose
  `SC_ERROR` `slinit` does not clear, the first good frame is always lost, and the
  second one arrives.
* `LinkedBack`, `NoLostWakeup`, `BulkKeepsItsLine`, `QueuesDrain`
  (`slip_output`). `NoLostWakeup` is about both queues and the packets that were
  accepted for the tty the unit has; packets that a closed line left on `sc_fastq`
  may wait on an idle tty until `sloutput` is called again, which is a consequence of the
  finding `slip_stale_fastq`. `QueuesDrain` is two liveness properties. `BulkDrains`
  is conditional on interactive traffic pausing: the code lets it starve bulk
  traffic, by design. `FastDrains` has the same exception for packets that survived a
  close as `NoLostWakeup`: they drain when the tty has characters to send.
* `CopiesExact`, `TrimFrontExact`, `PrependExact`, `DevgetExact`, `RelinkingExact`
  (`mbuf_chains`): each operation does to the bytes what it should wherever the mbuf
  boundaries fall. `m_devget`, `M_PREPEND` and `m_adj` of a positive length stay within
  the room of every mbuf and keep a right `m_pkthdr.len` right. `m_copym` does neither:
  it puts the share of one source mbuf into one mbuf of the copy, so a copy fits
  exactly if each share does (`CopyFits`): always up to `MHLEN` bytes, and always for the
  front of a packet without clusters; and the length in its packet header is 0.
  `CopiesExact` also says what becomes of the source: nothing,
  or zeros at its end. `RelinkingExact` also says how much data the header written by
  `m_free` destroys, and that `m_pullup` never moves a byte. For `m_copyback` and
  `m_adj` of a negative length there is no such property, because they do not have it.
* `LineFrames` (`mbuf_chains`): however full the clists are, a frame ends with
  `FRAME_END` and leaves the frames before it alone; with room for all of it, the
  receiver makes of the frame what it makes of the bytes of the packet without the last
  one of each mbuf, unescaped. So no packet crosses whole, and what was kept arrives as
  one frame exactly if no `FRAME_END` or `FRAME_ESCAPE` is among it; the run has chains
  with these codes.
* `InputQueuesSound` (`packet_flow`): the input queues stay within the limit in force,
  and none of what is on them is ARP, because `ntohs` clears the low byte of the type;
  and as long as no storage that is on an `if_snd` has been handed out again, what a
  protocol takes off its queue is allocated, there once, and on no other queue. From
  then on it may also be on the way out of an interface, and released by a flush.
* `ReleasedOrKept`: any error but `ENETDOWN` has released the packet; until the first
  such reuse, a live packet is on an input queue or was forgotten on one of three named
  paths. `ReleasedTwice`: what was freed before is freed again by `if_qflush`, and after
  a reuse by the consumers of the input queues, and by nobody else. `QueuesWalkable`: the
  loops that follow `m_nextpkt` by count come to a NULL only after a reuse has cut a
  list. `FramesStuck`: once a received frame has overwritten the flag word its flags do not
  come back, no sequence of calls makes an interface running, and `if_snd` only grows
  until the interface is taken down.
* `TableFaithful`, `ListedOnOneInterface`, `LastCallerOwnsAll`, `FailureKeepsDst`
  (`interfaces`): numbers, table and lists agree; an address on `in_ifaddr` is on the
  list of one interface, although `SIOCDIFADDR` searches the list of another one;
  there is one address and the last caller owns it; a failed command leaves the
  destinations alone, also one that stored its destination before the driver refused it.
* `AnswersAgree`: which interfaces and addresses each search finds, for every order of
  attachment, and where it traps instead; which entries `ifconf` stores in a buffer of any
  size, where they lie, given the length that was never set, and when it stops; no
  search for an internet address by family,
  net or interface finds one, because `in_ifinit` sets no family. `InternetClasses`: what follows for nets,
  forwarding, local addresses and broadcasts from byte order macros that lose bytes
  and from fields that `in_ifinit` never fills in.
* `DomainsReady`, `LockDiscipline`, `CountsTrusted`, `SleepersWake` (`sockets`):
  protocols are called after their initialisation; exclusion holds from the moment all
  have left until the next intruder, the lock is not left set and nobody sleeps
  unknown; the counters agree with the chain but for the mbufs that somebody has linked
  or taken and not yet counted, although exclusion does not hold, and without an
  intruder that is one mbuf at most; when nobody is between the two, what select
  reports is true; sleepers are woken.

### Findings

1. `slip_extra_frame`: `slinput` falls through to the code that stores a character
   after it has handed a frame over. The next frame is appended to the old one, or
   the buffer overflows and the next good frame is missed, which the comment at
   `if_sl.c:305` says is avoided.
2. `slip_stale_fastq`: `slclose` flushes `if_snd`, not `sc_fastq`.
3. `mbuf_copyback`: `m_copyback` does not advance its source pointer, so that the
   second mbuf gets the first bytes again.
4. `packet_release`: `ether_output` releases the packet it has put on `if_snd`
   (`if_ethersubr.c:139`).
5. `in_control_address`: `in_control` assigns the interface where it should compare
   (`in.c:145`), so any command takes the first address over.

More disagreements were met and have no run of their own. They are modelled as the
code has them; where a property states the consequence it is named.

* SLIP: `sc_escape`, "=1 if last char input was FRAME_ESCAPE" (`if_slvar.h:21`), survives
  a damaged character (harmless, by `OnlyWholeFrames`). `slattach` puts `SC_NOICMP`
  in `sc_flags`, `sloutput` looks in `if_flags` (`if_sl.c:116`, 348). `slstart`
  escapes nothing and loses the last character of every mbuf (`if_sl.c:461-471`;
  `LineFrames`). `SC_ERROR` outlives the line (`slinit`, `if_sl.c:150-160`;
  `OneFrameSwallowed`). `sl_btom` copies a packet of any length up to `SLMAX` into one
  mbuf with a packet header, which holds `MHLEN` bytes (`if_sl.c:171`;
  `FirstFrameExact`).
* mbufs: `m_copym` copies the bytes of one source mbuf, a cluster included, into one
  mbuf of the copy without looking at its room (`uipc_mbuf.c:283-291`), and leaves
  the length in the header of the copy 0 (both `CopiesExact`); `m_copyback` does not touch `m_pkthdr.len`, "total packet length", and measures
  room from `m_data` although `m_adj` has moved it (`uipc_mbuf.c:197`); `m_adj` of a
  negative length shortens the first mbuf that is long enough, not the last one
  (`uipc_mbuf.c:95`); `M_COPYALL`, "length to m_copy to copy all" (`mbuf.h:306`), is an
  ordinary length to `m_copym`, which lengthens its source to that many bytes;
  `m_free` writes a header over data, `m_pullup` never pulls up (`RelinkingExact`).
* Ethernet: storage that is still on `if_snd` is handed out to the next packet, which
  may go to `ipintrq` and is then on two queues, although `m_nextpkt` is the "next chain
  in queue/record" (`mbuf.h:47`; without its hypothesis `~reused` the last part of
  `InputQueuesSound` is false); `htons`, `ntohs` and `ntohl` lose bytes (`endian.h`; `InputQueuesSound`,
  `InternetClasses`); a runt is counted and passed on; a received frame brings an
  interface up that was taken down (`if_le.c:121`); the loopback interface drops
  everything until the first Ethernet frame sets the limit of `ipintrq`;
  `arpresolve`, said to take a packet over (`if_ether.c:109-114`), keeps nothing
  (`ReleasedOrKept`).
* Interfaces: `ifioctl` reads through the null result of `ifunit` (`if.c:139`); `ifconf`
  takes the list of addresses once for all interfaces, through a null pointer when there
  is none (`if.c:33`), writes behind the buffer when 33 to 35 bytes are left, and
  goes on when the space is negative; behind a link address it advances by a length
  nothing has set (`if.c:64`), so that the next entry is not where `print_ifconf`
  looks for it (`test.c:270-276`); `ifa_ifwithaddr`
  compares through the null `ifa_dstaddr` (`if.c:310`); `if_down` passes an address
  structure where `pfctlinput` expects a socket address (`if.c:82`); the scan of
  `test.c:166` reads past a full table (all `AnswersAgree`, but for `if_down`).
* Addresses: `so_state && SS_PRIV` (`in.c:169`) lets every socket with any state pass;
  `ia` is read while null (`in.c:160`); `SIOCSIFDSTADDR` on an interface that is not
  point-to-point makes an address and then answers `EINVAL`; `in_broadcast` ends
  without a value (`InternetClasses`).
* Domains and sockets: the four uses of `ADDDOMAIN` do not compile and are commented
  out, and nothing calls `domaininit`; `pffindproto` ignores its protocol
  (`DomainsReady`); `sblock`, said to return an error
  (`socketvar.h:140`), is always 0 (`LockDiscipline`).

## 4. Proofs

`IfQueueProofs` proves for every set of packets and queues, all limits and every
`MaxDrops`: `TypeCorrect`, `ListsWellLinked`, `PacketsInOnePlace`,
`QueuesBounded` and `Refinement` (`Spec => Fifo!Spec`). The only assumption is `IfQueueAssumption`.

The inductive invariant is

    IInv == TypeOK /\ WellLinked /\ OnePlace /\ Bounded /\ LimitKnown

`WellLinked` alone is not inductive. An operation on queue `q` writes
`m_nextpkt` of the packet and of `ifq_tail`; that this leaves the list of
another queue alone needs the queues to be disjoint, and that the packet can
be linked in at all needs it to be on no queue: both are parts of `OnePlace`.
`LimitKnown` (the limit is 0 or the configured one) is there for `SetMaxlen`,
which must not cut below the length. The argument runs over sequences: two
sequences that are lists of the same header are equal (`ListUnique`, by the
least index at which they differ), so `Chain(q)` is determined by exhibiting
a list. `ListAppend`, `ListPrepend`, `ListTail`, `ListSingleton` say what each
macro does to one list, `ListFrame` that a list not touched stays a list, and
`EnqueueChains`, `PrependChains`, `DequeueChains`, `FlushChains` combine them
per operation. These four are used twice: for the invariant and for the
refinement.

`SlipOutputProofs` proves, from `SlipOutputAssumption` alone, for any number of
units, ttys and packets, that `SlipOutput` keeps its types and that `LinkedBack`,
`NoLostWakeup` (`WakeupsNotLost`) and `BulkKeepsItsLine` are invariants. The inductive
invariant is

    IInv == /\ TypeOK /\ LinkedBack /\ AwakeOrServed /\ Apart
            /\ LinesKnown /\ BulkHasALine /\ BulkKeepsItsLine

The parts support each other. `AwakeOrServed` is `NoLostWakeup` for all ttys but the
one `slstart` is running for. That a unit is closed and the ttys of the others stay
awake needs `LinkedBack` and, for the packets of the others, `Apart`. `slopen` gives a
unit that still has packets on `sc_fastq` to a tty that may be idle: these were not
accepted for it, by `LinesKnown`. That the `if_snd` of a unit just taken by `slopen` is
empty needs `BulkHasALine`: what is on it was accepted for some tty.

`InControlProofs` proves, from `IfRegistryAssumption` and `InControlAssumption`, for
any number of interfaces and addresses and any initial size of the table:
`TypeCorrect`, `TableAgrees` (`TableFaithful`), `AddressOnOneList`
(`ListedOnOneInterface`), `LastCallerOwnsOnly` (`LastCallerOwnsAll`),
`FailureIsHarmless` (`FailureKeepsDst`), and besides `InterfacesStay`: an interface
keeps its place and its number. The inductive invariant is

    IInv == TypeOK /\ NumbersMatchTable /\ RestIsClear /\ OneAddressOnly /\ Owned /\ HeadOwned

`ListedOnOneInterface` is not inductive: an address that `SIOCDIFADDR` took off
`in_ifaddr` may stay on the list of an interface for ever, and storage that was never
handed out must be on no list when it is. `Owned` says this of all storage. It needs
`OneAddressOnly`, without which `SIOCDIFADDR` could take an address off `in_ifaddr`
twice, and it is `HeadOwned` that makes the last caller the owner. The steps that
touch the table need `RestIsClear` for the entry that is about to be written. The
lemmas about `RemoveFirst` are proved there from the definitions.

`InControlProofs` also proves `ClassesOfAddresses` (`InternetClasses`) and
`CallersAreTold` (`AnswersAgree`). Both follow from the same invariant; the work is in
the searches, which are minima and maxima over sets of places and sequences of
sequences: the first match, the last match, and what is found when every list holds at
most one entry. `ifconf` is a fold, whose rounds are followed as below; that the
first entry is a link address and no other one (`LinksFirst`) says where the
uninitialised length is used.

`SlipInputProofs` proves, for any size of the buffer, any limit of `ipintrq` and any
number of packets, `TypeCorrect`, `NoPacketUncounted` (`PacketsAccounted`), and the
action properties `DamageStopsPackets` (`OnlyWholeFrames`), `FirstFrameUnchanged`
(`FirstFrameExact`) and `GoodFramesArrive` (`OneFrameSwallowed`). The inductive invariant
is

    IInv == TypeOK /\ PacketsAccounted /\ ErrorKnown /\ BufferKnown

It relates the state of the code to what the peer sent. `BufferKnown` says that the
buffer of an open line without `SC_ERROR` ends with the frame, and is the frame unless
the last `FRAME_END` made a packet. `ErrorKnown` says when `SC_ERROR` is set: in a
damaged frame, or behind a line that was closed in one, and in no other case unless
a packet came before, whose bytes may make the buffer overflow. `BufferKnown` is false
in one case: a line closed behind a
`FRAME_ESCAPE` leaves `sc_escape` set, and a frame that begins with a transposed code
after the line is opened again is stored as another character. `Garbled` names that case: such a frame does not begin with `IP`,
nor does the buffer, so no packet comes of it.

`PacketFlowProofs` proves, for any number of Ethernets, packets, types, routes and
requests and any limits: `TypeCorrect`, `InputQueuesAreSound` (`InputQueuesSound`),
`EveryPacketIsReleasedOrKept` (`ReleasedOrKept`), `OnlyTheseReleaseTwice`
(`ReleasedTwice`), `FlushesEnd` (`QueuesWalkable`) and `InterfacesStop`
(`FramesStuck`). The inductive invariant is

    IInv == Kept /\ OtherTypes /\ NeverRunning /\ ErrorReleases /\ InputBounded
    Kept == QueueTypes /\ TailsKnown /\ Whole /\ QueuesWalkable /\ ArpNeverArrives

`Whole` is the part about a program in which no storage on an `if_snd` has been handed
out: the headers and links then denote sequences that have no packet in common, the
input queue of IP and the packets forgotten by the three paths share out what is
allocated, and nothing allocated is on an `if_snd`, because `ether_output` has released
whatever it leaves there. The sequences are those that the loops of the code come
across, step by step. After a reuse only the rest of `Kept` is left: that a queue with
a length has a tail (`TailsKnown`) is what keeps `IF_ENQUEUE` from writing through NULL
then, too. `NeverRunning` is needed because `lestart` would otherwise take released
storage off `if_snd` and give it to the device; that no sequence of calls sets
`IFF_RUNNING` is a consequence of `leinit` being a stub, and of `IFF_CANTCHANGE`.

`MbufChainProofs` proves, for mbufs and clusters of any size and chains of any length:
`TypeCorrect`, `FrontIsTrimmedExactly` (`TrimFrontExact`), `PrependsExactly`
(`PrependExact`), `ReceivesExactly` (`DevgetExact`), `CopiesAreExact` (`CopiesExact`),
`RelinkingIsExact` (`RelinkingExact`) and `FramesOnTheLine` (`LineFrames`). `TypeOK` is
inductive as it stands: every operation gives a sequence of mbufs without one that has
both a packet header and a cluster. Each of the other properties follows from it in one
state. The argument is the same for every operation: a chain is *laid out* over a
sequence of bytes (`LaidOut`) when mbuf `i` holds the bytes from `Upto(c, i - 1) + 1`
on, and an operation is exact when the chain it makes is laid out over the right bytes.
That a copy by `m_copym` fits exactly if each share does (`CopyFits`, a part of
`CopiesAreExact`) is read off the same layout. `m_adj`, `m_copydata` and `m_copym` find the mbuf where something begins or
ends as a least number, and the lemmas about them say what lies in front of it and
behind it. `FramesOnTheLine` goes through `slstart` character by character: what is on
the clist after each `putc` begins with what was there, and the receiver, fed the frame,
collects the front of every mbuf. It does not need the four codes to differ.

`SocketBufferProofs` proves, for any number of processes, any tables and sizes:
`TypeCorrect`, `LockSound` (`LockDiscipline`, in parts `Exclusion`, `LockNotLeftSet`,
`NobodySleepsUnknown`), `CountersFollow` (`CountsMatchChain`), `BehindByOneAtMost`,
`SelectTrusted` (`CountsTrusted`), `HeadersAlwaysFit` and `DomainsAlwaysReady`
(`DomainsReady`, with `InitialisedFirst` as a part). The inductive invariant has parts
that no action ties together: one of the switch (`SwitchInv`), one of the counters
(`CountInv`), one of the lock (`LockInv == LockReleased /\ HolderAlone /\
SleepersFlagged`), and `MiddleKnown`. An intruder that unlocks the buffer of another
leaves that process inside an unlocked buffer, which is why `HolderAlone` is
conditional, while `SleepersFlagged` is not: `SB_WANT` stands for all sleepers and is
cleared only together with waking them. `SwitchInv` keeps that the calls made last are
one of the walks of `uipc_domain.c` over the domains linked, and `ready` all entries of
these.

`CountInv` says that a counter is what the chain holds less what was linked and not
counted, and more what was taken and not counted, *modulo the word*, for any even
word. Its proof weighs the chain and `middle` as two sums: linking and taking change
both by the same mbuf, counting changes `middle` and the counter. That an mbuf may be
counted off before it was counted in is why it must be modulo the word. `MiddleKnown`
says that whoever is in the middle is inside, and is there once; with exclusion it gives
`BehindByOne`. That `select` may trust the counters when nobody is in the middle is
not an invariant for all constants, and `SelectTrusted` has two hypotheses for it.
`CountersSuffice` says that the limits, and the sums over `MaxChain` mbufs, are below
half a word, and `sb_lowat` is not zero. `DatagramsAreAtomic` says that every protocol a
socket can have is atomic or needs a connection, as are those of the table that
`sys/domain.h` keeps in a comment. Both hold in the instance of the run `sockets`.

*Assumptions.* The theorems use the named assumption of each module and no other. Some
of them exist for the proofs and are evaluated by TLC with the rest:
`MaxMbufs > 0` (a bound of zero would leave no room for the first chain), a sequence of
addresses is a sequence of its elements, and `NULL` is no domain and no entry.

*Folds.* The values of a fold over a chain are defined recursively in the community
modules. The induction theorems of the library take an operator as a parameter and
cannot be used, so `SequenceFacts` states induction for *sets* of numbers (`UpTo`: a set
that has 0 and with each `k < n` also `k + 1` has all of `0..n`) and recursion as the
existence of a function (`RecursionExists`). `FoldExists`, `SumExists` and
`FlattenJoins` give the rounds of a fold as a function of the number of elements
consumed, and a lemma per operation is then proved round by round.

*Only model-checked.* The liveness properties `QueuesDrain` and `SleepersWake`, which
the provers cannot treat, and the disagreements of the runs that expect a violation.
Every invariant and every action property of the other runs is stated by a theorem.

## 5. What is not modelled

About a quarter of the repository's lines of C are code that does anything: most files
were stripped to declarations, comments, constants and functions whose bodies are
deleted. Counting functions with statements and macros of several lines there are
about 3200 such lines; the modules stand for about three quarters of them. The rest,
and what is left out of the parts that are modelled:

* The stubs of the table in section 1: there is no behaviour in them. What the
  tty and clist stubs would do is a choice in `SlipOutput` and external in `SlipFrame`;
  `ipintr` and `arpintr` are `Consume` in `PacketFlow`. `in_ifinit`, `in_ifscrub`,
  `leinit`, `lereset`, `leput`, `ifafree`, `rtalloc1` and `arpresolve` answer what
  their stubs answer.
* The functions of `test.c` that print fields (some 200 lines), the rest of `main.c`,
  the BPF taps, the statistics other than the ones named above, `if_metric`.
* Macros that no code uses: the encoding of `slcompress.c`, the buffer rotation of
  `bpf.c`, the multicast lists of `in_var.h` (behind `#ifdef KERNEL`, which no build
  defines), the time arithmetic of `kern_clock.c` and `time.h`.
* `if_slowtimo`: nothing sets `if_timer` or `if_watchdog`, and its own timeout is
  commented out. The loop of `ether_ifattach` starts from a null pointer and never
  runs.
* `MCLALLOC` and `MCLFREE` in SLIP, which work on an array `mclrefcnt` that nothing
  allocates and, in `slclose`, on a buffer that came from `malloc`: the effect is
  undefined and not represented. `slclose` is modelled as if it had returned.
* Failure of `malloc`, which the drivers do not test for consistently. Flags of an
  mbuf other than `M_PKTHDR` and `M_EXT`.
* `dom_init`, `sorwakeup` and the connection queues of a socket: the functions they
  call or serve are not in the repository.

## 6. Plan

1. Done: every component of section 1 that has behaviour.
2. Done: theorems for every invariant and every action property of the passing runs.
3. Left: an abstract specification of the receiver (frames in, packets out, an error
   that costs one frame at most), and `SlipInput` shown to implement it; its five
   theorems are the parts of the argument.
4. Left: `m_copyback` and `m_adj` of a negative length, of which only the disagreement
   is recorded: for which offsets and layouts of a chain they do what they say, as a
   property of the run `mbuf_chains` and a theorem.
5. Left: that a queue of `SlipOutput` implements a queue of `PacketFifo`, with its steps
   mapped as those of `IfQueue` are.

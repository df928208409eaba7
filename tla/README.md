# Verification of socketlab

TLA+ models of the programs and libraries of this repository, the TLC
configurations that check them on small instances, and TLAPS proofs of what
holds for every value of the constants. `PROJECT.json` lists components, runs,
mutants, hazards and theorems, and maps each definition to the lines it models.

## 1. The system and its parts

socketlab is a collection of network programs in C and C++ over a few small
libraries. Most programs show one system call. The parts with logic of their
own are these.

| Part | State | Operations | What is hard | What makes it right |
|---|---|---|---|---|
| File-transfer server `src/ft/ft-server.c` | global `buf` and `msg`, `client_fd` of `main`, the working directory, one thread per connection | accept loop; `response_ls/pwd/cd/get/put/exit` | threads share the buffers, `client_fd` and the directory; a client may leave at any time | each command gets its own answer; files arrive whole; a session ends when its client does |
| File-transfer client `src/ft/ft-client.c` | `server_fd`, the command in progress | `open ls pwd cd get put exit`, SIGINT | coalesced and short `recv`s, end of stream, interrupts | a command returns to the prompt with nothing left on the wire |
| `packet_buff` (`lib/netpackets`) | pointers, three `uint32_t` fields, a data area | `pktb_alloc/free/reset/push/pop` | exact fits, zero lengths, two fields updated apart | pointers stay inside; behaves as a stack of bytes |
| Echo servers `echo-server.c`, `mp-echo-server.c`, `epoll-echo-server.c`, `select-echo-server.c`, with `echo-client.c` | descriptor tables, watched descriptors, children, a pending SIGCHLD | accept, poll, fork, read, write back, close, reap | events handled after the state they reported, coalesced signals, resets, SIGPIPE | each client gets its own bytes back in order; descriptors and children are released |
| `simplesocket` (`Socket`, `TcpSocket`, `InetAddr`) | a descriptor per object | open, move, close, destruction, recv/send | objects moved into threads, reuse of descriptor numbers | one owner per descriptor, closed once |
| `simple_log` | the sink: FILE, name, ownership | `set_log_file`, `set_log_os`, logging | sequences of settings, failing `fopen` | never writes to or closes a closed FILE |
| `send_icmp_echo.c` (ping) | sequence numbers, counters, times | send, receive with timeout, report | late replies after a timeout | the statistics agree with what happened |
| `arping`, `arp_scan` | the target, a receive timeout, an address range | send, match replies | foreign replies, ends of the range | answers belong to the request |
| `nl_get_ipaddr.c` | the multipart dump | recvmsg loop | where NLMSG_DONE is in a batch | the loop ends |
| `op-server.c`, `op-client.c` | the request received so far | count, operands, operator, result | partial reads, clients that leave | the result is that of the client's own request |
| `uecho-server.c`, `uecho-client.c` | none but the datagrams under way | one datagram each way per line | loss, duplication, reordering | a client sees its own lines |
| `mp-cs.c`, `os_exec` of `util.c` | child processes | fork, connect, wait | who runs first, interrupted waits | parent and children end |
| IPv4 and ICMP checksums, `crc16.cpp` | none | pure functions | carries, byte order, tables | equal to a reference definition |

The parts interact little: the file-transfer client and server over TCP and
the shared header `ft.h`; the client uses `minish` for its prompt and
`tcp_connected` of `include/common.c`; `send_vlan.c` and the other senders build
packets with `packet_buff`; the polling servers and `mp-cs.c` start with
`server()` of `common.c`; ping and the netlink tool log through `simple_log`.

The hazards, with the line where each one bites and the properties aimed at
it, are in `PROJECT.json`. The file transfer has most of them, so it comes first.

## 2. The plan

Done:

1. `FtWire`, `FtServer`, `FtClient`, `Ft`, and `FtProofs`: type correctness and
   the handle invariant.
2. `PacketStack`, `PacketBuff`: the buffer and the stack it implements.
3. `EchoNet` (TCP, descriptor tables and the client), `EchoService` (what an
   echo server promises), `EchoServers` (the four servers) and `SimpleSocket` (the
   two servers on socket objects), both shown to implement `EchoService`.
4. `Ping`, `ArpScan`, `NetlinkDump`: the programs that probe a network or the
   kernel, composed by `MCProbes`.
5. `SimpleLog`, `OpServer`, `MpCs`, `UdpEcho`, `OsExec`, `Checksums`, composed by
   `MCTools`.

6. The proofs: `NatLemmas` (induction and counting), `FtProofs` and `FtSyncProofs`,
   `PacketProofs` (the buffer, the checksums and the CRCs), `EchoNetProofs` with
   `EchoServersProofs` and `SimpleSocketProofs`, `ToolsProofs`.

Every safety property that a passing run checks is now also a theorem. What stays
with TLC, and why, is at the end of section 7.

## 3. The file-transfer modules and the code

`FtWire` holds the connections, `FtServer` and `FtClient` the two programs,
`Ft` composes them and states the properties.

**Cells.** The byte stream is a sequence of cells. A cell is a run of bytes that
the programs treat as one thing: a request with its argument, zero padding, a
file header, a piece of a file, a line of text, the END byte. `BufUnits` is the
number of cells in `BUF_SIZE`. The last cell of each `send` is marked, so that a
`recv` returns some number of whole sends, cut off at the size of the buffer;
with `SplitSends` it may also stop inside a send. A cell is never split: a `recv`
that ends inside a 9-byte header or a file name is not represented.

**Steps.** A handler is cut at its socket calls and wherever it comes back to
something it left in a shared buffer. Between `recv` and `switch(buf[0])`
(`SessionRecv`, then one of the `response_` actions), between `sprintf` and
`send` (`Fill`, `Send`), and between the header of `get` and `fopen` (`Fopen`)
another thread can run, and the thread then acts on what it finds in `buf` or
`msg`. The filling of a buffer by one call is one step.

| Variable | Code |
|---|---|
| `net[k]` | connection k: `c2s`, `s2c` bytes in flight, which ends are open, reset |
| `backlog`, `nconn` | listen queue; connections made |
| `up` | is the server process alive |
| `main` | the accept loop; `main.fd` is the local `client_fd` whose address every thread gets |
| `th[i]` | session thread i: place, `client_fd`, `n`, the answer being sent, the open file |
| `buf`, `msg` | the global buffers |
| `fs`, `cwd` | the server's files; the working directory of the process |
| `cl[c]` | a client process: place, `server_fd`, all sockets it opened, the command, what it printed or wrote |

**Undefined behaviour and failures.** `buf[n] = 0` with `n = BUF_SIZE` or `-1`
misses `buf`: `Overrun` lets it hit `msg` or nothing. A wrapped length given to
`fwrite`, a NULL stream, an out-of-range index into `ft_request_str` that
faults, and SIGPIPE end the process (`Crash`, or `Die` for a client). Closing a
socket with unread data is an abortive close; it may lose what the peer has
not read yet. `recv` on a reset connection returns an error or 0; a second `send`
to a peer that is gone may raise SIGPIPE. The kernel's TCP and the file system
are modelled from how the programs use them and marked external in the map.

**Files.** Writes become visible at `fclose`; `fopen(.., "wb")` empties the file
at once. A directory passes `access` and `fopen` for reading, has a size
(`DirSize`) and delivers nothing. `get_file_size` of a missing file is 0, so a
put of a missing local file sends a header and dies at the NULL stream.

## 4. PacketBuff

Addresses are offsets from the data area, the three `uint32_t` fields are kept
modulo `U32`. The actions are the five functions; `pktb_alloc` may fail; `Pack` is
the user writing a byte into a header it pushed. `ret` records the last call
and the position it returned. `PacketStack` says what the buffer promises: the
packet that is transmitted, `data[0 .. data_len)`, grows and shrinks at its end,
new bytes have any value, a refused call changes nothing. The refinement
mapping reads the packet from `mem` and the room from `capacity`.

## 5. The other modules and the code

**`EchoNet`, `EchoServers`.** The stream is made of numbered cells, so that a
cell that is lost, repeated or given to the wrong client is seen. Each process
has a descriptor table with lowest-number allocation; fork copies it, and a
connection is closed when no table and no accept queue refers to it (`Retab`),
abortively when input was unread. A reset shows first as one failed call, then
as end of stream, then as SIGPIPE. `kind` selects the server: `iter`
(`echo-server.c`), `fork`, `epoll` or `select`. What they have in common, reading,
writing back and closing, is one set of actions; what differs are the loops
around it: `Accept`/`Fork`/`ParentCloses`, or `Poll` with a batch of events that
`AcceptEvent` and `ClientEvent` work off. `childproc` is the SIGCHLD handler:
`chld` is one pending signal however many children ended (`merged` counts the
others). `addr_sz` says whether the uninitialised length that
`mp-echo-server.c` gives to `accept` is one that accept takes.

**`SimpleSocket`.** `obj[o]` is `_fd` of a socket object. `Close`, `Destroy`,
`MoveCtor` and `MoveAssign` are functions on objects and descriptors, and the
actions of the two programs compose them as the C++ statements do: accept
returns a temporary, the assignment closes what the object held, the temporary
is destroyed, and the thread gets the descriptor by two moves.

**`Ping`.** One round of `ping()` is a send and a receive; the raw socket's queue
holds late replies, replies to other pings, the request itself on loopback
and errors. The doubles of the running mean and of the sum of squares are exact
rationals, so that Welford's update can be compared with the definition.

**`ArpScan`.** Host numbers run from 1 to `HostNum - 1`; each has three tries,
and every frame that arrives uses one up. Answers are in time, late or never.

**`NetlinkDump`.** A datagram is a sequence of messages. The kernel cuts the dump
as it likes and ends it with NLMSG_DONE in a datagram of its own or (`joins`) at
the end of the last batch, or answers with an error.

**`SimpleLog`.** Streams are numbered, so that a closed one differs from one
opened later. The program may hand any stream to the sink and close streams;
`misuse` records that it broke the contract (it closed the sink's stream, as
`cleanup()` of `nl_get_ipaddr.c` does, or handed the sink its own stream or name).

**`OpServer`**, **`UdpEcho`**, **`MpCs`**, **`OsExec`** have one action per system
call or loop iteration. **`Checksums`** are operators on byte sequences: a
`uint16_t` is stored low byte first, as on the machines the code is built for,
so that a missing `htons` shows. The operator `^` is defined by the bits of its
operands (`Xor`), and each loop over bytes is `Loop` of what one byte does (`Add`,
`Lookup`, `Byte1021`).

The programs of `MCProbes` share nothing, nor do those of `MCTools`: a behaviour
of the composition is a behaviour of one of them, chosen in `Init`.

## 6. The runs

| Run | Expected | Question |
|---|---|---|
| `ft_single` | pass | One client, any four commands and interrupts at any point: are answers and transfers right, does each command return, does exit end the session, does only a broken-off command kill the server? |
| `ft_orderly` | pass | Two clients that wait for each other: does the sharing of `buf`, `msg`, `client_fd` and the directory stay harmless? |
| `ft_shared_buf` | violation of `AnswersCommand` | Two clients at once: one prints the answer to the other's request. |
| `ft_shared_fd` | violation of `SessionOwnsFd` | Two connections in quick succession are served by two threads on one descriptor. |
| `ft_ctrl_c` | violation of `QuitEndsSession` | C-c in the middle of a command: the session's thread never ends. |
| `ft_short_recv` | violation of `CommandReturns` | A request delivered in parts: a command is never answered. |
| `ft_get_dir` | violation of `CommandReturns` | `get` of a directory: the client waits for ever. |
| `packet_buff` | pass | Every sequence of calls keeps the pointers in the data area and behaves as a stack. |
| `echo_servers` | pass | Each echo server, two clients that come, write and leave as they like: does it echo, in order, and release what it took? |
| `simple_socket` | pass | Socket objects moved between statements and threads, three clients: has every descriptor one owner, and does every session serve its own client? |
| `probes` | pass | Do ping, arp_scan and the address dump report what happened, and do they end? |
| `tools` | pass | The log sink, calculator, UDP echo, mp-cs, os_exec, checksums and CRCs. |

The five violations are listed as findings with the documentation they contradict.

**Properties of the passing runs.** `HandlesHeld`: no handler uses a file,
answer, length or connection it does not have. `PromptInSync`: at the prompt
nothing of the last command is left on the wire. `AnswersCommand`, `GetDelivers`,
`PutStores`: what a returning command has printed, written or stored is what
the server has. `CommandReturns`, `ExitEndsSession`: liveness. `DeathNeedsAbort`:
only a client that broke off can bring the server down. `SessionOwnsFd`: one
thread per connection. `PointersInData` and `ImplementsStack` for the buffer.

`DescriptorsAccounted`: no server process holds a descriptor longer than its
code needs it, and what is watched is what is open. `EventsStayTrue`: an event of
a batch is still true when its turn comes, so no handler blocks the loop.
`KilledByAbort`: SIGPIPE ends a server only if a client has left with echoes
outstanding, and never the parent of the forking server.
`ZombieOnlyIfMerged`: a child stays a zombie only if its SIGCHLD merged with
another. `EchoesInOrder`, `ObjEchoesInOrder`: `EchoService` is implemented.
`ClientsServed` (`EchoArrives`, `Released`) and its counterpart `ObjClientsServed`:
liveness. `OwnedOnce`: no descriptor is in two objects, and
every open one is in some object. `SessionKeepsPeer`: the descriptor of a
session is that of its client until it closes it.

`StatsAreTheSample`: the counters, extremes, mean and sum of squares of ping are
those of the times measured. `LineNamesItsReply`: a line names the sequence
number of the packet it was printed for unless something was late or foreign.
`MissNeedsNoise`: a host that is there is missed only if other frames or late
answers used up its tries. `ScanSound`: only hosts that answered are reported.
`DumpComplete`: addresses are logged once and in order. `ToolEnds`: ping and the
scan end; the dump ends exactly if NLMSG_DONE comes first in a datagram.

`SinkSound`: without misuse the sink uses open streams only, owns what it opened
and closes it once. `OpAnswersRight`, `UdpEchoMatches`: answers belong to
requests. `ChecksumsVerify`: the receiver's test of RFC 1071 accepts what is
sent. `CrcAgrees`: the CRCs equal their bit-by-bit definitions and have the values
that the comments of `main` give. `McsInStep`: client and server of `mp-cs.c` take
turns, and its parent ends last. `ExecSafe`: the argument array of `os_exec` ends in
NULL, and no child is left behind without a signal. `ToolsFinish`: each program
ends, or waits where its source lets it wait for ever.

**Bounds.** `ft_single`: buffers of 3 cells and files of 0 to 5 cells cover an
empty file, less than, exactly, one more than and nearly two buffers, with the
header and the first data in one `recv` or in several. One file, two directories
and a name that is neither give every branch of the handlers. Four commands
are `open` and three more: two that can disturb each other and one that
observes. `ft_orderly`: two cells and two clients with two commands each (`open`
and one more, so that a session always finds what the other left in the
buffers). `SizeMod` (2^32 in the code) is above every size used: the runs say
nothing of files that do not fit the header. `packet_buff`: capacities 0, 1 and 4,
lengths 0, 1, 2 and 5 make pushes and pops that fit exactly, fall short and exceed.
`echo_servers`: two clients that write up to two cells each, buffers of one cell and four descriptors (listener, epoll and two
connections): lines longer than a buffer, a reset with data in both directions
and two children that end together all occur. `simple_socket`: three clients, of
which two write (two cells and one), and three descriptors, one fewer than all
at once would take, so that numbers are reused while other sessions run and
`accept` also fails. `probes`: three rounds of
ping with two foreign packets, a /30 network with three foreign frames and one
late answer, up to three addresses in batches of two. `tools`: four streams and
one file name; two clients with up to two operands; two UDP clients with two
lines, one loss and one duplicate; 0 to 17 arguments, around the array of 16; data
of one byte of every value and of up to six bytes at the edges.

**Assumptions of the passing runs.** `SplitSends = FALSE`: a send is never
delivered in parts unless the buffer is too small. TCP does not promise this;
`ft_short_recv` shows what happens without it. `Orderly = TRUE` in `ft_orderly`:
nobody types before everybody else is answered and the server waits, nobody
opens twice, uploads a missing file or interrupts. `ft_shared_buf` and
`ft_shared_fd` show that the discipline is needed.

**Deadlock** is checked for `packet_buff` only. Elsewhere the system may stop: the
users may have typed their last line and the programs may have ended. That they
do not stop too early is what the liveness properties say.

**Fairness.** Weak fairness for the accept loop, for each session thread and
for the steps each client takes by itself: they are threads and processes
under a preemptive scheduler, and blocking calls are disabled actions. Nothing
forces a user to type, so commands and interrupts have no fairness. The safety
violations are checked without fairness. The same holds of the echo servers and
the socket objects: fairness for each server process or thread, for the signal
handler and for a client's read, none for connecting, writing and leaving. In
`probes` the receives of ping and arp_scan have timeouts and the kernel works off
a dump, so the programs are fair; no packet has to arrive, except an answer that
is counted as one in time. In `tools` the processes are fair, a datagram that is
not lost arrives, and the users of `op-client` finish or abort their input.

**What the runs show beside the findings.** Some properties hold only with an
exception that is the code's. `multi()` of `op-server.c` starts at index 0: its
result has the first operand twice. `pack_ipv4_hdr` stores the checksum without
`htons`, which `config_ip4_hdr` of `send_ipv4.c` does: its header verifies only if
the two bytes are equal. Both checksums add an odd last byte as a low one, where
RFC 1071 pads behind it. A timed-out ping is counted neither as received nor as
lost, a packet that is no reply as both. arp_scan spends a try on every ARP
frame. The address dump waits for ever when NLMSG_DONE comes at the end of a
batch or the kernel answers with an error. `op-server.c` spins when a client
leaves before it has sent anything. `mp-cs.c` hangs when its client is first.
`os_exec` gives up on EINTR and retries everything else. A duplicate datagram
puts `uecho-client.c` out of step for good.

## 7. The proofs

Every theorem below holds for every value of the constants that satisfies the
named assumptions; TLC evaluates those on each run, and the runs check each
property, and most of the inductive invariants were checked with TLC before
they were proved, on small instances. An invariant of a run is seldom
inductive; what had to be added to it is what the argument is about.

| Module | Theorem | States | Inductive invariant |
|---|---|---|---|
| `FtProofs` | `TypeCorrect`, `HandlesSafe` | `TypeOK`, `HandlesHeld` | `Inv` |
| | `OrderlySessionsOwn` | `SessionOwnsFd`, if `Orderly` | `Inv /\ OwnInv` |
| `FtSyncProofs` | `PromptsInSync`, `DeathsNeedAbort` | `PromptInSync`, `DeathNeedsAbort`, under `FairUse` | `Inv /\ SyncInv` |
| | `CommandsAnswered`, `GetsDeliver`, `PutsStore` | the action properties `AnswersCommand`, `GetDelivers`, `PutStores`, under `FairUse` | the same |
| `PacketProofs` | `PointersSafe`, `BuffImplementsStack` | `PointersInData`, the refinement of `PacketStack` | `PointersInData` |
| | `ChecksumsVerified`, `CrcsAgree` | `ChecksumsVerify`, `CrcAgrees` | `DataType` |
| | `HeadersVerify`, `RequestVerifies`, `DataVerifies` | what a receiver accepts: for all headers, requests with data of even length, and data | |
| | `TablesAreModbus`, `RemainderZero` | what the two CRCs compute, for all data | |
| `EchoServersProofs` | `NoDescriptorLeaks`, `ReportedEventsStayTrue`, `OnlyAbortsKill`, `ZombiesNeedMergers` | the four invariants of the run | `EchoInv` |
| | `ServersEcho` | the refinement of `EchoService` | the same |
| `SimpleSocketProofs` | `EveryFdHasOneOwner`, `SessionsKeepTheirPeer`, `ObjectServersEcho` | the two invariants and the refinement of `EchoService` | `SockInv` |
| `ToolsProofs` | `ScanIsSound`, `MissesNeedNoise` | `ScanSound`, `MissNeedsNoise` | `ScanInv`, `MissInv` |
| | `StatsAreRight`, `LinesNameReplies` | `StatsAreTheSample`, `LineNamesItsReply` | `PingInv`, `InStep` |
| | `DumpsAreComplete` | `DumpComplete` | `DumpInv` |
| | `SinkOwnsItsStream`, `UdpClientsMatch` | `SinkSound`, `UdpEchoMatches` | `LogInv`, `UdpInv` |
| | `CalculatorAnswersRight` | `OpAnswersRight` | `OpInv` |
| | `McsTakesTurns`, `McsStuckForEver` | `McsInStep`; there is no way out of `McsStuck` | `McsInv` |
| | `ExecIsSafe` | `ExecSafe` | `ExecInv` |

**`FtProofs`** holds for any set of clients, any number of connections, any buffer
size, split or whole deliveries, and users that are orderly or not. The
inductive invariant of the first two theorems is `Inv == TypeOK /\ HandlesHeld`.
`TypeOK` alone is not inductive: `Fread` applies `fs[dir][file]` and `PutClose`
writes it, which has the right type only if the thread's file is a name of a
file that exists; `Fill` and `Send` take the head of `todo`; `PutRest` and
`PutWrite` cut `buf` at `n`. `HandlesHeld` says exactly that these exist, and it
depends on the types in turn. It also relates threads to each other: a file one
thread reads must not become `Absent` by another thread's `put`, which holds
because `fopen "wb"` empties and never removes. There is one lemma per action,
and frame lemmas (`HeldFrame`, `SessionFrame`, `ClientFrame`, `ClientMove`) for what
the others keep. Assumptions: `WireAssumption`, `NamesAssumption`,
`ServerAssumption`, `ClientAssumption`, `FtAssumption`. They only say that the
bounds are numbers, the names of files and directories differ, and `Absent` is
not a content.

`OrderlySessionsOwn`: with orderly users each session has a connection of its own
although every thread reads it from `main`'s `client_fd`. `OwnInv` adds `OneEnters`: at
most one connection is on its way from the backlog over `client_fd` to a thread.

**`FtSyncProofs`** is about the protocol. Its theorems hold under

    FairUse == SplitSends = FALSE, (Orderly \/ MaxConns = 1), every size < SizeMod

which is what the runs `ft_single` and `ft_orderly` have in common. No part can be
dropped: `ft_short_recv` violates a property where sends may be split, `ft_shared_buf` and `ft_shared_fd`
where users are not orderly, and a file of `SizeMod` cells or more is announced
modulo `SizeMod`. `GetsDeliver` also needs `Targets \cap Dirs = {}`, as `ft_get_dir` shows.
The inductive invariant `SyncInv` is `Together \/ BrokenOff`. `Together` says that the server
is up, that the k-th connection is served by the k-th thread (`Entering`), that no
two clients share a connection (`Owners`), that at most one client is not `Calm`,
and that each client, its thread, its connection and the shared `buf` and `msg` are
`InStep`. `InStep` has one case for each point of the client and describes for each
point of the thread where the request or the answer is: in the user's hands, on
the stream, in `buf`, or in the thread's list of sends (`Asked`, `Answered`, `Heading`,
`Getting`, `Putting`). This is where the shared buffers are accounted for: what one
thread has put into `buf` or `msg` stays there until it is sent because all the others
are calm. `BrokenOff` is for the user of the only connection who interrupts a
command: he is gone, nobody else can connect, and nothing more is promised. For
each step of the programs one lemma shows that `InStep` is kept; the action
properties follow from `Together` at the step in which a command returns
(`ReturnsBy`, `ReturnsWith`).

**`PacketProofs`** rests for the buffer on `PacketAssumption`: the header and the data
area together are smaller than 2^32, so that the `uint32_t` fields do not wrap.
`PointersInData` is inductive as it stands. The refinement uses it to turn the
code's pointer comparisons into the stack's lengths, and has one case per call.

For the checksums it rests on `SumAssumption`: lengths are passed as `uint16_t`, so
that the `uint32_t` sum of at most 32768 groups does not wrap (`SumBound`). All facts
about them hold for every sequence of bytes; the specification adds only that
`data` is one (`DataType`). Four ideas carry the proofs.

- `Loop` has values, one for each number of elements (`Computes`), and two loops
  over sequences that begin alike take the same ones. `LoopIsRun` gets them by
  induction; with them every fact about a loop is a fact about one step.
- `^` gives a word with the bits one expects (`XorBits`), words with the same bits are
  equal (`SameBits`), and from these two `^` is commutative, associative, its own
  inverse, and linear under halving and doubling.
- A shift of a CRC is linear, so that a byte is eight shifts of the register's lower
  byte, added to its upper byte (`ByteLinear`). Each of the 256 entries of the two
  tables is what eight shifts make of its index: `TableEntry` says so in the
  index's eight bits, `ByteIsTable` shifts these, and `LookupRight` puts both
  together. For `iot_calc_crc16` the CRC's own upper byte cancels the register's,
  twice, and leaves 0 (`RemainderZero`).
- 2^16 is 1 modulo 65535, so that folding the carries keeps the sum of the groups
  modulo 65535, and the complement completes it to a multiple (`Completes`);
  `Appended` follows the sum as a header is put together. The header of
  `pack_ipv4_hdr` has the bytes of the checksum exchanged, and two bytes and their
  exchange differ by less than 65535 unless they are equal.

**`EchoNetProofs`** has what the echo servers and the socket objects share. `InPlace`
says where the cells of each client are: those it has received, those on their
way back, those in the buffer of the process that serves it and those on their
way there are, one after the other, what it has sent, and a server process that
still refers to a connection is the one to serve it. The lemmas show that each
step of a client, a `read` and a `write` of a server keep it. Assumption:
`EchoNetAssumption`.

**`EchoServersProofs`**: `EchoInv` is `InPlace` with, for each of the four servers, where
`main` can be with which descriptors open (`MainAt`), that what is watched is what is
open (`WatchAt`), what a child holds (`KidsAt`), and why events stay true, signals are
owed and processes were killed. The properties need each other: that an event
of a batch is still true needs that only this process reads, which needs the
descriptor table; the refinement needs that buffers are empty except between a
`read` and its `write`. `EchoServersAssumption` takes `MaxFd >= MaxConns + 4`, so that
descriptors never run out; the code has no such limit of its own, and what
happens when `accept` fails for that reason is not modelled (section 8).

**`SimpleSocketProofs`**: `SockInv` is `InPlace` with what each of the objects `sock`,
`clnt_sock`, the temporary of `accept` and those of the threads can hold at each
point of `main` (`Up`), and that nothing is open once the process ended (`Down`). Here
descriptors may run out. Assumptions: `SimpleSocketAssumption`, `EchoNetAssumption`.

**`ToolsProofs`**: `ScanInv` adds to `ScanSound` that the tries are those counted
and replies are true. `MissInv` counts: the frames under way are at most the
foreign and late ones and the answer waited for, and for a host that is there as
many answers are under way as tries were made; so a host is missed only if others
used up its tries. `PingInv` states mean and sum of squares as exact fractions of
sums over the sample; it rests on the recurrences `MeanStep` and `SquaresStep`.
`InStep` says that without foreign packets or timeouts the packet waited for is
the one asked for last.

`DumpInv` says for the address dump that the first `a` addresses are logged, that
the buffer has the messages of those from there to `b`, and that each datagram in
the socket begins where the one before ended, so that nothing is behind the one
that begins with `DONE`. `Joined` describes the library's `FlattenSeq`, of which
`Wanted`, the lines there should be, is made. These are theorems of `MCProbes`.

`LogInv` adds to `SinkSound` that an owned stream was opened by the log and that
`stdout` never becomes its own. `UdpInv` bounds the copies of each datagram by
what was duplicated.

`OpInv` follows each request of the calculator: whole on the stream until the
server counts it, then its operands and operator are what `opmsg` and the stream
make together (`OnItsWay`), whatever a `read` returns; and a client is in the
backlog once and not when it is served (`Queued`). `AddIsSum`, `SubIsDifference`
and `MultiIsProduct` say what the loops of `add`, `sub` and `multi` compute, by
induction over the operands. `SinkOwnsItsStream`, `UdpClientsMatch` and
`CalculatorAnswersRight` are theorems of `LogSpec`, `UdpSpec` and `OpSpec`, the
components' own specifications, as those about `MpCs`, `OsExec` and `Checksums` are
of `McsSpec`, `ExecSpec` and `SumSpec`: in `MCTools` a behaviour is one of one of them.

`McsInv` adds to `McsInStep` where the one process can be when the other is not yet
or no longer connected. No step leads out of `McsStuck`, so it
lasts; `McsInv` says that the parent has not ended in it.
`ExecInv` counts the elements of the array and says that there is a child when
`os_exec` waits; the theorem has no bound on the arguments given.

Assumptions: `PingAssumption`, `ArpScanAssumption` (`MaskNum` at least 1, as
`1U << 32` is undefined), `NetlinkAssumption`, `LogAssumption`, `UdpAssumption`,
`OpAssumption`, `McsAssumption`, `ExecAssumption` (the last two: bounds are numbers).

**`NatLemmas`**: the library's induction theorems take an operator as a parameter,
which the provers cannot instantiate. `LeastNat` gets round it: a non-empty set of
naturals has a least element (from `NatLessThanWellFounded`); and `SetInduction`
is induction for a set instead of a predicate. With them the functions of the
model that are recursive over data (`SumTo`, the partial sums of a sample;
`Occurs`, the occurrences in a sequence; the loops of the calculator) are computed
for every input.

Only model-checked: the liveness properties (`CommandReturns`, `ExitEndsSession`,
`ClientsServed`, `ObjClientsServed`, `ToolEnds`, `ToolsFinish`), as temporal
reasoning under fairness and `ENABLED` are out of the prover's reach.

## 8. Not modelled

In the file transfer: `help` and commands with a missing argument, which only
print; the uninitialised address length given to `accept`; splits inside a
header; a local file that changes between `stat` and `fread`; reuse of descriptor
numbers after a close; a `fopen(.., "wb")` that fails followed by a zero-length
write and a later crash, which is one crashing step here. The client's local
copy is what `get` wrote (`out`); local disk errors are left out. `open` without
closing the connection before it is modelled (`fds`), with no property on it.

In the echo servers: `accept`, `epoll_wait` and `select` that fail for lack of
resources (descriptors are bounded so that they suffice), the byte that
`buf[buf_len] = 0` writes past a full buffer in the epoll server, a partial
`write`, and more than one line per character of input. In the socket objects:
the vector whose size `Socket::read` sets by undefined behaviour is taken as
libstdc++ leaves it, a vector of the bytes read; `setnonblocking`, which no
program calls, and a second `open` of an object, which none makes. In ping:
rounding of doubles, `mdev` of a sample of one (0/0), the copy of 26 bytes out of
a shorter packet. In `simple_log`: formats, time stamps, `%m`, the hexdump, a
`fopen` that fails (nothing changes), and use from several threads. In
`op-server.c`: overflow of `int`, counts above 127, and requests longer than the
buffer.

Left out as parts: `arping.c` and `arping1`, which print frames; the Ethernet
and VLAN headers, a few stores of constants; `sock_if.c` and `helper.c`, wrappers
of `ioctl` and printing; `round_two`, `reverse32`, the string and dump helpers of
`util.c`; `daemon.c`; and the demonstrations of single system calls.

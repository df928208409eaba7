------------------------------- MODULE FtWire -------------------------------
(***************************************************************************)
(* The TCP connections between the file-transfer clients and the server,   *)
(* as src/ft uses them: connect/accept, send, recv and close.              *)
(*                                                                         *)
(* The byte stream is abstracted to cells.  A cell stands for a run of     *)
(* bytes that the programs treat as one thing: a request byte with its     *)
(* argument, zero padding, a header, a piece of a file, one line of text,  *)
(* the END byte.  BufUnits is the number of cells that fill the            *)
(* BUF_SIZE-byte buffers of both programs.                                 *)
(***************************************************************************)
EXTENDS Integers, Sequences

CONSTANTS
    Files,      \* names of regular files
    Dirs,       \* names of directories
    NoSuch,     \* a name that is neither
    None,       \* the empty argument
    MaxConns,   \* bound: connections (and so session threads) per behaviour
    BufUnits,   \* BUF_SIZE in cells
    SplitSends, \* may one send() be delivered by several recv()s although
                \* the receiver's buffer is large enough?
    SizeMod     \* 2^32: the file sizes on the wire go through htonl()

ASSUME WireAssumption ==
    /\ MaxConns \in Nat \ {0}
    /\ BufUnits \in Nat \ {0}
    /\ SplitSends \in BOOLEAN
    /\ SizeMod \in Nat \ {0}

ASSUME NamesAssumption == NoSuch \notin Files \cup Dirs \cup {None}

VARIABLES
    net,      \* net[k]: both directions and both ends of connection k
    nconn,    \* connections made so far; connection k is the k-th
    backlog,  \* completed connections the server has not accepted yet
    up        \* is the server process alive?

wireVars == <<net, nconn, backlog, up>>

Conns == 1 .. MaxConns
Names == Files \cup Dirs \cup {NoSuch, None}

(* ft.h's request types; "ZERO" is the byte 0 (DATA and padding alike).    *)
Requests == {"LS", "PWD", "CD", "GET", "PUT", "EXIT"}
Kinds == Requests \cup {"ZERO", "HEADER", "BODY", "TEXT", "END", "ERROR"}

Cell == [k : Kinds, f : Names, n : Nat]

Zero         == [k |-> "ZERO", f |-> None, n |-> 0]
End          == [k |-> "END", f |-> None, n |-> 0]
Text(f)      == [k |-> "TEXT", f |-> f, n |-> 0]
Failure(f)   == [k |-> "ERROR", f |-> f, n |-> 0]
Header(n)    == [k |-> "HEADER", f |-> None, n |-> n]
Request(k,f) == [k |-> k, f |-> f, n |-> 0]
PutHead(f,n) == [k |-> "PUT", f |-> f, n |-> n]
Body(f,n)    == [k |-> "BODY", f |-> f, n |-> n]

(* A file of s cells, told apart from every other by its cells.            *)
Content(f, s) == [i \in 1 .. s |-> Body(f, i)]

(* In flight a cell carries a mark on the last cell of each send().        *)
Flit == [c : Cell, eom : BOOLEAN]
Packet(cells) ==
    [i \in 1 .. Len(cells) |-> [c |-> cells[i], eom |-> i = Len(cells)]]

Endpoint == [c2s : Seq(Flit), s2c : Seq(Flit),
             cli : BOOLEAN, srv : BOOLEAN, reset : BOOLEAN]
NoConn == [c2s |-> <<>>, s2c |-> <<>>,
           cli |-> FALSE, srv |-> FALSE, reset |-> FALSE]

Lesser(a, b) == IF a <= b THEN a ELSE b

(* How many cells a recv() of a buffer of cap cells may return: whatever   *)
(* has arrived, that is some number of whole sends, cut off at cap.        *)
RecvLens(q, cap) ==
    {n \in 1 .. Lesser(cap, Len(q)) : SplitSends \/ n = cap \/ q[n].eom}

(* recv() on an end: data first, then the outcome of the peer's close.     *)
(* 0 is the end of the stream and -1 an error (ECONNRESET, EBADF).         *)
Results(q, cap, mine, theirs, reset) ==
    IF ~mine THEN {-1}
    ELSE IF q # <<>> THEN RecvLens(q, cap)
    ELSE IF reset THEN {-1, 0}
    ELSE IF theirs THEN {} ELSE {0}

(* Mutant: the receive length is one more than the buffer holds.           *)
SrvResults_Longer(k) ==
    IF k \in Conns
    THEN Results(net[k].c2s, BufUnits + 1,
                 net[k].srv, net[k].cli, net[k].reset)
    ELSE {-1}

SrvResults(k) ==
    IF k \in Conns
    THEN Results(net[k].c2s, BufUnits, net[k].srv, net[k].cli, net[k].reset)
    ELSE {-1}
CliResults(k, cap) ==
    Results(net[k].s2c, cap, net[k].cli, net[k].srv, net[k].reset)

Cells(q, n) == [i \in 1 .. n |-> q[i].c]
Rest(q, n)  == SubSeq(q, n + 1, Len(q))

(* The first cells of a buffer overwritten by others, as recv, sprintf and *)
(* fread do it.                                                            *)
Overlay(a, cells) ==
    [i \in 1 .. BufUnits |-> IF i <= Len(cells) THEN cells[i] ELSE a[i]]

ServerClosed == [k \in Conns |-> [net[k] EXCEPT !.srv = FALSE]]

(* close() of the client's end: unread data makes it an abortive close,    *)
(* which may take the undelivered part of the other direction with it.     *)
ClientClosed(e, lost) ==
    [e EXCEPT !.cli = FALSE,
              !.s2c = <<>>,
              !.reset = @ \/ e.s2c # <<>>,
              !.c2s = IF e.s2c # <<>> /\ lost THEN <<>> ELSE @]

(* tcp_connected(): TCP_INFO reports ESTABLISHED.                          *)
tcp_connected(k) ==
    k \in Conns /\ net[k].cli /\ net[k].srv /\ ~net[k].reset

WireTypeOK ==
    /\ net \in [Conns -> Endpoint]
    /\ nconn \in 0 .. MaxConns
    /\ backlog \in Seq(Conns)
    /\ up \in BOOLEAN

WireInit ==
    /\ net = [k \in Conns |-> NoConn]
    /\ nconn = 0
    /\ backlog = <<>>
    /\ up = TRUE
=============================================================================

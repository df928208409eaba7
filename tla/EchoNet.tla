------------------------------ MODULE EchoNet ------------------------------
(***************************************************************************)
(* What the echo servers of src/ stand on: TCP connections, descriptor     *)
(* tables with lowest-number allocation, and echo-client.c, one client per *)
(* connection.  A cell is a run of bytes; cell <<k, i>> is the i-th that   *)
(* client k writes.  A read may return any part of what has arrived.       *)
(***************************************************************************)
EXTENDS Integers, Sequences, FiniteSets

CONSTANTS
    MaxConns,  \* bound: clients, each making one connection
    Quota,     \* bound: Quota[k] cells are all that client k writes
    MaxMsg,    \* bound: cells of one line of input
    BufCells,  \* the servers' and the client's BUF_SIZE, in cells
    MaxFd      \* the highest descriptor number (RLIMIT_NOFILE - 1)

ASSUME EchoNetAssumption ==
    /\ MaxConns \in Nat \ {0} /\ Quota \in [1 .. MaxConns -> Nat]
    /\ MaxMsg \in Nat
    /\ BufCells \in Nat \ {0} /\ MaxFd \in Nat /\ MaxFd > 3

VARIABLES
    conn,     \* conn[k]: both directions of connection k
    backlog,  \* connections that are not accepted yet
    cl,       \* cl[k]: where client k's main is
    sent, rcvd,  \* what client k has written and read so far
    fdt,      \* fdt[p]: the descriptor table of server process p
    status    \* how the (first) server process is: "up" or how it ended

peerVars == <<cl, sent, rcvd>>
netVars == <<conn, backlog, peerVars, fdt, status>>

Conns == 1 .. MaxConns
Procs == 0 .. MaxConns   \* 0 and, where the server forks, its children
Fds   == 3 .. MaxFd
FREE   == 0
LISTEN == -1
EPOLL  == -2
Cell == Conns \X (Nat \ {0})

(* rst: "err", a reset whose ECONNRESET no call has returned yet; "shut",  *)
(* the stream is over and a write raises SIGPIPE.  cut: the server's end   *)
(* was closed with input unread, so output may be lost.                    *)
Connection == [c2s : Seq(Cell), s2c : Seq(Cell), cli : BOOLEAN,
               rst : {"no", "err", "shut"}, cut : BOOLEAN]
NoFds == [fd \in Fds |-> FREE]

NetTypeOK ==
    /\ conn \in [Conns -> Connection]
    /\ backlog \in Seq(Conns)
    /\ cl \in [Conns -> {"off", "input", "read", "gone"}]
    /\ sent \in [Conns -> Seq(Cell)] /\ rcvd \in [Conns -> Seq(Cell)]
    /\ fdt \in [Procs -> [Fds -> -2 .. MaxConns]]
    /\ status \in {"up", "exited", "failed", "sigpipe"}

NetInit ==
    /\ conn = [k \in Conns |-> [c2s |-> <<>>, s2c |-> <<>>, cli |-> TRUE,
                                rst |-> "no", cut |-> FALSE]]
    /\ backlog = <<>>
    /\ cl = [k \in Conns |-> "off"]
    /\ sent = [k \in Conns |-> <<>>] /\ rcvd = [k \in Conns |-> <<>>]
    /\ fdt = [p \in Procs |-> NoFds]
    /\ status = "up"

-----------------------------------------------------------------------------
(* The kernel.                                                             *)

Free(t) == {fd \in Fds : t[fd] = FREE}
Lowest(S) == CHOOSE x \in S : \A y \in S : x <= y
Lesser(a, b) == IF a <= b THEN a ELSE b

Refers(tab, what) == \E p \in Procs, fd \in Fds : tab[p][fd] = what
Listening == Refers(fdt, LISTEN)
Held(k) == Refers(fdt, k)
Pending(bl, k) == \E i \in 1 .. Len(bl) : bl[i] = k
ServerHas(k) == Held(k) \/ Pending(backlog, k)

(* The descriptor tables become tab and the accept queue bl: a connection  *)
(* nobody refers to any more is closed, abortively if input was unread.    *)
Retab(c, tab, bl) ==
    LET q == IF Refers(tab, LISTEN) THEN bl ELSE <<>>
        Lost(k) == c[k].c2s # <<>> /\ ~Refers(tab, k) /\ ~Pending(q, k)
    IN  /\ fdt' = tab
        /\ backlog' = q
        /\ conn' = [k \in Conns |-> IF Lost(k)
                       THEN [c[k] EXCEPT !.c2s = <<>>, !.cut = TRUE]
                       ELSE c[k]]

(* The results of read() on the server's end: data, then ECONNRESET once,  *)
(* then 0; none while the call would block.                                *)
ReadResults(k) ==
    LET c == conn[k] IN
    IF c.c2s # <<>> THEN 1 .. Lesser(BufCells, Len(c.c2s))
    ELSE IF c.rst = "err" THEN {-1}
    ELSE IF c.cli /\ c.rst = "no" THEN {} ELSE {0}

AfterRead(k, n) ==
    IF n = -1 THEN [conn EXCEPT ![k].rst = "shut"]
    ELSE [conn EXCEPT ![k].c2s = SubSeq(@, n + 1, Len(@))]

(* What write() of cells may leave of connection k (a write of -1 bytes    *)
(* fails before it touches the socket); a FIN'ed peer answers with a reset *)
(* that may still be on its way when the next call is made.                *)
AfterWrite(k, cells) ==
    LET c == conn[k] IN
    IF cells = <<>> THEN {c}
    ELSE IF c.rst = "err" THEN {[c EXCEPT !.rst = "shut"]}
    ELSE IF c.cli THEN {[c EXCEPT !.s2c = @ \o cells]}
    ELSE {c, [c EXCEPT !.rst = "shut"]}

RaisesSigpipe(k, cells) == cells # <<>> /\ conn[k].rst = "shut"

-----------------------------------------------------------------------------
(* echo-client.c                                                           *)

(* connect(), refused while nothing listens.                               *)
Connect(k) ==
    /\ cl[k] = "off"
    /\ IF Listening
       THEN /\ cl' = [cl EXCEPT ![k] = "input"]
            /\ backlog' = Append(backlog, k)
       ELSE /\ cl' = [cl EXCEPT ![k] = "gone"]
            /\ UNCHANGED backlog
    /\ UNCHANGED <<conn, sent, rcvd, fdt, status>>

(* A line of m cells is written; a last line of one character without a    *)
(* newline writes nothing and is waited for all the same.  A server that   *)
(* has closed gets nothing, and a second such write is a SIGPIPE.          *)
WriteLine(k, m) ==
    LET line == [i \in 1 .. m |-> <<k, Len(sent[k]) + i>>] IN
    /\ cl[k] = "input"
    /\ Len(sent[k]) + m <= Quota[k]
    /\ IF ServerHas(k)
       THEN /\ cl' = [cl EXCEPT ![k] = "read"]
            /\ sent' = [sent EXCEPT ![k] = @ \o line]
            /\ conn' = [conn EXCEPT ![k].c2s = @ \o line]
       ELSE /\ \/ cl' = [cl EXCEPT ![k] = "read"]
               \/ m > 0 /\ cl' = [cl EXCEPT ![k] = "gone"]
            /\ UNCHANGED <<sent, conn>>
    /\ UNCHANGED <<backlog, rcvd, fdt, status>>

(* One read per line, whatever it returns.                                 *)
ReadEcho(k) ==
    /\ cl[k] = "read"
    /\ cl' = [cl EXCEPT ![k] = "input"]
    /\ LET q == conn[k].s2c IN
       \/ \E n \in 1 .. Lesser(BufCells, Len(q)) :
             /\ rcvd' = [rcvd EXCEPT ![k] = @ \o SubSeq(q, 1, n)]
             /\ conn' = [conn EXCEPT ![k].s2c = SubSeq(@, n + 1, Len(@))]
       \/ /\ ~ServerHas(k) /\ (q = <<>> \/ conn[k].cut)
          /\ conn' = [conn EXCEPT ![k].s2c = <<>>]
          /\ UNCHANGED rcvd
    /\ UNCHANGED <<backlog, sent, fdt, status>>

(* q, end of input or Ctrl-C.  Echoes left unread make the close abortive, *)
(* and what the server has not received yet may be lost with it.           *)
Quit(k) ==
    /\ cl[k] \in {"input", "read"}
    /\ cl' = [cl EXCEPT ![k] = "gone"]
    /\ LET c == [conn[k] EXCEPT !.cli = FALSE, !.s2c = <<>>]
           abort == conn[k].s2c # <<>> /\ ServerHas(k)
       IN  \E rest \in {c.c2s} \cup (IF abort THEN {<<>>} ELSE {}) :
             conn' = [conn EXCEPT ![k] = [c EXCEPT !.c2s = rest,
                        !.rst = IF abort /\ @ = "no" THEN "err" ELSE @]]
    /\ UNCHANGED <<backlog, sent, rcvd, fdt, status>>

Client(k) ==
    \/ Connect(k)
    \/ \E m \in 0 .. MaxMsg : WriteLine(k, m)
    \/ ReadEcho(k)
    \/ Quit(k)
=============================================================================

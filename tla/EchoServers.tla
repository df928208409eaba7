---------------------------- MODULE EchoServers ----------------------------
(***************************************************************************)
(* The four C echo servers of src/, one of them per behaviour:             *)
(*   "iter"    echo-server.c: one client at a time, Turns clients in all   *)
(*   "fork"    mp-echo-server.c: a child process per client                *)
(*   "epoll"   epoll-echo-server.c, level-triggered                        *)
(*   "select"  select-echo-server.c                                        *)
(* Process 0 is the server; child k of the forking server serves client k. *)
(* A step ends at each system call, so that clients and children act in    *)
(* between.                                                                *)
(***************************************************************************)
EXTENDS EchoNet

CONSTANTS
    Kinds,  \* the servers a behaviour may be of
    Turns   \* clients echo-server.c serves before it exits (5 in the code)

ASSUME EchoServersAssumption ==
    /\ Kinds \subseteq {"iter", "fork", "epoll", "select"}
    /\ Turns \in Nat \ {0}
    /\ MaxFd >= MaxConns + 4   \* descriptors never run out here

VARIABLES
    kind,    \* which server this is
    w,       \* w[p]: process p: where it is, its clnt_sock and its msg/buf
    watch,   \* what epoll or the fd_set reads monitors
    batch,   \* events of the last wait that are not handled yet
    max_fd,  \* select's first argument
    turns,   \* clients accepted by echo-server.c
    addr_sz, \* fork: is the uninitialised address length usable?
    chld,    \* fork: a SIGCHLD is pending
    merged   \* fork: SIGCHLDs merged into one that was pending already

pollVars == <<watch, batch, max_fd>>
forkVars == <<addr_sz, chld, merged>>
serverVars == <<kind, w, turns, pollVars, forkVars>>
vars == <<netVars, serverVars>>

Polls == kind \in {"epoll", "select"}
Process == [pc : {"none", "init", "wait", "fork", "closing", "start", "read",
                  "write", "zombie", "ended"},
            fd : {0} \cup Fds,
            buf : {s \in Seq(Cell) : Len(s) <= BufCells}]

EchoTypeOK ==
    /\ NetTypeOK
    /\ kind \in Kinds /\ w \in [Procs -> Process]
    /\ watch \subseteq Fds /\ batch \subseteq Fds /\ max_fd \in 0 .. MaxFd + 1
    /\ turns \in 0 .. Turns /\ addr_sz \in BOOLEAN
    /\ chld \in BOOLEAN /\ merged \in 0 .. MaxConns

Init ==
    /\ NetInit
    /\ kind \in Kinds
    /\ w = [p \in Procs |-> [pc |-> IF p = 0 THEN "init" ELSE "none",
                             fd |-> 0, buf |-> <<>>]]
    /\ watch = {} /\ batch = {} /\ max_fd = 0
    /\ turns = 0 /\ addr_sz \in {TRUE, kind # "fork"}
    /\ chld = FALSE /\ merged = 0

-----------------------------------------------------------------------------
(* socket, bind and listen (server() of common.c in the polling servers),  *)
(* then the listener is the first descriptor to be watched.                *)
Start ==
    /\ w[0].pc = "init"
    /\ w' = [w EXCEPT ![0].pc = "wait"]
    /\ fdt' = [fdt EXCEPT ![0][3] = LISTEN,
                          ![0][4] = IF kind = "epoll" THEN EPOLL ELSE @]
    /\ watch' = IF Polls THEN {3} ELSE {}
    /\ max_fd' = IF kind = "select" THEN 4 ELSE 0
    /\ UNCHANGED <<conn, backlog, peerVars, status, kind, batch, turns,
                   forkVars>>

(* The address is in use: DIE or Assert.                                   *)
StartFails ==
    /\ w[0].pc = "init"
    /\ w' = [w EXCEPT ![0].pc = "ended"]
    /\ status' = "failed"
    /\ UNCHANGED <<conn, backlog, peerVars, fdt, kind, pollVars, turns,
                   forkVars>>

(* accept() in the servers that block in it; the listener is still open.   *)
Accept ==
    /\ w[0].pc = "wait" /\ ~Polls /\ backlog # <<>> /\ addr_sz
    /\ kind = "iter" => turns < Turns
    /\ LET fd == Lowest(Free(fdt[0])) IN
       /\ w' = [w EXCEPT ![0].pc = IF kind = "iter" THEN "read" ELSE "fork",
                         ![0].fd = fd]
       /\ Retab(conn, [fdt EXCEPT ![0][fd] = Head(backlog)], Tail(backlog))
    /\ turns' = IF kind = "iter" THEN turns + 1 ELSE turns
    /\ UNCHANGED <<peerVars, status, kind, pollVars, forkVars>>

(* mp-echo-server.c gives accept an uninitialised length: a negative one   *)
(* fails with EINVAL after the connection was taken, which closes it.      *)
AcceptDrops ==
    /\ w[0].pc = "wait" /\ kind = "fork" /\ backlog # <<>> /\ ~addr_sz
    /\ Retab(conn, fdt, Tail(backlog))
    /\ UNCHANGED <<peerVars, status, serverVars>>

(* echo-server.c's for loop is over: close(serv_sock), return.             *)
Finish ==
    /\ kind = "iter" /\ w[0].pc = "wait" /\ turns = Turns
    /\ w' = [w EXCEPT ![0].pc = "ended"]
    /\ status' = "exited"
    /\ Retab(conn, [fdt EXCEPT ![0] = NoFds], backlog)
    /\ UNCHANGED <<peerVars, kind, pollVars, turns, forkVars>>

-----------------------------------------------------------------------------
(* The event loop of the polling servers.                                  *)

Ready(fd) ==
    CASE fdt[0][fd] = LISTEN   -> backlog # <<>>
      [] fdt[0][fd] \in Conns  -> ReadResults(fdt[0][fd]) # {}
      [] OTHER                 -> FALSE

(* epoll_wait, or select over the descriptors below max_fd (its timeout    *)
(* only starts the wait again).                                            *)
Poll ==
    /\ w[0].pc = "wait" /\ Polls /\ batch = {}
    /\ batch' = {fd \in watch : Ready(fd)
                                /\ (kind = "select" => fd < max_fd)}
    /\ batch' # {}
    /\ UNCHANGED <<netVars, kind, w, watch, max_fd, turns, forkVars>>

(* epoll reports in any order, select's loop goes up from 0.               *)
NextEvent(fd) ==
    /\ w[0].pc = "wait" /\ Polls /\ fd \in batch
    /\ kind = "select" => fd = Lowest(batch)

(* Mutant: max_fd becomes the new descriptor, not one more.                *)
GrownMax_OffByOne(new) == IF max_fd < new THEN new ELSE max_fd

GrownMax(new) == IF max_fd < new + 1 THEN new + 1 ELSE max_fd

(* Mutant: one event of the listener is taken for several connections.     *)
Handled_Again(fd) == IF fdt[0][fd] = LISTEN THEN batch ELSE batch \ {fd}

Handled(fd) == batch \ {fd}

(* The listener's event: accept, epoll_ctl ADD or FD_SET, max_fd.          *)
AcceptEvent(fd) ==
    /\ NextEvent(fd) /\ fdt[0][fd] = LISTEN /\ backlog # <<>>
    /\ LET new == Lowest(Free(fdt[0])) IN
       /\ watch' = watch \cup {new}
       /\ max_fd' = IF kind = "select" THEN GrownMax(new) ELSE max_fd
       /\ Retab(conn, [fdt EXCEPT ![0][new] = Head(backlog)], Tail(backlog))
    /\ batch' = Handled(fd)
    /\ UNCHANGED <<peerVars, status, kind, w, turns, forkVars>>

(* A client's event.                                                       *)
ClientEvent(fd) ==
    /\ NextEvent(fd) /\ fdt[0][fd] # LISTEN
    /\ w' = [w EXCEPT ![0].pc = "read", ![0].fd = fd]
    /\ batch' = Handled(fd)
    /\ UNCHANGED <<netVars, kind, watch, max_fd, turns, forkVars>>

-----------------------------------------------------------------------------
(* fork and the children of mp-echo-server.c.                              *)

(* Mutant: the test of fork's result is reversed, the parent serves.       *)
Fork_InParent ==
    /\ w[0].pc = "fork"
    /\ w' = [w EXCEPT ![0].pc = "read"]
    /\ UNCHANGED <<netVars, kind, pollVars, turns, forkVars>>

Fork ==
    /\ w[0].pc = "fork"
    /\ LET k == fdt[0][w[0].fd] IN
       /\ w' = [w EXCEPT ![0].pc = "closing",
                         ![k] = [pc |-> "start", fd |-> w[0].fd, buf |-> <<>>]]
       /\ fdt' = [fdt EXCEPT ![k] = fdt[0]]
    /\ UNCHANGED <<conn, backlog, peerVars, status, kind, pollVars, turns,
                   forkVars>>

(* fork() returns -1: DIE.                                                 *)
ForkFails ==
    /\ w[0].pc = "fork"
    /\ w' = [w EXCEPT ![0].pc = "ended"]
    /\ status' = "failed"
    /\ Retab(conn, [fdt EXCEPT ![0] = NoFds], backlog)
    /\ UNCHANGED <<peerVars, kind, pollVars, turns, forkVars>>

ParentTable == [fdt[0] EXCEPT ![w[0].fd] = FREE]

(* The parent closes its copy of clnt_sock.                                *)
ParentCloses ==
    /\ w[0].pc = "closing"
    /\ w' = [w EXCEPT ![0].pc = "wait"]
    /\ Retab(conn, [fdt EXCEPT ![0] = ParentTable], backlog)
    /\ UNCHANGED <<peerVars, status, kind, pollVars, turns, forkVars>>

(* The child closes its copy of serv_sock.                                 *)
ChildStarts(p) ==
    /\ w[p].pc = "start"
    /\ w' = [w EXCEPT ![p].pc = "read"]
    /\ Retab(conn, [fdt EXCEPT ![p][3] = FREE], backlog)
    /\ UNCHANGED <<peerVars, status, kind, pollVars, turns, forkVars>>

(* A child ends: its descriptors are closed and SIGCHLD is raised, which   *)
(* is one signal however many children end before it is delivered.         *)
ChildEnds(p, c) ==
    /\ w' = [w EXCEPT ![p].pc = IF status = "up" THEN "zombie" ELSE "ended"]
    /\ Retab(c, [fdt EXCEPT ![p] = NoFds], backlog)
    /\ chld' = (chld \/ status = "up")
    /\ merged' = IF chld THEN merged + 1 ELSE merged
    /\ UNCHANGED <<peerVars, status, kind, pollVars, turns, addr_sz>>

(* Mutant: the handler does not wait for the child.                        *)
childproc_NoWait ==
    /\ chld /\ status = "up"
    /\ chld' = FALSE
    /\ UNCHANGED <<netVars, kind, w, pollVars, turns, addr_sz, merged>>

(* The SIGCHLD handler: one waitpid per delivery.                          *)
childproc ==
    /\ chld /\ status = "up"
    /\ \E p \in Procs : /\ w[p].pc = "zombie"
                        /\ w' = [w EXCEPT ![p].pc = "ended"]
    /\ chld' = FALSE
    /\ UNCHANGED <<netVars, kind, pollVars, turns, addr_sz, merged>>

-----------------------------------------------------------------------------
(* The echo loop, common to all: read, and on 0 close.                     *)

Peer(p) == fdt[p][w[p].fd]

(* read() returned data or -1, which is not 0: on to the write.            *)
ReadData(p) ==
    /\ w[p].pc = "read"
    /\ \E n \in ReadResults(Peer(p)) \ {0} :
          /\ conn' = AfterRead(Peer(p), n)
          /\ w' = [w EXCEPT ![p].pc = "write",
                            ![p].buf = SubSeq(conn[Peer(p)].c2s, 1, n)]
    /\ UNCHANGED <<backlog, peerVars, fdt, status, kind, pollVars, turns,
                   forkVars>>

(* Mutant: FD_CLR is forgotten.                                            *)
Unwatched_NoClr(fd) == IF kind = "select" THEN watch ELSE watch \ {fd}

Unwatched(fd) == watch \ {fd}

(* read() returned 0: epoll_ctl DEL or FD_CLR, and close; a child exits.   *)
ReadEnd(p) ==
    /\ w[p].pc = "read" /\ 0 \in ReadResults(Peer(p))
    /\ IF p = 0
       THEN /\ w' = [w EXCEPT ![0].pc = "wait"]
            /\ Retab(conn, [fdt EXCEPT ![0][w[0].fd] = FREE], backlog)
            /\ watch' = Unwatched(w[0].fd)
            /\ UNCHANGED <<peerVars, status, kind, batch, max_fd, turns,
                           forkVars>>
       ELSE ChildEnds(p, conn)

(* Mutant: a write that succeeded is made again.                           *)
WriteBack_Twice(p) ==
    /\ w[p].pc = "write" /\ ~RaisesSigpipe(Peer(p), w[p].buf)
    /\ \E c \in AfterWrite(Peer(p), w[p].buf \o w[p].buf) :
          conn' = [conn EXCEPT ![Peer(p)] = c]
    /\ w' = [w EXCEPT ![p].pc = IF Polls THEN "wait" ELSE "read",
                      ![p].buf = <<>>]
    /\ UNCHANGED <<backlog, peerVars, fdt, status, kind, pollVars, turns,
                   forkVars>>

(* write() of what was read, back to the same client.                      *)
WriteBack(p) ==
    /\ w[p].pc = "write" /\ ~RaisesSigpipe(Peer(p), w[p].buf)
    /\ \E c \in AfterWrite(Peer(p), w[p].buf) :
          conn' = [conn EXCEPT ![Peer(p)] = c]
    /\ w' = [w EXCEPT ![p].pc = IF Polls THEN "wait" ELSE "read",
                      ![p].buf = <<>>]
    /\ UNCHANGED <<backlog, peerVars, fdt, status, kind, pollVars, turns,
                   forkVars>>

(* SIGPIPE: nobody handles it, the process is killed.                      *)
Killed(p) ==
    /\ w[p].pc = "write" /\ RaisesSigpipe(Peer(p), w[p].buf)
    /\ IF p = 0
       THEN /\ w' = [w EXCEPT ![0].pc = "ended"]
            /\ status' = "sigpipe"
            /\ Retab(conn, [fdt EXCEPT ![0] = NoFds], backlog)
            /\ UNCHANGED <<peerVars, kind, pollVars, turns, forkVars>>
       ELSE ChildEnds(p, conn)

-----------------------------------------------------------------------------
Main ==
    \/ Start \/ StartFails \/ Accept \/ AcceptDrops \/ Finish \/ Poll
    \/ \E fd \in Fds : AcceptEvent(fd) \/ ClientEvent(fd)
    \/ Fork \/ ForkFails \/ ParentCloses

Echo(p) == ReadData(p) \/ ReadEnd(p) \/ WriteBack(p) \/ Killed(p)

Server == Main \/ Echo(0)
Child(p) == ChildStarts(p) \/ Echo(p)

Next ==
    \/ Server
    \/ \E p \in Conns : Child(p)
    \/ childproc
    \/ \E k \in Conns : Client(k) /\ UNCHANGED serverVars

Spec == Init /\ [][Next]_vars

(* The scheduler runs every process whose system call can return, and a    *)
(* client's read returns once there is something to return.                *)
FairSpec ==
    /\ Spec
    /\ WF_vars(Server)
    /\ \A p \in Conns : WF_vars(Child(p))
    /\ WF_vars(childproc)
    /\ \A k \in Conns : WF_vars(ReadEcho(k) /\ UNCHANGED serverVars)

-----------------------------------------------------------------------------
(* No descriptor leaks and none is watched after its close: the parent of  *)
(* the forking server holds a client only between accept and close, each   *)
(* child holds its own client alone once it has started, and what epoll or *)
(* select watches is exactly what is open, below max_fd for select (a      *)
(* closed number in reads would end the server with EBADF, one at max_fd   *)
(* or above would never be served).                                        *)
DescriptorsAccounted ==
    LET Peers(p) == {fd \in Fds : fdt[p][fd] \in Conns}
        busy == {"fork", "closing", "read", "write"}
    IN  /\ EchoTypeOK
        /\ \A p \in Conns : w[p].pc \in {"read", "write"} =>
              {fd \in Fds : fdt[p][fd] # FREE} = {w[p].fd} /\ Peer(p) = p
        /\ status = "up" /\ w[0].pc # "init" =>
              IF Polls
              THEN /\ watch = Peers(0) \cup {3}
                   /\ kind = "select" => \A fd \in watch : fd < max_fd
              ELSE Peers(0) = IF w[0].pc \in busy THEN {w[0].fd} ELSE {}

(* An event that a wait has reported is still true when its turn comes,    *)
(* however the earlier events of the batch closed and reused descriptors:  *)
(* the single thread of the polling servers never blocks in accept or read.*)
EventsStayTrue == status = "up" => \A fd \in batch : Ready(fd)

(* A client that hangs up costs a server process only when it leaves       *)
(* echoes unread or unsent behind, and with mp-echo-server.c it never      *)
(* costs the server itself.                                                *)
KilledByAbort ==
    status = "sigpipe" =>
        /\ kind # "fork"
        /\ \E k \in Conns : cl[k] = "gone" /\ Len(rcvd[k]) < Len(sent[k])

(* One waitpid per SIGCHLD leaves a zombie behind only where signals of    *)
(* children that ended together were merged.                               *)
ZombieOnlyIfMerged ==
    (\E p \in Conns : w[p].pc = "zombie") /\ status = "up"
        => chld \/ merged > 0

(* Every server implements the abstract echo service.                      *)
Service == INSTANCE EchoService WITH Peers <- Conns, Cells <- Cell,
                                     back <- rcvd
EchoesInOrder == Service!Spec

(* Is somebody going to look after client k?  echo-server.c only turns to  *)
(* the next client when the present one has left.                          *)
Attended(k) == kind # "iter" \/ Held(k)

(* A client that has sent something it has not read back gets out of its   *)
(* read: with an echo, or because its connection was closed.               *)
EchoArrives ==
    \A k \in Conns :
        (cl[k] = "read" /\ Len(rcvd[k]) < Len(sent[k]) /\ Attended(k))
            ~> cl[k] # "read"

(* When a client has left, no server process keeps its connection open.    *)
Released ==
    \A k \in Conns : (cl[k] = "gone" /\ Attended(k)) ~> ~ServerHas(k)

(* No client waits in vain and none is kept after it has left.             *)
ClientsServed == EchoArrives /\ Released
=============================================================================

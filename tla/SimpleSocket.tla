---------------------------- MODULE SimpleSocket ----------------------------
(***************************************************************************)
(* lib/simplesocket: Socket and TcpSocket objects that own a descriptor,   *)
(* moved between variables, and the two servers written with them:         *)
(*   "thread"  tcpsocket-server.cpp: a detached thread per client          *)
(*   "obj"     obj-echo-server.cpp: one read per client, in turn           *)
(* Descriptor numbers are reused as soon as they are closed, so an object  *)
(* that closes a number it no longer owns would cut off somebody else.     *)
(***************************************************************************)
EXTENDS EchoNet

CONSTANT Programs

ASSUME SimpleSocketAssumption == Programs \subseteq {"thread", "obj"}

VARIABLES
    prog,  \* which program this is
    obj,   \* obj[o]: the member _fd of object o
    th     \* th[0]: main; th[k]: the session thread of client k

sockVars == <<prog, obj, th>>
vars == <<netVars, sockVars>>

(* main's sock and clnt_sock, the temporary that accept returns, and the   *)
(* object k that the session thread of client k was given.                 *)
Sock == 0
Clnt == -1
Tmp  == -2
Objects == -2 .. MaxConns

Thread == [pc : {"none", "open", "accept", "assign", "spawn", "read",
                 "write", "close", "destroy", "ended"},
           buf : {s \in Seq(Cell) : Len(s) <= BufCells}]

SockTypeOK ==
    /\ NetTypeOK
    /\ prog \in Programs
    /\ obj \in [Objects -> {-1} \cup Fds]
    /\ th \in [Procs -> Thread]

Init ==
    /\ NetInit
    /\ prog \in Programs
    /\ obj = [o \in Objects |-> -1]
    /\ th = [p \in Procs |-> [pc |-> IF p = 0 THEN "open" ELSE "none",
                              buf |-> <<>>]]

-----------------------------------------------------------------------------
(* The operations of Socket, on the objects and the descriptor table.      *)

Now == [obj |-> obj, tab |-> fdt[0]]

(* Mutant: the member keeps the number it has closed.                      *)
Close_KeepsFd(s, o) ==
    IF s.obj[o] = -1 THEN s ELSE [s EXCEPT !.tab[s.obj[o]] = FREE]

Close(s, o) ==
    IF s.obj[o] = -1 THEN s
    ELSE [s EXCEPT !.tab[s.obj[o]] = FREE, !.obj[o] = -1]

Destroy(s, o) == Close(s, o)

MoveCtor(s, a, b) == [s EXCEPT !.obj[a] = s.obj[b], !.obj[b] = -1]

(* Mutant: the assignment does not close what the target held.             *)
MoveAssign_NoClose(s, a, b) == MoveCtor(s, a, b)

MoveAssign(s, a, b) == MoveCtor(Close(s, a), a, b)

Become(s, bl) ==
    /\ obj' = s.obj
    /\ Retab(conn, [fdt EXCEPT ![0] = s.tab], bl)

(* An exception nobody catches, or a signal: the process ends.             *)
End(how) ==
    /\ status' = how
    /\ th' = [p \in Procs |-> [th[p] EXCEPT !.pc = "ended", !.buf = <<>>]]
    /\ Retab(conn, [fdt EXCEPT ![0] = NoFds], backlog)
    /\ UNCHANGED <<peerVars, prog, obj>>

-----------------------------------------------------------------------------
(* main                                                                    *)

(* open() and listen(): the number replaces whatever _fd was.              *)
Open ==
    /\ th[0].pc = "open"
    /\ Become([obj |-> [obj EXCEPT ![Sock] = 3],
               tab |-> [fdt[0] EXCEPT ![3] = LISTEN]], backlog)
    /\ th' = [th EXCEPT ![0].pc = "accept"]
    /\ UNCHANGED <<peerVars, status, prog>>

(* The name does not resolve, or socket, bind or listen fails: throw.      *)
OpenFails == th[0].pc = "open" /\ End("failed")

Accept ==
    /\ th[0].pc = "accept" /\ backlog # <<>> /\ Free(fdt[0]) # {}
    /\ LET fd == Lowest(Free(fdt[0])) IN
       Become([obj |-> [obj EXCEPT ![Tmp] = fd],
               tab |-> [fdt[0] EXCEPT ![fd] = Head(backlog)]], Tail(backlog))
    /\ th' = [th EXCEPT ![0].pc = "assign"]
    /\ UNCHANGED <<peerVars, status, prog>>

(* No descriptor is left: accept() throws.                                 *)
AcceptFails ==
    /\ th[0].pc = "accept" /\ backlog # <<>> /\ Free(fdt[0]) = {}
    /\ End("failed")

(* clnt_sock = sock.accept(...), and the end of the temporary.             *)
Assign ==
    /\ th[0].pc = "assign"
    /\ Become(Destroy(MoveAssign(Now, Clnt, Tmp), Tmp), backlog)
    /\ th' = [th EXCEPT ![0].pc = IF prog = "obj" THEN "read" ELSE "spawn"]
    /\ UNCHANGED <<peerVars, status, prog>>

(* std::thread worker(session, std::move(clnt_sock), clnt_addr).           *)
Spawn ==
    /\ th[0].pc = "spawn"
    /\ LET k == fdt[0][obj[Clnt]] IN
       /\ Become(MoveCtor(Now, k, Clnt), backlog)
       /\ th' = [th EXCEPT ![0].pc = "accept", ![k].pc = "read"]
    /\ UNCHANGED <<peerVars, status, prog>>

-----------------------------------------------------------------------------
(* session() of tcpsocket-server.cpp (p is its client) and the body of     *)
(* obj-echo-server.cpp's loop (p = 0).                                     *)

Owned(p) == IF p = 0 THEN Clnt ELSE p
Peer(p) == fdt[0][obj[Owned(p)]]

(* Mutant: the end of the stream is taken for an empty message.            *)
AfterNoData_Spins(p, n) ==
    IF p = 0 THEN "accept" ELSE IF n = 0 THEN "read" ELSE "close"

(* 0 and -1 both leave the session's loop; main turns to the next client.  *)
AfterNoData(p, n) == IF p = 0 THEN "accept" ELSE "close"

Read(p) ==
    /\ th[p].pc = "read" /\ Peer(p) \in Conns
    /\ \E n \in ReadResults(Peer(p)) :
          /\ conn' = AfterRead(Peer(p), n)
          /\ th' = IF n > 0
                   THEN [th EXCEPT ![p].pc = "write",
                           ![p].buf = SubSeq(conn[Peer(p)].c2s, 1, n)]
                   ELSE [th EXCEPT ![p].pc = AfterNoData(p, n)]
    /\ UNCHANGED <<backlog, peerVars, fdt, status, prog, obj>>

(* Mutant: a write that succeeded is made again.                           *)
Outgoing_Twice(p) == th[p].buf \o th[p].buf

Outgoing(p) == th[p].buf

Write(p) ==
    /\ th[p].pc = "write" /\ ~RaisesSigpipe(Peer(p), Outgoing(p))
    /\ \E c \in AfterWrite(Peer(p), Outgoing(p)) :
          conn' = [conn EXCEPT ![Peer(p)] = c]
    /\ th' = [th EXCEPT ![p].pc = IF p = 0 THEN "accept" ELSE "read",
                        ![p].buf = <<>>]
    /\ UNCHANGED <<backlog, peerVars, fdt, status, prog, obj>>

(* SIGPIPE in any thread ends the whole server.                            *)
Killed(p) ==
    th[p].pc = "write" /\ RaisesSigpipe(Peer(p), Outgoing(p)) /\ End("sigpipe")

(* clnt_sock.close() ...                                                   *)
SessionCloses(k) ==
    /\ th[k].pc = "close"
    /\ Become(Close(Now, k), backlog)
    /\ th' = [th EXCEPT ![k].pc = "destroy"]
    /\ UNCHANGED <<peerVars, status, prog>>

(* ... and its destructor when session() returns.                          *)
SessionReturns(k) ==
    /\ th[k].pc = "destroy"
    /\ Become(Destroy(Now, k), backlog)
    /\ th' = [th EXCEPT ![k].pc = "ended"]
    /\ UNCHANGED <<peerVars, status, prog>>

-----------------------------------------------------------------------------
Main ==
    Open \/ OpenFails \/ Accept \/ AcceptFails \/ Assign \/ Spawn
Body(p) == Read(p) \/ Write(p) \/ Killed(p)
Worker(k) == Body(k) \/ SessionCloses(k) \/ SessionReturns(k)

Next ==
    \/ Main \/ Body(0)
    \/ \E k \in Conns : Worker(k)
    \/ \E k \in Conns : Client(k) /\ UNCHANGED sockVars

Spec == Init /\ [][Next]_vars

(* Every thread runs when its system call can return.                      *)
FairSpec ==
    /\ Spec
    /\ WF_vars(Main \/ Body(0))
    /\ \A k \in Conns : WF_vars(Worker(k))
    /\ \A k \in Conns : WF_vars(ReadEcho(k) /\ UNCHANGED sockVars)

-----------------------------------------------------------------------------
(* Between two operations every open descriptor is owned by exactly one    *)
(* object and no object holds a number that was closed: nothing leaks,     *)
(* and no destructor or assignment can close a reused number.              *)
OwnedOnce ==
    /\ SockTypeOK
    /\ status = "up" =>
        /\ \A fd \in Fds : fdt[0][fd] # FREE =>
              \E o \in Objects : obj[o] = fd
        /\ \A o \in Objects : obj[o] # -1 =>
              /\ fdt[0][obj[o]] # FREE
              /\ \A q \in Objects \ {o} : obj[q] # obj[o]

(* A session reads from and writes to the client it was started for,       *)
(* whatever other sessions close and main accepts in the meantime.         *)
SessionKeepsPeer ==
    \A k \in Conns : th[k].pc \in {"read", "write", "close"} =>
        obj[k] # -1 /\ fdt[0][obj[k]] = k

(* Both programs implement the abstract echo service.                      *)
Service == INSTANCE EchoService WITH Peers <- Conns, Cells <- Cell,
                                     back <- rcvd
ObjEchoesInOrder == Service!Spec

(* A client that waits for an echo gets out of its read: always with a     *)
(* thread per client, for its first line once it was accepted with         *)
(* obj-echo-server.cpp.                                                    *)
ObjEchoArrives ==
    \A k \in Conns :
        (/\ cl[k] = "read" /\ Len(rcvd[k]) < Len(sent[k])
         /\ prog = "obj" => Held(k) /\ rcvd[k] = <<>>)
            ~> cl[k] # "read"

(* A session whose client has left gives its descriptor back.              *)
SessionReleases ==
    \A k \in Conns :
        (cl[k] = "gone" /\ th[k].pc # "none") ~> ~ServerHas(k)

(* No client waits in vain and none is kept after it has left.             *)
ObjClientsServed == ObjEchoArrives /\ SessionReleases
=============================================================================

---------------------------- MODULE FtSyncProofs ----------------------------
(***************************************************************************)
(* The file-transfer client and server stay in step: while nothing splits  *)
(* a send, the files fit 32 bits, and either the users are orderly or      *)
(* there is one connection, every command gets its own answer, whole and   *)
(* in order, and leaves nothing on the wire.  For every number of clients, *)
(* connections, files, sizes and cells per buffer.                         *)
(***************************************************************************)
EXTENDS FtProofs, SequenceTheorems
USE DEF Conns

-----------------------------------------------------------------------------
(* The protocol between one client and its session.  p is the client, t    *)
(* the thread, e the connection; b, m, F and w stand for buf, msg, fs and  *)
(* cwd.                                                                    *)

Holds(F, d, f) == IF f \in Dirs THEN <<>> ELSE F[d][f]
CanRead(F, w, f) == f \in Dirs \/ (f \in Files /\ F[w][f] # Absent)
SizeIn(F, w, f) == IF f \in Dirs THEN DirSize % SizeMod ELSE Len(F[w][f])

Linked(e) == e.cli /\ e.srv /\ ~e.reset

(* The thread waits for a request, or nothing that the client can see is   *)
(* left to do before it does: it has not started yet, or it still has to   *)
(* find the end of the file it sent last.                                  *)
Ready(t, b, F, w) ==
    \/ t.pc \in {"idle", "start", "recv"}
    \/ t.pc = "fopen" /\ CanRead(F, w, b[1].f) /\ Len(Holds(F, w, b[1].f)) = 0
    \/ t.pc = "fread" /\ t.pos >= Len(Holds(F, t.dir, t.file))

(* The request is under way, or in buf and about to be looked at.          *)
Cells1(cmd, arg) ==
    IF cmd = "PWD" THEN <<Request(cmd, arg)>> ELSE Padded(Request(cmd, arg))

Asked(t, e, b, F, w, cmd, arg) ==
    \/ Ready(t, b, F, w) /\ e.c2s = Packet(Cells1(cmd, arg))
    \/ /\ t.pc = "dispatch" /\ t.n = Len(Cells1(cmd, arg))
       /\ b[1] = Request(cmd, arg) /\ e.c2s = <<>>

(* What ls, pwd and cd are to print.                                       *)
Shows(s, cmd, d, F, w) ==
    LET at == IF d = None THEN w ELSE d IN
    /\ cmd = "LS" =>
          IF d = NoSuch THEN s = <<Text(NoSuch)>>
          ELSE LET S == {f \in Files : F[at][f] # Absent}
               IN  TextsOf(s) = S /\ Len(s) = Cardinality(S)
    /\ cmd = "PWD" => s = <<Text(w)>>
    /\ cmd = "CD" => s = IF d = NoSuch THEN <<Text(NoSuch), Text(w)>>
                         ELSE <<Text(at)>>

IsAnswer(X, cmd, d, F, w) ==
    /\ X \in Seq(Cell) /\ Len(X) > 0
    /\ \A j \in 1 .. Len(X) : X[j].k = "END" <=> j = Len(X)
    /\ Shows(SubSeq(X, 1, Len(X) - 1), cmd, d, F, w)

(* The shared buffer still has what the thread is about to send.           *)
InPlace(r, b, m) ==
    \A j \in 1 .. Len(r.cells) :
        /\ r.via = "buf" => b[j] = r.cells[j]
        /\ r.via = "msg" => m[j] = r.cells[j]

(* The answer X is in part shown, on the stream and to be sent; the last   *)
(* two cells of cd's answer are left to response_pwd.                      *)
Answered(s, t, e, b, m, X) ==
    /\ \A j \in 1 .. Len(s) : s[j] = X[j]
    /\ \A j \in 1 .. Len(e.s2c) : e.s2c[j].c = X[Len(s) + j]
    /\ \/ /\ t.pc \in {"fill", "send"} /\ t.todo # <<>>
          /\ \A j \in 1 .. Len(t.todo) :
                t.todo[j].cells = <<X[Len(s) + Len(e.s2c) + j]>>
          /\ \/ t.next = "recv" /\ Len(s) + Len(e.s2c) + Len(t.todo) = Len(X)
             \/ t.next = "pwd" /\ Len(s) + Len(e.s2c) + Len(t.todo) = Len(X) - 2
          /\ t.pc = "send" => InPlace(t.todo[1], b, m)
       \/ t.pc = "pwd" /\ Len(s) + Len(e.s2c) = Len(X) - 2
       \/ t.pc = "recv" /\ Len(s) + Len(e.s2c) = Len(X) /\ Len(s) < Len(X)

(* response_pwd's part of it.                                              *)
PwdLast(X, w) ==
    Len(X) >= 2 /\ X[Len(X) - 1] = Text(w) /\ X[Len(X)] = End

Printing(p, t, e, b, m, F, w) ==
    /\ p.cmd \in {"LS", "PWD", "CD"} /\ p.arg \in Dirs \cup {None, NoSuch}
    /\ (p.cmd = "PWD" => p.arg = None)
    /\ Linked(e)
    /\ \/ Asked(t, e, b, F, w, p.cmd, p.arg) /\ e.s2c = <<>> /\ p.shown = <<>>
       \/ /\ e.c2s = <<>>
          /\ \E X :
                /\ IsAnswer(X, p.cmd, p.arg, F, w)
                /\ Answered(p.shown, t, e, b, m, X)
                /\ (t.pc = "pwd" \/ t.next = "pwd") => PwdLast(X, w)

(* n cells of the file that get asked for are sent, as far as the thread   *)
(* is concerned.                                                           *)
Sent(n, t, b, m, F, w, f) ==
    LET C == Holds(F, w, f) IN
    /\ n <= Len(C)
    /\ \/ t.pc = "fopen" /\ b[1].f = f /\ n = 0
       \/ t.pc = "fread" /\ t.file = f /\ t.dir = w /\ t.pos = n
       \/ /\ t.pc = "send" /\ t.next = "fread" /\ t.file = f /\ t.dir = w
          /\ Len(t.todo) = 1 /\ t.todo[1].via = "msg"
          /\ t.pos = n + Len(t.todo[1].cells) /\ t.pos <= Len(C) /\ n < t.pos
          /\ \A j \in 1 .. Len(t.todo[1].cells) : t.todo[1].cells[j] = C[n + j]
          /\ InPlace(t.todo[1], b, m)
       \/ t.pc = "recv" /\ n = Len(C)

(* A single cell is put into msg or buf and sent.                          *)
Sends(t, b, m, v, cell, next) ==
    /\ t.pc \in {"fill", "send"} /\ t.todo = << Via(v, <<cell>>) >>
    /\ t.next = next
    /\ t.pc = "send" => InPlace(t.todo[1], b, m)

Carries(q, cell) == Len(q) = 1 /\ q[1].c = cell

Heading(p, t, e, b, m, F, w) ==
    /\ p.cmd = "GET" /\ p.arg \in Targets /\ p.out = <<>> /\ ~p.ok /\ Linked(e)
    /\ \/ Asked(t, e, b, F, w, "GET", p.arg) /\ e.s2c = <<>>
       \/ /\ e.c2s = <<>> /\ ~CanRead(F, w, p.arg)
          /\ \/ Sends(t, b, m, "msg", Failure(p.arg), "recv") /\ e.s2c = <<>>
             \/ t.pc = "recv" /\ Carries(e.s2c, Failure(p.arg))
       \/ /\ e.c2s = <<>> /\ CanRead(F, w, p.arg)
          /\ \/ /\ Sends(t, b, m, "msg", Header(SizeIn(F, w, p.arg)), "fopen")
                /\ e.s2c = <<>> /\ b[1].f = p.arg
             \/ /\ Len(e.s2c) > 0 /\ e.s2c[1].c = Header(SizeIn(F, w, p.arg))
                /\ Sent(Len(e.s2c) - 1, t, b, m, F, w, p.arg)
                /\ \A j \in 2 .. Len(e.s2c) :
                      e.s2c[j].c = Holds(F, w, p.arg)[j - 1]

Getting(p, t, e, b, m, F, w) ==
    /\ p.cmd = "GET" /\ p.arg \in Targets /\ Linked(e) /\ e.c2s = <<>>
    /\ CanRead(F, w, p.arg)
    /\ p.ok /\ p.need = SizeIn(F, w, p.arg) /\ Len(p.out) < p.need
    /\ Sent(Len(p.out) + Len(e.s2c), t, b, m, F, w, p.arg)
    /\ \A j \in 1 .. Len(p.out) : p.out[j] = Holds(F, w, p.arg)[j]
    /\ \A j \in 1 .. Len(e.s2c) :
          e.s2c[j].c = Holds(F, w, p.arg)[Len(p.out) + j]

(* The thread has the file of a put open, which it emptied.                *)
Stores(t, F, w, f, s) ==
    t.file = f /\ t.dir = w /\ t.need = s /\ F[w][f] = <<>>

(* q brings the cells of file f from the n-th on.                          *)
Brings(q, f, n) == \A j \in 1 .. Len(q) : q[j].c = Body(f, n + j)

Putting(p, t, e, b, m, F, w) ==
    LET f == p.arg
        s == IF p.size = Missing THEN 0 ELSE p.size
        o == Len(t.out)
    IN
    /\ p.cmd = "PUT" /\ f \in Files /\ Linked(e)
    /\ p.size \in Sizes \cup {Missing} /\ (Orderly => p.size # Missing)
    /\ p.pos <= s /\ (p.pc = "put_ack" => p.pos = s /\ p.size # Missing)
    /\ \/ /\ e.s2c = <<>> /\ Ready(t, b, F, w)
          /\ Len(e.c2s) = p.pos + 1 /\ e.c2s[1].c = PutHead(f, s)
          /\ \A j \in 2 .. Len(e.c2s) : e.c2s[j].c = Body(f, j - 1)
       \/ /\ e.s2c = <<>> /\ t.pc \in {"dispatch", "put_rest"}
          /\ t.pc = "put_rest" => Stores(t, F, w, f, s)
          /\ t.n >= 1 /\ b[1] = PutHead(f, s)
          /\ \A j \in 2 .. t.n : b[j] = Body(f, j - 1)
          /\ t.n - 1 + Len(e.c2s) = p.pos /\ Brings(e.c2s, f, t.n - 1)
       \/ /\ e.s2c = <<>> /\ t.pc = "put_recv" /\ Stores(t, F, w, f, s)
          /\ \A j \in 1 .. o : t.out[j] = Body(f, j)
          /\ o < s /\ o + Len(e.c2s) = p.pos /\ Brings(e.c2s, f, o)
       \/ /\ e.s2c = <<>> /\ t.pc = "put_write" /\ Stores(t, F, w, f, s)
          /\ \A j \in 1 .. o : t.out[j] = Body(f, j)
          /\ t.n >= 1 /\ \A j \in 1 .. t.n : b[j] = Body(f, o + j)
          /\ o + t.n + Len(e.c2s) = p.pos /\ Brings(e.c2s, f, o + t.n)
       \/ /\ e.s2c = <<>> /\ e.c2s = <<>> /\ t.pc = "put_close"
          /\ Stores(t, F, w, f, s) /\ t.out = Content(f, s) /\ p.pos = s
       \/ /\ e.s2c = <<>> /\ e.c2s = <<>> /\ p.pos = s
          /\ F[w][f] = Content(f, s) /\ Sends(t, b, m, "buf", End, "recv")
       \/ /\ e.c2s = <<>> /\ p.pos = s /\ F[w][f] = Content(f, s)
          /\ t.pc = "recv" /\ Carries(e.s2c, End)

Leaving(t, e, b, F, w) ==
    /\ e.s2c = <<>> /\ ~e.cli /\ ~e.reset
    /\ \/ e.srv /\ Asked(t, e, b, F, w, "EXIT", None)
       \/ t.pc = "done"

InStep(p, t, e, b, m, F, w) ==
    \/ p.pc = "prompt" /\ Linked(e) /\ e.c2s = <<>> /\ e.s2c = <<>> /\ Ready(t, b, F, w)
    \/ p.pc = "print" /\ Printing(p, t, e, b, m, F, w)
    \/ p.pc = "get_head" /\ Heading(p, t, e, b, m, F, w)
    \/ p.pc = "get_body" /\ Getting(p, t, e, b, m, F, w)
    \/ p.pc \in {"put_body", "put_ack"} /\ Putting(p, t, e, b, m, F, w)
    \/ p.pc = "exited" /\ Leaving(t, e, b, F, w)

(* Nothing is going on between them.                                       *)
Calm(p, t, e) ==
    \/ p.pc = "prompt" /\ Linked(e) /\ e.c2s = <<>> /\ e.s2c = <<>> /\ t.pc = "recv"
    \/ p.pc = "exited" /\ ~e.cli /\ ~e.reset /\ e.s2c = <<>> /\ t.pc = "done"

(* The k-th connection is served by the k-th thread: where the last one is *)
(* on its way from the backlog over main's client_fd to its thread.        *)
Entering ==
    /\ main.made \in {nconn, nconn - 1}
    /\ \A k \in Conns : /\ th[k].pc = "idle" <=> k > main.made
                        /\ Running(th[k]) => th[k].fd = k
                        /\ th[k].pc = "start" => main.fd = k /\ k = nconn
                        /\ k > nconn => net[k] = NoConn
    /\ backlog = <<>> \/ (backlog = <<nconn>> /\ main.pc = "accept")
    /\ main.pc = "create" => main.fd = nconn
    /\ main.made = nconn <=> backlog = <<>> /\ main.pc = "accept"
    /\ \A k \in Conns : th[k].pc = "start" => main.made = nconn

Owners ==
    /\ \A c \in Clients :
          /\ cl[c].fd <= nconn /\ cl[c].fds = {cl[c].fd} \ {0}
          /\ cl[c].fd = 0 => cl[c].pc \in {"prompt", "exited"}
    /\ \A c, d \in Clients : cl[c].fd = cl[d].fd => cl[c].fd = 0 \/ c = d
    /\ \A k \in 1 .. nconn : \E c \in Clients : cl[c].fd = k

Together ==
    /\ up /\ Entering /\ Owners
    /\ \A d \in Dirs, f \in Files : fs[d][f] # Absent => Len(fs[d][f]) < SizeMod
    /\ \A c \in Clients : LET k == cl[c].fd IN
          k # 0 => InStep(cl[c], th[k], net[k], buf, msg, fs, cwd)
    /\ \A c, d \in Clients : LET k == cl[c].fd
                                 j == cl[d].fd IN
          k # 0 /\ j # 0 /\ c # d =>
             Calm(cl[c], th[k], net[k]) \/ Calm(cl[d], th[j], net[j])

(* The client of the only connection broke off in the middle of a command. *)
BrokenOff ==
    /\ nconn = MaxConns
    /\ \A c \in Clients : /\ cl[c].fd # 0 => cl[c].pc = "aborted"
                          /\ cl[c].fd = 0 => cl[c].pc \in {"prompt", "exited"}
    /\ \E c \in Clients : cl[c].pc = "aborted"

SyncInv == Together \/ BrokenOff

(* The setting: nothing splits a send() that fits, no file is too large    *)
(* for the 32 bits of its size, and either the users are orderly or there  *)
(* is one connection and its user does what he likes.                      *)
FairUse ==
    /\ SplitSends = FALSE /\ (Orderly = TRUE \/ MaxConns = 1)
    /\ \A s \in Sizes \cup FirstSizes : s < SizeMod

-----------------------------------------------------------------------------

(* Two that are calm stay in step whatever others do to the globals.       *)
LEMMA CalmInStep ==
    ASSUME NEW p, NEW t, NEW e, Calm(p, t, e), NEW b, NEW m, NEW F, NEW w
    PROVE  InStep(p, t, e, b, m, F, w)
  BY DEF Calm, InStep, Ready, Leaving

OthersCalm(c) ==
    \A d \in Clients \ {c} : cl[d].fd # 0 => Calm(cl[d], th[cl[d].fd], net[cl[d].fd])

(* A step of client c, its connection k and its thread: the others stay in *)
(* step when they are calm.                                                *)
LEMMA PairMoves ==
    ASSUME Inv, Together, NEW c \in Clients, NEW k \in Conns, cl[c].fd \in {0, k},
           cl'[c].fd = k, OthersCalm(c),
           \A d \in Clients \ {c} : cl'[d] = cl[d] /\ cl[d].fd # k,
           \A j \in Conns \ {k} : th'[j] = th[j] /\ net'[j] = net[j],
           up', Entering', Owners',
           \A d \in Dirs, f \in Files :
              fs'[d][f] # Absent => Len(fs'[d][f]) < SizeMod,
           InStep(cl'[c], th'[k], net'[k], buf', msg', fs', cwd')
    PROVE  Together'
  <1>1. ASSUME NEW d \in Clients \ {c}, cl'[d].fd # 0
        PROVE  Calm(cl'[d], th'[cl'[d].fd], net'[cl'[d].fd])
    <2>1. cl'[d] = cl[d] /\ cl[d].fd # k /\ cl[d].fd # 0
      BY <1>1
    <2>2. cl[d].fd \in Conns
      <3>1. cl[d].fd \in 0 .. MaxConns
        BY DEF Inv, TypeOK, ClientTypeOK, ClientState
      <3> QED BY <2>1, <3>1, WireAssumption
    <2>3. th'[cl[d].fd] = th[cl[d].fd] /\ net'[cl[d].fd] = net[cl[d].fd]
      BY <2>1, <2>2
    <2> QED BY <2>1, <2>3 DEF OthersCalm
  <1>2. ASSUME NEW d \in Clients, cl'[d].fd # 0
        PROVE  InStep(cl'[d], th'[cl'[d].fd], net'[cl'[d].fd], buf', msg', fs', cwd')
    BY <1>1, <1>2, CalmInStep
  <1>3. ASSUME NEW d \in Clients, NEW a \in Clients, d # a, cl'[d].fd # 0, cl'[a].fd # 0
        PROVE  \/ Calm(cl'[d], th'[cl'[d].fd], net'[cl'[d].fd])
               \/ Calm(cl'[a], th'[cl'[a].fd], net'[cl'[a].fd])
    BY <1>1, <1>3
  <1> QED BY <1>2, <1>3 DEF Together

(* Who is not calm is the only one.                                        *)
LEMMA OnlyOne ==
    ASSUME Together, NEW c \in Clients, cl[c].fd # 0,
           ~Calm(cl[c], th[cl[c].fd], net[cl[c].fd])
    PROVE  OthersCalm(c)
  BY DEF Together, OthersCalm

(* Nobody is connected at first.                                           *)
LEMMA SyncStarts == Init /\ FairUse => Together
  <1> SUFFICES ASSUME Init, FairUse PROVE Together
    OBVIOUS
  <1>0. Inv
    BY InitInv
  <1>1. /\ net = [k \in Conns |-> NoConn] /\ nconn = 0 /\ backlog = <<>> /\ up = TRUE
        /\ cl = [c \in Clients |-> NewClient]
    BY DEF Init, WireInit, ClientInit
  <1>2. PICK files \in FirstFiles : ServerInit(Home, files)
    BY DEF Init
  <1>3. /\ main = [pc |-> "accept", fd |-> 0, made |-> 0]
        /\ th = [i \in Conns |-> NewThread(Home)] /\ fs = files
    BY <1>2 DEF ServerInit
  <1>4. \A c \in Clients : cl[c].fd = 0 /\ cl[c].pc = "prompt" /\ cl[c].fds = {}
    BY <1>1 DEF NewClient
  <1>5. Owners
    BY <1>1, <1>4 DEF Owners
  <1>6. Entering
    <2>1. \A k \in Conns : th[k].pc = "idle" /\ net[k] = NoConn
      BY <1>1, <1>3 DEF NewThread
    <2>2. main.pc = "accept" /\ main.made = 0
      BY <1>3
    <2> QED BY <1>1, <2>1, <2>2, WireAssumption DEF Entering, Running
  <1>7. ASSUME NEW d \in Dirs, NEW f \in Files, fs[d][f] # Absent
        PROVE  Len(fs[d][f]) < SizeMod
    <2>1. PICK g \in Files, s \in FirstSizes :
             files = [x \in Dirs |-> [y \in Files |->
                        IF x = Home /\ y = g THEN Content(g, s) ELSE Absent]]
      BY DEF FirstFiles
    <2>2. fs[d][f] = Content(g, s)
      BY <1>3, <1>7, <2>1
    <2>3. s \in Nat /\ s < SizeMod
      BY FtAssumption DEF FairUse
    <2>4. Len(Content(g, s)) = s
      BY <2>3, ContentType DEF Names
    <2> QED BY <2>2, <2>3, <2>4
  <1> QED BY <1>1, <1>4, <1>5, <1>6, <1>7 DEF Together

(* A thread that comes into being finds what the client has sent already.  *)
LEMMA ComesIn ==
    ASSUME NEW p, NEW t, NEW e, NEW b, NEW m, NEW F, NEW w, NEW t1,
           InStep(p, t, e, b, m, F, w), t.pc \in {"idle", "start"},
           t1.pc \in {"start", "recv"}
    PROVE  InStep(p, t1, e, b, m, F, w)
  <1>1. Ready(t1, b, F, w)
    BY DEF Ready
  <1>2. \A cmd, arg : Asked(t, e, b, F, w, cmd, arg) => Asked(t1, e, b, F, w, cmd, arg)
    BY <1>1 DEF Asked
  <1>3. CASE p.pc = "prompt"
    BY <1>1, <1>3 DEF InStep
  <1>4. CASE p.pc = "print"
    BY <1>2, <1>4 DEF InStep, Printing, Answered
  <1>5. CASE p.pc = "get_head"
    BY <1>2, <1>5 DEF InStep, Heading, Sends, Sent
  <1>6. CASE p.pc = "get_body"
    BY <1>6 DEF InStep, Getting, Sent
  <1>7. CASE p.pc \in {"put_body", "put_ack"}
    BY <1>1, <1>7 DEF InStep, Putting, Sends
  <1>8. CASE p.pc = "exited"
    BY <1>2, <1>8 DEF InStep, Leaving
  <1> QED BY <1>3, <1>4, <1>5, <1>6, <1>7, <1>8 DEF InStep

(* The owner of a connection, its client's connection is that one.         *)
LEMMA OwnerIs ==
    ASSUME Inv, Together, NEW k \in Conns, k <= nconn
    PROVE  \E c \in Clients :
              /\ cl[c].fd = k /\ cl[c] \in ClientState
              /\ InStep(cl[c], th[k], net[k], buf, msg, fs, cwd)
              /\ \A d \in Clients \ {c} : cl[d].fd # k
  <1>0. nconn \in Nat
    BY DEF Inv, TypeOK, WireTypeOK
  <1>1. PICK c \in Clients : cl[c].fd = k
    BY <1>0, WireAssumption DEF Together, Owners
  <1>2. k # 0
    BY WireAssumption
  <1>3. \A d \in Clients \ {c} : cl[d].fd # k
    BY <1>1, <1>2 DEF Together, Owners
  <1>4. InStep(cl[c], th[k], net[k], buf, msg, fs, cwd)
    BY <1>1, <1>2 DEF Together
  <1>5. cl[c] \in ClientState
    BY DEF Inv, TypeOK, ClientTypeOK
  <1> QED BY <1>1, <1>3, <1>4, <1>5

(* main: socket and bind, accept, pthread_create.                          *)
LEMMA SyncMain ==
    ASSUME Inv, Together, Main, UNCHANGED cl PROVE Together'
  <1>0. /\ main \in MainState /\ th \in [Conns -> Thread] /\ backlog \in Seq(Conns)
        /\ nconn \in 0 .. MaxConns /\ nconn \in Nat
    BY WireAssumption DEF Inv, TypeOK, ServerTypeOK, WireTypeOK
  <1>1. CASE Accept
    <2>1. /\ main.pc = "accept" /\ backlog # <<>> /\ backlog' = Tail(backlog)
          /\ main'.pc = "create" /\ main'.fd = Head(backlog) /\ main'.made = main.made
          /\ UNCHANGED <<nconn, th, net, up, buf, msg, fs, cwd>>
      BY <1>0, <1>1 DEF Accept, MainState
    <2>2. backlog = <<nconn>> /\ main.made # nconn
      BY <2>1 DEF Together, Entering
    <2>3. backlog' = <<>> /\ main'.fd = nconn
      BY <2>1, <2>2
    <2>4. \A k \in Conns : th[k].pc # "start"
      BY <2>2 DEF Together, Entering
    <2>5. Entering'
      BY <2>1, <2>2, <2>3, <2>4 DEF Together, Entering, Running
    <2>6. Owners'
      BY <2>1 DEF Together, Owners
    <2> QED BY <2>1, <2>5, <2>6 DEF Together
  <1>2. CASE ThrdCreate
    <2>0. PICK k \in Conns : k = main.made + 1
      BY <1>0, <1>2, WireAssumption DEF ThrdCreate, MainState
    <2>1. /\ main.pc = "create" /\ main'.pc = "accept" /\ main'.fd = main.fd
          /\ main'.made = k
          /\ UNCHANGED <<nconn, backlog, net, up, buf, msg, fs, cwd>>
          /\ th' = [th EXCEPT ![k] = [th[k] EXCEPT !.pc = "start"]]
      BY <1>0, <1>2, <2>0 DEF ThrdCreate, Become, MainState, wireVars
    <2>2. /\ main.made # nconn /\ main.made \in {nconn, nconn - 1} /\ main.fd = nconn
          /\ backlog = <<>> /\ th[k].pc = "idle"
      BY <1>0, <2>0, <2>1, WireAssumption DEF Together, Entering, MainState
    <2>3. k = nconn
      BY <1>0, <2>0, <2>2 DEF MainState
    <2>4. th'[k].pc = "start" /\ \A j \in Conns \ {k} : th'[j] = th[j]
      BY <1>0, <2>1 DEF Thread
    <2>5. Entering'
      <3>1. ASSUME NEW j \in Conns
            PROVE  /\ th'[j].pc = "idle" <=> j > k
                   /\ Running(th'[j]) => th'[j].fd = j
                   /\ th'[j].pc = "start" => main'.fd = j /\ j = nconn
                   /\ j > nconn => net[j] = NoConn
        <4>1. /\ th[j].pc = "idle" <=> j > main.made
              /\ Running(th[j]) => th[j].fd = j
              /\ th[j].pc = "start" => main.made = nconn
              /\ j > nconn => net[j] = NoConn
          BY DEF Together, Entering
        <4>2. CASE j = k
          BY <1>0, <2>1, <2>2, <2>3, <2>4, <4>1, <4>2, WireAssumption DEF Running
        <4>3. CASE j # k
          <5>1. j > main.made <=> j > k
            BY <1>0, <2>0, <4>3, WireAssumption DEF MainState
          <5> QED BY <2>2, <2>4, <4>1, <4>3, <5>1
        <4> QED BY <4>2, <4>3
      <3> QED BY <2>1, <2>2, <2>3, <3>1 DEF Entering
    <2>6. Owners'
      BY <2>1 DEF Together, Owners
    <2>7. PICK c \in Clients :
              /\ cl[c].fd = k /\ cl[c] \in ClientState
              /\ InStep(cl[c], th[k], net[k], buf, msg, fs, cwd)
              /\ \A d \in Clients \ {c} : cl[d].fd # k
      BY <1>0, <2>3, OwnerIs
    <2>8. InStep(cl[c], th'[k], net[k], buf, msg, fs, cwd)
      BY <2>2, <2>4, <2>7, ComesIn
    <2>9. ~Calm(cl[c], th[k], net[k]) /\ k # 0
      BY <2>2, WireAssumption DEF Calm
    <2>10. OthersCalm(c)
      BY <2>7, <2>9, OnlyOne
    <2>11. /\ up' /\ \A d \in Dirs, f \in Files :
                       fs'[d][f] # Absent => Len(fs'[d][f]) < SizeMod
      BY <2>1 DEF Together
    <2> QED BY <2>1, <2>4, <2>5, <2>6, <2>7, <2>8, <2>10, <2>11, PairMoves
  <1> QED BY <1>1, <1>2 DEF Main

(* A thread that can take a step has something to do.                      *)
LEMMA Busy ==
    ASSUME Inv, Together, NEW k \in Conns, Session(k), NEW p
    PROVE  ~Calm(p, th[k], net[k])
  <1>1. th[k].pc # "done"
    BY DEF Session, SessionStart, SessionRecv, response_ls, response_pwd, response_cd,
       PwdAfterCd, response_get, Fopen, Fread, response_put, PutRest, PutRecv,
       PutWrite, PutClose, response_exit, NoCase, Fill, Send, Switch
  <1>2. ASSUME th[k].pc = "recv", Linked(net[k]), net[k].c2s = <<>> PROVE FALSE
    <2>1. SessionRecv(k)
      BY <1>2 DEF Session, SessionStart, response_ls, response_pwd, response_cd,
         PwdAfterCd, response_get, Fopen, Fread, response_put, PutRest, PutRecv,
         PutWrite, PutClose, response_exit, NoCase, Fill, Send, Switch
    <2>2. th[k].fd = k
      BY <1>2 DEF Together, Entering, Running
    <2>3. SrvResults(k) = {}
      BY <1>2 DEF SrvResults, Results, Linked
    <2> QED BY <2>1, <2>2, <2>3 DEF SessionRecv
  <1> QED BY <1>1, <1>2 DEF Calm

(* A step of thread k keeps everybody in step if it keeps its client so.   *)
LEMMA ThreadMoves ==
    ASSUME Inv, Together, NEW k \in Conns, Session(k), UNCHANGED cl,
           \A j \in Conns \ {k} : net'[j] = net[j], up',
           \A d \in Dirs, f \in Files :
              fs'[d][f] # Absent => Len(fs'[d][f]) < SizeMod,
           \A c \in Clients :
              cl[c].fd = k /\ InStep(cl[c], th[k], net[k], buf, msg, fs, cwd)
                 => InStep(cl[c], th'[k], net'[k], buf', msg', fs', cwd')
    PROVE  Together'
  <1>0. /\ main \in MainState /\ th \in [Conns -> Thread]
        /\ nconn \in 0 .. MaxConns /\ nconn \in Nat /\ main.made \in Nat
    BY WireAssumption DEF Inv, TypeOK, ServerTypeOK, WireTypeOK, MainState
  <1>1. /\ \A j \in Conns \ {k} : th'[j] = th[j]
        /\ UNCHANGED <<main, backlog, nconn>> /\ Running(th'[k]) /\ th'[k].fd = k
        /\ th[k].pc # "idle"
    <2>1. CASE SessionStart(k)
      <3>1. /\ UNCHANGED <<main, backlog, nconn>> /\ th[k].pc = "start"
            /\ th' = [th EXCEPT ![k] = [th[k] EXCEPT !.pc = "recv", !.fd = main.fd]]
        BY <2>1 DEF SessionStart, Become, wireVars
      <3>2. main.fd = k
        BY <3>1 DEF Together, Entering
      <3> QED BY <1>0, <3>1, <3>2 DEF Thread, Running
    <2>2. CASE ~SessionStart(k)
      <3>1. Keeps(k)
        BY <2>2, SessionKeeps
      <3> QED BY <3>1 DEF Keeps, Running, Together, Entering
    <2> QED BY <2>1, <2>2
  <1>2. k <= main.made /\ k <= nconn
    <2>1. ~ (k > main.made) /\ main.made \in {nconn, nconn - 1}
      BY <1>1 DEF Together, Entering
    <2> QED BY <1>0, <2>1, WireAssumption
  <1>3. Entering'
    <2>1. ASSUME NEW j \in Conns
          PROVE  /\ th'[j].pc = "idle" <=> j > main.made
                 /\ Running(th'[j]) => th'[j].fd = j
                 /\ th'[j].pc = "start" => main.fd = j /\ j = nconn /\ main.made = nconn
                 /\ j > nconn => net'[j] = NoConn
      <3>1. /\ th[j].pc = "idle" <=> j > main.made
            /\ Running(th[j]) => th[j].fd = j
            /\ th[j].pc = "start" => main.fd = j /\ j = nconn /\ main.made = nconn
            /\ j > nconn => net[j] = NoConn
        BY DEF Together, Entering
      <3>2. CASE j = k
        BY <1>0, <1>1, <1>2, <3>2, WireAssumption DEF Running
      <3>3. CASE j # k
        BY <1>1, <3>1, <3>3
      <3> QED BY <3>2, <3>3
    <2> QED BY <1>1, <2>1 DEF Entering, Together
  <1>4. Owners'
    BY <1>1 DEF Together, Owners
  <1>5. PICK c \in Clients :
            /\ cl[c].fd = k /\ cl[c] \in ClientState
            /\ InStep(cl[c], th[k], net[k], buf, msg, fs, cwd)
            /\ \A d \in Clients \ {c} : cl[d].fd # k
    BY <1>2, OwnerIs
  <1>6. OthersCalm(c)
    <2>1. ~Calm(cl[c], th[k], net[k]) /\ k # 0
      BY Busy, WireAssumption
    <2> QED BY <1>5, <2>1, OnlyOne
  <1>7. InStep(cl[c], th'[k], net'[k], buf', msg', fs', cwd')
    BY <1>5
  <1> QED BY <1>1, <1>3, <1>4, <1>5, <1>6, <1>7, PairMoves

(* The types of what a session and its client have.                        *)
LEMMA PairTypes ==
    ASSUME Inv, Together, NEW k \in Conns, Running(th[k])
    PROVE  /\ th[k] \in Thread /\ th[k].fd = k /\ Held(th[k], fs)
           /\ net \in [Conns -> Endpoint] /\ net[k] \in Endpoint
           /\ th \in [Conns -> Thread]
           /\ buf \in Buffer /\ msg \in Buffer /\ fs \in FileSystem /\ cwd \in Dirs
           /\ \A c \in Clients : cl[c] \in ClientState
           /\ up
           /\ \A d \in Dirs, f \in Files : fs[d][f] # Absent => Len(fs[d][f]) < SizeMod
  <1>1. th[k].fd = k /\ up
    BY DEF Together, Entering
  <1>2. net \in [Conns -> Endpoint] /\ th \in [Conns -> Thread] /\ cl \in [Clients -> ClientState]
    BY DEF Inv, TypeOK, WireTypeOK, ServerTypeOK, ClientTypeOK
  <1> QED BY <1>1, <1>2, ThreadType DEF Together

(* A thread reads the descriptor it was given.                             *)
LEMMA SyncStart ==
    ASSUME Inv, Together, NEW k \in Conns, SessionStart(k), UNCHANGED cl
    PROVE  Together'
  <1>1. /\ th[k].pc = "start" /\ UNCHANGED <<net, buf, msg, fs, cwd, up>> /\ up
        /\ th' = [th EXCEPT ![k] = [th[k] EXCEPT !.pc = "recv", !.fd = main.fd]]
    BY DEF SessionStart, Become, wireVars
  <1>2. th'[k].pc = "recv"
    BY <1>1 DEF Inv, TypeOK, ServerTypeOK, Thread
  <1>3. \A c \in Clients :
           cl[c].fd = k /\ InStep(cl[c], th[k], net[k], buf, msg, fs, cwd)
              => InStep(cl[c], th'[k], net'[k], buf', msg', fs', cwd')
    BY <1>1, <1>2, ComesIn
  <1>4. Session(k) /\ \A d \in Dirs, f \in Files :
                         fs'[d][f] # Absent => Len(fs'[d][f]) < SizeMod
    BY <1>1 DEF Session, Together
  <1> QED BY <1>1, <1>3, <1>4, ThreadMoves

-----------------------------------------------------------------------------
(* What recv takes off a stream and puts into a buffer.                    *)
LEMMA Taking ==
    ASSUME NEW q \in Seq(Flit), NEW n \in 1 .. Len(q), n <= BufUnits, NEW b \in Buffer
    PROVE  /\ Rest(q, n) \in Seq(Flit) /\ Len(Rest(q, n)) = Len(q) - n
           /\ \A j \in 1 .. Len(q) - n : Rest(q, n)[j] = q[n + j]
           /\ \A j \in 1 .. n : Overlay(b, Cells(q, n))[j] = q[j].c
           /\ \A j \in n + 1 .. BufUnits : Overlay(b, Cells(q, n))[j] = b[j]
  <1>1. Len(Cells(q, n)) = n /\ \A j \in 1 .. n : Cells(q, n)[j] = q[j].c
    BY CellsType DEF Cells
  <1>2. \A j \in 1 .. n : Overlay(b, Cells(q, n))[j] = q[j].c
    BY <1>1, WireAssumption DEF Overlay
  <1>3. \A j \in n + 1 .. BufUnits : Overlay(b, Cells(q, n))[j] = b[j]
    BY <1>1, WireAssumption DEF Overlay
  <1>4. /\ Rest(q, n) \in Seq(Flit) /\ Len(Rest(q, n)) = Len(q) - n
        /\ \A j \in 1 .. Len(q) - n : Rest(q, n)[j] = q[n + j]
    BY DEF Rest
  <1> QED BY <1>2, <1>3, <1>4

(* A request is one send() of at most a buffer.                            *)
LEMMA RequestCells ==
    ASSUME NEW cmd \in Requests, NEW arg \in Names
    PROVE  /\ Cells1(cmd, arg) \in Seq(Cell) /\ Cells1(cmd, arg)[1] = Request(cmd, arg)
           /\ Len(Cells1(cmd, arg)) \in 1 .. BufUnits
           /\ Len(Cells1(cmd, arg)) = (IF cmd = "PWD" THEN 1 ELSE BufUnits)
  <1>1. Request(cmd, arg) \in Cell
    BY CellTypes
  <1> DEFINE r == Request(cmd, arg)
  <1> HIDE DEF r
  <1>2. <<r>> \in Seq(Cell) /\ <<r>>[1] = r /\ Len(<<r>>) = 1
    BY <1>1 DEF r
  <1>3. Padded(r) \in Seq(Cell) /\ Len(Padded(r)) = BufUnits /\ Padded(r)[1] = r
    BY <1>1, CellTypes, WireAssumption DEF Padded, r
  <1>4. Cells1(cmd, arg) = IF cmd = "PWD" THEN <<r>> ELSE Padded(r)
    BY DEF Cells1, r
  <1>5. 1 \in 1 .. BufUnits /\ BufUnits \in 1 .. BufUnits
    BY WireAssumption
  <1>6. CASE cmd = "PWD"
    BY <1>2, <1>4, <1>5, <1>6 DEF r
  <1>7. CASE cmd # "PWD"
    BY <1>3, <1>4, <1>5, <1>7 DEF r
  <1> QED BY <1>6, <1>7

(* The stream after a send.                                                *)
LEMMA PacketIs ==
    ASSUME NEW cells \in Seq(Cell)
    PROVE  /\ Packet(cells) \in Seq(Flit) /\ Len(Packet(cells)) = Len(cells)
           /\ \A j \in 1 .. Len(cells) : /\ Packet(cells)[j].c = cells[j]
                                         /\ Packet(cells)[j].eom <=> j = Len(cells)
  <1>1. Packet(cells) \in Seq(Flit)
    BY PacketType
  <1>2. Len(Packet(cells)) = Len(cells)
    BY DEF Packet
  <1>3. \A j \in 1 .. Len(cells) :
           Packet(cells)[j] = [c |-> cells[j], eom |-> j = Len(cells)]
    BY DEF Packet
  <1>4. ASSUME NEW j \in 1 .. Len(cells)
        PROVE  Packet(cells)[j].c = cells[j] /\ (Packet(cells)[j].eom <=> j = Len(cells))
    <2>1. PICK v : v = (j = Len(cells))
      OBVIOUS
    <2>2. Packet(cells)[j] = [c |-> cells[j], eom |-> v]
      BY <1>3, <2>1, Zenon
    <2>3. Packet(cells)[j].c = cells[j] /\ Packet(cells)[j].eom = v
      BY <2>2
    <2>4. Packet(cells)[j].eom <=> j = Len(cells)
      BY <2>1, <2>3, Zenon
    <2> QED BY <2>3, <2>4
  <1> QED BY <1>1, <1>2, <1>4

(* A request that is received as a whole is in buf, to be looked at.       *)
LEMMA AskedRecv ==
    ASSUME FairUse, NEW cmd \in Requests, NEW arg \in Names, NEW q,
           q = Packet(Cells1(cmd, arg)), NEW n \in RecvLens(q, BufUnits)
    PROVE  n = Len(Cells1(cmd, arg)) /\ q \in Seq(Flit) /\ Len(q) = n /\ n \in 1 .. BufUnits
           /\ q[1].c = Request(cmd, arg)
  <1> DEFINE s == Cells1(cmd, arg)
  <1>1. s \in Seq(Cell) /\ s[1] = Request(cmd, arg) /\ Len(s) \in 1 .. BufUnits
    BY RequestCells
  <1>2. /\ q \in Seq(Flit) /\ Len(q) = Len(s) /\ q[1].c = s[1]
        /\ \A j \in 1 .. Len(s) : q[j].eom <=> j = Len(s)
    BY <1>1, PacketIs, WireAssumption
  <1> HIDE DEF s
  <1>3. n \in 1 .. Len(q) /\ n <= BufUnits /\ (n = BufUnits \/ q[n].eom)
    BY <1>1, <1>2, WireAssumption DEF RecvLens, Lesser, FairUse
  <1>4. n = Len(s)
    BY <1>1, <1>2, <1>3, WireAssumption
  <1> QED BY <1>1, <1>2, <1>4 DEF s

(* recv at the top of the session's loop finds a request, never the end of *)
(* the stream or an error.                                                 *)
LEMMA StepRecv ==
    ASSUME FairUse, NEW p \in ClientState, NEW t \in Thread, NEW e \in Endpoint,
           NEW b \in Buffer, NEW m, NEW F, NEW w,
           InStep(p, t, e, b, m, F, w), t.pc = "recv",
           NEW n \in Results(e.c2s, BufUnits, e.srv, e.cli, e.reset)
    PROVE  /\ n > 0
           /\ InStep(p, [t EXCEPT !.pc = "dispatch", !.n = n],
                     [e EXCEPT !.c2s = Rest(@, n)],
                     Overlay(b, Cells(e.c2s, n)), m, F, w)
  <1>z. PICK t1, e1, b1 :
           /\ t1 = [t EXCEPT !.pc = "dispatch", !.n = n]
           /\ e1 = [e EXCEPT !.c2s = Rest(@, n)]
           /\ b1 = Overlay(b, Cells(e.c2s, n))
    OBVIOUS
  <1> SUFFICES n > 0 /\ InStep(p, t1, e1, b1, m, F, w)
    BY <1>z, Zenon
  <1> DEFINE q == e.c2s
  <1>0. q \in Seq(Flit) /\ Len(q) \in Nat
    BY DEF Endpoint
  <1>1. /\ t1.pc = "dispatch" /\ t1.n = n
        /\ e1.c2s = Rest(q, n) /\ e1.s2c = e.s2c /\ e1.cli = e.cli
        /\ e1.srv = e.srv /\ e1.reset = e.reset
    BY <1>z DEF Thread, Endpoint
  <1>2. q # <<>> /\ e.srv
    <2>1. CASE Linked(e)
      BY <2>1 DEF Linked, Results
    <2>2. CASE p.pc = "exited"
      <3>1. e.srv /\ q = Packet(Cells1("EXIT", None))
        BY <2>2 DEF InStep, Leaving, Asked
      <3>2. "EXIT" \in Requests /\ None \in Names
        BY DEF Requests, Names
      <3>3. /\ Cells1("EXIT", None) \in Seq(Cell)
            /\ Len(Cells1("EXIT", None)) \in 1 .. BufUnits
        BY <3>2, RequestCells
      <3>4. Len(q) \in 1 .. BufUnits
        BY <3>1, <3>3, PacketIs
      <3> QED BY <3>1, <3>4
    <2> QED BY <2>1, <2>2 DEF InStep, Printing, Heading, Getting, Putting
  <1>3. n \in RecvLens(q, BufUnits)
    BY <1>2 DEF Results
  <1>4. n \in 1 .. Len(q) /\ n <= BufUnits
    BY <1>0, <1>3, WireAssumption DEF RecvLens, Lesser
  <1>5. /\ Len(Rest(q, n)) = Len(q) - n
        /\ \A j \in 1 .. Len(q) - n : Rest(q, n)[j] = q[n + j]
        /\ \A j \in 1 .. n : b1[j] = q[j].c
    BY <1>z, <1>0, <1>4, Taking
  <1>6. ASSUME NEW cmd \in Requests, NEW arg \in Names,
               Asked(t, e, b, F, w, cmd, arg)
        PROVE  Asked(t1, e1, b1, F, w, cmd, arg)
    <2>1. q = Packet(Cells1(cmd, arg))
      BY <1>6 DEF Asked
    <2>2. n = Len(Cells1(cmd, arg)) /\ Len(q) = n /\ q[1].c = Request(cmd, arg)
      BY <1>3, <2>1, AskedRecv
    <2>3. Rest(q, n) = <<>>
      BY <2>2 DEF Rest
    <2>4. b1[1] = Request(cmd, arg)
      BY <1>4, <1>5, <2>2
    <2> QED BY <1>1, <2>2, <2>3, <2>4 DEF Asked
  <1>7. Linked(e) <=> Linked(e1)
    BY <1>1 DEF Linked
  <1> HIDE DEF q
  <1>8. CASE p.pc = "prompt"
    BY <1>2, <1>8 DEF InStep, q
  <1>9. CASE p.pc = "print"
    <2>1. /\ p.cmd \in {"LS", "PWD", "CD"} /\ p.arg \in Dirs \cup {None, NoSuch}
          /\ (p.cmd = "PWD" => p.arg = None) /\ Linked(e)
          /\ Asked(t, e, b, F, w, p.cmd, p.arg) /\ e.s2c = <<>> /\ p.shown = <<>>
      BY <1>2, <1>9 DEF InStep, Printing, q
    <2>2. Asked(t1, e1, b1, F, w, p.cmd, p.arg)
      BY <1>6, <2>1 DEF Requests, Names
    <2> QED BY <1>1, <1>4, <1>7, <1>9, <2>1, <2>2 DEF InStep, Printing
  <1>10. CASE p.pc = "get_head"
    <2>1. /\ p.cmd = "GET" /\ p.arg \in Targets /\ p.out = <<>> /\ Linked(e)
          /\ Asked(t, e, b, F, w, "GET", p.arg) /\ e.s2c = <<>>
      BY <1>2, <1>10 DEF InStep, Heading, q
    <2>2. Asked(t1, e1, b1, F, w, "GET", p.arg)
      BY <1>6, <2>1, FtAssumption DEF Requests, Names
    <2> QED BY <1>1, <1>4, <1>7, <1>10, <2>1, <2>2 DEF InStep, Heading
  <1>11. CASE p.pc = "get_body"
    BY <1>2, <1>11 DEF InStep, Getting, q
  <1>12. CASE p.pc \in {"put_body", "put_ack"}
    <2> DEFINE f == p.arg
               s == IF p.size = Missing THEN 0 ELSE p.size
    <2>1. /\ p.cmd = "PUT" /\ f \in Files /\ Linked(e)
          /\ p.size \in Sizes \cup {Missing} /\ (Orderly => p.size # Missing)
          /\ p.pos <= s /\ (p.pc = "put_ack" => p.pos = s /\ p.size # Missing)
      BY <1>12 DEF InStep, Putting
    <2>6. /\ e.s2c = <<>> /\ Len(q) = p.pos + 1 /\ q[1].c = PutHead(f, s)
          /\ \A j \in 2 .. Len(q) : q[j].c = Body(f, j - 1)
      <3>1. Putting(p, t, e, b, m, F, w)
        BY <1>12 DEF InStep
      <3> QED BY <1>2, <3>1 DEF Putting, Sends, q
    <2> HIDE DEF f, s
    <2>2. b1[1] = PutHead(f, s) /\ \A j \in 2 .. n : b1[j] = Body(f, j - 1)
      <3>1. 1 \in 1 .. n /\ \A j \in 2 .. n : j \in 1 .. n /\ j \in 2 .. Len(q)
        BY <1>0, <1>4
      <3>2. b1[1] = PutHead(f, s)
        BY <1>5, <2>6, <3>1
      <3>3. ASSUME NEW j \in 2 .. n PROVE b1[j] = Body(f, j - 1)
        <4>1. b1[j] = q[j].c
          BY <1>5, <3>1
        <4>2. q[j].c = Body(f, j - 1)
          BY <2>6, <3>1
        <4> QED BY <4>1, <4>2
      <3> QED BY <3>2, <3>3
    <2>3. Brings(Rest(q, n), f, n - 1)
      <3> SUFFICES ASSUME NEW j \in 1 .. Len(Rest(q, n))
                   PROVE  Rest(q, n)[j].c = Body(f, n - 1 + j)
        BY DEF Brings
      <3>1. Rest(q, n)[j] = q[n + j] /\ n + j \in 2 .. Len(q)
        BY <1>0, <1>4, <1>5
      <3>2. q[n + j].c = Body(f, (n + j) - 1)
        BY <2>6, <3>1
      <3>3. (n + j) - 1 = n - 1 + j
        BY <1>0, <1>4, <1>5
      <3> QED BY <3>1, <3>2, <3>3
    <2>4. n >= 1 /\ n - 1 + Len(Rest(q, n)) = p.pos
      BY <1>0, <1>4, <1>5, <2>6 DEF ClientState
    <2>5. Putting(p, t1, e1, b1, m, F, w)
      BY <1>1, <1>7, <2>1, <2>2, <2>3, <2>4, <2>6 DEF Putting, f, s
    <2> QED BY <1>4, <1>12, <2>5 DEF InStep
  <1>13. CASE p.pc = "exited"
    <2>1. Asked(t, e, b, F, w, "EXIT", None) /\ e.s2c = <<>> /\ ~e.cli /\ ~e.reset
      BY <1>13 DEF InStep, Leaving
    <2>2. Asked(t1, e1, b1, F, w, "EXIT", None)
      BY <1>6, <2>1 DEF Requests, Names
    <2> QED BY <1>1, <1>2, <1>4, <1>13, <2>1, <2>2 DEF InStep, Leaving
  <1> QED BY <1>8, <1>9, <1>10, <1>11, <1>12, <1>13 DEF InStep

(* A thread that has started serves somebody.                              *)
LEMMA HasOwner ==
    ASSUME Inv, Together, NEW k \in Conns, Running(th[k])
    PROVE  \E c \in Clients :
              cl[c].fd = k /\ InStep(cl[c], th[k], net[k], buf, msg, fs, cwd)
  <1>1. k <= nconn
    <2>1. ~ (k > main.made) /\ main.made \in {nconn, nconn - 1}
      BY DEF Together, Entering, Running
    <2>2. nconn \in Nat /\ main.made \in Nat
      BY WireAssumption DEF Inv, TypeOK, WireTypeOK, ServerTypeOK, MainState
    <2> QED BY <2>1, <2>2, WireAssumption
  <1> QED BY <1>1, OwnerIs

(* ft_session receives: a request, or the end of the stream after exit.    *)
LEMMA SyncRecv ==
    ASSUME FairUse, Inv, Together, NEW k \in Conns, SessionRecv(k), UNCHANGED cl
    PROVE  Together'
  <1>0. th[k].pc = "recv" /\ Running(th[k])
    BY DEF SessionRecv, Running
  <1>1. /\ th[k] \in Thread /\ th[k].fd = k /\ net \in [Conns -> Endpoint]
        /\ net[k] \in Endpoint /\ th \in [Conns -> Thread] /\ buf \in Buffer
        /\ \A c \in Clients : cl[c] \in ClientState
        /\ up /\ \A d \in Dirs, f \in Files : fs[d][f] # Absent => Len(fs[d][f]) < SizeMod
    BY <1>0, PairTypes
  <1>2. PICK n \in SrvResults(k) :
           /\ RecvInto(k, n) /\ Become(k, [th[k] EXCEPT !.pc = "dispatch", !.n = n])
    BY <1>1 DEF SessionRecv
  <1>3. n \in Results(net[k].c2s, BufUnits, net[k].srv, net[k].cli, net[k].reset)
    BY DEF SrvResults
  <1>4. PICK t1, e1, b1 :
           /\ t1 = [th[k] EXCEPT !.pc = "dispatch", !.n = n]
           /\ e1 = [net[k] EXCEPT !.c2s = Rest(@, n)]
           /\ b1 = Overlay(buf, Cells(net[k].c2s, n))
    OBVIOUS
  <1>5. /\ n \in Int /\ th'[k] = t1 /\ UNCHANGED <<msg, fs, cwd, up>>
        /\ (n > 0 => /\ buf' = b1 /\ net'[k] = e1
                     /\ \A j \in Conns \ {k} : net'[j] = net[j])
    <2>1. n \in Int
      <3>1. net[k].c2s \in Seq(Flit)
        BY <1>1 DEF Endpoint
      <3> QED BY <1>3, <3>1, ResultsType, WireAssumption
    <2>2. th'[k] = t1
      BY <1>1, <1>2, <1>4 DEF Become
    <2>3. n > 0 => /\ buf' = b1 /\ net'[k] = e1
                   /\ \A j \in Conns \ {k} : net'[j] = net[j]
      BY <1>1, <1>2, <1>4 DEF RecvInto
    <2> QED BY <2>1, <2>2, <2>3 DEF SessionRecv
  <1>6. ASSUME NEW c \in Clients, InStep(cl[c], th[k], net[k], buf, msg, fs, cwd)
        PROVE  n > 0 /\ InStep(cl[c], t1, e1, b1, msg, fs, cwd)
    <2>1. InStep(cl[c], [th[k] EXCEPT !.pc = "dispatch", !.n = n],
                 [net[k] EXCEPT !.c2s = Rest(@, n)],
                 Overlay(buf, Cells(net[k].c2s, n)), msg, fs, cwd) /\ n > 0
      BY <1>0, <1>1, <1>3, <1>6, StepRecv
    <2> QED BY <1>4, <2>1, Zenon
  <1>7. n > 0
    <2>1. k <= nconn
      <3>1. ~ (k > main.made) /\ main.made \in {nconn, nconn - 1}
        BY <1>0 DEF Together, Entering
      <3>2. nconn \in Nat /\ main.made \in Nat
        BY WireAssumption DEF Inv, TypeOK, WireTypeOK, ServerTypeOK, MainState
      <3> QED BY <3>1, <3>2, WireAssumption
    <2> QED BY <1>6, <2>1, OwnerIs
  <1>8. Session(k)
    BY DEF Session
  <1>9. /\ up' /\ \A d \in Dirs, f \in Files :
                    fs'[d][f] # Absent => Len(fs'[d][f]) < SizeMod
    BY <1>1, <1>5
  <1>10. \A j \in Conns \ {k} : net'[j] = net[j]
    BY <1>5, <1>7
  <1>11. ASSUME NEW c \in Clients, InStep(cl[c], th[k], net[k], buf, msg, fs, cwd)
         PROVE  InStep(cl[c], th'[k], net'[k], buf', msg', fs', cwd')
    BY <1>5, <1>6, <1>7, <1>11
  <1> QED BY <1>8, <1>9, <1>10, <1>11, ThreadMoves

-----------------------------------------------------------------------------
(* The switch: the request it sees is the one the client sent.             *)
LEMMA AtDispatch ==
    ASSUME NEW p, NEW t, NEW e, NEW b, NEW m, NEW F, NEW w,
           InStep(p, t, e, b, m, F, w), t.pc = "dispatch"
    PROVE  /\ \/ p.pc = "print" /\ p.cmd \in {"LS", "PWD", "CD"}
              \/ p.pc = "get_head" /\ p.cmd = "GET"
              \/ p.pc \in {"put_body", "put_ack"} /\ p.cmd = "PUT"
              \/ p.pc = "exited"
           /\ p.pc = "print" =>
                 /\ b[1] = Request(p.cmd, p.arg) /\ t.n = Len(Cells1(p.cmd, p.arg))
                 /\ p.shown = <<>> /\ e.s2c = <<>> /\ e.c2s = <<>> /\ Linked(e)
                 /\ p.arg \in Dirs \cup {None, NoSuch} /\ (p.cmd = "PWD" => p.arg = None)
           /\ p.pc = "get_head" =>
                 /\ b[1] = Request("GET", p.arg) /\ t.n = Len(Cells1("GET", p.arg))
                 /\ p.out = <<>> /\ ~p.ok /\ e.s2c = <<>> /\ e.c2s = <<>> /\ Linked(e)
                 /\ p.arg \in Targets
           /\ p.pc = "exited" =>
                 /\ b[1] = Request("EXIT", None) /\ t.n = Len(Cells1("EXIT", None))
                 /\ e.s2c = <<>> /\ e.c2s = <<>> /\ ~e.cli /\ e.srv /\ ~e.reset
           /\ p.pc \in {"put_body", "put_ack"} =>
                 /\ b[1] = PutHead(p.arg, IF p.size = Missing THEN 0 ELSE p.size)
                 /\ t.n >= 1
  <1>1. CASE p.pc = "prompt"
    BY <1>1 DEF InStep, Ready
  <1>2. CASE p.pc = "print"
    BY <1>2 DEF InStep, Printing, Asked, Answered, Ready
  <1>3. CASE p.pc = "get_head"
    BY <1>3 DEF InStep, Heading, Asked, Sends, Sent, Ready
  <1>4. CASE p.pc = "get_body"
    BY <1>4 DEF InStep, Getting, Sent
  <1>5. CASE p.pc \in {"put_body", "put_ack"}
    BY <1>5 DEF InStep, Putting, Sends, Ready
  <1>6. CASE p.pc = "exited"
    BY <1>6 DEF InStep, Leaving, Asked, Ready
  <1> QED BY <1>1, <1>2, <1>3, <1>4, <1>5, <1>6 DEF InStep

(* What ft_session makes of the kind of the cell it received.              *)
LEMMA Switching ==
    ASSUME Inv, NEW k \in Conns, th[k].n >= 1
    PROVE  /\ Seen(k) = buf[1]
           /\ \A j \in 1 .. th[k].n : Terminated(th[k].n)[j] = buf[j]
           /\ Terminated(th[k].n) \in Buffer
  <1>1. th[k].n \in -1 .. BufUnits /\ buf \in Buffer
    BY ThreadType DEF Thread
  <1>2. \A j \in 1 .. th[k].n : Terminated(th[k].n)[j] = buf[j]
    BY <1>1, WireAssumption DEF Terminated, Buffer
  <1>3. Seen(k) = buf[1]
    BY <1>1, <1>2, WireAssumption DEF Seen
  <1> QED BY <1>2, <1>3, SwitchType

(* At the switch every client of thread k has sent one of the six requests *)
(* and at least one cell of it has arrived.                                *)
LEMMA Dispatched ==
    ASSUME Inv, Together, NEW k \in Conns, th[k].pc = "dispatch", NEW c \in Clients,
           cl[c].fd = k, InStep(cl[c], th[k], net[k], buf, msg, fs, cwd)
    PROVE  /\ th[k].n >= 1 /\ Seen(k) = buf[1]
           /\ Seen(k).k = (IF cl[c].pc = "exited" THEN "EXIT" ELSE cl[c].cmd)
           /\ Seen(k).f = (IF cl[c].pc = "exited" THEN None ELSE cl[c].arg)
           /\ cl[c].pc \in {"print", "get_head", "put_body", "put_ack", "exited"}
           /\ cl[c].pc = "print" <=> Seen(k).k \in {"LS", "PWD", "CD"}
           /\ cl[c].pc = "get_head" <=> Seen(k).k = "GET"
           /\ cl[c].pc \in {"put_body", "put_ack"} <=> Seen(k).k = "PUT"
           /\ cl[c].pc = "exited" <=> Seen(k).k = "EXIT"
  <1>0. cl[c] \in ClientState
    BY DEF Inv, TypeOK, ClientTypeOK
  <1>1. th[k].n >= 1
    <2>1. \A cmd \in Requests, arg \in Names : Len(Cells1(cmd, arg)) >= 1
      BY RequestCells, WireAssumption
    <2>2. CASE cl[c].pc = "print"
      <3>1. /\ th[k].n = Len(Cells1(cl[c].cmd, cl[c].arg)) /\ cl[c].cmd \in {"LS", "PWD", "CD"}
        BY <2>2, AtDispatch
      <3> QED BY <1>0, <2>1, <3>1 DEF Requests, ClientState
    <2>3. CASE cl[c].pc = "get_head"
      <3>1. th[k].n = Len(Cells1("GET", cl[c].arg))
        BY <2>3, AtDispatch
      <3> QED BY <1>0, <2>1, <3>1 DEF Requests, ClientState
    <2>4. CASE cl[c].pc = "exited"
      <3>1. th[k].n = Len(Cells1("EXIT", None))
        BY <2>4, AtDispatch
      <3> QED BY <2>1, <3>1 DEF Requests, Names
    <2>5. CASE cl[c].pc \in {"put_body", "put_ack"}
      BY <2>5, AtDispatch
    <2> QED BY <2>2, <2>3, <2>4, <2>5, AtDispatch
  <1>2. Seen(k) = buf[1]
    BY <1>1, Switching
  <1>3. \A q, a, s : /\ Request(q, a).k = q /\ Request(q, a).f = a
                     /\ PutHead(a, s).k = "PUT" /\ PutHead(a, s).f = a
    BY DEF Request, PutHead
  <1> QED BY <1>1, <1>2, <1>3, AtDispatch

-----------------------------------------------------------------------------
(* ls, pwd and cd.                                                         *)

(* The first one and two elements of a sequence.                           *)
LEMMA FirstPiece ==
    ASSUME NEW S, NEW x \in Seq(S), Len(x) >= 1
    PROVE  /\ SubSeq(x, 1, 1) = <<x[1]>>
           /\ Len(x) >= 2 => SubSeq(x, 1, 2) = <<x[1], x[2]>>
  <1>1. SubSeq(x, 1, 1) = <<x[1]>>
    <2>1. PICK y : y = SubSeq(x, 1, 1)
      OBVIOUS
    <2>2. y \in Seq(S) /\ Len(y) = 1 /\ y[1] = x[1]
      BY <2>1
    <2>3. y = <<y[1]>>
      BY <2>2
    <2> QED BY <2>1, <2>2, <2>3
  <1>2. ASSUME Len(x) >= 2 PROVE SubSeq(x, 1, 2) = <<x[1], x[2]>>
    <2>1. PICK y : y = SubSeq(x, 1, 2)
      OBVIOUS
    <2>2. y \in Seq(S) /\ Len(y) = 2 /\ y[1] = x[1] /\ y[2] = x[2]
      BY <1>2, <2>1
    <2>3. y = <<y[1], y[2]>>
      BY <2>2
    <2> QED BY <2>1, <2>2, <2>3
  <1> QED BY <1>1, <1>2

(* One sequence after another.                                             *)
LEMMA Joined ==
    ASSUME NEW S, NEW x \in Seq(S), NEW y \in Seq(S)
    PROVE  /\ x \o y \in Seq(S) /\ Len(x \o y) = Len(x) + Len(y)
           /\ \A j \in 1 .. Len(x) : (x \o y)[j] = x[j]
           /\ \A j \in 1 .. Len(y) : (x \o y)[Len(x) + j] = y[j]
  <1>1. x \o y \in Seq(S)
    OBVIOUS
  <1>2. Len(x \o y) = Len(x) + Len(y)
    OBVIOUS
  <1>3. Len(x) \in Nat /\ Len(y) \in Nat
    OBVIOUS
  <1>4. ASSUME NEW j \in 1 .. Len(x) PROVE (x \o y)[j] = x[j]
    BY <1>3
  <1>5. ASSUME NEW j \in 1 .. Len(y) PROVE (x \o y)[Len(x) + j] = y[j]
    BY <1>3
  <1> QED BY <1>1, <1>2, <1>4, <1>5

(* A sequence with one more element at its end.                            *)
LEMMA OneMore ==
    ASSUME NEW S, NEW x \in Seq(S), NEW y \in Seq(S), Len(y) = 1
    PROVE  /\ x \o y \in Seq(S) /\ Len(x \o y) = Len(x) + 1 /\ x \o y # <<>>
           /\ \A j \in 1 .. Len(x) : (x \o y)[j] = x[j]
           /\ (x \o y)[Len(x) + 1] = y[1]
  <1>1. 1 \in 1 .. Len(y)
    OBVIOUS
  <1> QED BY <1>1, Joined, ConcatType

(* An answer begins: nothing of it has been sent.                          *)
LEMMA StartsAnswer ==
    ASSUME NEW p, NEW t, NEW e, NEW b, NEW m, NEW F, NEW w, NEW X,
           p.pc = "print", p.cmd \in {"LS", "PWD", "CD"},
           p.arg \in Dirs \cup {None, NoSuch}, p.cmd = "PWD" => p.arg = None,
           Linked(e), e.c2s = <<>>, e.s2c = <<>>, p.shown = <<>>,
           IsAnswer(X, p.cmd, p.arg, F, w), t.pc = "fill", t.todo # <<>>,
           \A j \in 1 .. Len(t.todo) : t.todo[j].cells = <<X[j]>>,
           \/ t.next = "recv" /\ Len(t.todo) = Len(X)
           \/ t.next = "pwd" /\ Len(t.todo) = Len(X) - 2 /\ PwdLast(X, w),
           Len(t.todo) \in Nat
    PROVE  InStep(p, t, e, b, m, F, w)
  <1>0. Len(p.shown) = 0 /\ Len(e.s2c) = 0 /\ Len(X) \in Nat
    BY DEF IsAnswer
  <1>1. \A j \in 1 .. Len(t.todo) :
           t.todo[j].cells = <<X[Len(p.shown) + Len(e.s2c) + j]>>
    BY <1>0
  <1>2. \/ t.next = "recv" /\ Len(p.shown) + Len(e.s2c) + Len(t.todo) = Len(X)
        \/ t.next = "pwd" /\ Len(p.shown) + Len(e.s2c) + Len(t.todo) = Len(X) - 2
    BY <1>0
  <1>3. Answered(p.shown, t, e, b, m, X)
    BY <1>0, <1>1, <1>2 DEF Answered
  <1>4. (t.pc = "pwd" \/ t.next = "pwd") => PwdLast(X, w)
    OBVIOUS
  <1> QED BY <1>3, <1>4 DEF InStep, Printing

(* readdir gives every entry, and none twice.                              *)
LEMMA ListingIs ==
    ASSUME Inv, NEW d \in Dirs, NEW s \in Listings(d)
    PROVE  LET S == {f \in Files : fs[d][f] # Absent} IN
           /\ s \in Seq(Files) /\ Len(s) = Cardinality(S)
           /\ {s[j] : j \in 1 .. Len(s)} = S
  <1>1. PICK S : S = {f \in Files : fs[d][f] # Absent}
    OBVIOUS
  <1>2. IsFiniteSet(S)
    BY <1>1, FS_Subset, ServerAssumption
  <1>3. PICK n \in Nat : n = Cardinality(S)
    BY <1>2, FS_CardinalityType
  <1>4. s \in [1 .. n -> S] /\ \A x, y \in DOMAIN s : s[x] = s[y] => x = y
    BY <1>1, <1>3 DEF Listings
  <1>5. s \in Seq(Files) /\ Len(s) = n
    BY <1>1, <1>4
  <1>6. s \in Injection(1 .. n, S)
    BY <1>4 DEF Injection, IsInjective
  <1>7. Cardinality(1 .. n) = n
    BY FS_Interval
  <1>8. s \in Surjection(1 .. n, S)
    BY <1>2, <1>3, <1>6, <1>7, FS_Injection
  <1>9. {s[j] : j \in 1 .. n} = S
    BY <1>4, <1>8 DEF Surjection
  <1> QED BY <1>1, <1>3, <1>5, <1>9

(* What the switch leaves, seen by the client whose request it looks at.   *)
LEMMA AtSwitch ==
    ASSUME Inv, Together, NEW k \in Conns, th[k].pc = "dispatch", NEW c \in Clients,
           cl[c].fd = k, InStep(cl[c], th[k], net[k], buf, msg, fs, cwd),
           Seen(k).k \in {"LS", "PWD", "CD"}
    PROVE  /\ cl[c].pc = "print" /\ cl[c].cmd = Seen(k).k /\ cl[c].arg = Seen(k).f
           /\ cl[c].arg \in Dirs \cup {None, NoSuch}
           /\ (cl[c].cmd = "PWD" => cl[c].arg = None)
           /\ Linked(net[k]) /\ net[k].c2s = <<>> /\ net[k].s2c = <<>>
           /\ cl[c].shown = <<>>
  <1>1. cl[c].pc = "print"
    BY Dispatched
  <1> QED BY <1>1, Dispatched, AtDispatch

(* response_ls answers ls.                                                 *)
LEMMA SyncLs ==
    ASSUME FairUse, Inv, Together, NEW k \in Conns, response_ls(k), UNCHANGED cl
    PROVE  Together'
  <1>0. th[k].pc = "dispatch" /\ Running(th[k]) /\ Seen(k).k = "LS"
        /\ UNCHANGED <<net, fs, cwd, up>>
    BY DEF response_ls, Switch, Running, wireVars
  <1>1. /\ th[k] \in Thread /\ th \in [Conns -> Thread] /\ cwd \in Dirs /\ up
        /\ \A d \in Dirs, f \in Files : fs[d][f] # Absent => Len(fs[d][f]) < SizeMod
    BY <1>0, PairTypes
  <1>2. ASSUME NEW c \in Clients, cl[c].fd = k,
               InStep(cl[c], th[k], net[k], buf, msg, fs, cwd)
        PROVE  InStep(cl[c], th'[k], net'[k], buf', msg', fs', cwd')
    <2>1. /\ cl[c].pc = "print" /\ cl[c].cmd = "LS" /\ cl[c].arg = Seen(k).f
          /\ cl[c].arg \in Dirs \cup {None, NoSuch}
          /\ Linked(net[k]) /\ net[k].c2s = <<>> /\ net[k].s2c = <<>>
          /\ cl[c].shown = <<>>
      BY <1>0, <1>2, AtSwitch
    <2> DEFINE d == Seen(k).f
    <2>2. ASSUME NEW r \in Seq(Reply), NEW X, r # <<>>, IsAnswer(X, "LS", d, fs, cwd),
                 \A j \in 1 .. Len(r) : r[j].cells = <<X[j]>>, Len(r) = Len(X),
                 Answer(k, r, "recv")
          PROVE  InStep(cl[c], th'[k], net'[k], buf', msg', fs', cwd')
      <3>1. th'[k].pc = "fill" /\ th'[k].todo = r /\ th'[k].next = "recv"
        BY <1>1, <2>2 DEF Answer, Become, Thread
      <3>2. IsAnswer(X, cl[c].cmd, cl[c].arg, fs, cwd) /\ Len(r) \in Nat
        BY <2>1, <2>2
      <3>3. InStep(cl[c], th'[k], net[k], buf', msg', fs, cwd)
        BY <2>1, <2>2, <3>1, <3>2, StartsAnswer
      <3> QED BY <1>0, <3>3
    <2>3. d \in Names /\ d \in Dirs \cup {None, NoSuch} /\ Text(d) \in Cell /\ End \in Cell
      BY <2>1, CellTypes DEF Names
    <2>4. CASE Path(d) \notin Dirs
      <3>1. d = NoSuch
        BY <1>1, <2>3, <2>4 DEF Path
      <3>2. PICK r, X : /\ r = << Via("msg", <<Text(d)>>), Via("msg", <<End>>) >>
                        /\ X = <<Text(d), End>>
        OBVIOUS
      <3>3. Answer(k, r, "recv")
        BY <2>4, <3>2 DEF response_ls
      <3>4. r \in Seq(Reply) /\ Len(r) = 2 /\ r # <<>>
        BY <2>3, <3>2, ReplyTypes
      <3>5. \A j \in 1 .. Len(r) : r[j].cells = <<X[j]>>
        BY <3>2 DEF Via
      <3>6. IsAnswer(X, "LS", d, fs, cwd)
        <4>1. X \in Seq(Cell) /\ Len(X) = 2 /\ X[1] = Text(d) /\ X[2] = End
          BY <2>3, <3>2
        <4>2. SubSeq(X, 1, Len(X) - 1) = <<Text(d)>>
          BY <4>1, FirstPiece
        <4>3. X[1].k # "END" /\ X[2].k = "END"
          BY <4>1 DEF Text, End
        <4>4. \A j \in 1 .. Len(X) : X[j].k = "END" <=> j = Len(X)
          BY <4>1, <4>3
        <4>5. Shows(SubSeq(X, 1, Len(X) - 1), "LS", d, fs, cwd)
          BY <3>1, <4>2 DEF Shows
        <4> QED BY <4>1, <4>4, <4>5 DEF IsAnswer
      <3>7. Len(r) = Len(X)
        BY <3>2
      <3> QED BY <2>2, <3>3, <3>4, <3>5, <3>6, <3>7
    <2>5. CASE Path(d) \in Dirs
      <3>0. d # NoSuch /\ Path(d) = (IF d = None THEN cwd ELSE d)
        BY <2>5, NamesAssumption DEF Path
      <3>1. PICK s \in Listings(Path(d)) :
               Answer(k, [j \in 1 .. Len(s) |-> Via("buf", <<Text(s[j])>>)]
                             \o << Via("buf", <<End>>) >>, "recv")
        BY <2>5 DEF response_ls
      <3>2. PICK S : S = {f \in Files : fs[Path(d)][f] # Absent}
        OBVIOUS
      <3>3. /\ s \in Seq(Files) /\ Len(s) = Cardinality(S)
            /\ {s[j] : j \in 1 .. Len(s)} = S
        BY <2>5, <3>2, ListingIs
      <3>4. PICK n \in Nat : n = Len(s)
        BY <3>3
      <3>5. \A j \in 1 .. n : s[j] \in Files /\ s[j] \in Names /\ Text(s[j]) \in Cell
        BY <3>3, <3>4, CellTypes DEF Names
      <3>6. PICK r1, r2, X :
               /\ r1 = [j \in 1 .. Len(s) |-> Via("buf", <<Text(s[j])>>)]
               /\ r2 = << Via("buf", <<End>>) >>
               /\ X = [j \in 1 .. n + 1 |-> IF j <= n THEN Text(s[j]) ELSE End]
        OBVIOUS
      <3>7. /\ r1 \in Seq(Reply) /\ Len(r1) = n
            /\ \A j \in 1 .. n : r1[j] = Via("buf", <<Text(s[j])>>)
        BY <3>4, <3>5, <3>6, ReplyTypes
      <3>8. r2 \in Seq(Reply) /\ Len(r2) = 1 /\ r2[1] = Via("buf", <<End>>)
        BY <2>3, <3>6, ReplyTypes
      <3>9. /\ X \in Seq(Cell) /\ Len(X) = n + 1 /\ X[n + 1] = End
            /\ \A j \in 1 .. n : X[j] = Text(s[j])
        BY <2>3, <3>5, <3>6
      <3>10. PICK r : r = r1 \o r2
        OBVIOUS
      <3>11. /\ r \in Seq(Reply) /\ Len(r) = n + 1 /\ r # <<>>
             /\ \A j \in 1 .. n : r[j] = r1[j]
             /\ r[n + 1] = r2[1]
        BY <3>7, <3>8, <3>10, OneMore
      <3>12. ASSUME NEW j \in 1 .. Len(r) PROVE r[j].cells = <<X[j]>>
        <4>1. CASE j <= n
          <5>1. j \in 1 .. n
            BY <3>11, <4>1
          <5>2. r[j] = Via("buf", <<X[j]>>)
            BY <3>7, <3>9, <3>11, <5>1
          <5> QED BY <5>2 DEF Via
        <4>2. CASE ~ (j <= n)
          <5>1. j = n + 1
            BY <3>11, <4>2
          <5>2. r[j] = Via("buf", <<X[j]>>)
            BY <3>8, <3>9, <3>11, <5>1
          <5> QED BY <5>2 DEF Via
        <4> QED BY <4>1, <4>2
      <3>13. IsAnswer(X, "LS", d, fs, cwd)
        <4>1. ASSUME NEW j \in 1 .. Len(X) PROVE X[j].k = "END" <=> j = Len(X)
          <5>1. CASE j <= n
            <6>1. X[j] = Text(s[j]) /\ j # Len(X)
              BY <3>9, <5>1
            <6>2. X[j].k = "TEXT"
              BY <6>1 DEF Text
            <6> QED BY <6>1, <6>2
          <5>2. CASE ~ (j <= n)
            <6>1. X[j] = End /\ j = Len(X)
              BY <3>9, <5>2
            <6> QED BY <6>1 DEF End
          <5> QED BY <5>1, <5>2
        <4>2. PICK Y : Y = SubSeq(X, 1, Len(X) - 1)
          OBVIOUS
        <4>3. Y \in Seq(Cell) /\ Len(Y) = n /\ DOMAIN Y = 1 .. n
              /\ \A j \in 1 .. n : Y[j] = Text(s[j])
          BY <3>9, <4>2
        <4>4. \A j \in 1 .. n : Y[j].f = s[j]
          BY <4>3 DEF Text
        <4>5. TextsOf(Y) = S
          BY <3>3, <3>4, <4>3, <4>4 DEF TextsOf
        <4>6. Shows(Y, "LS", d, fs, cwd)
          BY <3>0, <3>2, <3>3, <3>4, <4>3, <4>5 DEF Shows
        <4> QED BY <3>9, <4>1, <4>2, <4>6 DEF IsAnswer
      <3>14. Answer(k, r, "recv")
        BY <3>1, <3>6, <3>10
      <3> QED BY <2>2, <3>9, <3>11, <3>12, <3>13, <3>14
    <2> QED BY <2>4, <2>5
  <1>3. Session(k)
    BY DEF Session
  <1> QED BY <1>0, <1>1, <1>2, <1>3, ThreadMoves

(* A step of thread k that leaves the connections and the files alone.     *)
LEMMA QuietStep ==
    ASSUME Inv, Together, NEW k \in Conns, Session(k), UNCHANGED <<cl, net, fs, up>>,
           \A c \in Clients :
              cl[c].fd = k /\ InStep(cl[c], th[k], net[k], buf, msg, fs, cwd)
                 => InStep(cl[c], th'[k], net[k], buf', msg', fs, cwd')
    PROVE  Together'
  <1>1. up' /\ \A j \in Conns \ {k} : net'[j] = net[j]
    BY DEF Together
  <1>2. \A d \in Dirs, f \in Files : fs'[d][f] # Absent => Len(fs'[d][f]) < SizeMod
    BY DEF Together
  <1>3. \A c \in Clients :
           cl[c].fd = k /\ InStep(cl[c], th[k], net[k], buf, msg, fs, cwd)
              => InStep(cl[c], th'[k], net'[k], buf', msg', fs', cwd')
    OBVIOUS
  <1> QED BY <1>1, <1>2, <1>3, ThreadMoves

(* The working directory and END.                                          *)
LEMMA TextAnswer ==
    ASSUME NEW a \in Names, NEW cmd, NEW d, NEW F, NEW w,
           Shows(<<Text(a)>>, cmd, d, F, w)
    PROVE  /\ IsAnswer(<<Text(a), End>>, cmd, d, F, w)
           /\ Len(<<Text(a), End>>) = 2
           /\ <<Text(a), End>>[1] = Text(a) /\ <<Text(a), End>>[2] = End
  <1>1. Text(a) \in Cell /\ End \in Cell /\ Text(a).k # "END" /\ End.k = "END"
    <2>1. Text(a) \in Cell /\ End \in Cell
      BY CellTypes
    <2> QED BY <2>1 DEF Text, End
  <1>2. PICK X : X = <<Text(a), End>>
    OBVIOUS
  <1>3. X \in Seq(Cell) /\ Len(X) = 2 /\ X[1] = Text(a) /\ X[2] = End
    BY <1>1, <1>2
  <1>4. \A j \in 1 .. Len(X) : X[j].k = "END" <=> j = Len(X)
    BY <1>1, <1>3
  <1>5. SubSeq(X, 1, Len(X) - 1) = <<Text(a)>>
    BY <1>3, FirstPiece
  <1>6. Shows(SubSeq(X, 1, Len(X) - 1), cmd, d, F, w)
    BY <1>5
  <1>7. IsAnswer(X, cmd, d, F, w)
    BY <1>3, <1>4, <1>6 DEF IsAnswer
  <1> QED BY <1>2, <1>3, <1>7

(* What response_pwd sends.                                                *)
LEMMA PwdRepliesAre ==
    ASSUME Inv
    PROVE  /\ PwdReplies \in Seq(Reply) /\ Len(PwdReplies) = 2 /\ PwdReplies # <<>>
           /\ PwdReplies[1] = Via("own", <<Text(cwd)>>) /\ PwdReplies[2] = Via("buf", <<End>>)
           /\ \A X : \A n \in Nat : X[n + 1] = Text(cwd) /\ X[n + 2] = End =>
                 \A j \in 1 .. Len(PwdReplies) : PwdReplies[j].cells = <<X[n + j]>>
  <1>1. cwd \in Dirs
    BY DEF Inv, TypeOK, ServerTypeOK
  <1>2. Text(cwd) \in Cell /\ End \in Cell
    BY <1>1, CellTypes DEF Names
  <1>3. Via("own", <<Text(cwd)>>) \in Reply /\ Via("buf", <<End>>) \in Reply
    BY <1>2, ReplyTypes
  <1>4. /\ PwdReplies \in Seq(Reply) /\ Len(PwdReplies) = 2 /\ PwdReplies # <<>>
        /\ PwdReplies[1] = Via("own", <<Text(cwd)>>) /\ PwdReplies[2] = Via("buf", <<End>>)
    BY <1>3 DEF PwdReplies
  <1>5. PwdReplies[1].cells = <<Text(cwd)>> /\ PwdReplies[2].cells = <<End>>
    BY <1>4 DEF Via
  <1>6. ASSUME NEW X, NEW n \in Nat, X[n + 1] = Text(cwd) /\ X[n + 2] = End,
               NEW j \in 1 .. Len(PwdReplies)
        PROVE  PwdReplies[j].cells = <<X[n + j]>>
    <2>1. j = 1 \/ j = 2
      BY <1>4
    <2> QED BY <1>5, <1>6, <2>1
  <1> QED BY <1>4, <1>6

(* response_pwd answers pwd, or ends the answer to cd.                     *)
LEMMA SyncPwd ==
    ASSUME FairUse, Inv, Together, NEW k \in Conns, response_pwd(k), UNCHANGED cl
    PROVE  Together'
  <1>0. th[k].pc = "dispatch" /\ Running(th[k]) /\ Seen(k).k = "PWD"
        /\ UNCHANGED <<net, fs, cwd, up>> /\ Answer(k, PwdReplies, "recv")
    BY DEF response_pwd, Switch, Running, wireVars
  <1>1. /\ th[k] \in Thread /\ th \in [Conns -> Thread] /\ cwd \in Dirs /\ cwd \in Names
    BY <1>0, PairTypes DEF Names
  <1>2. ASSUME NEW c \in Clients, cl[c].fd = k,
               InStep(cl[c], th[k], net[k], buf, msg, fs, cwd)
        PROVE  InStep(cl[c], th'[k], net[k], buf', msg', fs, cwd')
    <2>1. /\ cl[c].pc = "print" /\ cl[c].cmd = "PWD" /\ cl[c].arg = None
          /\ Linked(net[k]) /\ net[k].c2s = <<>> /\ net[k].s2c = <<>>
          /\ cl[c].shown = <<>>
      BY <1>0, <1>2, AtSwitch
    <2>2. th'[k].pc = "fill" /\ th'[k].todo = PwdReplies /\ th'[k].next = "recv"
      BY <1>0, <1>1 DEF Answer, Become, Thread
    <2>3. Shows(<<Text(cwd)>>, "PWD", None, fs, cwd)
      BY DEF Shows
    <2>4. PICK X : X = <<Text(cwd), End>>
      OBVIOUS
    <2>5. /\ IsAnswer(X, cl[c].cmd, cl[c].arg, fs, cwd) /\ Len(X) = 2
          /\ X[1] = Text(cwd) /\ X[2] = End
      BY <1>1, <2>1, <2>3, <2>4, TextAnswer
    <2>6. \A j \in 1 .. Len(PwdReplies) : PwdReplies[j].cells = <<X[j]>>
      <3>1. X[0 + 1] = Text(cwd) /\ X[0 + 2] = End /\ 0 \in Nat
        BY <2>5
      <3>2. \A j \in 1 .. Len(PwdReplies) : PwdReplies[j].cells = <<X[0 + j]>>
        BY <3>1, PwdRepliesAre
      <3>3. \A j \in 1 .. Len(PwdReplies) : 0 + j = j
        BY PwdRepliesAre
      <3> QED BY <3>2, <3>3
    <2>7. Len(PwdReplies) = Len(X) /\ Len(PwdReplies) \in Nat /\ PwdReplies # <<>>
      BY <2>5, PwdRepliesAre
    <2>8. InStep(cl[c], th'[k], net[k], buf', msg', fs, cwd)
      BY <2>1, <2>2, <2>5, <2>6, <2>7, StartsAnswer
    <2> QED BY <1>0, <2>8
  <1>3. Session(k)
    BY DEF Session
  <1> QED BY <1>0, <1>2, <1>3, QuietStep

(* response_cd, which leaves the end of its answer to response_pwd.        *)
LEMMA SyncCd ==
    ASSUME FairUse, Inv, Together, NEW k \in Conns, response_cd(k), UNCHANGED cl
    PROVE  Together'
  <1> DEFINE d == Seen(k).f
  <1>0. th[k].pc = "dispatch" /\ Running(th[k]) /\ Seen(k).k = "CD"
        /\ UNCHANGED <<net, fs, up>>
    BY DEF response_cd, Switch, Running, wireVars
  <1>1. /\ th[k] \in Thread /\ th \in [Conns -> Thread] /\ cwd \in Dirs /\ cwd \in Names
        /\ d \in Names
    BY <1>0, PairTypes, SwitchType DEF Names
  <1>2. ASSUME NEW c \in Clients, cl[c].fd = k,
               InStep(cl[c], th[k], net[k], buf, msg, fs, cwd)
        PROVE  InStep(cl[c], th'[k], net[k], buf', msg', fs, cwd')
    <2>1. /\ cl[c].pc = "print" /\ cl[c].cmd = "CD" /\ cl[c].arg = d
          /\ d \in Dirs \cup {None, NoSuch}
          /\ Linked(net[k]) /\ net[k].c2s = <<>> /\ net[k].s2c = <<>>
          /\ cl[c].shown = <<>>
      BY <1>0, <1>2, AtSwitch
    <2>2. CASE Path(d) \in Dirs
      <3>1. /\ cwd' = Path(d) /\ Become(k, [th[k] EXCEPT !.pc = "pwd"])
        BY <2>2 DEF response_cd
      <3>2. d # NoSuch /\ cwd' = (IF d = None THEN cwd' ELSE d) /\ cwd' \in Names
        BY <2>2, <3>1, NamesAssumption DEF Path, Names
      <3>3. th'[k].pc = "pwd"
        BY <1>1, <3>1 DEF Become, Thread
      <3>4. Shows(<<Text(cwd')>>, "CD", d, fs, cwd')
        BY <3>2 DEF Shows
      <3>5. PICK X : X = <<Text(cwd'), End>>
        OBVIOUS
      <3>6. /\ IsAnswer(X, "CD", d, fs, cwd') /\ Len(X) = 2
            /\ X[1] = Text(cwd') /\ X[2] = End
        BY <3>2, <3>4, <3>5, TextAnswer
      <3>7. PwdLast(X, cwd')
        BY <3>6 DEF PwdLast
      <3>8. Answered(cl[c].shown, th'[k], net[k], buf', msg', X)
        <4>1. Len(cl[c].shown) = 0 /\ Len(net[k].s2c) = 0
          BY <2>1
        <4> QED BY <3>3, <3>6, <4>1 DEF Answered
      <3> QED BY <2>1, <3>6, <3>7, <3>8 DEF InStep, Printing
    <2>3. CASE Path(d) \notin Dirs
      <3>1. cwd' = cwd /\ Answer(k, << Via("msg", <<Text(d)>>) >>, "pwd")
        BY <2>3 DEF response_cd
      <3>2. d = NoSuch
        BY <1>1, <2>1, <2>3 DEF Path
      <3>3. PICK r : r = << Via("msg", <<Text(d)>>) >>
        OBVIOUS
      <3>4. /\ Len(r) = 1 /\ r # <<>> /\ r[1].cells = <<Text(d)>>
        BY <3>3 DEF Via
      <3>5. th'[k].pc = "fill" /\ th'[k].todo = r /\ th'[k].next = "pwd"
        BY <1>1, <3>1, <3>3 DEF Answer, Become, Thread
      <3>6. PICK X : X = <<Text(d), Text(cwd), End>>
        OBVIOUS
      <3>7. Text(d) \in Cell /\ Text(cwd) \in Cell /\ End \in Cell
        BY <1>1, CellTypes
      <3>8. /\ X \in Seq(Cell) /\ Len(X) = 3 /\ X[1] = Text(d) /\ X[2] = Text(cwd)
            /\ X[3] = End
        BY <3>6, <3>7
      <3>9. Text(d).k # "END" /\ Text(cwd).k # "END" /\ End.k = "END"
        BY DEF Text, End
      <3>10. \A j \in 1 .. Len(X) : X[j].k = "END" <=> j = Len(X)
        <4>1. \A j \in 1 .. 3 : j = 1 \/ j = 2 \/ j = 3
          OBVIOUS
        <4> QED BY <3>8, <3>9, <4>1
      <3>11. SubSeq(X, 1, Len(X) - 1) = <<Text(d), Text(cwd)>>
        <4>1. Len(X) - 1 = 2 /\ Len(X) >= 2 /\ Len(X) >= 1
          BY <3>8
        <4> QED BY <3>8, <4>1, FirstPiece
      <3>12. Shows(<<Text(d), Text(cwd)>>, "CD", d, fs, cwd)
        BY <3>2 DEF Shows
      <3>13. IsAnswer(X, cl[c].cmd, cl[c].arg, fs, cwd) /\ PwdLast(X, cwd)
        <4>1. Shows(SubSeq(X, 1, Len(X) - 1), "CD", d, fs, cwd)
          BY <3>11, <3>12
        <4>2. IsAnswer(X, "CD", d, fs, cwd)
          BY <3>8, <3>10, <4>1 DEF IsAnswer
        <4>3. PwdLast(X, cwd)
          BY <3>8 DEF PwdLast
        <4> QED BY <2>1, <4>2, <4>3
      <3>14. /\ \A j \in 1 .. Len(r) : r[j].cells = <<X[j]>>
             /\ Len(r) = Len(X) - 2 /\ Len(r) \in Nat
        BY <3>4, <3>8
      <3>15. InStep(cl[c], th'[k], net[k], buf', msg', fs, cwd)
        BY <2>1, <3>4, <3>5, <3>13, <3>14, StartsAnswer
      <3> QED BY <3>1, <3>15
    <2> QED BY <2>2, <2>3
  <1>3. Session(k)
    BY DEF Session
  <1> QED BY <1>0, <1>2, <1>3, QuietStep

(* response_pwd at the end of cd.                                          *)
LEMMA SyncPwdAfterCd ==
    ASSUME FairUse, Inv, Together, NEW k \in Conns, PwdAfterCd(k), UNCHANGED cl
    PROVE  Together'
  <1>0. th[k].pc = "pwd" /\ Running(th[k]) /\ Answer(k, PwdReplies, "recv")
        /\ UNCHANGED <<net, buf, msg, fs, cwd, up>>
    BY DEF PwdAfterCd, Running, wireVars
  <1>1. /\ th[k] \in Thread /\ th \in [Conns -> Thread] /\ net[k] \in Endpoint
        /\ \A c \in Clients : cl[c] \in ClientState
    BY <1>0, PairTypes
  <1>2. ASSUME NEW c \in Clients, cl[c].fd = k,
               InStep(cl[c], th[k], net[k], buf, msg, fs, cwd)
        PROVE  InStep(cl[c], th'[k], net[k], buf', msg', fs, cwd')
    <2>0. th'[k].pc = "fill" /\ th'[k].todo = PwdReplies /\ th'[k].next = "recv"
      BY <1>0, <1>1 DEF Answer, Become, Thread
    <2>1. cl[c].pc = "print" /\ Printing(cl[c], th[k], net[k], buf, msg, fs, cwd)
      <3>1. \A cmd, arg : ~Asked(th[k], net[k], buf, fs, cwd, cmd, arg)
                          /\ ~Ready(th[k], buf, fs, cwd)
        BY <1>0 DEF Asked, Ready
      <3> QED BY <1>0, <1>2, <3>1
              DEF InStep, Heading, Getting, Putting, Leaving, Sent, Sends
    <2>2. PICK X :
             /\ IsAnswer(X, cl[c].cmd, cl[c].arg, fs, cwd)
             /\ Answered(cl[c].shown, th[k], net[k], buf, msg, X)
             /\ PwdLast(X, cwd)
      BY <1>0, <2>1 DEF Printing, Asked, Ready
    <2>a. Len(cl[c].shown) \in Nat /\ Len(net[k].s2c) \in Nat /\ Len(X) \in Nat
      BY <1>1, <2>2 DEF IsAnswer, ClientState, Endpoint
    <2>b. PICK n : n = Len(cl[c].shown) + Len(net[k].s2c)
      OBVIOUS
    <2>c. /\ Len(cl[c].shown) + Len(net[k].s2c) = Len(X) - 2
          /\ \A j \in 1 .. Len(cl[c].shown) : cl[c].shown[j] = X[j]
          /\ \A j \in 1 .. Len(net[k].s2c) : net[k].s2c[j].c = X[Len(cl[c].shown) + j]
      BY <1>0, <2>2 DEF Answered
    <2>3. n = Len(X) - 2 /\ n \in Nat
      <3>1. n = Len(X) - 2
        BY <2>b, <2>c, Zenon
      <3>2. PICK x, y \in Nat : x = Len(cl[c].shown) /\ y = Len(net[k].s2c)
        BY <2>a
      <3>3. n = x + y
        BY <2>b, <3>2, Zenon
      <3>4. n \in Nat
        BY <3>3
      <3> QED BY <3>1, <3>4, Zenon
    <2>4. X[n + 1] = Text(cwd) /\ X[n + 2] = End
      <3>1. n + 1 = Len(X) - 1 /\ n + 2 = Len(X)
        BY <2>a, <2>3
      <3> QED BY <2>2, <3>1 DEF PwdLast
    <2>5. /\ Len(PwdReplies) = 2 /\ PwdReplies # <<>>
          /\ \A j \in 1 .. Len(PwdReplies) : PwdReplies[j].cells = <<X[n + j]>>
      BY <2>3, <2>4, PwdRepliesAre
    <2>6. n + Len(PwdReplies) = Len(X)
      BY <2>a, <2>3, <2>5
    <2>7. Answered(cl[c].shown, th'[k], net[k], buf, msg, X)
      <3>1. /\ Len(cl[c].shown) + Len(net[k].s2c) + Len(PwdReplies) = Len(X)
            /\ \A j \in 1 .. Len(PwdReplies) :
                  PwdReplies[j].cells = <<X[Len(cl[c].shown) + Len(net[k].s2c) + j]>>
        BY <2>b, <2>5, <2>6
      <3>2. PICK t1 : t1 = th'[k]
        OBVIOUS
      <3>3. Answered(cl[c].shown, t1, net[k], buf, msg, X)
        BY <2>0, <2>c, <2>5, <3>1, <3>2 DEF Answered
      <3> QED BY <3>2, <3>3
    <2>8. Printing(cl[c], th'[k], net[k], buf, msg, fs, cwd)
      <3>1. net[k].c2s = <<>>
        BY <1>0, <2>1 DEF Printing, Asked, Ready
      <3> QED BY <2>1, <2>2, <2>7, <3>1 DEF Printing
    <2> QED BY <1>0, <2>1, <2>8 DEF InStep
  <1>3. Session(k)
    BY DEF Session
  <1> QED BY <1>0, <1>2, <1>3, QuietStep

-----------------------------------------------------------------------------
(* Putting an answer into its buffer and sending it.                       *)

(* Who is served while his thread answers.                                 *)
LEMMA WhileAnswering ==
    ASSUME NEW p, NEW t, NEW e, NEW b, NEW m, NEW F, NEW w,
           InStep(p, t, e, b, m, F, w), t.pc \in {"fill", "send"}
    PROVE  /\ Linked(e)
           /\ t.pc = "send" => InPlace(t.todo[1], b, m)
           /\ \/ p.pc = "print" /\ Printing(p, t, e, b, m, F, w)
              \/ p.pc = "get_head" /\ Heading(p, t, e, b, m, F, w)
              \/ p.pc = "get_body" /\ Getting(p, t, e, b, m, F, w)
              \/ p.pc \in {"put_body", "put_ack"} /\ Putting(p, t, e, b, m, F, w)
  <1>1. \A cmd, arg : ~Ready(t, b, F, w) /\ ~Asked(t, e, b, F, w, cmd, arg)
    BY DEF Asked, Ready
  <1>2. CASE p.pc = "print"
    BY <1>1, <1>2 DEF InStep, Printing, Answered
  <1>3. CASE p.pc = "get_head"
    BY <1>1, <1>3 DEF InStep, Heading, Sends, Sent
  <1>4. CASE p.pc = "get_body"
    BY <1>4 DEF InStep, Getting, Sent
  <1>5. CASE p.pc \in {"put_body", "put_ack"}
    BY <1>1, <1>5 DEF InStep, Putting, Sends
  <1> QED BY <1>1, <1>2, <1>3, <1>4, <1>5 DEF InStep, Leaving

(* What is filled in is what will be sent.                                 *)
LEMMA FillPlace ==
    ASSUME NEW r \in Reply, NEW b \in Buffer, NEW m \in Buffer, NEW b1, NEW m1,
           b1 = IF r.via = "buf" THEN Overlay(b, r.cells) ELSE b,
           m1 = IF r.via = "msg" THEN Overlay(m, r.cells) ELSE m
    PROVE  InPlace(r, b1, m1)
  <1>1. r.cells \in Seq(Cell) /\ Len(r.cells) <= BufUnits /\ Len(r.cells) \in Nat
    BY DEF Reply, Piece
  <1>2. \A a \in Buffer : \A j \in 1 .. Len(r.cells) : Overlay(a, r.cells)[j] = r.cells[j]
    BY <1>1, WireAssumption DEF Overlay
  <1> QED BY <1>2 DEF InPlace

(* Filling a buffer leaves the thread in step with its client.             *)
LEMMA StepFill ==
    ASSUME NEW p, NEW t \in Thread, NEW e, NEW b \in Buffer, NEW m \in Buffer,
           NEW F, NEW w, NEW t1, NEW b1, NEW m1,
           InStep(p, t, e, b, m, F, w), t.pc = "fill", t.todo # <<>>,
           t1 = [t EXCEPT !.pc = "send"],
           b1 = IF t.todo[1].via = "buf" THEN Overlay(b, t.todo[1].cells) ELSE b,
           m1 = IF t.todo[1].via = "msg" THEN Overlay(m, t.todo[1].cells) ELSE m
    PROVE  InStep(p, t1, e, b1, m1, F, w)
  <1>0. t1.pc = "send" /\ t1.todo = t.todo /\ t1.next = t.next
    BY DEF Thread
  <1>1. InPlace(t.todo[1], b1, m1)
    <2>1. t.todo[1] \in Reply
      BY DEF Thread
    <2> QED BY <2>1, FillPlace
  <1>2. \A cmd, arg : ~Ready(t, b, F, w) /\ ~Asked(t, e, b, F, w, cmd, arg)
    BY DEF Asked, Ready
  <1>3. \A v, cell, next : Sends(t, b, m, v, cell, next) => Sends(t1, b1, m1, v, cell, next)
    BY <1>0, <1>1 DEF Sends
  <1>4. CASE p.pc = "print"
    <2>1. Printing(p, t, e, b, m, F, w)
      BY <1>4, WhileAnswering
    <2>2. PICK X : /\ IsAnswer(X, p.cmd, p.arg, F, w)
                   /\ Answered(p.shown, t, e, b, m, X)
                   /\ (t.pc = "pwd" \/ t.next = "pwd") => PwdLast(X, w)
      BY <1>2, <2>1 DEF Printing
    <2>3. Answered(p.shown, t1, e, b1, m1, X)
      BY <1>0, <1>1, <2>2 DEF Answered
    <2>4. (t1.pc = "pwd" \/ t1.next = "pwd") => PwdLast(X, w)
      BY <1>0, <2>2
    <2>5. Printing(p, t1, e, b1, m1, F, w)
      BY <1>2, <2>1, <2>2, <2>3, <2>4 DEF Printing
    <2> QED BY <1>4, <2>5 DEF InStep
  <1>5. CASE p.pc = "get_head"
    <2>1. Heading(p, t, e, b, m, F, w)
      BY <1>5, WhileAnswering
    <2>2. Sends(t, b, m, "msg", Header(SizeIn(F, w, p.arg)), "fopen") => b1 = b
      BY DEF Sends, Via
    <2>3. Heading(p, t1, e, b1, m1, F, w)
      BY <1>2, <1>3, <2>1, <2>2 DEF Heading, Sent
    <2> QED BY <1>5, <2>3 DEF InStep
  <1>6. CASE p.pc = "get_body"
    BY <1>6, WhileAnswering DEF Getting, Sent
  <1>7. CASE p.pc \in {"put_body", "put_ack"}
    <2>1. Putting(p, t, e, b, m, F, w)
      BY <1>7, WhileAnswering
    <2>2. Putting(p, t1, e, b1, m1, F, w)
      BY <1>2, <1>3, <2>1 DEF Putting
    <2> QED BY <1>7, <2>2 DEF InStep
  <1> QED BY <1>4, <1>5, <1>6, <1>7, WhileAnswering

(* A thread fills the shared buffer it sends from.                         *)
LEMMA SyncFill ==
    ASSUME FairUse, Inv, Together, NEW k \in Conns, Fill(k), UNCHANGED cl
    PROVE  Together'
  <1>0. /\ th[k].pc = "fill" /\ Running(th[k]) /\ UNCHANGED <<net, fs, cwd, up>>
        /\ Become(k, [th[k] EXCEPT !.pc = "send"])
    BY DEF Fill, Running, wireVars
  <1>1. /\ th[k] \in Thread /\ th \in [Conns -> Thread] /\ Held(th[k], fs)
        /\ buf \in Buffer /\ msg \in Buffer
    BY <1>0, PairTypes
  <1>2. th[k].todo # <<>> /\ th[k].todo \in Seq(Reply)
    BY <1>0, <1>1 DEF Held, Thread
  <1>3. Head(th[k].todo) = th[k].todo[1]
    BY <1>2
  <1>4. th'[k] = [th[k] EXCEPT !.pc = "send"]
    BY <1>0, <1>1 DEF Become
  <1>5. /\ buf' = IF th[k].todo[1].via = "buf" THEN Overlay(buf, th[k].todo[1].cells) ELSE buf
        /\ msg' = IF th[k].todo[1].via = "msg" THEN Overlay(msg, th[k].todo[1].cells) ELSE msg
    BY <1>3 DEF Fill
  <1>6. ASSUME NEW c \in Clients, InStep(cl[c], th[k], net[k], buf, msg, fs, cwd)
        PROVE  InStep(cl[c], th'[k], net[k], buf', msg', fs, cwd')
    <2>1. InStep(cl[c], th'[k], net[k], buf', msg', fs, cwd)
      BY <1>0, <1>1, <1>2, <1>4, <1>5, <1>6, StepFill
    <2> QED BY <1>0, <2>1
  <1>7. Session(k)
    BY DEF Session
  <1> QED BY <1>0, <1>6, <1>7, QuietStep

(* send() takes from the buffer what was put there.                        *)
LEMMA InBufferIs ==
    ASSUME NEW r \in Reply, buf \in Buffer, msg \in Buffer, InPlace(r, buf, msg)
    PROVE  InBuffer(r) = r.cells
  <1>1. r.cells \in Seq(Cell) /\ Len(r.cells) <= BufUnits /\ r.via \in {"buf", "msg", "own"}
    BY DEF Reply, Piece
  <1>2. ASSUME NEW a \in Buffer, \A j \in 1 .. Len(r.cells) : a[j] = r.cells[j]
        PROVE  SubSeq(a, 1, Len(r.cells)) = r.cells
    <2>1. a \in Seq(Cell) /\ Len(a) = BufUnits
      BY WireAssumption DEF Buffer
    <2>2. PICK y : y = SubSeq(a, 1, Len(r.cells))
      OBVIOUS
    <2>3. /\ y \in Seq(Cell) /\ Len(y) = Len(r.cells)
          /\ \A j \in 1 .. Len(r.cells) : y[j] = a[j]
      BY <1>1, <2>1, <2>2
    <2>4. \A j \in 1 .. Len(r.cells) : y[j] = r.cells[j]
      BY <1>2, <2>3
    <2>5. y = r.cells
      BY <1>1, <2>3, <2>4
    <2> QED BY <2>2, <2>5
  <1>3. CASE r.via = "buf"
    BY <1>2, <1>3 DEF InBuffer, InPlace
  <1>4. CASE r.via = "msg"
    BY <1>2, <1>4 DEF InBuffer, InPlace
  <1>5. CASE r.via = "own"
    BY <1>5 DEF InBuffer
  <1> QED BY <1>1, <1>3, <1>4, <1>5

(* What a send() appends to a stream.                                      *)
LEMMA Appended ==
    ASSUME NEW q \in Seq(Flit), NEW cells \in Seq(Cell)
    PROVE  /\ q \o Packet(cells) \in Seq(Flit)
           /\ Len(q \o Packet(cells)) = Len(q) + Len(cells)
           /\ \A j \in 1 .. Len(q) : (q \o Packet(cells))[j] = q[j]
           /\ \A j \in 1 .. Len(cells) : (q \o Packet(cells))[Len(q) + j].c = cells[j]
  <1>1. /\ Packet(cells) \in Seq(Flit) /\ Len(Packet(cells)) = Len(cells)
        /\ \A j \in 1 .. Len(cells) : Packet(cells)[j].c = cells[j]
    BY PacketIs
  <1>2. PICK y : y = Packet(cells)
    OBVIOUS
  <1>3. /\ y \in Seq(Flit) /\ Len(y) = Len(cells)
        /\ \A j \in 1 .. Len(cells) : y[j].c = cells[j]
    BY <1>1, <1>2
  <1>4. /\ q \o y \in Seq(Flit) /\ Len(q \o y) = Len(q) + Len(cells)
        /\ \A j \in 1 .. Len(q) : (q \o y)[j] = q[j]
        /\ \A j \in 1 .. Len(cells) : (q \o y)[Len(q) + j] = y[j]
    <2>1. /\ q \o y \in Seq(Flit) /\ Len(q \o y) = Len(q) + Len(y)
          /\ \A j \in 1 .. Len(q) : (q \o y)[j] = q[j]
          /\ \A j \in 1 .. Len(y) : (q \o y)[Len(q) + j] = y[j]
      <3>1. PICK S : S = Flit
        OBVIOUS
      <3>2. q \in Seq(S) /\ y \in Seq(S)
        BY <1>3, <3>1
      <3>3. /\ q \o y \in Seq(S) /\ Len(q \o y) = Len(q) + Len(y)
            /\ \A j \in 1 .. Len(q) : (q \o y)[j] = q[j]
            /\ \A j \in 1 .. Len(y) : (q \o y)[Len(q) + j] = y[j]
        BY <3>2, Joined
      <3> QED BY <3>1, <3>3
    <2>2. Len(y) = Len(cells)
      BY <1>3
    <2> QED BY <2>1, <2>2, Zenon
  <1>5. \A j \in 1 .. Len(cells) : (q \o y)[Len(q) + j].c = cells[j]
    BY <1>3, <1>4
  <1> QED BY <1>2, <1>4, <1>5

(* A file's length.                                                        *)
LEMMA HoldsType ==
    ASSUME NEW F \in FileSystem, NEW w \in Dirs, NEW f \in Names, CanRead(F, w, f)
    PROVE  Holds(F, w, f) \in Seq(Cell) /\ Len(Holds(F, w, f)) \in Nat
  <1>1. CASE f \in Dirs
    BY <1>1 DEF Holds
  <1>2. CASE f \notin Dirs
    <2>1. f \in Files /\ F[w][f] # Absent
      BY <1>2 DEF CanRead
    <2>2. F[w][f] \in Seq(Cell)
      BY <2>1 DEF FileSystem
    <2> QED BY <1>2, <2>2 DEF Holds
  <1> QED BY <1>1, <1>2

(* Thread t has sent the first of its answers and goes on as t1.           *)
Goes(t, t1) ==
    /\ t1.todo = Tail(t.todo) /\ t1.next = t.next /\ t1.file = t.file
    /\ t1.dir = t.dir /\ t1.pos = t.pos
    /\ t1.pc = IF Len(t.todo) > 1 THEN "fill" ELSE t.next

(* Stream q has cells of the file from the (o + 1)-st on.                  *)
From(q, o, F, w, f) ==
    \A j \in 1 .. Len(q) : o + j >= 1 => q[j].c = Holds(F, w, f)[o + j]

(* An answer to ls, pwd or cd advances by one send.                        *)
LEMMA SendPrint ==
    ASSUME NEW s \in Seq(Cell), NEW t \in Thread, NEW e, NEW r \in Seq(Flit), e.s2c = r,
           NEW b, NEW m, NEW t1, NEW e1, NEW X \in Seq(Cell),
           Answered(s, t, e, b, m, X), t.pc = "send", t.todo # <<>>,
           Goes(t, t1), e1.s2c = r \o Packet(t.todo[1].cells)
    PROVE  Answered(s, t1, e1, b, m, X)
  <1>g. /\ t1.todo = Tail(t.todo) /\ t1.next = t.next
        /\ t1.pc = IF Len(t.todo) > 1 THEN "fill" ELSE t.next
    BY DEF Goes
  <1>0. PICK todo, q : todo \in Seq(Reply) /\ todo = t.todo /\ q = e1.s2c
    BY DEF Thread
  <1>a. PICK ns \in Nat, nr \in Nat, nt \in Nat, nx \in Nat :
           ns = Len(s) /\ nr = Len(r) /\ nt = Len(todo) /\ nx = Len(X) /\ nt >= 1
    BY <1>0
  <1>1. \A j \in 1 .. ns : s[j] = X[j]
    BY <1>a DEF Answered
  <1>b. \A j \in 1 .. nr : r[j].c = X[ns + j]
    BY <1>a DEF Answered
  <1>c. \A j \in 1 .. nt : todo[j].cells = <<X[ns + nr + j]>>
    BY <1>0, <1>a DEF Answered
  <1>d. \/ t.next = "recv" /\ ns + nr + nt = nx
        \/ t.next = "pwd" /\ ns + nr + nt = nx - 2
    BY <1>0, <1>a DEF Answered
  <1>2. PICK c : c \in Seq(Cell) /\ Len(c) = 1 /\ c[1] = X[ns + nr + 1] /\ c = todo[1].cells
    <2>1. todo[1] \in Reply /\ 1 \in 1 .. nt
      BY <1>0, <1>a
    <2>2. todo[1].cells = <<X[ns + nr + 1]>> /\ todo[1].cells \in Seq(Cell)
      BY <1>c, <2>1 DEF Reply, Piece
    <2> QED BY <2>2
  <1>3. Len(q) = nr + 1 /\ (\A j \in 1 .. nr : q[j] = r[j]) /\ q[nr + 1].c = c[1]
    <2>1. q = r \o Packet(c) /\ 1 \in 1 .. Len(c)
      BY <1>0, <1>2
    <2>2. /\ Len(r \o Packet(c)) = Len(r) + Len(c)
          /\ \A j \in 1 .. Len(r) : (r \o Packet(c))[j] = r[j]
          /\ \A j \in 1 .. Len(c) : (r \o Packet(c))[Len(r) + j].c = c[j]
      BY <1>2, Appended
    <2>3. Len(r) = nr /\ Len(c) = 1
      BY <1>a, <1>2
    <2>4. Len(q) = nr + 1 /\ \A j \in 1 .. nr : q[j] = r[j]
      BY <2>1, <2>2, <2>3, Zenon
    <2>5. q[nr + 1].c = c[1]
      BY <2>1, <2>2, <2>3, Zenon
    <2> QED BY <2>4, <2>5
  <1>4. ASSUME NEW j \in 1 .. nr + 1 PROVE q[j].c = X[ns + j]
    <2>1. CASE j <= nr
      <3>1. j \in 1 .. nr
        BY <2>1
      <3>2. q[j] = r[j]
        BY <1>3, <3>1
      <3>3. r[j].c = X[ns + j]
        BY <1>b, <3>1
      <3> QED BY <3>2, <3>3
    <2>2. CASE ~ (j <= nr)
      <3>1. j = nr + 1 /\ ns + j = ns + nr + 1
        BY <2>2
      <3> QED BY <1>2, <1>3, <3>1
    <2> QED BY <2>1, <2>2
  <1>5. /\ Len(t1.todo) = nt - 1
        /\ \A j \in 1 .. nt - 1 : t1.todo[j] = todo[j + 1]
        /\ t1.todo \in Seq(Reply)
    BY <1>g, <1>0, <1>a
  <1>6. CASE nt > 1
    <2>1. t1.pc = "fill" /\ t1.todo # <<>>
      <3>1. nt - 1 # 0
        BY <1>6
      <3>2. Len(t1.todo) # 0
        BY <1>5, <3>1, Zenon
      <3>3. t1.pc = "fill"
        BY <1>g, <1>0, <1>a, <1>6, Zenon
      <3>4. Len(<<>>) = 0
        OBVIOUS
      <3>5. t1.todo # <<>>
        BY <3>2, <3>4, Zenon
      <3> QED BY <3>3, <3>5
    <2>2. ASSUME NEW j \in 1 .. nt - 1
          PROVE  t1.todo[j].cells = <<X[ns + (nr + 1) + j]>>
      <3>1. j + 1 \in 1 .. nt /\ ns + nr + (j + 1) = ns + (nr + 1) + j
        OBVIOUS
      <3>2. todo[j + 1].cells = <<X[ns + nr + (j + 1)]>>
        BY <1>c, <3>1
      <3>3. t1.todo[j] = todo[j + 1]
        BY <1>5
      <3> QED BY <3>1, <3>2, <3>3, Zenon
    <2>3. \/ t1.next = "recv" /\ ns + (nr + 1) + (nt - 1) = nx
          \/ t1.next = "pwd" /\ ns + (nr + 1) + (nt - 1) = nx - 2
      <3>1. ns + (nr + 1) + (nt - 1) = ns + nr + nt
        OBVIOUS
      <3> QED BY <1>g, <1>d, <3>1, Zenon
    <2>4. t1.pc # "send"
      BY <2>1
    <2>5. Len(q) = nr + 1 /\ Len(t1.todo) = nt - 1 /\ e1.s2c = q
      BY <1>0, <1>3, <1>5
    <2> QED BY <1>a, <1>1, <1>4, <2>1, <2>2, <2>3, <2>4, <2>5, Zenon DEF Answered
  <1>7. CASE ~ (nt > 1)
    <2>1. t1.pc = t.next /\ nt = 1
      <3>1. nt = 1
        BY <1>a, <1>7
      <3>2. t1.pc = t.next
        BY <1>g, <1>0, <1>a, <1>7, Zenon
      <3> QED BY <3>1, <3>2
    <2>2. ns < ns + (nr + 1)
      OBVIOUS
    <2>3. CASE t.next = "recv"
      <3>1. ns + (nr + 1) = nx /\ ns < nx
        BY <1>d, <2>1, <2>2, <2>3
      <3>2. t1.pc = "recv" /\ e1.s2c = q /\ Len(q) = nr + 1
        BY <1>0, <1>3, <2>1, <2>3
      <3> QED BY <1>a, <1>1, <1>4, <3>1, <3>2, Zenon DEF Answered
    <2>4. CASE t.next = "pwd"
      <3>1. ns + (nr + 1) = nx - 2
        BY <1>d, <2>1, <2>4
      <3>2. t1.pc = "pwd" /\ e1.s2c = q /\ Len(q) = nr + 1
        BY <1>0, <1>3, <2>1, <2>4
      <3> QED BY <1>a, <1>1, <1>4, <3>1, <3>2, Zenon DEF Answered
    <2> QED BY <1>d, <2>3, <2>4
  <1> QED BY <1>6, <1>7

(* Thread t is about to send the next piece of f; n cells of it are sent,  *)
(* of which stream r has those from the (o + 1)-st on.                     *)
Ships(n, o, t, t1, r, q, b, m, F, w, f) ==
    /\ n \in Nat /\ o \in Int /\ Len(r) + o = n /\ From(r, o, F, w, f)
    /\ Sent(n, t, b, m, F, w, f) /\ t.pc = "send" /\ t.todo # <<>>
    /\ Goes(t, t1) /\ q = r \o Packet(t.todo[1].cells)
    /\ t \in Thread /\ F \in FileSystem /\ w \in Dirs /\ f \in Names
    /\ CanRead(F, w, f) /\ r \in Seq(Flit)

(* A piece of the file that get asked for is sent.                         *)
LEMMA SendFile ==
    ASSUME NEW n, NEW o, NEW t, NEW t1, NEW r, NEW q, NEW b, NEW m, NEW F, NEW w, NEW f,
           Ships(n, o, t, t1, r, q, b, m, F, w, f)
    PROVE  /\ q \in Seq(Flit) /\ Len(q) > Len(r) /\ \A j \in 1 .. Len(r) : q[j] = r[j]
           /\ Sent(Len(q) + o, t1, b, m, F, w, f)
           /\ From(q, o, F, w, f)
  <1> SUFFICES
        ASSUME n \in Nat, t \in Thread, F \in FileSystem, w \in Dirs,
               f \in Names, CanRead(F, w, f), r \in Seq(Flit), o \in Int,
               Sent(n, t, b, m, F, w, f), t.pc = "send", t.todo # <<>>, Goes(t, t1),
               q = r \o Packet(t.todo[1].cells), Len(r) + o = n, From(r, o, F, w, f)
        PROVE  /\ q \in Seq(Flit) /\ Len(q) > Len(r) /\ \A j \in 1 .. Len(r) : q[j] = r[j]
               /\ Sent(Len(q) + o, t1, b, m, F, w, f)
               /\ From(q, o, F, w, f)
    BY Zenon DEF Ships
  <1>1. PICK C : C = Holds(F, w, f) /\ C \in Seq(Cell) /\ Len(C) \in Nat
    BY HoldsType
  <1>2. /\ t.next = "fread" /\ t.file = f /\ t.dir = w /\ Len(t.todo) = 1
        /\ t.pos = n + Len(t.todo[1].cells) /\ t.pos <= Len(C) /\ n < t.pos
        /\ \A j \in 1 .. Len(t.todo[1].cells) : t.todo[1].cells[j] = C[n + j]
    BY <1>1 DEF Sent
  <1>3. PICK c \in Seq(Cell) : c = t.todo[1].cells
    <2>1. t.todo[1] \in Reply
      BY DEF Thread
    <2> QED BY <2>1 DEF Reply, Piece
  <1>4. PICK nr \in Nat, nc \in Nat : nr = Len(r) /\ nc = Len(c) /\ nr + o = n
    <2>1. Len(r) \in Nat /\ Len(c) \in Nat
      OBVIOUS
    <2> QED BY <2>1, Zenon
  <1>5. /\ q \in Seq(Flit) /\ Len(q) = nr + nc
        /\ \A j \in 1 .. nr : q[j] = r[j]
        /\ \A j \in 1 .. nc : q[nr + j].c = c[j]
    <2>1. /\ r \o Packet(c) \in Seq(Flit)
          /\ Len(r \o Packet(c)) = Len(r) + Len(c)
          /\ \A j \in 1 .. Len(r) : (r \o Packet(c))[j] = r[j]
          /\ \A j \in 1 .. Len(c) : (r \o Packet(c))[Len(r) + j].c = c[j]
      BY Appended
    <2> QED BY <1>3, <1>4, <2>1, Zenon
  <1>6. t.pos = n + nc /\ n < n + nc /\ n + nc <= Len(C) /\ nc > 0
    <2>1. t.pos = n + nc /\ t.pos <= Len(C) /\ n < t.pos
      BY <1>2, <1>3, <1>4
    <2> QED BY <2>1
  <1>7. ASSUME NEW j \in 1 .. nr + nc, o + j >= 1 PROVE q[j].c = C[o + j]
    <2>1. CASE j <= nr
      <3>1. j \in 1 .. nr
        BY <2>1
      <3>2. q[j] = r[j]
        BY <1>5, <3>1
      <3>3. r[j].c = C[o + j]
        BY <1>1, <1>4, <1>7, <3>1 DEF From
      <3> QED BY <3>2, <3>3
    <2>2. CASE ~ (j <= nr)
      <3>1. PICK i \in 1 .. nc : j = nr + i
        <4>1. j - nr \in 1 .. nc /\ j = nr + (j - nr)
          BY <2>2
        <4> QED BY <4>1
      <3>2. n + i = o + j
        <4>1. PICK x \in Int, y \in Int : x = n /\ y = o
          OBVIOUS
        <4>2. nr + y = x
          BY <1>4, <4>1, Zenon
        <4>3. x + i = y + j
          BY <3>1, <4>2
        <4> QED BY <4>1, <4>3, Zenon
      <3>3. q[j].c = c[i]
        BY <1>5, <3>1
      <3>4. c[i] = C[n + i]
        BY <1>2, <1>3, <1>4
      <3> QED BY <3>2, <3>3, <3>4
    <2> QED BY <2>1, <2>2
  <1>8. Sent(n + nc, t1, b, m, F, w, f)
    <2>1. ~ (Len(t.todo) > 1)
      BY <1>2
    <2>2. t1.pc = "fread" /\ t1.file = f /\ t1.dir = w /\ t1.pos = n + nc
      BY <1>2, <1>6, <2>1 DEF Goes
    <2> QED BY <1>1, <1>6, <2>2 DEF Sent
  <1>9. Len(q) + o = n + nc /\ Len(q) > Len(r)
    <2>0. PICK x \in Int, y \in Int : x = n /\ y = o /\ nr + y = x /\ nc > 0
      BY <1>4, <1>6
    <2>1. nr + nc + o = n + nc /\ nr + nc > nr
      <3>1. nr + nc + y = x + nc /\ nr + nc > nr
        BY <2>0
      <3> QED BY <2>0, <3>1, Zenon
    <2> QED BY <1>4, <1>5, <2>1, Zenon
  <1>10. From(q, o, F, w, f)
    BY <1>1, <1>5, <1>7, Zenon DEF From
  <1>11. Sent(Len(q) + o, t1, b, m, F, w, f)
    BY <1>8, <1>9, Zenon
  <1> QED BY <1>4, <1>5, <1>9, <1>10, <1>11

(* A cell that is sent alone on an empty stream.                           *)
LEMMA SendCell ==
    ASSUME NEW t \in Thread, NEW t1, NEW b, NEW m, NEW v, NEW cell, NEW next,
           Sends(t, b, m, v, cell, next), NEW r, r = <<>>, NEW q,
           Goes(t, t1), q = r \o Packet(t.todo[1].cells)
    PROVE  t1.pc = next /\ Carries(q, cell) /\ q \in Seq(Flit)
  <1>1. /\ Len(t.todo) = 1 /\ t.todo[1] = Via(v, <<cell>>) /\ t.next = next
    BY DEF Sends
  <1>2. PICK c : c = t.todo[1].cells /\ c \in Seq(Cell) /\ Len(c) = 1 /\ c[1] = cell
    <2>1. t.todo[1] \in Reply
      BY <1>1 DEF Thread
    <2>2. t.todo[1].cells = <<cell>> /\ t.todo[1].cells \in Seq(Cell)
      BY <1>1, <2>1 DEF Reply, Piece, Via
    <2>3. Len(<<cell>>) = 1 /\ <<cell>>[1] = cell
      OBVIOUS
    <2> QED BY <2>2, <2>3, Zenon
  <1>3. r \in Seq(Flit) /\ Len(r) = 0
    OBVIOUS
  <1>4. /\ r \o Packet(c) \in Seq(Flit) /\ Len(r \o Packet(c)) = Len(r) + Len(c)
        /\ \A j \in 1 .. Len(c) : (r \o Packet(c))[Len(r) + j].c = c[j]
    <2>1. r \in Seq(Flit)
      BY <1>3
    <2>2. c \in Seq(Cell)
      BY <1>2
    <2> QED BY <2>1, <2>2, Appended, Zenon
  <1>5. q = r \o Packet(c)
    BY <1>2
  <1>6. Len(q) = 0 + 1 /\ 1 \in 1 .. Len(c) /\ q[0 + 1].c = c[1] /\ q \in Seq(Flit)
    <2>1. 1 \in 1 .. Len(c)
      BY <1>2
    <2> QED BY <1>2, <1>3, <1>4, <1>5, <2>1, Zenon
  <1>7. t1.pc = next
    BY <1>1 DEF Goes
  <1> QED BY <1>2, <1>6, <1>7 DEF Carries

(* A send leaves the thread in step with its client.                       *)
LEMMA StepSend ==
    ASSUME NEW p \in ClientState, NEW t \in Thread, NEW e \in Endpoint, NEW b, NEW m,
           NEW F \in FileSystem, NEW w \in Dirs, NEW t1, NEW e1,
           InStep(p, t, e, b, m, F, w), t.pc = "send", t.todo # <<>>,
           Goes(t, t1), e1.s2c = e.s2c \o Packet(t.todo[1].cells), e1.c2s = e.c2s,
           e1.cli = e.cli, e1.srv = e.srv, e1.reset = e.reset
    PROVE  InStep(p, t1, e1, b, m, F, w)
  <1>0. t1.next = t.next /\ t1.pc = IF Len(t.todo) > 1 THEN "fill" ELSE t.next
    BY DEF Goes
  <1>1. PICK r \in Seq(Flit) : r = e.s2c
    BY DEF Endpoint
  <1>2. PICK q : q = r \o Packet(t.todo[1].cells)
    OBVIOUS
  <1>3. e1.s2c = q /\ e1.c2s = e.c2s /\ (Linked(e) => Linked(e1))
    BY <1>1, <1>2 DEF Linked
  <1>4. \A cmd, arg : ~Ready(t, b, F, w) /\ ~Asked(t, e, b, F, w, cmd, arg)
    BY DEF Asked, Ready
  <1>5. Linked(e1)
    BY <1>3, WhileAnswering
  <1>6. ASSUME NEW v, NEW cell, NEW next, Sends(t, b, m, v, cell, next), r = <<>>
        PROVE  t1.pc = next /\ Carries(q, cell) /\ q \in Seq(Flit)
    BY <1>0, <1>2, <1>6, SendCell
  <1>7. CASE p.pc = "print"
    <2>1. Printing(p, t, e, b, m, F, w)
      BY <1>7, WhileAnswering
    <2>2. PICK X : /\ IsAnswer(X, p.cmd, p.arg, F, w)
                   /\ Answered(p.shown, t, e, b, m, X)
                   /\ (t.pc = "pwd" \/ t.next = "pwd") => PwdLast(X, w)
      BY <1>4, <2>1 DEF Printing
    <2>3. Answered(p.shown, t1, e1, b, m, X)
      <3>1. p.shown \in Seq(Cell) /\ X \in Seq(Cell)
        BY <2>2 DEF ClientState, IsAnswer
      <3>2. e1.s2c = r \o Packet(t.todo[1].cells)
        BY <1>2, <1>3
      <3> QED BY <1>0, <1>1, <2>2, <3>1, <3>2, SendPrint
    <2>4. (t1.pc = "pwd" \/ t1.next = "pwd") => PwdLast(X, w)
      BY <1>0, <2>2
    <2>5. Printing(p, t1, e1, b, m, F, w)
      <3>1. /\ p.cmd \in {"LS", "PWD", "CD"} /\ p.arg \in Dirs \cup {None, NoSuch}
            /\ (p.cmd = "PWD" => p.arg = None) /\ e1.c2s = <<>>
        BY <1>3, <1>4, <2>1 DEF Printing
      <3> QED BY <1>5, <2>2, <2>3, <2>4, <3>1 DEF Printing
    <2> QED BY <1>7, <2>5 DEF InStep
  <1>8. CASE p.pc = "get_head"
    <2>0. PICK f : f = p.arg /\ f \in Names
      BY DEF ClientState
    <2>1. /\ p.cmd = "GET" /\ p.arg \in Targets /\ p.out = <<>> /\ e.c2s = <<>>
          /\ \/ Sends(t, b, m, "msg", Failure(f), "recv") /\ r = <<>> /\ ~CanRead(F, w, f)
             \/ /\ Sends(t, b, m, "msg", Header(SizeIn(F, w, f)), "fopen")
                /\ r = <<>> /\ b[1].f = f /\ CanRead(F, w, f)
             \/ /\ Len(r) > 0 /\ r[1].c = Header(SizeIn(F, w, f))
                /\ Sent(Len(r) - 1, t, b, m, F, w, f) /\ CanRead(F, w, f)
                /\ \A j \in 2 .. Len(r) : r[j].c = Holds(F, w, f)[j - 1]
      <3>1. Heading(p, t, e, b, m, F, w)
        BY <1>8, WhileAnswering
      <3> QED BY <1>1, <1>4, <2>0, <3>1 DEF Heading
    <2>2. CASE Sends(t, b, m, "msg", Failure(f), "recv") /\ r = <<>> /\ ~CanRead(F, w, f)
      <3>1. t1.pc = "recv" /\ Carries(q, Failure(f))
        BY <1>6, <2>2
      <3> QED BY <1>3, <1>5, <1>8, <2>0, <2>1, <2>2, <3>1 DEF InStep, Heading
    <2>3. CASE /\ Sends(t, b, m, "msg", Header(SizeIn(F, w, f)), "fopen")
               /\ r = <<>> /\ b[1].f = f /\ CanRead(F, w, f)
      <3>1. t1.pc = "fopen" /\ Carries(q, Header(SizeIn(F, w, f)))
        BY <1>6, <2>3
      <3>2. Len(q) = 1 /\ q[1].c = Header(SizeIn(F, w, f))
        BY <3>1 DEF Carries
      <3>3. Len(Holds(F, w, f)) \in Nat
        BY <2>0, <2>3, HoldsType
      <3>4. Sent(0, t1, b, m, F, w, f) /\ Len(q) - 1 = 0 /\ Len(q) > 0
        BY <2>3, <3>1, <3>2, <3>3 DEF Sent
      <3>5. \A j \in 2 .. Len(q) : q[j].c = Holds(F, w, f)[j - 1]
        BY <3>2
      <3> QED BY <1>3, <1>5, <1>8, <2>0, <2>1, <2>3, <3>2, <3>4, <3>5 DEF InStep, Heading
    <2>4. CASE /\ Len(r) > 0 /\ r[1].c = Header(SizeIn(F, w, f))
               /\ Sent(Len(r) - 1, t, b, m, F, w, f) /\ CanRead(F, w, f)
               /\ \A j \in 2 .. Len(r) : r[j].c = Holds(F, w, f)[j - 1]
      <3>1. PICK n \in Nat, o \in Int : n = Len(r) - 1 /\ o = -1 /\ Len(r) + o = n
        <4>1. PICK x \in Nat : x = Len(r) /\ x > 0
          BY <2>4
        <4>2. x - 1 \in Nat /\ x - 1 = x + (-1) /\ -1 \in Int
          BY <4>1
        <4> QED BY <4>1, <4>2
      <3>2. Sent(n, t, b, m, F, w, f)
        BY <2>4, <3>1
      <3>3. ASSUME NEW j \in 1 .. Len(r), o + j >= 1 PROVE r[j].c = Holds(F, w, f)[o + j]
        <4>1. j \in 2 .. Len(r) /\ o + j = j - 1
          BY <3>1, <3>3
        <4> QED BY <2>4, <4>1
      <3>4. /\ q \in Seq(Flit) /\ Len(q) > Len(r) /\ \A j \in 1 .. Len(r) : q[j] = r[j]
            /\ Sent(Len(q) + o, t1, b, m, F, w, f)
            /\ From(q, o, F, w, f)
        <4>1. From(r, o, F, w, f)
          BY <3>3 DEF From
        <4>2. CanRead(F, w, f) /\ f \in Names /\ Len(r) + o = n
          BY <2>0, <2>4, <3>1
        <4>3. Ships(n, o, t, t1, r, q, b, m, F, w, f)
          BY <1>2, <3>2, <4>1, <4>2, Zenon DEF Ships
        <4> QED BY <4>3, SendFile, Zenon
      <3>5. Len(q) > 0 /\ 1 \in 1 .. Len(r) /\ q[1] = r[1] /\ Len(q) + o = Len(q) - 1
        BY <2>4, <3>1, <3>4
      <3>6. ASSUME NEW j \in 2 .. Len(q) PROVE q[j].c = Holds(F, w, f)[j - 1]
        <4>1. j \in 1 .. Len(q) /\ o + j = j - 1 /\ o + j >= 1
          BY <3>1, <3>4
        <4> QED BY <3>4, <4>1 DEF From
      <3>7. q[1].c = Header(SizeIn(F, w, f)) /\ Sent(Len(q) - 1, t1, b, m, F, w, f)
        BY <2>4, <3>4, <3>5
      <3> QED BY <1>3, <1>5, <1>8, <2>0, <2>1, <2>4, <3>5, <3>6, <3>7 DEF InStep, Heading
    <2> QED BY <2>1, <2>2, <2>3, <2>4
  <1>9. CASE p.pc = "get_body"
    <2>0. PICK f : f = p.arg /\ f \in Names
      BY DEF ClientState
    <2>1. /\ p.cmd = "GET" /\ f \in Targets /\ e.c2s = <<>> /\ CanRead(F, w, f)
          /\ p.ok /\ p.need = SizeIn(F, w, f) /\ Len(p.out) < p.need
          /\ Sent(Len(p.out) + Len(r), t, b, m, F, w, f)
          /\ \A j \in 1 .. Len(p.out) : p.out[j] = Holds(F, w, f)[j]
          /\ \A j \in 1 .. Len(r) : r[j].c = Holds(F, w, f)[Len(p.out) + j]
      <3>1. Getting(p, t, e, b, m, F, w)
        BY <1>9, WhileAnswering
      <3> QED BY <1>1, <2>0, <3>1 DEF Getting
    <2>2. PICK o \in Nat, n \in Nat : o = Len(p.out) /\ n = Len(r) + o /\ n = Len(p.out) + Len(r)
      <3>1. PICK o \in Nat, n \in Nat : o = Len(p.out) /\ n = Len(r)
        BY DEF ClientState
      <3> QED BY <3>1
    <2>3. /\ Sent(Len(q) + o, t1, b, m, F, w, f) /\ Len(q) \in Nat
          /\ \A j \in 1 .. Len(q) : q[j].c = Holds(F, w, f)[o + j]
      <3>1. /\ Sent(n, t, b, m, F, w, f) /\ Len(r) + o = n
            /\ From(r, o, F, w, f)
        BY <2>1, <2>2 DEF From
      <3>2. q \in Seq(Flit) /\ Sent(Len(q) + o, t1, b, m, F, w, f)
            /\ From(q, o, F, w, f)
        <4>1. CanRead(F, w, f) /\ f \in Names /\ o \in Int
          BY <2>0, <2>1
        <4>2. Ships(n, o, t, t1, r, q, b, m, F, w, f)
          BY <1>2, <3>1, <4>1, Zenon DEF Ships
        <4> QED BY <4>2, SendFile, Zenon
      <3>3. \A j \in 1 .. Len(q) : o + j >= 1
        BY <3>2
      <3> QED BY <3>2, <3>3 DEF From
    <2>4. Len(q) + o = Len(p.out) + Len(q)
      BY <2>2, <2>3
    <2>5. Getting(p, t1, e1, b, m, F, w)
      BY <1>3, <1>5, <2>0, <2>1, <2>2, <2>3, <2>4 DEF Getting
    <2> QED BY <1>9, <2>5 DEF InStep
  <1>10. CASE p.pc \in {"put_body", "put_ack"}
    <2>1. Putting(p, t, e, b, m, F, w)
      BY <1>10, WhileAnswering
    <2>2. /\ e.s2c = <<>> /\ e.c2s = <<>>
          /\ p.pos = (IF p.size = Missing THEN 0 ELSE p.size)
          /\ F[w][p.arg] = Content(p.arg, IF p.size = Missing THEN 0 ELSE p.size)
          /\ Sends(t, b, m, "buf", End, "recv")
      BY <1>4, <2>1 DEF Putting
    <2>3. t1.pc = "recv" /\ Carries(q, End)
      BY <1>1, <1>6, <2>2
    <2>4. Putting(p, t1, e1, b, m, F, w)
      BY <1>3, <1>5, <2>1, <2>2, <2>3 DEF Putting
    <2> QED BY <1>10, <2>4 DEF InStep
  <1> QED BY <1>7, <1>8, <1>9, <1>10, WhileAnswering

(* A thread sends what it filled in.                                       *)
LEMMA SyncSend ==
    ASSUME FairUse, Inv, Together, NEW k \in Conns, Send(k), UNCHANGED cl
    PROVE  Together'
  <1>0. /\ th[k].pc = "send" /\ Running(th[k]) /\ UNCHANGED <<buf, msg, fs, cwd>>
        /\ Become(k, [th[k] EXCEPT !.todo = Tail(@),
                         !.pc = IF Len(th[k].todo) > 1 THEN "fill" ELSE th[k].next])
    BY DEF Send, Running
  <1>1. /\ th[k] \in Thread /\ th \in [Conns -> Thread] /\ Held(th[k], fs) /\ th[k].fd = k
        /\ net \in [Conns -> Endpoint] /\ net[k] \in Endpoint
        /\ buf \in Buffer /\ msg \in Buffer /\ fs \in FileSystem /\ cwd \in Dirs
        /\ \A c \in Clients : cl[c] \in ClientState
        /\ up /\ \A d \in Dirs, f \in Files : fs[d][f] # Absent => Len(fs[d][f]) < SizeMod
    BY <1>0, PairTypes
  <1>2. th[k].todo # <<>> /\ th[k].todo \in Seq(Reply)
    BY <1>0, <1>1 DEF Held, Thread
  <1>3. Head(th[k].todo) = th[k].todo[1] /\ th[k].todo[1] \in Reply
    BY <1>2
  <1>4. Goes(th[k], th'[k])
    <2>1. th'[k] = [th[k] EXCEPT !.todo = Tail(@),
                         !.pc = IF Len(th[k].todo) > 1 THEN "fill" ELSE th[k].next]
      BY <1>0, <1>1 DEF Become
    <2> QED BY <1>1, <2>1 DEF Goes, Thread
  <1>5. PICK c0 \in Clients :
            /\ cl[c0].fd = k /\ InStep(cl[c0], th[k], net[k], buf, msg, fs, cwd)
    <2>1. k <= nconn
      <3>1. ~ (k > main.made) /\ main.made \in {nconn, nconn - 1}
        BY <1>0 DEF Together, Entering
      <3>2. nconn \in Nat /\ main.made \in Nat
        BY WireAssumption DEF Inv, TypeOK, WireTypeOK, ServerTypeOK, MainState
      <3> QED BY <3>1, <3>2, WireAssumption
    <2> QED BY <2>1, OwnerIs
  <1>6. Linked(net[k]) /\ InPlace(th[k].todo[1], buf, msg)
    BY <1>0, <1>5, WhileAnswering
  <1>7. InBuffer(th[k].todo[1]) = th[k].todo[1].cells
    BY <1>1, <1>3, <1>6, InBufferIs
  <1>8. /\ net' = [net EXCEPT ![k].s2c = @ \o Packet(th[k].todo[1].cells)] /\ up' = up
    <2>1. k \in Conns /\ net[k].srv /\ net[k].cli
      BY <1>6 DEF Linked
    <2>2. net' = [net EXCEPT ![k].s2c = @ \o Packet(InBuffer(th[k].todo[1]))] /\ up' = up
      BY <1>1, <1>3, <2>1 DEF Send
    <2> QED BY <1>7, <2>2
  <1>9. /\ net'[k].s2c = net[k].s2c \o Packet(th[k].todo[1].cells)
        /\ net'[k].c2s = net[k].c2s /\ net'[k].cli = net[k].cli
        /\ net'[k].srv = net[k].srv /\ net'[k].reset = net[k].reset
        /\ \A j \in Conns \ {k} : net'[j] = net[j]
    BY <1>1, <1>8 DEF Endpoint
  <1>10. ASSUME NEW c \in Clients, InStep(cl[c], th[k], net[k], buf, msg, fs, cwd)
         PROVE  InStep(cl[c], th'[k], net'[k], buf', msg', fs', cwd')
    <2>1. InStep(cl[c], th'[k], net'[k], buf, msg, fs, cwd)
      BY <1>0, <1>1, <1>2, <1>4, <1>9, <1>10, StepSend
    <2> QED BY <1>0, <2>1
  <1>11. /\ Session(k) /\ up'
         /\ \A d \in Dirs, f \in Files : fs'[d][f] # Absent => Len(fs'[d][f]) < SizeMod
    BY <1>0, <1>1, <1>8 DEF Session
  <1> QED BY <1>9, <1>10, <1>11, ThreadMoves

-----------------------------------------------------------------------------
(* get.                                                                    *)

(* response_get looks for the file and announces its size, or fails.       *)
LEMMA SyncGet ==
    ASSUME FairUse, Inv, Together, NEW k \in Conns, response_get(k), UNCHANGED cl
    PROVE  Together'
  <1>0. th[k].pc = "dispatch" /\ Running(th[k]) /\ Seen(k).k = "GET"
        /\ UNCHANGED <<net, fs, cwd, up>> /\ buf' = Terminated(th[k].n)
    BY DEF response_get, Switch, Running, wireVars
  <1>1. /\ th[k] \in Thread /\ th \in [Conns -> Thread] /\ cwd \in Dirs /\ fs \in FileSystem
        /\ \A d \in Dirs, f \in Files : fs[d][f] # Absent => Len(fs[d][f]) < SizeMod
    BY <1>0, PairTypes
  <1>2. ASSUME NEW c \in Clients, cl[c].fd = k,
               InStep(cl[c], th[k], net[k], buf, msg, fs, cwd)
        PROVE  InStep(cl[c], th'[k], net[k], buf', msg', fs, cwd')
    <2>0. cl[c].pc = "get_head" /\ th[k].n >= 1
      BY <1>0, <1>2, Dispatched
    <2>1. PICK f : f = Seen(k).f
      OBVIOUS
    <2>2. /\ cl[c].cmd = "GET" /\ cl[c].arg = f /\ f \in Targets
          /\ Linked(net[k]) /\ net[k].c2s = <<>> /\ net[k].s2c = <<>>
          /\ cl[c].out = <<>> /\ ~cl[c].ok /\ Seen(k) = buf[1]
      BY <1>0, <1>2, <2>0, <2>1, AtDispatch, Dispatched
    <2>3. buf'[1] = buf[1] /\ buf'[1].f = f
      <3>1. \A j \in 1 .. th[k].n : Terminated(th[k].n)[j] = buf[j]
        BY <2>0, Switching
      <3>2. 1 \in 1 .. th[k].n
        BY <1>1, <2>0 DEF Thread
      <3> QED BY <1>0, <2>1, <2>2, <3>1, <3>2
    <2>4. Readable(f) <=> CanRead(fs, cwd, f)
      BY DEF Readable, CanRead, Stat
    <2>5. ASSUME NEW cell, NEW next, Answer(k, << Via("msg", <<cell>>) >>, next)
          PROVE  Sends(th'[k], buf', msg', "msg", cell, next)
      <3>1. /\ th'[k].pc = "fill" /\ th'[k].todo = << Via("msg", <<cell>>) >>
            /\ th'[k].next = next
        BY <1>1, <2>5 DEF Answer, Become, Thread
      <3> QED BY <3>1 DEF Sends
    <2>6. CASE ~Readable(f)
      <3>1. Answer(k, << Via("msg", <<Failure(f)>>) >>, "recv")
        BY <2>1, <2>6 DEF response_get
      <3>2. Sends(th'[k], buf', msg', "msg", Failure(f), "recv")
        BY <2>5, <3>1
      <3>3. Heading(cl[c], th'[k], net[k], buf', msg', fs, cwd)
        BY <2>2, <2>4, <2>6, <3>2 DEF Heading
      <3> QED BY <1>0, <2>0, <3>3 DEF InStep
    <2>7. CASE Readable(f)
      <3>1. Answer(k, << Via("msg", <<Header(get_file_size(f) % SizeMod)>>) >>, "fopen")
        BY <2>1, <2>7 DEF response_get
      <3>2. get_file_size(f) % SizeMod = SizeIn(fs, cwd, f)
        <4>1. CASE f \in Dirs
          BY <4>1 DEF get_file_size, SizeIn
        <4>2. CASE f \notin Dirs
          <5>1. f \in Files /\ fs[cwd][f] # Absent
            BY <2>4, <2>7, <4>2 DEF CanRead
          <5>2. PICK n \in Nat : n = Len(fs[cwd][f]) /\ n < SizeMod
            <6>1. fs[cwd][f] \in Seq(Cell) /\ Len(fs[cwd][f]) < SizeMod
              BY <1>1, <5>1 DEF FileSystem
            <6> QED BY <6>1
          <5>3. n % SizeMod = n
            <6>1. PICK m \in Nat : m = SizeMod /\ m > 0 /\ n < m
              BY <5>2, WireAssumption
            <6>2. n % m = n
              BY <6>1
            <6> QED BY <6>1, <6>2, Zenon
          <5>4. get_file_size(f) = n /\ SizeIn(fs, cwd, f) = n
            BY <4>2, <5>1, <5>2 DEF get_file_size, Stat, SizeIn
          <5> QED BY <5>3, <5>4
        <4> QED BY <4>1, <4>2
      <3>3. Sends(th'[k], buf', msg', "msg", Header(SizeIn(fs, cwd, f)), "fopen")
        BY <2>5, <3>1, <3>2
      <3>4. Heading(cl[c], th'[k], net[k], buf', msg', fs, cwd)
        BY <2>2, <2>3, <2>4, <2>7, <3>3 DEF Heading
      <3> QED BY <1>0, <2>0, <3>4 DEF InStep
    <2> QED BY <2>6, <2>7
  <1>3. Session(k)
    BY DEF Session
  <1> QED BY <1>0, <1>2, <1>3, QuietStep

(* Who is served while his thread is about to open or read a file.         *)
LEMMA StepFopen ==
    ASSUME NEW p, NEW t, NEW e, NEW b, NEW m, NEW F, NEW w, NEW t1,
           InStep(p, t, e, b, m, F, w), t.pc = "fopen",
           t1.pc = "fread", t1.pos = 0, t1.file = b[1].f, t1.dir = w
    PROVE  CanRead(F, w, b[1].f) /\ InStep(p, t1, e, b, m, F, w)
  <1>1. Ready(t, b, F, w) => CanRead(F, w, b[1].f) /\ Ready(t1, b, F, w)
    BY DEF Ready
  <1>2. \A cmd, arg : Asked(t, e, b, F, w, cmd, arg) =>
           CanRead(F, w, b[1].f) /\ Asked(t1, e, b, F, w, cmd, arg)
    BY <1>1 DEF Asked
  <1>3. \A n, f : Sent(n, t, b, m, F, w, f) => b[1].f = f /\ Sent(n, t1, b, m, F, w, f)
    BY DEF Sent
  <1>4. CASE p.pc = "prompt"
    BY <1>1, <1>4 DEF InStep
  <1>5. CASE p.pc = "print"
    BY <1>2, <1>5 DEF InStep, Printing, Answered
  <1>6. CASE p.pc = "get_head"
    <2>1. Heading(p, t, e, b, m, F, w)
      BY <1>6 DEF InStep
    <2>2. CanRead(F, w, b[1].f) /\ Heading(p, t1, e, b, m, F, w)
      BY <1>2, <1>3, <2>1 DEF Heading, Sends
    <2> QED BY <1>6, <2>2 DEF InStep
  <1>7. CASE p.pc = "get_body"
    BY <1>3, <1>7 DEF InStep, Getting
  <1>8. CASE p.pc \in {"put_body", "put_ack"}
    <2>1. Putting(p, t, e, b, m, F, w)
      BY <1>8 DEF InStep
    <2>2. CanRead(F, w, b[1].f) /\ Putting(p, t1, e, b, m, F, w)
      BY <1>1, <2>1 DEF Putting, Sends
    <2> QED BY <1>8, <2>2 DEF InStep
  <1>9. CASE p.pc = "exited"
    BY <1>2, <1>9 DEF InStep, Leaving
  <1> QED BY <1>4, <1>5, <1>6, <1>7, <1>8, <1>9 DEF InStep

(* response_get opens the file it announced.                               *)
LEMMA SyncFopen ==
    ASSUME FairUse, Inv, Together, NEW k \in Conns, Fopen(k), UNCHANGED cl
    PROVE  Together'
  <1>0. th[k].pc = "fopen" /\ Running(th[k]) /\ UNCHANGED <<buf, msg, fs, cwd>>
    BY DEF Fopen, Running
  <1>1. th[k] \in Thread /\ th \in [Conns -> Thread] /\ cwd \in Dirs
    BY <1>0, PairTypes
  <1>2. PICK c0 \in Clients :
            /\ cl[c0].fd = k /\ InStep(cl[c0], th[k], net[k], buf, msg, fs, cwd)
    <2>1. k <= nconn
      <3>1. ~ (k > main.made) /\ main.made \in {nconn, nconn - 1}
        BY <1>0 DEF Together, Entering
      <3>2. nconn \in Nat /\ main.made \in Nat
        BY WireAssumption DEF Inv, TypeOK, WireTypeOK, ServerTypeOK, MainState
      <3> QED BY <3>1, <3>2, WireAssumption
    <2> QED BY <2>1, OwnerIs
  <1>3. PICK t1 : t1 = [th[k] EXCEPT !.pc = "fread", !.pos = 0,
                                     !.file = buf[1].f, !.dir = cwd]
    OBVIOUS
  <1>4. t1.pc = "fread" /\ t1.pos = 0 /\ t1.file = buf[1].f /\ t1.dir = cwd
    BY <1>1, <1>3 DEF Thread
  <1>5. CanRead(fs, cwd, buf[1].f)
    BY <1>0, <1>2, <1>4, StepFopen
  <1>6. Readable(buf[1].f)
    BY <1>5 DEF Readable, CanRead, Stat
  <1>7. th'[k] = t1 /\ UNCHANGED <<net, up>>
    BY <1>1, <1>3, <1>6 DEF Fopen, Become
  <1>8. ASSUME NEW c \in Clients, InStep(cl[c], th[k], net[k], buf, msg, fs, cwd)
        PROVE  InStep(cl[c], th'[k], net[k], buf', msg', fs, cwd')
    <2>1. InStep(cl[c], t1, net[k], buf, msg, fs, cwd)
      BY <1>0, <1>4, <1>8, StepFopen
    <2> QED BY <1>0, <1>7, <2>1
  <1>9. Session(k)
    BY DEF Session
  <1> QED BY <1>0, <1>7, <1>8, <1>9, QuietStep

(* The next piece of a file: c is the one after the first n cells of C.    *)
IsPiece(C, n, c) ==
    /\ c \in Seq(Cell) /\ Len(c) \in Nat /\ Len(c) > 0 /\ Len(c) <= BufUnits
    /\ n + Len(c) <= Len(C) /\ \A j \in 1 .. Len(c) : c[j] = C[n + j]
    /\ \A a : \A j \in 1 .. Len(c) : Overlay(a, c)[j] = c[j]

(* fread reads the cells that follow.                                      *)
LEMMA ChunkIs ==
    ASSUME NEW C \in Seq(Cell), NEW pos \in Nat, NEW chunk,
           chunk = SubSeq(C, pos + 1, Lesser(pos + BufUnits, Len(C)))
    PROVE  /\ chunk = <<>> <=> pos >= Len(C)
           /\ chunk # <<>> => IsPiece(C, pos, chunk)
  <1>1. PICK last \in Nat : last = Lesser(pos + BufUnits, Len(C)) /\ last <= Len(C)
                            /\ last <= pos + BufUnits
                            /\ (last > pos <=> Len(C) > pos)
    <2>1. PICK n \in Nat, u \in Nat : n = Len(C) /\ u = BufUnits /\ u > 0
      BY WireAssumption
    <2>2. Lesser(pos + u, n) \in Nat
      BY DEF Lesser
    <2>3. Lesser(pos + u, n) <= n /\ Lesser(pos + u, n) <= pos + u
          /\ (Lesser(pos + u, n) > pos <=> n > pos)
      BY <2>1 DEF Lesser
    <2> QED BY <2>1, <2>2, <2>3, Zenon
  <1>2. chunk = SubSeq(C, pos + 1, last) /\ Len(C) \in Nat
    BY <1>1
  <1>3. CASE last <= pos
    <2>1. chunk = <<>>
      <3>1. last < pos + 1 /\ pos + 1 \in Int /\ last \in Int
        BY <1>3
      <3> QED BY <1>2, <3>1, SubSeqEmpty
    <2>2. pos >= Len(C)
      BY <1>1, <1>2, <1>3
    <2> QED BY <2>1, <2>2
  <1>4. CASE ~ (last <= pos)
    <2>1. /\ chunk \in Seq(Cell) /\ Len(chunk) = last - pos
          /\ \A j \in 1 .. last - pos : chunk[j] = C[pos + j]
      BY <1>1, <1>2, <1>4
    <2>2. last - pos \in Nat /\ last - pos > 0 /\ pos + (last - pos) <= Len(C)
          /\ last - pos <= BufUnits /\ ~ (pos >= Len(C))
      BY <1>1, <1>2, <1>4, WireAssumption
    <2>3. chunk # <<>>
      <3>1. Len(<<>>) = 0 /\ Len(chunk) # 0
        BY <2>1, <2>2
      <3> QED BY <3>1, Zenon
    <2>4. ASSUME NEW a, NEW j \in 1 .. last - pos PROVE Overlay(a, chunk)[j] = chunk[j]
      BY <2>1, <2>2, WireAssumption DEF Overlay
    <2> QED BY <2>1, <2>2, <2>3, <2>4, Zenon DEF IsPiece
  <1> QED BY <1>3, <1>4, Zenon

(* At the end of the file the thread turns to the next request.            *)
LEMMA StepFreadEnd ==
    ASSUME NEW p \in ClientState, NEW t \in Thread, NEW e \in Endpoint, NEW b, NEW m,
           NEW F, NEW w, NEW t1,
           InStep(p, t, e, b, m, F, w), t.pc = "fread",
           t.pos >= Len(Holds(F, t.dir, t.file)), Len(Holds(F, t.dir, t.file)) \in Nat,
           t1.pc = "recv"
    PROVE  InStep(p, t1, e, b, m, F, w)
  <1>1. Ready(t1, b, F, w)
    BY DEF Ready
  <1>2. \A cmd, arg : Asked(t, e, b, F, w, cmd, arg) => Asked(t1, e, b, F, w, cmd, arg)
    BY <1>1 DEF Asked
  <1>3. ASSUME NEW n, NEW f, Sent(n, t, b, m, F, w, f) PROVE Sent(n, t1, b, m, F, w, f)
    <2>1. /\ n <= Len(Holds(F, w, f)) /\ t.file = f /\ t.dir = w /\ t.pos = n
      BY <1>3 DEF Sent
    <2>2. n \in Nat
      BY <2>1 DEF Thread
    <2>3. n = Len(Holds(F, w, f))
      BY <2>1, <2>2
    <2> QED BY <2>1, <2>3 DEF Sent
  <1>4. CASE p.pc = "prompt"
    BY <1>1, <1>4 DEF InStep
  <1>5. CASE p.pc = "print"
    BY <1>2, <1>5 DEF InStep, Printing, Answered
  <1>6. CASE p.pc = "get_head"
    <2>1. Heading(p, t, e, b, m, F, w)
      BY <1>6 DEF InStep
    <2>2. Heading(p, t1, e, b, m, F, w)
      BY <1>2, <1>3, <2>1 DEF Heading, Sends
    <2> QED BY <1>6, <2>2 DEF InStep
  <1>7. CASE p.pc = "get_body"
    BY <1>3, <1>7 DEF InStep, Getting
  <1>8. CASE p.pc \in {"put_body", "put_ack"}
    <2>1. Putting(p, t, e, b, m, F, w)
      BY <1>8 DEF InStep
    <2>2. Putting(p, t1, e, b, m, F, w)
      BY <1>1, <2>1 DEF Putting, Sends
    <2> QED BY <1>8, <2>2 DEF InStep
  <1>9. CASE p.pc = "exited"
    BY <1>2, <1>9 DEF InStep, Leaving
  <1> QED BY <1>4, <1>5, <1>6, <1>7, <1>8, <1>9 DEF InStep

(* Thread t has read the next piece of its file into msg and goes on as t1. *)
HasRead(t, t1, m1, F) ==
    LET chunk == t1.todo[1].cells IN
    /\ t1.pc = "send" /\ t1.next = "fread" /\ t1.file = t.file /\ t1.dir = t.dir
    /\ Len(t1.todo) = 1 /\ t1.todo[1].via = "msg"
    /\ Len(chunk) \in Nat /\ Len(chunk) > 0 /\ t1.pos = t.pos + Len(chunk)
    /\ t1.pos <= Len(Holds(F, t.dir, t.file))
    /\ \A j \in 1 .. Len(chunk) : chunk[j] = Holds(F, t.dir, t.file)[t.pos + j]
    /\ \A j \in 1 .. Len(chunk) : m1[j] = chunk[j]

(* Short of the end there is a chunk to be sent.                           *)
LEMMA StepFread ==
    ASSUME NEW p, NEW t \in Thread, NEW e, NEW b, NEW m, NEW F, NEW w, NEW t1, NEW m1,
           InStep(p, t, e, b, m, F, w), t.pc = "fread", HasRead(t, t1, m1, F),
           Len(Holds(F, t.dir, t.file)) \in Nat, ~ (t.pos >= Len(Holds(F, t.dir, t.file)))
    PROVE  InStep(p, t1, e, b, m1, F, w)
  <1>1. \A cmd, arg : ~Ready(t, b, F, w) /\ ~Asked(t, e, b, F, w, cmd, arg)
    BY DEF Asked, Ready
  <1>2. ASSUME NEW n, NEW f, Sent(n, t, b, m, F, w, f) PROVE Sent(n, t1, b, m1, F, w, f)
    <2>1. /\ n <= Len(Holds(F, w, f)) /\ t.file = f /\ t.dir = w /\ t.pos = n
      BY <1>2 DEF Sent
    <2>2. n \in Nat
      BY <2>1 DEF Thread
    <2>3. PICK c, C : c = t1.todo[1].cells /\ C = Holds(F, w, f)
      OBVIOUS
    <2>4. /\ t1.pc = "send" /\ t1.next = "fread" /\ t1.file = f /\ t1.dir = w
          /\ Len(t1.todo) = 1 /\ t1.todo[1].via = "msg"
          /\ Len(c) \in Nat /\ Len(c) > 0 /\ t1.pos = n + Len(c) /\ t1.pos <= Len(C)
          /\ \A j \in 1 .. Len(c) : c[j] = C[n + j]
          /\ \A j \in 1 .. Len(c) : m1[j] = c[j]
      BY <2>1, <2>3, Zenon DEF HasRead
    <2>5. n < t1.pos
      BY <2>2, <2>4
    <2>6. InPlace(t1.todo[1], b, m1)
      BY <2>3, <2>4 DEF InPlace
    <2> QED BY <2>1, <2>3, <2>4, <2>5, <2>6, Zenon DEF Sent
  <1>3. CASE p.pc = "get_head"
    <2>1. Heading(p, t, e, b, m, F, w)
      BY <1>3 DEF InStep
    <2>2. Heading(p, t1, e, b, m1, F, w)
      BY <1>1, <1>2, <2>1 DEF Heading, Sends
    <2> QED BY <1>3, <2>2 DEF InStep
  <1>4. CASE p.pc = "get_body"
    BY <1>2, <1>4 DEF InStep, Getting
  <1>5. p.pc \in {"get_head", "get_body"}
    BY <1>1 DEF InStep, Printing, Answered, Putting, Sends, Leaving
  <1> QED BY <1>3, <1>4, <1>5

(* response_get reads a chunk of the file.                                 *)
LEMMA SyncFread ==
    ASSUME FairUse, Inv, Together, NEW k \in Conns, Fread(k), UNCHANGED cl
    PROVE  Together'
  <1>0. th[k].pc = "fread" /\ Running(th[k]) /\ UNCHANGED <<net, buf, fs, cwd, up>>
    BY DEF Fread, Running, wireVars
  <1>1. /\ th[k] \in Thread /\ th \in [Conns -> Thread] /\ Held(th[k], fs)
        /\ net[k] \in Endpoint /\ msg \in Buffer /\ fs \in FileSystem
        /\ \A c \in Clients : cl[c] \in ClientState
    BY <1>0, PairTypes
  <1>2. PICK C : C = Holds(fs, th[k].dir, th[k].file)
    OBVIOUS
  <1>3. C \in Seq(Cell) /\ Len(C) \in Nat
    <2>1. CASE th[k].file \in Dirs
      BY <1>2, <2>1 DEF Holds
    <2>2. CASE th[k].file \notin Dirs
      <3>1. th[k].file \in Files /\ fs[th[k].dir][th[k].file] # Absent
        BY <1>0, <1>1, <2>2 DEF Held, Reads
      <3>2. fs[th[k].dir][th[k].file] \in Seq(Cell)
        BY <1>1, <3>1 DEF FileSystem, Thread
      <3> QED BY <1>2, <2>2, <3>2 DEF Holds
    <2> QED BY <2>1, <2>2
  <1>4. PICK pos \in Nat : pos = th[k].pos
    BY <1>1 DEF Thread
  <1>5. PICK chunk : chunk = SubSeq(C, pos + 1, Lesser(pos + BufUnits, Len(C)))
    OBVIOUS
  <1>6. \/ /\ chunk = <<>>
           /\ th' = [th EXCEPT ![k] = [th[k] EXCEPT !.pc = "recv"]] /\ msg' = msg
        \/ /\ chunk # <<>>
           /\ th' = [th EXCEPT ![k] = [th[k] EXCEPT !.pc = "send", !.next = "fread",
                                      !.todo = << Via("msg", chunk) >>,
                                      !.pos = pos + Len(chunk)]]
           /\ msg' = Overlay(msg, chunk)
    <2>1. C = IF th[k].file \in Dirs THEN <<>> ELSE fs[th[k].dir][th[k].file]
      BY <1>2 DEF Holds
    <2> QED BY <1>4, <1>5, <2>1 DEF Fread, Become
  <1>7. CASE chunk = <<>>
    <2>1. pos >= Len(C)
      BY <1>3, <1>5, <1>7, ChunkIs
    <2>2. th'[k].pc = "recv" /\ msg' = msg
      BY <1>1, <1>6, <1>7 DEF Thread
    <2>3. ASSUME NEW c \in Clients, InStep(cl[c], th[k], net[k], buf, msg, fs, cwd)
          PROVE  InStep(cl[c], th'[k], net[k], buf', msg', fs, cwd')
      <3>1. InStep(cl[c], th'[k], net[k], buf, msg, fs, cwd)
        BY <1>0, <1>1, <1>2, <1>3, <1>4, <2>1, <2>2, <2>3, StepFreadEnd
      <3> QED BY <1>0, <2>2, <3>1
    <2>4. Session(k)
      BY DEF Session
    <2> QED BY <1>0, <2>3, <2>4, QuietStep
  <1>8. CASE chunk # <<>>
    <2>1. /\ ~ (pos >= Len(C)) /\ chunk \in Seq(Cell) /\ Len(chunk) \in Nat
          /\ Len(chunk) > 0 /\ pos + Len(chunk) <= Len(C)
          /\ \A j \in 1 .. Len(chunk) : chunk[j] = C[pos + j]
          /\ \A j \in 1 .. Len(chunk) : Overlay(msg, chunk)[j] = chunk[j]
      <3>1. IsPiece(C, pos, chunk) /\ ~ (pos >= Len(C))
        BY <1>3, <1>5, <1>8, ChunkIs
      <3> QED BY <3>1, Zenon DEF IsPiece
    <2>2. PICK t1 : t1 = [th[k] EXCEPT !.pc = "send", !.next = "fread",
                             !.todo = << Via("msg", chunk) >>, !.pos = pos + Len(chunk)]
      OBVIOUS
    <2>3. th'[k] = t1 /\ msg' = Overlay(msg, chunk)
      BY <1>1, <1>6, <1>8, <2>2
    <2>4. /\ t1.pc = "send" /\ t1.next = "fread" /\ t1.file = th[k].file
          /\ t1.dir = th[k].dir /\ t1.todo = << Via("msg", chunk) >>
          /\ t1.pos = pos + Len(chunk)
      BY <1>1, <2>2 DEF Thread
    <2>5. Len(t1.todo) = 1 /\ t1.todo[1].via = "msg" /\ t1.todo[1].cells = chunk
      BY <2>4 DEF Via
    <2>6. HasRead(th[k], t1, Overlay(msg, chunk), fs)
      BY <1>2, <1>4, <2>1, <2>4, <2>5, Zenon DEF HasRead
    <2>7. ASSUME NEW c \in Clients, InStep(cl[c], th[k], net[k], buf, msg, fs, cwd)
          PROVE  InStep(cl[c], th'[k], net[k], buf', msg', fs, cwd')
      <3>1. InStep(cl[c], t1, net[k], buf, Overlay(msg, chunk), fs, cwd)
        BY <1>0, <1>1, <1>2, <1>3, <1>4, <2>1, <2>6, <2>7, StepFread
      <3> QED BY <1>0, <2>3, <3>1
    <2>8. Session(k)
      BY DEF Session
    <2> QED BY <1>0, <2>7, <2>8, QuietStep
  <1> QED BY <1>7, <1>8

-----------------------------------------------------------------------------
(* put.                                                                    *)

PutSize(p) == IF p.size = Missing THEN 0 ELSE p.size

(* What holds all through a put of s cells of file f.                      *)
Puts(p, e, f, s) ==
    /\ p.pc \in {"put_body", "put_ack"} /\ p.cmd = "PUT" /\ f \in Files /\ Linked(e)
    /\ f = p.arg /\ s = PutSize(p) /\ s \in Nat /\ s < SizeMod /\ e.s2c = <<>>
    /\ p.size \in Sizes \cup {Missing} /\ (Orderly => p.size # Missing)
    /\ p.pos <= s /\ (p.pc = "put_ack" => p.pos = s /\ p.size # Missing)

HeadIn(p, t, e, b, f, s) ==
    /\ t.n >= 1 /\ b[1] = PutHead(f, s)
    /\ \A j \in 2 .. t.n : b[j] = Body(f, j - 1)
    /\ t.n - 1 + Len(e.c2s) = p.pos /\ Brings(e.c2s, f, t.n - 1)

Receives(p, t, e, f, s) ==
    /\ \A j \in 1 .. Len(t.out) : t.out[j] = Body(f, j)
    /\ Len(t.out) < s /\ Len(t.out) + Len(e.c2s) = p.pos /\ Brings(e.c2s, f, Len(t.out))

HasPiece(p, t, e, b, f) ==
    /\ \A j \in 1 .. Len(t.out) : t.out[j] = Body(f, j)
    /\ t.n >= 1 /\ \A j \in 1 .. t.n : b[j] = Body(f, Len(t.out) + j)
    /\ Len(t.out) + t.n + Len(e.c2s) = p.pos /\ Brings(e.c2s, f, Len(t.out) + t.n)

(* A put of which the thread has seen the header.                          *)
LEMMA WhilePutting ==
    ASSUME FairUse, NEW p \in ClientState, NEW t, NEW e, NEW b, NEW m, NEW F, NEW w,
           InStep(p, t, e, b, m, F, w),
           \/ t.pc \in {"put_rest", "put_recv", "put_write", "put_close"}
           \/ t.pc = "dispatch" /\ p.pc \in {"put_body", "put_ack"}
    PROVE  \E f, s :
             /\ Puts(p, e, f, s)
             /\ t.pc # "dispatch" => Stores(t, F, w, f, s)
             /\ t.pc \in {"dispatch", "put_rest"} => HeadIn(p, t, e, b, f, s)
             /\ t.pc = "put_recv" => Receives(p, t, e, f, s)
             /\ t.pc = "put_write" => HasPiece(p, t, e, b, f)
             /\ t.pc = "put_close" =>
                   e.c2s = <<>> /\ t.out = Content(f, s) /\ p.pos = s
  <1>1. p.pc \in {"put_body", "put_ack"} /\ Putting(p, t, e, b, m, F, w)
    BY DEF InStep, Ready, Printing, Asked, Answered, Heading, Getting, Sends, Sent, Leaving
  <1>2. PICK f, s : f = p.arg /\ s = PutSize(p)
    OBVIOUS
  <1>3. s = IF p.size = Missing THEN 0 ELSE p.size
    BY <1>2 DEF PutSize
  <1>4. s \in Nat /\ s < SizeMod
    <2>1. p.size \in Sizes \cup {Missing}
      BY <1>1 DEF Putting
    <2> QED BY <1>3, <2>1, ClientAssumption, WireAssumption DEF FairUse
  <1>5. /\ p.cmd = "PUT" /\ f \in Files /\ Linked(e)
        /\ p.size \in Sizes \cup {Missing} /\ (Orderly => p.size # Missing)
        /\ p.pos <= s /\ (p.pc = "put_ack" => p.pos = s /\ p.size # Missing)
    BY <1>1, <1>2, <1>3 DEF Putting
  <1>6. CASE t.pc \in {"dispatch", "put_rest"}
    <2>1. /\ e.s2c = <<>> /\ (t.pc = "put_rest" => Stores(t, F, w, f, s))
          /\ HeadIn(p, t, e, b, f, s)
      BY <1>1, <1>2, <1>3, <1>6 DEF Putting, Ready, Sends, HeadIn
    <2> QED BY <1>1, <1>2, <1>4, <1>5, <1>6, <2>1 DEF Puts
  <1>7. CASE t.pc = "put_recv"
    <2>1. e.s2c = <<>> /\ Stores(t, F, w, f, s) /\ Receives(p, t, e, f, s)
      BY <1>1, <1>2, <1>3, <1>7 DEF Putting, Ready, Sends, Receives
    <2> QED BY <1>1, <1>2, <1>4, <1>5, <1>7, <2>1 DEF Puts
  <1>8. CASE t.pc = "put_write"
    <2>1. e.s2c = <<>> /\ Stores(t, F, w, f, s) /\ HasPiece(p, t, e, b, f)
      BY <1>1, <1>2, <1>3, <1>8 DEF Putting, Ready, Sends, HasPiece
    <2> QED BY <1>1, <1>2, <1>4, <1>5, <1>8, <2>1 DEF Puts
  <1>9. CASE t.pc = "put_close"
    <2>1. /\ e.s2c = <<>> /\ Stores(t, F, w, f, s)
          /\ e.c2s = <<>> /\ t.out = Content(f, s) /\ p.pos = s
      BY <1>1, <1>2, <1>3, <1>9 DEF Putting, Ready, Sends
    <2> QED BY <1>1, <1>2, <1>4, <1>5, <1>9, <2>1 DEF Puts
  <1> QED BY <1>6, <1>7, <1>8, <1>9

(* And back.                                                               *)
LEMMA PutStep ==
    ASSUME NEW p, NEW t, NEW e, NEW b, NEW m, NEW F, NEW w, NEW f, NEW s,
           Puts(p, e, f, s), t.pc # "dispatch" => Stores(t, F, w, f, s),
           \/ t.pc \in {"dispatch", "put_rest"} /\ HeadIn(p, t, e, b, f, s)
           \/ t.pc = "put_recv" /\ Receives(p, t, e, f, s)
           \/ t.pc = "put_write" /\ HasPiece(p, t, e, b, f)
           \/ t.pc = "put_close" /\ e.c2s = <<>> /\ t.out = Content(f, s) /\ p.pos = s
    PROVE  InStep(p, t, e, b, m, F, w)
  <1>0. f = p.arg /\ s = IF p.size = Missing THEN 0 ELSE p.size
    BY DEF Puts, PutSize
  <1>1. /\ p.cmd = "PUT" /\ f \in Files /\ Linked(e) /\ e.s2c = <<>>
        /\ p.size \in Sizes \cup {Missing} /\ (Orderly => p.size # Missing)
        /\ p.pos <= s /\ (p.pc = "put_ack" => p.pos = s /\ p.size # Missing)
    BY DEF Puts
  <1>2. CASE t.pc \in {"dispatch", "put_rest"} /\ HeadIn(p, t, e, b, f, s)
    <2>1. Putting(p, t, e, b, m, F, w)
      BY <1>0, <1>1, <1>2 DEF Putting, HeadIn
    <2> QED BY <2>1 DEF InStep, Puts
  <1>3. CASE t.pc = "put_recv" /\ Receives(p, t, e, f, s)
    <2>1. Putting(p, t, e, b, m, F, w)
      BY <1>0, <1>1, <1>3 DEF Putting, Receives
    <2> QED BY <2>1 DEF InStep, Puts
  <1>4. CASE t.pc = "put_write" /\ HasPiece(p, t, e, b, f)
    <2>1. Putting(p, t, e, b, m, F, w)
      BY <1>0, <1>1, <1>4 DEF Putting, HasPiece
    <2> QED BY <2>1 DEF InStep, Puts
  <1>5. CASE t.pc = "put_close" /\ e.c2s = <<>> /\ t.out = Content(f, s) /\ p.pos = s
    <2>1. Putting(p, t, e, b, m, F, w)
      BY <1>0, <1>1, <1>5 DEF Putting
    <2> QED BY <2>1 DEF InStep, Puts
  <1> QED BY <1>2, <1>3, <1>4, <1>5

(* response_put opens the file of a put.                                   *)
LEMMA SyncPut ==
    ASSUME FairUse, Inv, Together, NEW k \in Conns, response_put(k), UNCHANGED cl
    PROVE  Together'
  <1>0. th[k].pc = "dispatch" /\ Running(th[k]) /\ Seen(k).k = "PUT"
        /\ buf' = Terminated(th[k].n) /\ cwd' = cwd
    BY DEF response_put, Switch, Running
  <1>1. /\ th[k] \in Thread /\ th \in [Conns -> Thread] /\ cwd \in Dirs /\ fs \in FileSystem
        /\ \A c \in Clients : cl[c] \in ClientState
        /\ \A d \in Dirs, f \in Files : fs[d][f] # Absent => Len(fs[d][f]) < SizeMod
        /\ up
    BY <1>0, PairTypes
  <1>2. ASSUME NEW c \in Clients, cl[c].fd = k,
               InStep(cl[c], th[k], net[k], buf, msg, fs, cwd)
        PROVE  /\ th[k].n >= 1 /\ Seen(k).f \in Files /\ Seen(k) = buf[1]
               /\ Puts(cl[c], net[k], Seen(k).f, Seen(k).n)
               /\ HeadIn(cl[c], th[k], net[k], buf, Seen(k).f, Seen(k).n)
    <2>0. cl[c].pc \in {"put_body", "put_ack"} /\ th[k].n >= 1 /\ Seen(k) = buf[1]
      BY <1>0, <1>2, Dispatched
    <2>1. PICK f, s : Puts(cl[c], net[k], f, s) /\ HeadIn(cl[c], th[k], net[k], buf, f, s)
      BY <1>0, <1>1, <1>2, <2>0, WhilePutting
    <2>2. Seen(k).f = f /\ Seen(k).n = s
      BY <2>0, <2>1 DEF HeadIn, PutHead
    <2> QED BY <2>0, <2>1, <2>2 DEF Puts
  <1>3. PICK f, s : f = Seen(k).f /\ s = Seen(k).n
    OBVIOUS
  <1>4. th[k].n >= 1 /\ f \in Files
    BY <1>0, <1>2, <1>3, HasOwner
  <1>5. /\ fs' = [fs EXCEPT ![cwd][f] = <<>>]
        /\ th' = [th EXCEPT ![k] = [th[k] EXCEPT !.pc = "put_rest", !.file = f,
                                        !.dir = cwd, !.need = s]]
        /\ UNCHANGED <<net, up>>
    <2>1. ~ (th[k].n < 1 \/ Seen(k).f \notin Files)
      <3>1. th[k].n \in -1 .. BufUnits
        BY <1>1 DEF Thread
      <3>2. ~ (th[k].n < 1)
        BY <1>4, <3>1, WireAssumption
      <3> QED BY <1>3, <1>4, <3>2
    <2>2. /\ fs' = [fs EXCEPT ![cwd][Seen(k).f] = <<>>]
          /\ Become(k, [th[k] EXCEPT !.pc = "put_rest", !.file = Seen(k).f,
                                      !.dir = cwd, !.need = Seen(k).n])
          /\ UNCHANGED <<net, up>>
      BY <2>1, Zenon DEF response_put
    <2> QED BY <1>3, <2>2, Zenon DEF Become
  <1>6. /\ th'[k].pc = "put_rest" /\ th'[k].file = f /\ th'[k].dir = cwd
        /\ th'[k].need = s /\ th'[k].n = th[k].n /\ fs'[cwd][f] = <<>>
    BY <1>1, <1>4, <1>5 DEF Thread, FileSystem
  <1>7. \A d \in Dirs, g \in Files : fs'[d][g] # Absent => Len(fs'[d][g]) < SizeMod
    <2>1. \A d \in Dirs, g \in Files : fs'[d][g] = fs[d][g] \/ fs'[d][g] = <<>>
      BY <1>1, <1>4, <1>5 DEF FileSystem
    <2>2. Len(<<>>) < SizeMod
      BY WireAssumption
    <2> QED BY <1>1, <2>1, <2>2
  <1>8. ASSUME NEW c \in Clients, cl[c].fd = k,
               InStep(cl[c], th[k], net[k], buf, msg, fs, cwd)
        PROVE  InStep(cl[c], th'[k], net'[k], buf', msg', fs', cwd')
    <2>1. Puts(cl[c], net[k], f, s) /\ HeadIn(cl[c], th[k], net[k], buf, f, s)
      BY <1>2, <1>3, <1>8
    <2>2. \A j \in 1 .. th[k].n : buf'[j] = buf[j]
      BY <1>0, <1>4, Switching
    <2>3. HeadIn(cl[c], th'[k], net[k], buf', f, s)
      <3>1. 1 \in 1 .. th[k].n /\ \A j \in 2 .. th[k].n : j \in 1 .. th[k].n
        BY <1>1, <1>4 DEF Thread
      <3> QED BY <1>6, <2>1, <2>2, <3>1 DEF HeadIn
    <2>4. Stores(th'[k], fs', cwd, f, s)
      BY <1>6 DEF Stores
    <2>5. InStep(cl[c], th'[k], net[k], buf', msg', fs', cwd)
      BY <1>6, <2>1, <2>3, <2>4, PutStep
    <2> QED BY <1>0, <1>5, <2>5
  <1>9. Session(k) /\ up' /\ \A j \in Conns \ {k} : net'[j] = net[j]
    BY <1>1, <1>5 DEF Session
  <1> QED BY <1>7, <1>8, <1>9, ThreadMoves

(* What is written by now, and where that leads.                           *)
Wrote(p, t, e, F, w, f, s) ==
    /\ \A j \in 1 .. Len(t.out) : t.out[j] = Body(f, j)
    /\ t.out \in Seq(Cell) /\ Stores(t, F, w, f, s) /\ t.pc = PutOn(t.out, s)
    /\ Len(t.out) + Len(e.c2s) = p.pos /\ Brings(e.c2s, f, Len(t.out))

(* The cells that came in one piece with the header, or in one recv, are   *)
(* written.                                                                *)
LEMMA StepWritten ==
    ASSUME NEW p, NEW t, NEW e, NEW b, NEW m, NEW F, NEW w, NEW f, NEW s,
           e.c2s \in Seq(Flit), Puts(p, e, f, s), Wrote(p, t, e, F, w, f, s)
    PROVE  InStep(p, t, e, b, m, F, w)
  <1>1. PICK o \in Nat, q \in Nat, n \in Nat : o = Len(t.out) /\ q = Len(e.c2s) /\ n = s
    BY DEF Wrote, Puts
  <1>2. o + q = p.pos /\ p.pos <= n
    BY <1>1 DEF Wrote, Puts
  <1>3. CASE o < n
    <2>1. t.pc = "put_recv"
      BY <1>1, <1>3, Zenon DEF Wrote, PutOn
    <2>2. Receives(p, t, e, f, s) /\ Stores(t, F, w, f, s)
      BY <1>1, <1>3, Zenon DEF Wrote, Receives
    <2> QED BY <2>1, <2>2, PutStep
  <1>4. CASE ~ (o < n)
    <2>1. t.pc = "put_close" /\ Stores(t, F, w, f, s)
      BY <1>1, <1>4, Zenon DEF Wrote, PutOn
    <2>2. o = n /\ q = 0 /\ p.pos = n
      BY <1>2, <1>4
    <2>3. e.c2s = <<>>
      <3>1. Len(e.c2s) = 0
        BY <1>1, <2>2
      <3> QED BY <3>1
    <2>4. t.out = Content(f, s)
      <3>1. t.out \in Seq(Cell) /\ Len(t.out) = n /\ \A j \in 1 .. n : t.out[j] = Body(f, j)
        BY <1>1, <2>2 DEF Wrote
      <3>2. DOMAIN t.out = 1 .. n /\ t.out = [j \in 1 .. n |-> t.out[j]]
        BY <3>1
      <3> QED BY <1>1, <3>1, <3>2 DEF Content
    <2> QED BY <1>1, <2>1, <2>2, <2>3, <2>4, PutStep
  <1> QED BY <1>3, <1>4

(* response_put writes what came with the header.                          *)
LEMMA SyncPutRest ==
    ASSUME FairUse, Inv, Together, NEW k \in Conns, PutRest(k), UNCHANGED cl
    PROVE  Together'
  <1>0. th[k].pc = "put_rest" /\ Running(th[k]) /\ UNCHANGED <<net, buf, msg, fs, cwd, up>>
    BY DEF PutRest, Running, wireVars
  <1>1. /\ th[k] \in Thread /\ th \in [Conns -> Thread] /\ net[k] \in Endpoint
        /\ buf \in Buffer /\ \A c \in Clients : cl[c] \in ClientState
    BY <1>0, PairTypes
  <1>2. PICK n \in Int : n = th[k].n /\ n <= BufUnits
    BY <1>1, WireAssumption DEF Thread
  <1>3. PICK out : out = SubSeq(buf, 2, n)
    OBVIOUS
  <1>4. ASSUME NEW c \in Clients, InStep(cl[c], th[k], net[k], buf, msg, fs, cwd)
        PROVE  InStep(cl[c], th'[k], net[k], buf', msg', fs, cwd')
    <2>1. PICK f, s : /\ Puts(cl[c], net[k], f, s) /\ Stores(th[k], fs, cwd, f, s)
                      /\ HeadIn(cl[c], th[k], net[k], buf, f, s)
      BY <1>0, <1>1, <1>4, WhilePutting
    <2>2. n >= 1
      BY <1>2, <2>1 DEF HeadIn
    <2>3. out \in Seq(Cell) /\ Len(out) = n - 1 /\ \A j \in 1 .. n - 1 : out[j] = buf[j + 1]
      BY <1>1, <1>2, <1>3, <2>2, WireAssumption DEF Buffer
    <2>4. \A j \in 1 .. n - 1 : out[j] = Body(f, j)
      <3>1. ASSUME NEW j \in 1 .. n - 1 PROVE out[j] = Body(f, j)
        <4>1. j + 1 \in 2 .. n /\ (j + 1) - 1 = j
          OBVIOUS
        <4>2. \A i \in 2 .. n : buf[i] = Body(f, i - 1)
          BY <1>2, <2>1 DEF HeadIn
        <4>3. buf[j + 1] = Body(f, (j + 1) - 1)
          BY <4>1, <4>2
        <4> QED BY <2>3, <4>1, <4>3
      <3> QED BY <3>1
    <2>5. n - 1 + Len(net[k].c2s) = cl[c].pos /\ Brings(net[k].c2s, f, n - 1)
      BY <1>2, <2>1 DEF HeadIn
    <2>6. th[k].need = s
      BY <2>1 DEF Stores
    <2>7. th' = [th EXCEPT ![k] = [th[k] EXCEPT !.out = out, !.pc = PutOn(out, s)]]
      BY <1>2, <1>3, <2>6 DEF PutRest, Written, Become
    <2>8. /\ th'[k].out = out /\ th'[k].pc = PutOn(out, s) /\ th'[k].file = th[k].file
          /\ th'[k].dir = th[k].dir /\ th'[k].need = th[k].need
      BY <1>1, <2>7 DEF Thread
    <2>9. Stores(th'[k], fs, cwd, f, s)
      BY <2>1, <2>8 DEF Stores
    <2>10. Wrote(cl[c], th'[k], net[k], fs, cwd, f, s)
      BY <2>3, <2>4, <2>5, <2>8, <2>9, Zenon DEF Wrote
    <2>11. net[k].c2s \in Seq(Flit)
      BY <1>1 DEF Endpoint
    <2>12. InStep(cl[c], th'[k], net[k], buf', msg', fs, cwd)
      BY <2>1, <2>10, <2>11, StepWritten
    <2> QED BY <1>0, <2>12
  <1>5. Session(k)
    BY DEF Session
  <1> QED BY <1>0, <1>4, <1>5, QuietStep

(* response_put writes what it received.                                   *)
LEMMA SyncPutWrite ==
    ASSUME FairUse, Inv, Together, NEW k \in Conns, PutWrite(k), UNCHANGED cl
    PROVE  Together'
  <1>0. th[k].pc = "put_write" /\ Running(th[k]) /\ UNCHANGED <<net, buf, msg, fs, cwd, up>>
    BY DEF PutWrite, Running, wireVars
  <1>1. /\ th[k] \in Thread /\ th \in [Conns -> Thread] /\ net[k] \in Endpoint
        /\ buf \in Buffer /\ \A c \in Clients : cl[c] \in ClientState
    BY <1>0, PairTypes
  <1>2. PICK n \in Int : n = th[k].n /\ n <= BufUnits
    BY <1>1, WireAssumption DEF Thread
  <1>3. PICK x, y, out : x = th[k].out /\ y = SubSeq(buf, 1, n) /\ out = x \o y
    OBVIOUS
  <1>4. ASSUME NEW c \in Clients, InStep(cl[c], th[k], net[k], buf, msg, fs, cwd)
        PROVE  InStep(cl[c], th'[k], net[k], buf', msg', fs, cwd')
    <2>1. PICK f, s : /\ Puts(cl[c], net[k], f, s) /\ Stores(th[k], fs, cwd, f, s)
                      /\ HasPiece(cl[c], th[k], net[k], buf, f)
      BY <1>0, <1>1, <1>4, WhilePutting
    <2>2. n >= 1
      BY <1>2, <2>1 DEF HasPiece
    <2>3. y \in Seq(Cell) /\ Len(y) = n /\ \A j \in 1 .. n : y[j] = buf[j]
      BY <1>1, <1>2, <1>3, <2>2, WireAssumption DEF Buffer
    <2>4. PICK o \in Nat : o = Len(x) /\ x \in Seq(Cell)
      BY <1>1, <1>3 DEF Thread
    <2>5. /\ out \in Seq(Cell) /\ Len(out) = Len(x) + Len(y)
          /\ \A j \in 1 .. Len(x) : out[j] = x[j]
          /\ \A j \in 1 .. Len(y) : out[Len(x) + j] = y[j]
      <3>1. PICK S : S = Cell
        OBVIOUS
      <3>2. x \in Seq(S) /\ y \in Seq(S)
        BY <2>3, <2>4, <3>1
      <3>3. /\ x \o y \in Seq(S) /\ Len(x \o y) = Len(x) + Len(y)
            /\ \A j \in 1 .. Len(x) : (x \o y)[j] = x[j]
            /\ \A j \in 1 .. Len(y) : (x \o y)[Len(x) + j] = y[j]
        BY <3>2, Joined
      <3>4. out = x \o y
        BY <1>3
      <3>5. out \in Seq(Cell)
        BY <3>1, <3>3, <3>4, Zenon
      <3>6. Len(out) = Len(x) + Len(y)
        BY <3>3, <3>4, Zenon
      <3>7. \A j \in 1 .. Len(x) : out[j] = x[j]
        BY <3>3, <3>4, Zenon
      <3>8. \A j \in 1 .. Len(y) : out[Len(x) + j] = y[j]
        BY <3>3, <3>4, Zenon
      <3> QED BY <3>5, <3>6, <3>7, <3>8
    <2>6. Len(out) = o + n
      BY <2>3, <2>4, <2>5
    <2>7. \A j \in 1 .. o + n : out[j] = Body(f, j)
      <3>1. ASSUME NEW j \in 1 .. o + n PROVE out[j] = Body(f, j)
        <4>1. CASE j <= o
          <5>1. j \in 1 .. o
            BY <4>1
          <5>2. x[j] = Body(f, j)
            BY <1>3, <2>1, <2>4, <5>1 DEF HasPiece
          <5>3. out[j] = x[j]
            BY <2>4, <2>5, <5>1
          <5> QED BY <5>2, <5>3
        <4>2. CASE ~ (j <= o)
          <5>1. PICK i \in 1 .. n : o + i = j
            <6>1. j - o \in 1 .. n /\ o + (j - o) = j
              BY <4>2
            <6> QED BY <6>1
          <5>2. buf[i] = Body(f, o + i)
            BY <1>2, <1>3, <2>1, <2>4, <5>1 DEF HasPiece
          <5>3. out[o + i] = y[i]
            <6>1. i \in 1 .. Len(y)
              BY <2>3, <5>1
            <6>2. out[Len(x) + i] = y[i]
              BY <2>5, <6>1
            <6> QED BY <2>4, <6>2, Zenon
          <5> QED BY <2>3, <5>1, <5>2, <5>3
        <4> QED BY <4>1, <4>2
      <3> QED BY <3>1
    <2>8. o + n + Len(net[k].c2s) = cl[c].pos /\ Brings(net[k].c2s, f, o + n)
      BY <1>2, <1>3, <2>1, <2>4 DEF HasPiece
    <2>9. th[k].need = s
      BY <2>1 DEF Stores
    <2>10. th' = [th EXCEPT ![k] = [th[k] EXCEPT !.out = out, !.pc = PutOn(out, s)]]
      BY <1>2, <1>3, <2>9 DEF PutWrite, Written, Become
    <2>11. /\ th'[k].out = out /\ th'[k].pc = PutOn(out, s) /\ th'[k].file = th[k].file
           /\ th'[k].dir = th[k].dir /\ th'[k].need = th[k].need
      BY <1>1, <2>10 DEF Thread
    <2>12. Stores(th'[k], fs, cwd, f, s)
      BY <2>1, <2>11 DEF Stores
    <2>13. Wrote(cl[c], th'[k], net[k], fs, cwd, f, s)
      BY <2>5, <2>6, <2>7, <2>8, <2>11, <2>12, Zenon DEF Wrote
    <2>14. net[k].c2s \in Seq(Flit)
      BY <1>1 DEF Endpoint
    <2>15. InStep(cl[c], th'[k], net[k], buf', msg', fs, cwd)
      BY <2>1, <2>13, <2>14, StepWritten
    <2> QED BY <1>0, <2>15
  <1>5. Session(k)
    BY DEF Session
  <1> QED BY <1>0, <1>4, <1>5, QuietStep

(* The file holds all of it: END is to be sent.                            *)
LEMMA StepStored ==
    ASSUME NEW p, NEW t, NEW e, NEW b, NEW m, NEW F, NEW w, NEW f, NEW s,
           Puts(p, e, f, s), e.c2s = <<>>, p.pos = s, F[w][f] = Content(f, s),
           Sends(t, b, m, "buf", End, "recv")
    PROVE  InStep(p, t, e, b, m, F, w)
  <1>0. f = p.arg /\ s = IF p.size = Missing THEN 0 ELSE p.size
    BY DEF Puts, PutSize
  <1>1. /\ p.cmd = "PUT" /\ f \in Files /\ Linked(e) /\ e.s2c = <<>>
        /\ p.size \in Sizes \cup {Missing} /\ (Orderly => p.size # Missing)
        /\ p.pos <= s /\ (p.pc = "put_ack" => p.pos = s /\ p.size # Missing)
    BY DEF Puts
  <1>2. Putting(p, t, e, b, m, F, w)
    BY <1>0, <1>1 DEF Putting
  <1> QED BY <1>2 DEF InStep, Puts

(* response_put closes the file and acknowledges.                          *)
LEMMA SyncPutClose ==
    ASSUME FairUse, Inv, Together, NEW k \in Conns, PutClose(k), UNCHANGED cl
    PROVE  Together'
  <1>0. /\ th[k].pc = "put_close" /\ Running(th[k])
        /\ UNCHANGED <<net, buf, msg, cwd, up>>
    BY DEF PutClose, Running, wireVars
  <1>1. /\ th[k] \in Thread /\ th \in [Conns -> Thread] /\ fs \in FileSystem
        /\ cwd \in Dirs /\ up /\ \A c \in Clients : cl[c] \in ClientState
        /\ \A d \in Dirs, f \in Files : fs[d][f] # Absent => Len(fs[d][f]) < SizeMod
    BY <1>0, PairTypes
  <1>2. ASSUME NEW c \in Clients, InStep(cl[c], th[k], net[k], buf, msg, fs, cwd)
        PROVE  \E f, s : /\ Puts(cl[c], net[k], f, s) /\ Stores(th[k], fs, cwd, f, s)
                         /\ net[k].c2s = <<>> /\ th[k].out = Content(f, s)
                         /\ cl[c].pos = s
    BY <1>0, <1>1, <1>2, WhilePutting
  <1>3. PICK f, s : /\ f \in Files /\ s \in Nat /\ s < SizeMod
                    /\ Stores(th[k], fs, cwd, f, s) /\ th[k].out = Content(f, s)
    BY <1>0, <1>2, HasOwner DEF Puts
  <1>4. PICK r : r = << Via("buf", <<End>>) >>
    OBVIOUS
  <1>5. Content(f, s) \in Seq(Cell) /\ Len(Content(f, s)) = s
    BY <1>3, ContentType DEF Names
  <1>6. fs' = [fs EXCEPT ![cwd][f] = Content(f, s)]
    <2>1. th[k].dir = cwd /\ th[k].file = f /\ fs[cwd][f] = <<>>
      BY <1>3 DEF Stores
    <2>2. fs' = [fs EXCEPT ![cwd][f] =
                   Content(f, s) \o SubSeq(fs[cwd][f], s + 1, Len(fs[cwd][f]))]
      BY <1>3, <1>5, <2>1 DEF PutClose
    <2>3. SubSeq(<<>>, s + 1, Len(<<>>)) = <<>>
      <3>1. Len(<<>>) = 0 /\ 0 < s + 1 /\ s + 1 \in Int /\ 0 \in Int
        BY <1>3
      <3> QED BY <3>1, SubSeqEmpty
    <2>4. Content(f, s) \o <<>> = Content(f, s)
      BY <1>5, ConcatEmptySeq
    <2> QED BY <2>1, <2>2, <2>3, <2>4, Zenon
  <1>7. /\ fs'[cwd][f] = Content(f, s)
        /\ \A d \in Dirs, g \in Files : fs'[d][g] # Absent => Len(fs'[d][g]) < SizeMod
    <2>1. \A d \in Dirs, g \in Files : fs'[d][g] = fs[d][g] \/ fs'[d][g] = Content(f, s)
      BY <1>1, <1>3, <1>6 DEF FileSystem
    <2>2. fs'[cwd][f] = Content(f, s)
      BY <1>1, <1>3, <1>6 DEF FileSystem
    <2> QED BY <1>1, <1>3, <1>5, <2>1, <2>2
  <1>8. th'[k].pc = "fill" /\ th'[k].todo = r /\ th'[k].next = "recv"
    <2>1. th' = [th EXCEPT ![k] = [th[k] EXCEPT !.pc = "fill", !.next = "recv",
                                      !.out = <<>>, !.todo = r]]
      BY <1>4, Zenon DEF PutClose, Become
    <2> QED BY <1>1, <2>1 DEF Thread
  <1>9. Sends(th'[k], buf, msg, "buf", End, "recv")
    BY <1>4, <1>8 DEF Sends
  <1>10. ASSUME NEW c \in Clients, InStep(cl[c], th[k], net[k], buf, msg, fs, cwd)
         PROVE  InStep(cl[c], th'[k], net'[k], buf', msg', fs', cwd')
    <2>1. PICK g, n : /\ Puts(cl[c], net[k], g, n) /\ Stores(th[k], fs, cwd, g, n)
                      /\ net[k].c2s = <<>> /\ cl[c].pos = n
      BY <1>2, <1>10
    <2>2. g = f /\ n = s
      BY <1>3, <2>1 DEF Stores
    <2>3. InStep(cl[c], th'[k], net[k], buf, msg, fs', cwd)
      BY <1>7, <1>9, <2>1, <2>2, StepStored
    <2> QED BY <1>0, <2>3
  <1>11. Session(k) /\ up' /\ \A j \in Conns \ {k} : net'[j] = net[j]
    BY <1>0, <1>1 DEF Session
  <1> QED BY <1>7, <1>10, <1>11, ThreadMoves

(* response_put receives more of the file.                                 *)
LEMMA SyncPutRecv ==
    ASSUME FairUse, Inv, Together, NEW k \in Conns, PutRecv(k), UNCHANGED cl
    PROVE  Together'
  <1>0. /\ th[k].pc = "put_recv" /\ Running(th[k]) /\ UNCHANGED <<msg, fs, cwd>>
    BY DEF PutRecv, Running
  <1>1. /\ th[k] \in Thread /\ th[k].fd = k /\ net \in [Conns -> Endpoint]
        /\ net[k] \in Endpoint /\ th \in [Conns -> Thread] /\ buf \in Buffer
        /\ \A c \in Clients : cl[c] \in ClientState
        /\ up /\ \A d \in Dirs, f \in Files : fs[d][f] # Absent => Len(fs[d][f]) < SizeMod
    BY <1>0, PairTypes
  <1>2. PICK q : q = net[k].c2s /\ q \in Seq(Flit)
    BY <1>1 DEF Endpoint
  <1>3. ASSUME NEW c \in Clients, InStep(cl[c], th[k], net[k], buf, msg, fs, cwd)
        PROVE  \E f, s : /\ Puts(cl[c], net[k], f, s) /\ Stores(th[k], fs, cwd, f, s)
                         /\ Receives(cl[c], th[k], net[k], f, s)
    BY <1>0, <1>1, <1>3, WhilePutting
  <1>4. Linked(net[k])
    BY <1>0, <1>3, HasOwner DEF Puts
  <1>5. PICK n \in SrvResults(k) :
           IF n = -1 THEN Crash /\ UNCHANGED <<th, buf>>
           ELSE /\ RecvInto(k, n) /\ up' = up
                /\ Become(k, [th[k] EXCEPT !.pc = "put_write", !.n = n])
    BY <1>1 DEF PutRecv
  <1>6. n \in RecvLens(q, BufUnits)
    BY <1>2, <1>4, <1>5 DEF SrvResults, Results, Linked
  <1>7. n \in 1 .. Len(q) /\ n <= BufUnits /\ n # -1 /\ n > 0 /\ Len(q) \in Nat
    BY <1>2, <1>6, WireAssumption DEF RecvLens, Lesser
  <1>8. /\ Len(Rest(q, n)) = Len(q) - n
        /\ \A j \in 1 .. Len(q) - n : Rest(q, n)[j] = q[n + j]
        /\ \A j \in 1 .. n : Overlay(buf, Cells(q, n))[j] = q[j].c
    BY <1>1, <1>2, <1>7, Taking
  <1>9. /\ buf' = Overlay(buf, Cells(q, n)) /\ up' = up
        /\ net' = [net EXCEPT ![k].c2s = Rest(q, n)]
        /\ th' = [th EXCEPT ![k] = [th[k] EXCEPT !.pc = "put_write", !.n = n]]
    BY <1>1, <1>2, <1>5, <1>7 DEF RecvInto, Become
  <1>10. /\ net'[k].c2s = Rest(q, n) /\ net'[k].s2c = net[k].s2c
         /\ net'[k].cli = net[k].cli /\ net'[k].srv = net[k].srv
         /\ net'[k].reset = net[k].reset /\ \A j \in Conns \ {k} : net'[j] = net[j]
    BY <1>1, <1>9 DEF Endpoint
  <1>11. /\ th'[k].pc = "put_write" /\ th'[k].n = n /\ th'[k].out = th[k].out
         /\ th'[k].file = th[k].file /\ th'[k].dir = th[k].dir
         /\ th'[k].need = th[k].need
    BY <1>1, <1>9 DEF Thread
  <1>12. ASSUME NEW c \in Clients, InStep(cl[c], th[k], net[k], buf, msg, fs, cwd)
         PROVE  InStep(cl[c], th'[k], net'[k], buf', msg', fs', cwd')
    <2>1. PICK f, s : /\ Puts(cl[c], net[k], f, s) /\ Stores(th[k], fs, cwd, f, s)
                      /\ Receives(cl[c], th[k], net[k], f, s)
      BY <1>3, <1>12
    <2>2. PICK o \in Nat, l \in Nat : o = Len(th[k].out) /\ l = Len(q)
      BY <1>1, <1>7 DEF Thread
    <2>3. o + l = cl[c].pos /\ \A j \in 1 .. l : q[j].c = Body(f, o + j)
      BY <1>2, <2>1, <2>2 DEF Receives, Brings
    <2>4. \A j \in 1 .. n : buf'[j] = Body(f, o + j)
      <3>1. \A j \in 1 .. n : j \in 1 .. l
        BY <1>7, <2>2
      <3> QED BY <1>8, <1>9, <2>3, <3>1
    <2>5. Len(Rest(q, n)) = l - n /\ o + n + (l - n) = cl[c].pos
      BY <1>7, <1>8, <2>2, <2>3
    <2>6. Brings(Rest(q, n), f, o + n)
      <3>1. ASSUME NEW j \in 1 .. l - n PROVE Rest(q, n)[j].c = Body(f, (o + n) + j)
        <4>1. n + j \in 1 .. l /\ o + (n + j) = (o + n) + j
          <5>1. n \in 1 .. l
            BY <1>7, <2>2
          <5>2. PICK i \in 1 .. l : i = n
            BY <5>1
          <5>3. j \in 1 .. l - i
            BY <5>2
          <5>4. i + j \in 1 .. l /\ o + (i + j) = (o + i) + j
            BY <5>3
          <5> QED BY <5>2, <5>4, Zenon
        <4>2. q[n + j].c = Body(f, o + (n + j))
          BY <2>3, <4>1, Zenon
        <4>3. Rest(q, n)[j] = q[n + j]
          <5>1. \A i \in 1 .. l - n : Rest(q, n)[i] = q[n + i]
            BY <1>8, <2>2, Zenon
          <5> QED BY <5>1
        <4> QED BY <4>1, <4>2, <4>3
      <3> QED BY <2>5, <3>1 DEF Brings
    <2>7. HasPiece(cl[c], th'[k], net'[k], buf', f)
      <3>1. n >= 1 /\ Len(th'[k].out) = o /\ Len(net'[k].c2s) = l - n
        BY <1>7, <1>10, <1>11, <2>2, <2>5
      <3>2. \A j \in 1 .. o : th'[k].out[j] = Body(f, j)
        BY <1>11, <2>1, <2>2 DEF Receives
      <3> QED BY <1>10, <1>11, <2>4, <2>5, <2>6, <3>1, <3>2, Zenon DEF HasPiece
    <2>8. Stores(th'[k], fs, cwd, f, s)
      BY <1>11, <2>1 DEF Stores
    <2>9. Puts(cl[c], net'[k], f, s)
      BY <1>10, <2>1 DEF Puts, Linked
    <2>10. InStep(cl[c], th'[k], net'[k], buf', msg', fs, cwd)
      BY <1>11, <2>7, <2>8, <2>9, PutStep
    <2> QED BY <1>0, <2>10
  <1>13. /\ Session(k) /\ up'
         /\ \A d \in Dirs, f \in Files : fs'[d][f] # Absent => Len(fs'[d][f]) < SizeMod
    BY <1>0, <1>1, <1>9 DEF Session
  <1> QED BY <1>10, <1>12, <1>13, ThreadMoves

-----------------------------------------------------------------------------
(* exit.                                                                   *)

(* response_exit ends the session.                                         *)
LEMMA SyncExit ==
    ASSUME FairUse, Inv, Together, NEW k \in Conns, response_exit(k), UNCHANGED cl
    PROVE  Together'
  <1>0. /\ th[k].pc = "dispatch" /\ Running(th[k]) /\ Seen(k).k = "EXIT"
        /\ UNCHANGED <<fs, cwd, up>>
    BY DEF response_exit, Switch, Running
  <1>1. /\ th[k] \in Thread /\ th[k].fd = k /\ net \in [Conns -> Endpoint]
        /\ th \in [Conns -> Thread] /\ up
        /\ \A d \in Dirs, f \in Files : fs[d][f] # Absent => Len(fs[d][f]) < SizeMod
    BY <1>0, PairTypes
  <1>2. /\ net' = [net EXCEPT ![k].srv = FALSE] /\ th'[k].pc = "done"
    BY <1>1 DEF response_exit, Become, Thread
  <1>3. /\ net'[k].s2c = net[k].s2c /\ net'[k].cli = net[k].cli
        /\ net'[k].reset = net[k].reset /\ \A j \in Conns \ {k} : net'[j] = net[j]
    BY <1>1, <1>2 DEF Endpoint
  <1>4. ASSUME NEW c \in Clients, cl[c].fd = k,
               InStep(cl[c], th[k], net[k], buf, msg, fs, cwd)
        PROVE  InStep(cl[c], th'[k], net'[k], buf', msg', fs', cwd')
    <2>1. cl[c].pc = "exited"
      BY <1>0, <1>4, Dispatched
    <2>2. net[k].s2c = <<>> /\ ~net[k].cli /\ ~net[k].reset
      BY <1>0, <1>4, <2>1, AtDispatch
    <2> QED BY <1>2, <1>3, <2>1, <2>2 DEF InStep, Leaving
  <1>5. /\ Session(k) /\ up'
        /\ \A d \in Dirs, f \in Files : fs'[d][f] # Absent => Len(fs'[d][f]) < SizeMod
    BY <1>0, <1>1 DEF Session
  <1> QED BY <1>3, <1>4, <1>5, ThreadMoves

(* No request is one the switch has no case for.                           *)
LEMMA NoOtherCase ==
    ASSUME FairUse, Inv, Together, NEW k \in Conns, NoCase(k)
    PROVE  FALSE
  <1>0. th[k].pc = "dispatch" /\ Running(th[k]) /\ Seen(k).k \notin Requests
    BY DEF NoCase, Switch, Running
  <1>1. PICK c \in Clients : cl[c].fd = k /\ InStep(cl[c], th[k], net[k], buf, msg, fs, cwd)
    BY <1>0, HasOwner
  <1>2. Seen(k).k \in {"LS", "PWD", "CD", "GET", "PUT", "EXIT"}
    BY <1>0, <1>1, Dispatched
  <1> QED BY <1>0, <1>2 DEF Requests

(* Whatever a thread does, its client and it stay in step.                 *)
LEMMA SyncSession ==
    ASSUME FairUse, Inv, Together, NEW k \in Conns, Session(k), UNCHANGED cl
    PROVE  Together'
  BY SyncStart, SyncRecv, SyncLs, SyncPwd, SyncCd, SyncPwdAfterCd, SyncGet, SyncFopen,
     SyncFread, SyncPut, SyncPutRest, SyncPutRecv, SyncPutWrite, SyncPutClose, SyncExit,
     NoOtherCase, SyncFill, SyncSend DEF Session

-----------------------------------------------------------------------------
(* The clients.                                                            *)

(* What a client on a connection has.                                      *)
OnConn(c, k) ==
    /\ k \in Conns /\ cl[c].fd = k /\ k <= nconn /\ cl[c].fds = {k}
    /\ InStep(cl[c], th[k], net[k], buf, msg, fs, cwd)
    /\ \A d \in Clients \ {c} : cl[d].fd # k

(* A connected client is in step with the thread of its connection.        *)
LEMMA ClientHas ==
    ASSUME Inv, Together, NEW c \in Clients, cl[c].fd # 0
    PROVE  \E k \in Conns : OnConn(c, k)
  <1>1. cl[c].fd \in Conns
    <2>1. cl[c].fd \in 0 .. MaxConns
      BY ClientType DEF ClientState
    <2> QED BY <2>1, WireAssumption
  <1>2. \A d \in Clients \ {c} : cl[d].fd # cl[c].fd
    BY <1>1 DEF Together, Owners
  <1>3. cl[c].fd <= nconn /\ cl[c].fds = {cl[c].fd} \ {0}
    BY DEF Together, Owners
  <1>4. cl[c].fds = {cl[c].fd}
    BY <1>3
  <1>5. InStep(cl[c], th[cl[c].fd], net[cl[c].fd], buf, msg, fs, cwd)
    BY DEF Together
  <1> QED BY <1>1, <1>2, <1>3, <1>4, <1>5 DEF OnConn

(* The types of the streams.                                               *)
LEMMA WireIs ==
    ASSUME Inv
    PROVE  /\ net \in [Conns -> Endpoint] /\ nconn \in Nat /\ nconn <= MaxConns
           /\ main.made \in Nat /\ cl \in [Clients -> ClientState]
           /\ buf \in Buffer /\ th \in [Conns -> Thread]
  <1>1. nconn \in 0 .. MaxConns /\ main.made \in 0 .. MaxConns
    BY DEF Inv, TypeOK, WireTypeOK, ServerTypeOK, MainState
  <1>2. nconn \in Nat /\ nconn <= MaxConns /\ main.made \in Nat
    BY <1>1, WireAssumption
  <1> QED BY <1>2 DEF Inv, TypeOK, WireTypeOK, ServerTypeOK, ClientTypeOK

(* A step of a client on its connection that keeps the two in step.        *)
LEMMA ClientActs ==
    ASSUME Inv, Together, NEW c \in Clients, NEW k, OnConn(c, k), OthersCalm(c),
           UNCHANGED <<serverVars, nconn, backlog, up>>,
           NEW p, GoOn(c, p), p.fd = k, p.fds = {k},
           \A j \in Conns \ {k} : net'[j] = net[j],
           InStep(p, th[k], net'[k], buf, msg, fs, cwd)
    PROVE  Together'
  <1>0. k \in Conns /\ cl[c].fd = k /\ k <= nconn /\ \A d \in Clients \ {c} : cl[d].fd # k
    BY DEF OnConn
  <1>1. cl'[c] = p /\ \A d \in Clients \ {c} : cl'[d] = cl[d]
    BY WireIs DEF GoOn
  <1>2. /\ UNCHANGED main /\ UNCHANGED th /\ UNCHANGED buf /\ UNCHANGED msg
        /\ UNCHANGED fs /\ UNCHANGED cwd
    BY DEF serverVars
  <1>3. Entering'
    <2>1. ASSUME NEW j \in Conns, j > nconn PROVE net'[j] = NoConn
      <3>1. j # k
        BY <1>0, <2>1, WireIs, WireAssumption
      <3> QED BY <2>1, <3>1 DEF Together, Entering
    <2> QED BY <1>2, <2>1 DEF Together, Entering
  <1>4. Owners'
    <2>1. k # 0
      BY <1>0, WireAssumption
    <2>2. \A d \in Clients : cl'[d].fd = cl[d].fd
      BY <1>0, <1>1
    <2>3. ASSUME NEW d \in Clients
          PROVE  /\ cl'[d].fd <= nconn /\ cl'[d].fds = {cl'[d].fd} \ {0}
                 /\ cl'[d].fd = 0 => cl'[d].pc \in {"prompt", "exited"}
      <3>1. CASE d = c
        BY <1>0, <1>1, <2>1, <3>1
      <3>2. CASE d # c
        BY <1>1, <3>2 DEF Together, Owners
      <3> QED BY <3>1, <3>2
    <2>4. \A d, a \in Clients : cl'[d].fd = cl'[a].fd => cl'[d].fd = 0 \/ d = a
      BY <2>2 DEF Together, Owners
    <2>5. \A j \in 1 .. nconn : \E d \in Clients : cl'[d].fd = j
      BY <2>2 DEF Together, Owners
    <2> QED BY <2>3, <2>4, <2>5 DEF Owners
  <1>5. /\ up'
        /\ \A d \in Dirs, f \in Files : fs'[d][f] # Absent => Len(fs'[d][f]) < SizeMod
    BY <1>2 DEF Together
  <1>6. InStep(cl'[c], th'[k], net'[k], buf', msg', fs', cwd')
    BY <1>1, <1>2
  <1>7. \A d \in Clients \ {c} : cl'[d] = cl[d] /\ cl[d].fd # k
    BY <1>0, <1>1
  <1>8. \A j \in Conns \ {k} : th'[j] = th[j] /\ net'[j] = net[j]
    BY <1>2
  <1> QED BY <1>0, <1>1, <1>3, <1>4, <1>5, <1>6, <1>7, <1>8, PairMoves

(* Who is in the middle of a command is the only one.                      *)
LEMMA InCommandAlone ==
    ASSUME Inv, Together, NEW c \in Clients, InCommand(cl[c])
    PROVE  OthersCalm(c) /\ \E k \in Conns : OnConn(c, k)
  <1>1. cl[c].fd # 0
    BY WireAssumption, ClientType
  <1>2. ~Calm(cl[c], th[cl[c].fd], net[cl[c].fd])
    BY DEF Calm, InCommand, Gone
  <1> QED BY <1>1, <1>2, OnlyOne, ClientHas

(* Orderly users wait for each other; and one connection has one user.     *)
LEMMA OthersWait ==
    ASSUME FairUse, Inv, Together, NEW c \in Clients, Orderly => Quiet(c),
           cl[c].fd # 0 \/ nconn < MaxConns
    PROVE  OthersCalm(c)
  <1> SUFFICES ASSUME NEW d \in Clients \ {c}, cl[d].fd # 0
               PROVE  Calm(cl[d], th[cl[d].fd], net[cl[d].fd])
    BY DEF OthersCalm
  <1>1. PICK k \in Conns : OnConn(d, k)
    BY ClientHas
  <1>2. /\ cl[d].fd = k /\ k <= nconn /\ cl[c].fd # k
        /\ InStep(cl[d], th[k], net[k], buf, msg, fs, cwd)
    BY <1>1 DEF OnConn
  <1>3. CASE Orderly = TRUE
    <2>1. /\ backlog = <<>> /\ main.pc = "accept"
          /\ cl[d].pc \in Gone \cup {"prompt"}
          /\ th[k].pc \in {"idle", "done"} \/ (th[k].pc = "recv" /\ net[th[k].fd].c2s = <<>>)
      BY <1>3 DEF Quiet
    <2>2. main.made = nconn /\ (th[k].pc = "idle" <=> k > main.made)
      BY <2>1 DEF Together, Entering
    <2>3. th[k].pc # "idle"
      BY <1>2, <2>2, WireIs, WireAssumption
    <2>4. th[k].pc = "recv" => net[k].c2s = <<>>
      BY <2>1 DEF Together, Entering, Running
    <2>5. CASE cl[d].pc = "prompt"
      <3>1. Linked(net[k]) /\ net[k].c2s = <<>> /\ net[k].s2c = <<>> /\ Ready(th[k], buf, fs, cwd)
        BY <1>2, <2>5 DEF InStep
      <3>2. th[k].pc = "recv"
        BY <2>1, <2>3, <3>1 DEF Ready
      <3> QED BY <1>2, <2>5, <3>1, <3>2 DEF Calm
    <2>6. CASE cl[d].pc = "exited"
      <3>1. Leaving(th[k], net[k], buf, fs, cwd)
        BY <1>2, <2>6 DEF InStep
      <3>2. th[k].pc = "done"
        <4>1. ASSUME th[k].pc = "recv", Asked(th[k], net[k], buf, fs, cwd, "EXIT", None)
              PROVE  FALSE
          <5>1. net[k].c2s = <<>> /\ net[k].c2s = Packet(Cells1("EXIT", None))
            BY <2>4, <4>1 DEF Asked
          <5>2. "EXIT" \in Requests /\ None \in Names
            BY DEF Requests, Names
          <5>3. /\ Cells1("EXIT", None) \in Seq(Cell)
                /\ Len(Cells1("EXIT", None)) \in 1 .. BufUnits
            BY <5>2, RequestCells
          <5>4. Len(net[k].c2s) \in 1 .. BufUnits /\ Len(<<>>) = 0
            BY <5>1, <5>3, PacketIs
          <5> QED BY <5>1, <5>4, WireAssumption
        <4> QED BY <2>1, <2>3, <3>1, <4>1 DEF Leaving
      <3> QED BY <1>2, <2>6, <3>1, <3>2 DEF Calm, Leaving
    <2>7. cl[d].pc # "aborted"
      BY <1>2 DEF InStep
    <2> QED BY <2>1, <2>5, <2>6, <2>7 DEF Gone
  <1>4. CASE MaxConns = 1
    <2>1. k = 1 /\ nconn = 1
      BY <1>2, <1>4, WireIs
    <2>2. cl[c].fd # 0
      BY <1>4, <2>1
    <2>3. PICK j \in Conns : OnConn(c, j)
      BY <2>2, ClientHas
    <2>4. cl[c].fd = j /\ j = 1
      BY <1>4, <2>3 DEF OnConn
    <2> QED BY <1>2, <2>1, <2>4
  <1> QED BY <1>3, <1>4 DEF FairUse

(* CONNECT_CHECK: a client that has no connection stays without one.       *)
LEMMA SyncCheck ==
    ASSUME Inv, Together, NEW c \in Clients, CONNECT_CHECK(c), UNCHANGED serverVars
    PROVE  Together'
  <1>1. cl[c].fd = 0
    <2> SUFFICES ASSUME cl[c].fd # 0 PROVE FALSE
      OBVIOUS
    <2>1. PICK k \in Conns : OnConn(c, k)
      BY ClientHas
    <2>2. cl[c].pc = "prompt"
      BY DEF CONNECT_CHECK, Idle
    <2>3. cl[c].fd = k /\ Linked(net[k])
      BY <2>1, <2>2 DEF OnConn, InStep
    <2> QED BY <2>3 DEF CONNECT_CHECK, tcp_connected, Linked
  <1>2. PICK p : p = Begin(c, "prompt", "NONE", None)
    OBVIOUS
  <1>3. cl[c] \in ClientState
    BY WireIs
  <1>4. p.pc = "prompt" /\ p.fd = 0 /\ p.fds = cl[c].fds
    BY <1>1, <1>2, <1>3 DEF Begin, ClientState
  <1>5. cl'[c] = p /\ \A d \in Clients \ {c} : cl'[d] = cl[d]
    BY <1>2, WireIs DEF CONNECT_CHECK, GoOn
  <1>6. \A d \in Clients : cl'[d].fd = cl[d].fd /\ cl'[d].fds = cl[d].fds
    BY <1>1, <1>4, <1>5
  <1>7. /\ UNCHANGED main /\ UNCHANGED th /\ UNCHANGED buf /\ UNCHANGED msg
        /\ UNCHANGED fs /\ UNCHANGED cwd /\ UNCHANGED net /\ UNCHANGED nconn
        /\ UNCHANGED backlog /\ UNCHANGED up
    BY DEF serverVars, CONNECT_CHECK, wireVars
  <1>8. Entering' /\ up'
    BY <1>7 DEF Together, Entering
  <1>9. Owners'
    <2>1. \A d \in Clients : cl'[d].fd = 0 => cl'[d].pc \in {"prompt", "exited"}
      BY <1>4, <1>5 DEF Together, Owners
    <2> QED BY <1>6, <1>7, <2>1 DEF Together, Owners
  <1>10. \A d \in Clients : cl'[d].fd # 0 => cl'[d] = cl[d]
    BY <1>4, <1>5
  <1> QED BY <1>7, <1>8, <1>9, <1>10 DEF Together

(* open: the new connection is the last.                                   *)
LEMMA SyncOpen ==
    ASSUME FairUse, Inv, Together, NEW c \in Clients, Orderly => Quiet(c),
           Orderly => cl[c].fd = 0, cmd_open(c), UNCHANGED serverVars
    PROVE  Together'
  <1>0. /\ UNCHANGED main /\ UNCHANGED th /\ UNCHANGED buf /\ UNCHANGED msg
        /\ UNCHANGED fs /\ UNCHANGED cwd /\ UNCHANGED up
    BY DEF serverVars, cmd_open
  <1>1. PICK n \in Nat, made \in Nat : n = nconn /\ n < MaxConns /\ made = main.made
    BY WireIs DEF cmd_open
  <1>2. PICK k \in Conns : k = n + 1
    BY <1>1, WireAssumption
  <1>3. /\ nconn' = k /\ backlog' = Append(backlog, k)
        /\ net' = [net EXCEPT ![k].cli = TRUE, ![k].srv = TRUE]
        /\ GoOn(c, [Begin(c, "prompt", "OPEN", None) EXCEPT
                   !.fd = k, !.fds = @ \cup {k}])
    BY <1>1, <1>2 DEF cmd_open, Together
  <1>4. /\ cl[c].fd = 0 /\ backlog = <<>> /\ main.pc = "accept"
        /\ \A j \in Conns : th[j].pc # "start"
    <2>1. CASE Orderly = TRUE
      BY <2>1 DEF Quiet
    <2>2. CASE MaxConns = 1
      <3>1. n = 0
        BY <1>1, <2>2
      <3>2. cl[c].fd = 0
        <4>1. cl[c].fd \in 0 .. MaxConns /\ cl[c].fd <= 0
          BY <1>1, <3>1, WireIs DEF ClientState, Together, Owners
        <4> QED BY <4>1, WireAssumption
      <3>3. made \in {0, 0 - 1}
        BY <1>1, <3>1 DEF Together, Entering
      <3>4. main.made = nconn
        BY <1>1, <3>1, <3>3
      <3>5. backlog = <<>> /\ main.pc = "accept"
        BY <3>4 DEF Together, Entering
      <3>6. \A j \in Conns : th[j].pc = "start" => j = 0
        BY <1>1, <3>1 DEF Together, Entering
      <3> QED BY <3>2, <3>5, <3>6, WireAssumption
    <2> QED BY <2>1, <2>2 DEF FairUse
  <1>5. made = n /\ th[k].pc = "idle" /\ net[k] = NoConn
    <2>1. made = n
      BY <1>1, <1>4 DEF Together, Entering
    <2>2. k > nconn /\ k > main.made
      BY <1>1, <1>2, <2>1
    <2> QED BY <2>1, <2>2 DEF Together, Entering
  <1>6. PICK p : p = [Begin(c, "prompt", "OPEN", None) EXCEPT !.fd = k, !.fds = @ \cup {k}]
    OBVIOUS
  <1>7. cl[c] \in ClientState /\ cl[c].fds = {}
    BY <1>4, WireIs DEF Together, Owners
  <1>8. p.pc = "prompt" /\ p.fd = k /\ p.fds = {k}
    BY <1>6, <1>7 DEF Begin, ClientState
  <1>9. cl'[c] = p /\ \A d \in Clients \ {c} : cl'[d] = cl[d]
    BY <1>3, <1>6, WireIs DEF GoOn
  <1>10. /\ net'[k].cli /\ net'[k].srv /\ ~net'[k].reset
         /\ net'[k].c2s = <<>> /\ net'[k].s2c = <<>>
         /\ \A j \in Conns \ {k} : net'[j] = net[j]
    BY <1>3, <1>5, WireIs DEF NoConn
  <1>11. InStep(cl'[c], th'[k], net'[k], buf', msg', fs', cwd')
    BY <1>0, <1>5, <1>8, <1>9, <1>10 DEF InStep, Linked, Ready
  <1>12. Entering'
    <2>1. backlog' = <<k>> /\ backlog' # <<>>
      BY <1>3, <1>4
    <2>2. nconn' - 1 = made /\ made # nconn' /\ main' = main
      BY <1>0, <1>2, <1>3, <1>5
    <2>3. ASSUME NEW j \in Conns
          PROVE  /\ th'[j].pc = "idle" <=> j > main'.made
                 /\ Running(th'[j]) => th'[j].fd = j
                 /\ th'[j].pc # "start"
                 /\ j > nconn' => net'[j] = NoConn
      <3>1. th'[j] = th[j] /\ main'.made = main.made
        BY <1>0
      <3>2. j > nconn' => j # k /\ j > nconn
        BY <1>1, <1>2, <1>3, WireAssumption
      <3>3. j > nconn' => net'[j] = NoConn
        BY <1>10, <3>2 DEF Together, Entering
      <3> QED BY <1>4, <3>1, <3>3 DEF Together, Entering
    <2> QED BY <1>0, <1>1, <1>3, <1>4, <2>1, <2>2, <2>3 DEF Entering
  <1>13. Owners'
    <2>1. \A d \in Clients \ {c} : cl[d].fd <= n /\ cl[d].fd \in Int /\ cl[d].fd # k
      <3>1. ASSUME NEW d \in Clients \ {c} PROVE cl[d].fd <= n /\ cl[d].fd \in Int
        <4>1. cl[d].fd \in 0 .. MaxConns
          BY WireIs DEF ClientState
        <4> QED BY <1>1, <4>1, WireAssumption DEF Together, Owners
      <3> QED BY <1>2, <3>1
    <2>2. k # 0 /\ k <= nconn'
      BY <1>2, <1>3
    <2>3. ASSUME NEW d \in Clients
          PROVE  /\ cl'[d].fd <= nconn' /\ cl'[d].fds = {cl'[d].fd} \ {0}
                 /\ cl'[d].fd = 0 => cl'[d].pc \in {"prompt", "exited"}
      <3>1. CASE d = c
        BY <1>8, <1>9, <2>2, <3>1
      <3>2. CASE d # c
        <4>1. cl[d].fd <= n /\ cl[d].fd \in Int /\ n + 1 = nconn'
          BY <1>2, <1>3, <2>1, <3>2
        <4>2. cl[d].fd <= nconn'
          BY <4>1
        <4> QED BY <1>9, <3>2, <4>2 DEF Together, Owners
      <3> QED BY <3>1, <3>2
    <2>4. ASSUME NEW d \in Clients, NEW a \in Clients, cl'[d].fd = cl'[a].fd
          PROVE  cl'[d].fd = 0 \/ d = a
      BY <1>8, <1>9, <2>1, <2>4 DEF Together, Owners
    <2>5. ASSUME NEW j \in 1 .. nconn' PROVE \E d \in Clients : cl'[d].fd = j
      <3>1. CASE j = k
        BY <1>8, <1>9, <3>1
      <3>2. CASE j # k
        <4>1. j \in 1 .. nconn
          BY <1>1, <1>2, <1>3, <3>2
        <4>2. PICK d \in Clients : cl[d].fd = j
          BY <4>1 DEF Together, Owners
        <4>3. d # c
          BY <1>4, <4>1, <4>2, WireIs
        <4> QED BY <1>9, <4>2, <4>3
      <3> QED BY <3>1, <3>2
    <2> QED BY <2>3, <2>4, <2>5 DEF Owners
  <1>14. OthersCalm(c)
    BY <1>1, OthersWait
  <1>15. /\ up' /\ \A j \in Conns \ {k} : th'[j] = th[j] /\ net'[j] = net[j]
         /\ \A d \in Dirs, f \in Files : fs'[d][f] # Absent => Len(fs'[d][f]) < SizeMod
    BY <1>0, <1>10 DEF Together
  <1>16. \A d \in Clients \ {c} : cl'[d] = cl[d] /\ cl[d].fd # k
    <2>1. \A d \in Clients \ {c} : cl[d].fd <= n /\ cl[d].fd \in 0 .. MaxConns
      BY <1>1, WireIs DEF Together, Owners, ClientState
    <2> QED BY <1>1, <1>2, <1>9, <2>1, WireAssumption
  <1>17. cl[c].fd \in {0, k} /\ cl'[c].fd = k
    BY <1>4, <1>8, <1>9
  <1> QED BY <1>11, <1>12, <1>13, <1>14, <1>15, <1>16, <1>17, PairMoves

(* What a command has at its start.                                        *)
LEMMA Begun ==
    ASSUME Inv, NEW c \in Clients, NEW pc, NEW cmd, NEW arg, NEW p,
           p = Begin(c, pc, cmd, arg)
    PROVE  /\ p.pc = pc /\ p.cmd = cmd /\ p.arg = arg /\ p.shown = <<>> /\ p.out = <<>>
           /\ p.pos = 0 /\ p.fd = cl[c].fd /\ p.fds = cl[c].fds /\ p.size = cl[c].size
           /\ ~p.ok
  <1>1. cl[c] \in ClientState
    BY WireIs
  <1> QED BY <1>1 DEF Begin, ClientState

(* The request gets on the stream.                                         *)
LEMMA SyncAsk ==
    ASSUME FairUse, Inv, Together, NEW c \in Clients, Orderly => Quiet(c),
           NEW cells \in Seq(Cell), Ask(c, cells), NEW p, GoOn(c, p),
           p.fd = cl[c].fd, p.fds = cl[c].fds, UNCHANGED serverVars,
           \A t, e : Linked(e) /\ e.s2c = <<>> /\ e.c2s = Packet(cells)
                        /\ Ready(t, buf, fs, cwd)
                     => InStep(p, t, e, buf, msg, fs, cwd)
    PROVE  Together'
  <1>1. cl[c].fd \in Conns /\ cl[c].pc = "prompt" /\ UNCHANGED <<nconn, backlog, up>>
    BY DEF Ask, tcp_connected, Idle
  <1>2. PICK k \in Conns : OnConn(c, k)
    BY <1>1, ClientHas, WireAssumption
  <1>3. cl[c].fd = k /\ cl[c].fds = {k} /\ InStep(cl[c], th[k], net[k], buf, msg, fs, cwd)
    BY <1>2 DEF OnConn
  <1>4. /\ Linked(net[k]) /\ net[k].c2s = <<>> /\ net[k].s2c = <<>>
        /\ Ready(th[k], buf, fs, cwd)
    BY <1>1, <1>3 DEF InStep
  <1>5. PICK q : q = Packet(cells)
    OBVIOUS
  <1>6. <<>> \o q = q
    BY <1>5, PacketIs, ConcatEmptySeq
  <1>7. net' = [net EXCEPT ![k].c2s = q]
    <2>1. net' = [net EXCEPT ![k].c2s = net[k].c2s \o q]
      BY <1>3, <1>5, WireIs DEF Ask
    <2> QED BY <1>4, <1>6, <2>1
  <1>8. /\ net'[k].c2s = q /\ net'[k].s2c = <<>> /\ Linked(net'[k])
        /\ \A j \in Conns \ {k} : net'[j] = net[j]
    BY <1>4, <1>7, WireIs DEF Endpoint, Linked
  <1>9. InStep(p, th[k], net'[k], buf, msg, fs, cwd)
    BY <1>4, <1>5, <1>8
  <1>10. OthersCalm(c)
    BY <1>1, WireAssumption, OthersWait
  <1> QED BY <1>1, <1>2, <1>3, <1>8, <1>9, <1>10, ClientActs

(* A client sends ls, pwd or cd.                                           *)
LEMMA SyncPrints ==
    ASSUME FairUse, Inv, Together, NEW c \in Clients, Orderly => Quiet(c),
           NEW cmd \in {"LS", "PWD", "CD"}, NEW d \in Dirs \cup {None, NoSuch},
           cmd = "PWD" => d = None, Ask(c, Cells1(cmd, d)),
           GoOn(c, Begin(c, "print", cmd, d)), UNCHANGED serverVars
    PROVE  Together'
  <1>1. PICK p : p = Begin(c, "print", cmd, d)
    OBVIOUS
  <1>2. /\ p.pc = "print" /\ p.cmd = cmd /\ p.arg = d /\ p.shown = <<>>
        /\ p.fd = cl[c].fd /\ p.fds = cl[c].fds
    BY <1>1, Begun
  <1>3. Cells1(cmd, d) \in Seq(Cell)
    BY RequestCells DEF Requests, Names
  <1>4. ASSUME NEW t, NEW e, Linked(e), e.s2c = <<>>, e.c2s = Packet(Cells1(cmd, d)),
               Ready(t, buf, fs, cwd)
        PROVE  InStep(p, t, e, buf, msg, fs, cwd)
    <2>1. Printing(p, t, e, buf, msg, fs, cwd)
      BY <1>2, <1>4 DEF Printing, Asked
    <2> QED BY <1>2, <2>1 DEF InStep
  <1> QED BY <1>1, <1>2, <1>3, <1>4, SyncAsk

(* A client sends get.                                                     *)
LEMMA SyncAsks ==
    ASSUME FairUse, Inv, Together, NEW c \in Clients, Orderly => Quiet(c),
           cmd_ls(c) \/ cmd_pwd(c) \/ cmd_cd(c) \/ cmd_get(c, Targets),
           UNCHANGED serverVars
    PROVE  Together'
  <1>1. CASE cmd_ls(c)
    BY <1>1, SyncPrints DEF cmd_ls, Cells1
  <1>2. CASE cmd_pwd(c)
    BY <1>2, SyncPrints DEF cmd_pwd, Cells1
  <1>3. CASE cmd_cd(c)
    BY <1>3, SyncPrints DEF cmd_cd, Cells1
  <1>4. CASE cmd_get(c, Targets)
    <2>1. PICK f \in Targets : /\ Ask(c, Padded(Request("GET", f)))
                               /\ GoOn(c, Begin(c, "get_head", "GET", f))
      BY <1>4 DEF cmd_get
    <2>2. PICK p : p = Begin(c, "get_head", "GET", f)
      OBVIOUS
    <2>3. /\ p.pc = "get_head" /\ p.cmd = "GET" /\ p.arg = f /\ p.out = <<>> /\ ~p.ok
          /\ p.fd = cl[c].fd /\ p.fds = cl[c].fds
      BY <2>2, Begun
    <2>4. PICK cells : cells = Padded(Request("GET", f)) /\ cells = Cells1("GET", f)
      BY DEF Cells1
    <2>5. cells \in Seq(Cell)
      BY <2>4, FtAssumption, RequestCells DEF Requests, Names
    <2>6. ASSUME NEW t, NEW e, Linked(e), e.s2c = <<>>, e.c2s = Packet(cells),
                 Ready(t, buf, fs, cwd)
          PROVE  InStep(p, t, e, buf, msg, fs, cwd)
      <3>1. Heading(p, t, e, buf, msg, fs, cwd)
        BY <2>3, <2>4, <2>6 DEF Heading, Asked
      <3> QED BY <2>3, <3>1 DEF InStep
    <2> QED BY <2>1, <2>2, <2>3, <2>4, <2>5, <2>6, SyncAsk
  <1> QED BY <1>1, <1>2, <1>3, <1>4

(* A client sends the header of a put.                                     *)
LEMMA SyncUpload ==
    ASSUME FairUse, Inv, Together, NEW c \in Clients, Orderly => Quiet(c),
           cmd_put(c, IF Orderly THEN Sizes ELSE Sizes \cup {Missing}),
           UNCHANGED serverVars
    PROVE  Together'
  <1>1. PICK f \in Files, s \in Sizes \cup {Missing} :
           /\ Orderly => s # Missing
           /\ Ask(c, <<PutHead(f, IF s = Missing THEN 0 ELSE s % SizeMod)>>)
           /\ GoOn(c, [Begin(c, "put_body", "PUT", f) EXCEPT !.size = s])
    <2>1. \A s \in Sizes : s # Missing
      BY ClientAssumption DEF Missing
    <2> QED BY <2>1 DEF cmd_put
  <1>2. PICK n \in Nat : n = (IF s = Missing THEN 0 ELSE s)
                         /\ n = (IF s = Missing THEN 0 ELSE s % SizeMod)
    <2>1. CASE s = Missing
      BY <2>1
    <2>2. CASE s # Missing
      <3>1. s \in Nat /\ s < SizeMod
        BY <2>2, ClientAssumption DEF FairUse
      <3>2. PICK m \in Nat, a \in Nat : m = SizeMod /\ a = s /\ m > 0 /\ a < m
        BY <3>1, WireAssumption
      <3>3. a % m = a
        BY <3>2
      <3>4. s % SizeMod = s
        BY <3>2, <3>3, Zenon
      <3> QED BY <2>2, <3>1, <3>4
    <2> QED BY <2>1, <2>2
  <1>3. PICK b, p : b = Begin(c, "put_body", "PUT", f) /\ p = [b EXCEPT !.size = s]
    OBVIOUS
  <1>4. b \in ClientState
    BY <1>1, <1>3, BeginType DEF Ask, ClientPc, Requests, Names
  <1>5. /\ p.pc = "put_body" /\ p.cmd = "PUT" /\ p.arg = f /\ p.pos = 0 /\ p.size = s
        /\ p.fd = cl[c].fd /\ p.fds = cl[c].fds
    <2>1. /\ b.pc = "put_body" /\ b.cmd = "PUT" /\ b.arg = f /\ b.pos = 0
          /\ b.fd = cl[c].fd /\ b.fds = cl[c].fds
      BY <1>3, Begun
    <2> QED BY <1>3, <1>4, <2>1 DEF ClientState
  <1>6. PICK cells : cells = <<PutHead(f, n)>>
    OBVIOUS
  <1>7. cells \in Seq(Cell) /\ Len(cells) = 1 /\ cells[1] = PutHead(f, n)
    BY <1>6, CellTypes DEF Names
  <1>8. ASSUME NEW t, NEW e, Linked(e), e.s2c = <<>>, e.c2s = Packet(cells),
               Ready(t, buf, fs, cwd)
        PROVE  InStep(p, t, e, buf, msg, fs, cwd)
    <2>1. Len(e.c2s) = 1 /\ e.c2s[1].c = PutHead(f, n)
      BY <1>7, <1>8, PacketIs
    <2>2. Len(e.c2s) = p.pos + 1 /\ \A j \in 2 .. Len(e.c2s) : FALSE
      BY <1>5, <2>1
    <2>3. p.pos <= n
      BY <1>5
    <2>4. Putting(p, t, e, buf, msg, fs, cwd)
      BY <1>1, <1>2, <1>5, <1>8, <2>1, <2>2, <2>3 DEF Putting
    <2> QED BY <1>5, <2>4 DEF InStep
  <1>9. Ask(c, cells) /\ GoOn(c, p)
    BY <1>1, <1>2, <1>3, <1>6, Zenon
  <1> QED BY <1>5, <1>7, <1>8, <1>9, SyncAsk

(* What is shown and what is on the stream are the first cells of X.       *)
Follows(s, q, X) ==
    /\ s \in Seq(Cell) /\ q \in Seq(Flit) /\ X \in Seq(Cell)
    /\ Len(s) + Len(q) <= Len(X)
    /\ \A j \in 1 .. Len(s) : s[j] = X[j]
    /\ \A j \in 1 .. Len(q) : q[j].c = X[Len(s) + j]
    /\ \A j \in 1 .. Len(X) : X[j].k = "END" <=> j = Len(X)

(* The first n cells of q are received as got, of which those before the   *)
(* i-th, where END is or got ends, are added to what is shown.             *)
Prints(s, q, n, got, i, s1) ==
    /\ n \in 1 .. Len(q) /\ n <= BufUnits /\ got = Cells(q, n)
    /\ i \in 1 .. Len(got) + 1 /\ EndAt(got, i) /\ s1 = s \o SubSeq(got, 1, i - 1)

HasPrinted(s, q, X, got, i, s1, r) ==
    /\ i <= Len(got) =>
          Len(s) + Len(q) = Len(X) /\ r = <<>> /\ s1 = SubSeq(X, 1, Len(X) - 1)
    /\ ~ (i <= Len(got)) =>
          /\ Follows(s1, r, X) /\ Len(s1) < Len(X)
          /\ Len(s1) + Len(r) = Len(s) + Len(q)

(* PRINT_RESPONSE_BODY goes through what it received up to the first END.  *)
LEMMA Printed ==
    ASSUME NEW s, NEW q, NEW X, NEW n, NEW got, NEW i, NEW s1,
           Follows(s, q, X), Prints(s, q, n, got, i, s1)
    PROVE  HasPrinted(s, q, X, got, i, s1, Rest(q, n))
  <1>0. s \in Seq(Cell) /\ q \in Seq(Flit) /\ X \in Seq(Cell) /\ n \in 1 .. Len(q)
        /\ got = Cells(q, n)
    BY DEF Follows, Prints
  <1>1. PICK a \in Nat, b \in Nat, x \in Nat, m \in Nat :
           a = Len(s) /\ b = Len(q) /\ x = Len(X) /\ m = n /\ m \in 1 .. b
    <2>1. Len(s) \in Nat /\ Len(q) \in Nat /\ Len(X) \in Nat
      BY <1>0
    <2>2. n \in Nat
      BY <1>0, <2>1
    <2> QED BY <1>0, <2>1, <2>2
  <1>2. /\ a + b <= x /\ \A j \in 1 .. a : s[j] = X[j]
        /\ \A j \in 1 .. b : q[j].c = X[a + j]
        /\ \A j \in 1 .. x : X[j].k = "END" <=> j = x
    BY <1>1, Zenon DEF Follows
  <1>3. got \in Seq(Cell) /\ Len(got) = m /\ \A j \in 1 .. m : got[j] = q[j].c
    <2>1. got \in Seq(Cell) /\ Len(got) = n
      BY <1>0, CellsType
    <2>2. \A j \in 1 .. n : Cells(q, n)[j] = q[j].c
      BY DEF Cells
    <2> QED BY <1>0, <1>1, <2>1, <2>2, Zenon
  <1>4. \A j \in 1 .. m : got[j] = X[a + j]
    <2>1. \A j \in 1 .. m : j \in 1 .. b
      BY <1>1
    <2> QED BY <1>2, <1>3, <2>1, Zenon
  <1>5. PICK h \in 1 .. m + 1 : h = i
    BY <1>3, Zenon DEF Prints
  <1>6. /\ h <= m => got[h].k = "END"
        /\ \A j \in 1 .. h - 1 : got[j].k # "END"
    BY <1>3, <1>5, Zenon DEF Prints, EndAt
  <1>7. PICK y : y = SubSeq(got, 1, h - 1)
    OBVIOUS
  <1>8. y \in Seq(Cell) /\ Len(y) = h - 1 /\ \A j \in 1 .. h - 1 : y[j] = got[j]
    BY <1>3, <1>7
  <1>9. s1 \in Seq(Cell) /\ Len(s1) = a + (h - 1) /\ \A j \in 1 .. a + (h - 1) : s1[j] = X[j]
    <2>1. s1 = s \o y
      BY <1>5, <1>7, Zenon DEF Prints
    <2>2. /\ s \o y \in Seq(Cell) /\ Len(s \o y) = Len(s) + Len(y)
          /\ \A j \in 1 .. Len(s) : (s \o y)[j] = s[j]
          /\ \A j \in 1 .. Len(y) : (s \o y)[Len(s) + j] = y[j]
      <3>1. PICK S : S = Cell
        OBVIOUS
      <3>2. s \in Seq(S) /\ y \in Seq(S)
        BY <1>0, <1>8, <3>1
      <3>3. /\ s \o y \in Seq(S) /\ Len(s \o y) = Len(s) + Len(y)
            /\ \A j \in 1 .. Len(s) : (s \o y)[j] = s[j]
            /\ \A j \in 1 .. Len(y) : (s \o y)[Len(s) + j] = y[j]
        BY <3>2, Joined
      <3> QED BY <3>1, <3>3, Zenon
    <2>3. /\ s1 \in Seq(Cell) /\ Len(s1) = a + (h - 1)
          /\ \A j \in 1 .. a : s1[j] = s[j]
          /\ \A j \in 1 .. h - 1 : s1[a + j] = y[j]
      BY <1>1, <1>8, <2>1, <2>2, Zenon
    <2>4. ASSUME NEW j \in 1 .. a + (h - 1) PROVE s1[j] = X[j]
      <3>1. CASE j <= a
        <4>1. j \in 1 .. a
          BY <3>1
        <4> QED BY <1>2, <2>3, <4>1, Zenon
      <3>2. CASE ~ (j <= a)
        <4>1. PICK l \in 1 .. h - 1 : a + l = j
          <5>1. j - a \in 1 .. h - 1 /\ a + (j - a) = j
            BY <3>2
          <5> QED BY <5>1
        <4>2. l \in 1 .. m
          BY <4>1
        <4>3. s1[a + l] = y[l] /\ y[l] = got[l] /\ got[l] = X[a + l]
          BY <1>4, <1>8, <2>3, <4>1, <4>2, Zenon
        <4> QED BY <4>1, <4>3, Zenon
      <3> QED BY <3>1, <3>2
    <2> QED BY <2>3, <2>4
  <1>10. PICK r : r = Rest(q, n)
    OBVIOUS
  <1>11. r \in Seq(Flit) /\ Len(r) = b - m /\ \A j \in 1 .. b - m : r[j] = q[m + j]
    BY <1>0, <1>1, <1>10 DEF Rest
  <1>12. CASE h <= m
    <2>1. h \in 1 .. m /\ a + h \in 1 .. x
      BY <1>1, <1>2, <1>12
    <2>2. X[a + h].k = "END"
      BY <1>4, <1>6, <1>12, <2>1, Zenon
    <2>3. a + h = x
      BY <1>2, <2>1, <2>2, Zenon
    <2>4. h = b /\ m = b /\ a + b = x /\ x - 1 = a + (h - 1) /\ b - m = 0 /\ x >= 1
      <3>1. m \in 1 .. b /\ a + b <= x /\ h <= m /\ h \in 1 .. m + 1
        BY <1>1, <1>2, <1>12
      <3>2. h \in Nat /\ h >= 1 /\ m <= b
        BY <3>1
      <3>3. h = b /\ m = b
        BY <2>3, <3>1, <3>2
      <3> QED BY <2>3, <3>1, <3>2, <3>3
    <2>5. r = <<>>
      <3>1. Len(r) = 0
        BY <1>11, <2>4
      <3> QED BY <1>11, <3>1
    <2>6. s1 = SubSeq(X, 1, x - 1)
      <3>1. PICK z : z = SubSeq(X, 1, x - 1)
        OBVIOUS
      <3>2. z \in Seq(Cell) /\ Len(z) = x - 1 /\ \A j \in 1 .. x - 1 : z[j] = X[j]
        BY <1>0, <1>1, <2>4, <3>1
      <3>3. Len(s1) = x - 1 /\ \A j \in 1 .. x - 1 : s1[j] = X[j]
        BY <1>9, <2>4, Zenon
      <3>4. s1 = z
        BY <1>9, <3>2, <3>3, SeqEqual
      <3> QED BY <3>1, <3>4
    <2>7. i <= Len(got)
      BY <1>3, <1>5, <1>12
    <2> QED BY <1>1, <1>10, <2>4, <2>5, <2>6, <2>7, Zenon DEF HasPrinted
  <1>13. CASE ~ (h <= m)
    <2>1. h = m + 1 /\ h - 1 = m
      BY <1>13
    <2>2. Len(s1) = a + m /\ \A j \in 1 .. a + m : s1[j] = X[j]
      BY <1>9, <2>1, Zenon
    <2>3. a + m <= x /\ (a + m) + (b - m) = a + b /\ (a + m) + (b - m) <= x
      BY <1>1, <1>2
    <2>4. ASSUME NEW j \in 1 .. b - m PROVE r[j].c = X[(a + m) + j]
      <3>1. m + j \in 1 .. b /\ a + (m + j) = (a + m) + j
        OBVIOUS
      <3>2. q[m + j].c = X[a + (m + j)]
        BY <1>2, <3>1, Zenon
      <3> QED BY <1>11, <3>1, <3>2, Zenon
    <2>5. a + m # x
      <3> SUFFICES ASSUME a + m = x PROVE FALSE
        OBVIOUS
      <3>1. m \in 1 .. m /\ m \in 1 .. h - 1 /\ a + m \in 1 .. x
        BY <1>1, <2>1
      <3>2. X[a + m].k = "END"
        BY <1>2, <3>1, Zenon
      <3> QED BY <1>4, <1>6, <3>1, <3>2, Zenon
    <2>6. a + m < x
      BY <2>3, <2>5
    <2>7. Follows(s1, r, X)
      BY <1>0, <1>1, <1>2, <1>9, <1>11, <2>2, <2>3, <2>4, Zenon DEF Follows
    <2>8. ~ (i <= Len(got))
      BY <1>3, <1>5, <1>13
    <2>9. Len(s1) < Len(X) /\ Len(s1) + Len(r) = Len(s) + Len(q)
      <3>1. Len(s1) < Len(X)
        BY <1>1, <2>2, <2>6, Zenon
      <3>2. Len(s1) + Len(r) = Len(s) + Len(q)
        BY <1>1, <1>11, <2>2, <2>3, Zenon
      <3> QED BY <3>1, <3>2
    <2> QED BY <1>10, <2>7, <2>8, <2>9, Zenon DEF HasPrinted
  <1> QED BY <1>12, <1>13

(* The client prints some of what has arrived and goes on as p1.           *)
PrintsTo(p, e, n, got, i, p1, e1) ==
    /\ Prints(p.shown, e.s2c, n, got, i, p1.shown)
    /\ p1.cmd = p.cmd /\ p1.arg = p.arg
    /\ p1.pc = IF i <= Len(got) THEN "prompt" ELSE "print"
    /\ e1.s2c = Rest(e.s2c, n) /\ e1.c2s = e.c2s
    /\ e1.cli = e.cli /\ e1.srv = e.srv /\ e1.reset = e.reset

(* Printing part of an answer leaves the client in step with its thread.   *)
LEMMA StepPrint ==
    ASSUME NEW p \in ClientState, NEW t \in Thread, NEW e \in Endpoint, NEW b, NEW m,
           NEW F, NEW w, InStep(p, t, e, b, m, F, w), p.pc = "print", e.s2c # <<>>,
           NEW n, NEW got, NEW i, NEW p1, NEW e1, PrintsTo(p, e, n, got, i, p1, e1)
    PROVE  /\ InStep(p1, t, e1, b, m, F, w)
           /\ p1.pc = "prompt" => Shows(p1.shown, p.cmd, p.arg, F, w)
  <1>0. PICK s, q, s1, r : s = p.shown /\ q = e.s2c /\ s1 = p1.shown /\ r = e1.s2c
    OBVIOUS
  <1>1. /\ p.cmd \in {"LS", "PWD", "CD"} /\ p.arg \in Dirs \cup {None, NoSuch}
        /\ (p.cmd = "PWD" => p.arg = None) /\ Linked(e) /\ e.c2s = <<>>
    BY DEF InStep, Printing
  <1>2. PICK X : /\ IsAnswer(X, p.cmd, p.arg, F, w) /\ Answered(s, t, e, b, m, X)
                 /\ (t.pc = "pwd" \/ t.next = "pwd") => PwdLast(X, w)
    BY <1>0 DEF InStep, Printing
  <1>3. X \in Seq(Cell) /\ s \in Seq(Cell) /\ q \in Seq(Flit) /\ t.todo \in Seq(Reply)
    BY <1>0, <1>2 DEF IsAnswer, ClientState, Endpoint, Thread
  <1>4. PICK a \in Nat, l \in Nat, x \in Nat, d \in Nat :
           a = Len(s) /\ l = Len(q) /\ x = Len(X) /\ d = Len(t.todo)
    <2>1. Len(s) \in Nat /\ Len(q) \in Nat /\ Len(X) \in Nat /\ Len(t.todo) \in Nat
      BY <1>3
    <2> QED BY <2>1, Zenon
  <1>5. t.todo # <<>> => d > 0
    BY <1>3, <1>4
  <1>6. \/ t.pc \in {"fill", "send"} /\ d > 0 /\ (a + l + d = x \/ a + l + d = x - 2)
        \/ t.pc = "pwd" /\ a + l = x - 2
        \/ t.pc = "recv" /\ a + l = x
    BY <1>0, <1>2, <1>4, <1>5, Zenon DEF Answered
  <1>7. a + l <= x /\ (a + l = x => t.pc = "recv")
    BY <1>6
  <1>8. Follows(s, q, X)
    <2>1. /\ \A j \in 1 .. Len(s) : s[j] = X[j]
          /\ \A j \in 1 .. Len(q) : q[j].c = X[Len(s) + j]
      BY <1>0, <1>2, Zenon DEF Answered
    <2>2. \A j \in 1 .. Len(X) : X[j].k = "END" <=> j = Len(X)
      BY <1>2 DEF IsAnswer
    <2> QED BY <1>3, <1>4, <1>7, <2>1, <2>2, Zenon DEF Follows
  <1>9. Prints(s, q, n, got, i, s1) /\ r = Rest(q, n)
    BY <1>0, Zenon DEF PrintsTo
  <1>10. /\ i <= Len(got) =>
               /\ Len(s) + Len(q) = Len(X) /\ r = <<>> /\ s1 = SubSeq(X, 1, Len(X) - 1)
         /\ ~ (i <= Len(got)) =>
               /\ Follows(s1, r, X) /\ Len(s1) < Len(X)
               /\ Len(s1) + Len(r) = Len(s) + Len(q)
    <2>1. HasPrinted(s, q, X, got, i, s1, Rest(q, n))
      BY <1>8, <1>9, Printed
    <2> QED BY <1>9, <2>1, Zenon DEF HasPrinted
  <1>11. /\ p1.cmd = p.cmd /\ p1.arg = p.arg /\ e1.c2s = <<>> /\ Linked(e1)
         /\ p1.pc = IF i <= Len(got) THEN "prompt" ELSE "print"
    BY <1>1 DEF PrintsTo, Linked
  <1>12. CASE i <= Len(got)
    <2>1. t.pc = "recv"
      BY <1>4, <1>7, <1>10, <1>12, Zenon
    <2>2. p1.pc = "prompt" /\ Ready(t, b, F, w) /\ e1.s2c = <<>>
      BY <1>0, <1>10, <1>11, <1>12, <2>1 DEF Ready
    <2>3. Shows(p1.shown, p.cmd, p.arg, F, w)
      BY <1>0, <1>2, <1>10, <1>12, Zenon DEF IsAnswer
    <2> QED BY <1>11, <2>2, <2>3 DEF InStep
  <1>13. CASE ~ (i <= Len(got))
    <2>1. Follows(s1, r, X) /\ Len(s1) < Len(X) /\ Len(s1) + Len(r) = Len(s) + Len(q)
      BY <1>10, <1>13
    <2>2. /\ \A j \in 1 .. Len(s1) : s1[j] = X[j]
          /\ \A j \in 1 .. Len(r) : r[j].c = X[Len(s1) + j]
      BY <2>1, Zenon DEF Follows
    <2>3. Answered(s1, t, e1, b, m, X)
      <3>1. CASE t.pc \in {"fill", "send"}
        <4>1. /\ t.todo # <<>> /\ (t.pc = "send" => InPlace(t.todo[1], b, m))
              /\ \A j \in 1 .. Len(t.todo) :
                    t.todo[j].cells = <<X[Len(s) + Len(q) + j]>>
              /\ \/ t.next = "recv" /\ Len(s) + Len(q) + Len(t.todo) = Len(X)
                 \/ t.next = "pwd" /\ Len(s) + Len(q) + Len(t.todo) = Len(X) - 2
          BY <1>0, <1>2, <3>1 DEF Answered
        <4>2. /\ \A j \in 1 .. Len(t.todo) :
                    t.todo[j].cells = <<X[Len(s1) + Len(r) + j]>>
              /\ \/ t.next = "recv" /\ Len(s1) + Len(r) + Len(t.todo) = Len(X)
                 \/ t.next = "pwd" /\ Len(s1) + Len(r) + Len(t.todo) = Len(X) - 2
          BY <2>1, <4>1, Zenon
        <4> QED BY <1>0, <2>2, <3>1, <4>1, <4>2, Zenon DEF Answered
      <3>2. CASE t.pc = "pwd"
        <4>1. Len(s) + Len(q) = Len(X) - 2
          BY <1>0, <1>2, <3>2 DEF Answered
        <4> QED BY <1>0, <2>1, <2>2, <3>2, <4>1, Zenon DEF Answered
      <3>3. CASE t.pc = "recv"
        <4>1. Len(s) + Len(q) = Len(X)
          BY <1>0, <1>2, <3>3 DEF Answered
        <4> QED BY <1>0, <2>1, <2>2, <3>3, <4>1, Zenon DEF Answered
      <3> QED BY <1>6, <3>1, <3>2, <3>3
    <2>4. p1.pc = "print"
      BY <1>11, <1>13
    <2>5. Printing(p1, t, e1, b, m, F, w)
      BY <1>0, <1>1, <1>2, <1>11, <2>3 DEF Printing
    <2> QED BY <2>4, <2>5 DEF InStep
  <1> QED BY <1>12, <1>13

(* What recv may return to a client whose connection is whole.             *)
LEMMA CliTakes ==
    ASSUME Inv, NEW c \in Clients, NEW k \in Conns, Linked(net[k]),
           NEW cap \in Nat \ {0}, NEW n \in CliResults(k, cap)
    PROVE  /\ net[k].s2c \in Seq(Flit) /\ n \in 1 .. Len(net[k].s2c) /\ n <= cap
           /\ n > 0 /\ n # -1 /\ net[k].s2c # <<>> /\ n \in Nat
  <1>1. net[k].s2c \in Seq(Flit)
    BY WireIs DEF Endpoint
  <1>2. net[k].s2c # <<>> /\ n \in RecvLens(net[k].s2c, cap)
    BY DEF CliResults, Results, Linked
  <1>3. Len(net[k].s2c) \in Nat
    BY <1>1
  <1> QED BY <1>1, <1>2, <1>3 DEF RecvLens, Lesser

(* A client receives part of an answer and prints it.                      *)
LEMMA SyncPrint ==
    ASSUME Inv, Together, NEW c \in Clients, PRINT_RESPONSE_BODY(c), UNCHANGED serverVars
    PROVE  /\ Together'
           /\ cl'[c].pc = "prompt" =>
                 Shows(cl'[c].shown, cl[c].cmd, cl[c].arg, fs, cwd)
  <1>0. cl[c].pc = "print" /\ UNCHANGED <<nconn, backlog, up>>
    BY DEF PRINT_RESPONSE_BODY
  <1>1. InCommand(cl[c])
    BY <1>0 DEF InCommand, Gone
  <1>2. PICK k \in Conns : OnConn(c, k) /\ OthersCalm(c)
    BY <1>1, InCommandAlone
  <1>3. /\ cl[c].fd = k /\ cl[c].fds = {k} /\ InStep(cl[c], th[k], net[k], buf, msg, fs, cwd)
        /\ Linked(net[k])
    BY <1>0, <1>2 DEF OnConn, InStep, Printing
  <1>4. PICK n \in CliResults(k, BufUnits) : \E got :
           /\ got = Taken(c, n)
           /\ IF n = -1
              THEN Die(c, "aborted", net)
              ELSE \E j \in 1 .. Len(got) + 1 :
                   /\ EndAt(got, j)
                   /\ TakeOff(c, n)
                   /\ GoOn(c, [cl[c] EXCEPT
                        !.shown = @ \o SubSeq(got, 1, j - 1),
                        !.pc = IF j <= Len(got) THEN "prompt" ELSE "print",
                        !.ok = j <= Len(got)])
    BY <1>3 DEF PRINT_RESPONSE_BODY
  <1>4a. PICK got :
           /\ got = Taken(c, n)
           /\ IF n = -1
              THEN Die(c, "aborted", net)
              ELSE \E j \in 1 .. Len(got) + 1 :
                   /\ EndAt(got, j)
                   /\ TakeOff(c, n)
                   /\ GoOn(c, [cl[c] EXCEPT
                        !.shown = @ \o SubSeq(got, 1, j - 1),
                        !.pc = IF j <= Len(got) THEN "prompt" ELSE "print",
                        !.ok = j <= Len(got)])
    BY <1>4
  <1>5. /\ n \in 1 .. Len(net[k].s2c) /\ n <= BufUnits /\ n > 0 /\ n # -1
        /\ net[k].s2c # <<>>
    BY <1>3, CliTakes, WireAssumption
  <1>6. got = Cells(net[k].s2c, n) /\ net' = [net EXCEPT ![k].s2c = Rest(@, n)]
    BY <1>3, <1>4a, <1>5 DEF Taken, TakeOff
  <1>7. PICK j \in 1 .. Len(got) + 1 :
           /\ EndAt(got, j)
           /\ GoOn(c, [cl[c] EXCEPT !.shown = @ \o SubSeq(got, 1, j - 1),
                !.pc = IF j <= Len(got) THEN "prompt" ELSE "print",
                !.ok = j <= Len(got)])
    BY <1>4a, <1>5
  <1>7b. PICK s1, ok : s1 = cl[c].shown \o SubSeq(got, 1, j - 1) /\ ok = (j <= Len(got))
    OBVIOUS
  <1>7c. PICK p1 : p1 = [cl[c] EXCEPT !.shown = s1,
                     !.pc = IF j <= Len(got) THEN "prompt" ELSE "print", !.ok = ok]
    OBVIOUS
  <1>7a. GoOn(c, p1)
    BY <1>7, <1>7b, <1>7c
  <1>8. /\ p1.shown = s1 /\ p1.cmd = cl[c].cmd /\ p1.arg = cl[c].arg
        /\ p1.pc = (IF j <= Len(got) THEN "prompt" ELSE "print")
        /\ p1.fd = k /\ p1.fds = {k}
    BY <1>3, <1>7, <1>7a, <1>7b, <1>7c, WireIs DEF ClientState
  <1>9. /\ net'[k].s2c = Rest(net[k].s2c, n) /\ net'[k].c2s = net[k].c2s
        /\ net'[k].cli = net[k].cli /\ net'[k].srv = net[k].srv
        /\ net'[k].reset = net[k].reset /\ \A i \in Conns \ {k} : net'[i] = net[i]
    BY <1>6, WireIs DEF Endpoint
  <1>10. PrintsTo(cl[c], net[k], n, got, j, p1, net'[k])
    <2>1. Prints(cl[c].shown, net[k].s2c, n, got, j, p1.shown)
      BY <1>5, <1>6, <1>7, <1>7a, <1>7b, <1>7c, <1>8, Zenon DEF Prints
    <2> QED BY <1>8, <1>9, <2>1 DEF PrintsTo
  <1>11. cl[c] \in ClientState /\ th[k] \in Thread /\ net[k] \in Endpoint
    BY WireIs
  <1>12. /\ InStep(p1, th[k], net'[k], buf, msg, fs, cwd)
         /\ p1.pc = "prompt" => Shows(p1.shown, cl[c].cmd, cl[c].arg, fs, cwd)
    BY <1>0, <1>3, <1>5, <1>10, <1>11, StepPrint
  <1>13. Together'
    BY <1>0, <1>2, <1>7, <1>7a, <1>7b, <1>7c, <1>8, <1>9, <1>12, ClientActs
  <1>14. cl'[c] = p1
    BY <1>7, <1>7a, <1>7b, <1>7c, WireIs DEF GoOn
  <1> QED BY <1>12, <1>13, <1>14

(* The client has the cells out of file f and more on the stream.          *)
Gets(p, t, e, b, m, F, w, out) ==
    /\ p.cmd = "GET" /\ p.arg \in Targets /\ Linked(e) /\ e.c2s = <<>>
    /\ CanRead(F, w, p.arg) /\ out \in Seq(Cell) /\ e.s2c \in Seq(Flit)
    /\ Sent(Len(out) + Len(e.s2c), t, b, m, F, w, p.arg)
    /\ \A j \in 1 .. Len(out) : out[j] = Holds(F, w, p.arg)[j]
    /\ \A j \in 1 .. Len(e.s2c) : e.s2c[j].c = Holds(F, w, p.arg)[Len(out) + j]

(* The client looks at whether this is all of it.                          *)
Counts(p, F, w, out) ==
    /\ p.ok /\ p.out = out /\ p.need = SizeIn(F, w, p.arg)
    /\ p.pc = GetOn(out, p.need)

(* The last cell of a file leaves nothing on the wire.                     *)
LEMMA StepGot ==
    ASSUME NEW t \in Thread, NEW F \in FileSystem, NEW w \in Dirs, NEW p, NEW e,
           NEW b, NEW m, NEW out, Gets(p, t, e, b, m, F, w, out), Counts(p, F, w, out)
    PROVE  /\ InStep(p, t, e, b, m, F, w)
           /\ p.pc = "prompt" /\ p.arg \notin Dirs => out = F[w][p.arg]
  <1>1. p.arg \in Names
    BY FtAssumption DEF Gets, Names
  <1>2. PICK C : C = Holds(F, w, p.arg) /\ C \in Seq(Cell)
    BY <1>1, HoldsType DEF Gets
  <1>3. PICK a \in Nat, l \in Nat, x \in Nat, y \in Nat :
           a = Len(out) /\ l = Len(e.s2c) /\ x = Len(C) /\ y = p.need
    <2>1. Len(out) \in Nat /\ Len(e.s2c) \in Nat /\ Len(C) \in Nat
      BY <1>2 DEF Gets
    <2>2. SizeIn(F, w, p.arg) \in Nat
      <3>1. CASE p.arg \in Dirs
        BY <3>1, WireAssumption, ServerAssumption DEF SizeIn
      <3>2. CASE p.arg \notin Dirs
        BY <1>2, <3>2 DEF SizeIn, Holds
      <3> QED BY <3>1, <3>2
    <2> QED BY <2>1, <2>2, Zenon DEF Counts
  <1>4. a + l <= x
    BY <1>2, <1>3, Zenon DEF Gets, Sent
  <1>5. CASE a < y
    <2>1. p.pc = "get_body"
      BY <1>3, <1>5, Zenon DEF GetOn, Counts
    <2>2. Getting(p, t, e, b, m, F, w)
      BY <1>3, <1>5, Zenon DEF Getting, Gets, Counts
    <2> QED BY <2>1, <2>2 DEF InStep
  <1>6. CASE ~ (a < y)
    <2>1. p.pc = "prompt"
      BY <1>3, <1>6, Zenon DEF GetOn, Counts
    <2>2. p.arg \in Dirs \/ (p.arg \notin Dirs /\ y = x)
      BY <1>2, <1>3 DEF SizeIn, Holds, Counts
    <2>3. a = x /\ l = 0
      <3>1. CASE p.arg \in Dirs
        <4>1. x = 0
          BY <1>2, <1>3, <3>1 DEF Holds
        <4> QED BY <1>4, <4>1
      <3>2. CASE y = x
        BY <1>4, <1>6, <3>2
      <3> QED BY <2>2, <3>1, <3>2
    <2>4. e.s2c = <<>>
      <3>1. PICK q \in Seq(Flit) : q = e.s2c
        BY DEF Gets
      <3>2. Len(q) = 0
        BY <1>3, <2>3, <3>1, Zenon
      <3>3. q = <<>>
        BY <3>2
      <3> QED BY <3>1, <3>3
    <2>5. Sent(x, t, b, m, F, w, p.arg)
      <3>1. a + l = x
        BY <2>3
      <3> QED BY <1>3, <3>1, Zenon DEF Gets
    <2>6. Ready(t, b, F, w)
      <3>1. CASE t.pc = "fopen"
        <4>1. b[1].f = p.arg /\ x = 0
          BY <2>5, <3>1 DEF Sent
        <4>2. CanRead(F, w, b[1].f) /\ Len(Holds(F, w, b[1].f)) = 0
          BY <1>2, <1>3, <4>1, Zenon DEF Gets
        <4> QED BY <3>1, <4>2 DEF Ready
      <3>2. CASE t.pc = "fread"
        <4>1. t.file = p.arg /\ t.dir = w /\ t.pos = x
          BY <2>5, <3>2 DEF Sent
        <4>2. t.pos >= Len(Holds(F, t.dir, t.file))
          BY <1>2, <1>3, <4>1
        <4> QED BY <3>2, <4>2 DEF Ready
      <3>3. CASE t.pc = "send"
        <4>1. t.pos <= x /\ x < t.pos /\ t.pos \in Nat
          BY <1>2, <1>3, <2>5, <3>3 DEF Sent, Thread
        <4> QED BY <4>1
      <3>4. CASE t.pc = "recv"
        BY <3>4 DEF Ready
      <3> QED BY <2>5, <3>1, <3>2, <3>3, <3>4 DEF Sent
    <2>7. InStep(p, t, e, b, m, F, w)
      BY <2>1, <2>4, <2>6 DEF InStep, Gets
    <2>8. ASSUME p.arg \notin Dirs PROVE out = F[w][p.arg]
      <3>1. C = F[w][p.arg]
        BY <1>2, <2>8 DEF Holds
      <3>2. Len(out) = x /\ \A j \in 1 .. x : out[j] = C[j]
        BY <1>2, <1>3, <2>3, Zenon DEF Gets
      <3>3. out = C
        <4>1. out \in Seq(Cell) /\ C \in Seq(Cell)
          BY <1>2 DEF Gets
        <4>2. Len(out) = Len(C) /\ \A j \in 1 .. Len(out) : out[j] = C[j]
          BY <1>3, <3>2, Zenon
        <4> QED BY <4>1, <4>2, SeqEqual
      <3> QED BY <3>1, <3>3
    <2> QED BY <2>7, <2>8
  <1> QED BY <1>5, <1>6

(* More cells are taken off the stream.                                    *)
Took(e, n, e1) ==
    /\ n \in 1 .. Len(e.s2c) /\ e1.s2c = Rest(e.s2c, n) /\ e1.c2s = e.c2s
    /\ e1.cli = e.cli /\ e1.srv = e.srv /\ e1.reset = e.reset

(* Cells of the file the client has received are the next ones.            *)
LEMMA StepTake ==
    ASSUME NEW t, NEW F, NEW w, NEW p, NEW e, NEW b, NEW m, NEW out,
           Gets(p, t, e, b, m, F, w, out), NEW n, NEW e1, Took(e, n, e1),
           NEW p1, p1.cmd = p.cmd, p1.arg = p.arg,
           NEW out1, out1 = out \o Cells(e.s2c, n)
    PROVE  Gets(p1, t, e1, b, m, F, w, out1)
  <1>1. PICK C, q : C = Holds(F, w, p.arg) /\ q = e.s2c
    OBVIOUS
  <1>2. out \in Seq(Cell) /\ q \in Seq(Flit) /\ n \in 1 .. Len(q)
    BY <1>1 DEF Gets, Took
  <1>3. PICK a \in Nat, l \in Nat, h \in Nat :
           a = Len(out) /\ l = Len(q) /\ h = n /\ h \in 1 .. l
    <2>1. Len(out) \in Nat /\ Len(q) \in Nat
      BY <1>2
    <2>2. n \in Nat
      BY <1>2, <2>1
    <2> QED BY <1>2, <2>1, <2>2
  <1>4. /\ \A j \in 1 .. a : out[j] = C[j]
        /\ \A j \in 1 .. l : q[j].c = C[a + j]
    BY <1>1, <1>3, Zenon DEF Gets
  <1>5. PICK y : y = Cells(q, n)
    OBVIOUS
  <1>6. y \in Seq(Cell) /\ Len(y) = h /\ \A j \in 1 .. h : y[j] = q[j].c
    <2>1. y \in Seq(Cell) /\ Len(y) = n
      BY <1>2, <1>5, CellsType
    <2>2. \A j \in 1 .. n : y[j] = q[j].c
      BY <1>5 DEF Cells
    <2> QED BY <1>3, <2>1, <2>2, Zenon
  <1>7. PICK r : r = Rest(q, n)
    OBVIOUS
  <1>8. r \in Seq(Flit) /\ Len(r) = l - h /\ \A j \in 1 .. l - h : r[j] = q[h + j]
    BY <1>2, <1>3, <1>7 DEF Rest
  <1>9. /\ out1 \in Seq(Cell) /\ Len(out1) = a + h
        /\ \A j \in 1 .. a : out1[j] = out[j]
        /\ \A j \in 1 .. h : out1[a + j] = y[j]
    <2>1. PICK S : S = Cell
      OBVIOUS
    <2>2. out \in Seq(S) /\ y \in Seq(S)
      BY <1>2, <1>6, <2>1
    <2>3. /\ out \o y \in Seq(S) /\ Len(out \o y) = Len(out) + Len(y)
          /\ \A j \in 1 .. Len(out) : (out \o y)[j] = out[j]
          /\ \A j \in 1 .. Len(y) : (out \o y)[Len(out) + j] = y[j]
      BY <2>2, Joined
    <2>4. out1 = out \o y
      BY <1>1, <1>5
    <2> QED BY <1>3, <1>6, <2>1, <2>3, <2>4, Zenon
  <1>10. ASSUME NEW j \in 1 .. a + h PROVE out1[j] = C[j]
    <2>1. CASE j <= a
      <3>1. j \in 1 .. a
        BY <2>1
      <3> QED BY <1>4, <1>9, <3>1, Zenon
    <2>2. CASE ~ (j <= a)
      <3>1. PICK i \in 1 .. h : a + i = j
        <4>1. j - a \in 1 .. h /\ a + (j - a) = j
          BY <2>2
        <4> QED BY <4>1
      <3>2. i \in 1 .. l
        BY <1>3, <3>1
      <3>3. out1[a + i] = y[i] /\ y[i] = q[i].c /\ q[i].c = C[a + i]
        BY <1>4, <1>6, <1>9, <3>1, <3>2, Zenon
      <3> QED BY <3>1, <3>3, Zenon
    <2> QED BY <2>1, <2>2
  <1>11. ASSUME NEW j \in 1 .. l - h PROVE r[j].c = C[(a + h) + j]
    <2>1. h + j \in 1 .. l /\ a + (h + j) = (a + h) + j
      OBVIOUS
    <2>2. q[h + j].c = C[a + (h + j)]
      BY <1>4, <2>1, Zenon
    <2> QED BY <1>8, <2>1, <2>2, Zenon
  <1>12. Len(out1) + Len(r) = Len(out) + Len(q)
    <2>1. (a + h) + (l - h) = a + l
      BY <1>3
    <2> QED BY <1>3, <1>8, <1>9, <2>1, Zenon
  <1>13. Sent(Len(out1) + Len(r), t, b, m, F, w, p.arg)
    BY <1>1, <1>12, Zenon DEF Gets
  <1>14. /\ \A j \in 1 .. Len(out1) : out1[j] = C[j]
         /\ \A j \in 1 .. Len(r) : r[j].c = C[Len(out1) + j]
    BY <1>8, <1>9, <1>10, <1>11, Zenon
  <1>15. Linked(e1) /\ e1.c2s = <<>> /\ e1.s2c = r /\ CanRead(F, w, p.arg)
         /\ p1.cmd = "GET" /\ p1.arg = p.arg /\ p.arg \in Targets
    BY <1>1, <1>7 DEF Gets, Linked, Took
  <1> QED BY <1>1, <1>8, <1>9, <1>13, <1>14, <1>15, Zenon DEF Gets

(* The header comes off the stream, maybe with cells of the file.          *)
Announced(p, t, e, b, m, F, w) ==
    /\ p.cmd = "GET" /\ p.arg \in Targets /\ Linked(e) /\ e.c2s = <<>>
    /\ CanRead(F, w, p.arg) /\ e.s2c \in Seq(Flit)
    /\ Len(e.s2c) > 0 /\ e.s2c[1].c = Header(SizeIn(F, w, p.arg))
    /\ Sent(Len(e.s2c) - 1, t, b, m, F, w, p.arg)
    /\ \A j \in 2 .. Len(e.s2c) : e.s2c[j].c = Holds(F, w, p.arg)[j - 1]

(* The header of get tells the size of the file that follows it.           *)
LEMMA StepHead ==
    ASSUME NEW p, NEW t, NEW e, NEW b, NEW m, NEW F, NEW w,
           Announced(p, t, e, b, m, F, w), NEW n \in 1 .. Len(e.s2c),
           NEW p1, NEW e1, NEW got, p1.cmd = p.cmd, p1.arg = p.arg,
           got = Cells(e.s2c, n),
           e1.s2c = Rest(e.s2c, n), e1.c2s = e.c2s,
           e1.cli = e.cli, e1.srv = e.srv, e1.reset = e.reset
    PROVE  /\ Gets(p1, t, e1, b, m, F, w, Tail(got))
           /\ got[1] = Header(SizeIn(F, w, p.arg))
  <1>1. PICK C, q : C = Holds(F, w, p.arg) /\ q = e.s2c
    OBVIOUS
  <1>2. q \in Seq(Flit) /\ n \in 1 .. Len(q)
    BY <1>1 DEF Announced
  <1>3. PICK l \in Nat, h \in Nat : l = Len(q) /\ h = n /\ h \in 1 .. l /\ h >= 1 /\ h <= l
    <2>1. Len(q) \in Nat
      BY <1>2
    <2>2. n \in Nat /\ n >= 1 /\ n <= Len(q)
      BY <1>2, <2>1
    <2> QED BY <1>2, <2>1, <2>2
  <1>4. \A j \in 2 .. l : q[j].c = C[j - 1]
    BY <1>1, <1>3, Zenon DEF Announced
  <1>5. \A j \in 1 .. l - 1 : q[j + 1].c = C[j]
    <2> SUFFICES ASSUME NEW j \in 1 .. l - 1 PROVE q[j + 1].c = C[j]
      OBVIOUS
    <2>1. j + 1 \in 2 .. l /\ (j + 1) - 1 = j
      BY <1>3
    <2> QED BY <1>4, <2>1, Zenon
  <1>6. /\ got \in Seq(Cell) /\ Len(got) = h /\ \A j \in 1 .. h : got[j] = q[j].c
    <2>1. got \in Seq(Cell) /\ Len(got) = n
      BY <1>1, <1>2, CellsType
    <2>2. \A j \in 1 .. n : got[j] = q[j].c
      BY <1>1 DEF Cells
    <2> QED BY <1>3, <2>1, <2>2, Zenon
  <1>7. PICK y : y = Tail(got)
    OBVIOUS
  <1>8. y \in Seq(Cell) /\ Len(y) = h - 1 /\ \A j \in 1 .. h - 1 : y[j] = got[j + 1]
    <2>1. got # <<>>
      BY <1>3, <1>6
    <2> QED BY <1>3, <1>6, <1>7, <2>1
  <1>9. PICK r : r = Rest(q, n)
    OBVIOUS
  <1>10. r \in Seq(Flit) /\ Len(r) = l - h /\ \A j \in 1 .. l - h : r[j] = q[h + j]
    BY <1>2, <1>3, <1>9 DEF Rest
  <1>11. ASSUME NEW j \in 1 .. h - 1 PROVE y[j] = C[j]
    <2>1. j + 1 \in 1 .. h /\ j \in 1 .. l - 1
      BY <1>3
    <2>2. y[j] = got[j + 1] /\ got[j + 1] = q[j + 1].c /\ q[j + 1].c = C[j]
      BY <1>5, <1>6, <1>8, <2>1, Zenon
    <2> QED BY <2>2, Zenon
  <1>12. ASSUME NEW j \in 1 .. l - h PROVE r[j].c = C[(h - 1) + j]
    <2>1. PICK i \in 1 .. l - 1 : i = (h - 1) + j /\ i + 1 = h + j
      BY <1>3
    <2>2. q[i + 1].c = C[i]
      BY <1>5
    <2> QED BY <1>10, <2>1, <2>2, Zenon
  <1>13. Len(y) + Len(r) = Len(q) - 1
    <2>1. (h - 1) + (l - h) = l - 1
      BY <1>3
    <2> QED BY <1>3, <1>8, <1>10, <2>1, Zenon
  <1>14. Sent(Len(y) + Len(r), t, b, m, F, w, p.arg)
    BY <1>1, <1>13, Zenon DEF Announced
  <1>15. /\ \A j \in 1 .. Len(y) : y[j] = C[j]
         /\ \A j \in 1 .. Len(r) : r[j].c = C[Len(y) + j]
    BY <1>8, <1>10, <1>11, <1>12, Zenon
  <1>16. Linked(e1) /\ e1.c2s = <<>> /\ e1.s2c = r /\ CanRead(F, w, p.arg)
         /\ p1.cmd = "GET" /\ p1.arg = p.arg /\ p.arg \in Targets
    BY <1>1, <1>9 DEF Announced, Linked
  <1>17. Gets(p1, t, e1, b, m, F, w, y)
    BY <1>1, <1>8, <1>10, <1>14, <1>15, <1>16, Zenon DEF Gets
  <1>18. got[1] = Header(SizeIn(F, w, p.arg))
    <2>1. 1 \in 1 .. h
      BY <1>3
    <2> QED BY <1>1, <1>6, <2>1, Zenon DEF Announced
  <1> QED BY <1>7, <1>17, <1>18

(* What a client does with what recv gave it, its connection being k.      *)
Takes(c, k, n, got) ==
    /\ n \in 1 .. Len(net[k].s2c) /\ got = Cells(net[k].s2c, n)
    /\ net'[k].s2c = Rest(net[k].s2c, n) /\ net'[k].c2s = net[k].c2s
    /\ net'[k].cli = net[k].cli /\ net'[k].srv = net[k].srv
    /\ net'[k].reset = net[k].reset /\ \A i \in Conns \ {k} : net'[i] = net[i]

(* What a client receives leaves the other streams alone.                  *)
LEMMA CliTakeOff ==
    ASSUME Inv, NEW c \in Clients, NEW k \in Conns, cl[c].fd = k, Linked(net[k]),
           NEW cap \in Nat \ {0}, NEW n \in CliResults(k, cap), TakeOff(c, n)
    PROVE  /\ Takes(c, k, n, Taken(c, n)) /\ n <= cap
           /\ net[k].s2c # <<>> /\ net[k].s2c \in Seq(Flit)
  <1>1. /\ n \in 1 .. Len(net[k].s2c) /\ n > 0
        /\ net[k].s2c # <<>> /\ net[k].s2c \in Seq(Flit) /\ n <= cap
    BY CliTakes
  <1>2. /\ Taken(c, n) = Cells(net[k].s2c, n)
        /\ net' = [net EXCEPT ![k].s2c = Rest(@, n)]
    BY <1>1 DEF Taken, TakeOff
  <1> QED BY <1>1, <1>2, WireIs DEF Endpoint, Takes

(* What a get that returns has done.                                       *)
Delivered(c) ==
    cl'[c].pc = "prompt" =>
        IF cl'[c].ok THEN cl[c].arg \notin Dirs => cl'[c].out = Stat(cwd, cl[c].arg)
                     ELSE Stat(cwd, cl[c].arg) = Absent

(* A client receives the header of get, and what came with it.             *)
LEMMA SyncGetHead ==
    ASSUME Inv, Together, NEW c \in Clients, GetHead(c), UNCHANGED serverVars
    PROVE  Together' /\ Delivered(c)
  <1>0. cl[c].pc = "get_head" /\ UNCHANGED <<nconn, backlog, up>>
    BY DEF GetHead
  <1>1. InCommand(cl[c])
    BY <1>0 DEF InCommand, Gone
  <1>2. PICK k \in Conns : OnConn(c, k) /\ OthersCalm(c)
    BY <1>1, InCommandAlone
  <1>3. /\ cl[c].fd = k /\ cl[c].fds = {k}
        /\ Heading(cl[c], th[k], net[k], buf, msg, fs, cwd) /\ Linked(net[k])
    BY <1>0, <1>2 DEF OnConn, InStep, Heading
  <1>4. PICK n \in CliResults(k, BufUnits) :
          IF n < 1
          THEN Die(c, "aborted", net)
          ELSE /\ TakeOff(c, n)
               /\ IF Taken(c, n)[1].k = "ERROR"
                  THEN GoOn(c, [cl[c] EXCEPT !.pc = "prompt"])
                  ELSE GoOn(c, [cl[c] EXCEPT
                          !.out = Tail(Taken(c, n)), !.need = Taken(c, n)[1].n,
                          !.pc = GetOn(Tail(Taken(c, n)), Taken(c, n)[1].n), !.ok = TRUE])
    BY <1>3 DEF GetHead
  <1>5. TakeOff(c, n) /\ ~ (n < 1)
    <2>1. n > 0 /\ n \in Nat
      BY <1>3, CliTakes, WireAssumption
    <2> QED BY <1>4, <2>1
  <1>6. PICK got : got = Taken(c, n) /\ Takes(c, k, n, got)
    BY <1>3, <1>5, CliTakeOff, WireAssumption
  <1>7. /\ cl[c] \in ClientState /\ th[k] \in Thread /\ net[k] \in Endpoint
        /\ fs \in FileSystem /\ cwd \in Dirs /\ net[k].s2c # <<>>
    <2>1. fs \in FileSystem /\ cwd \in Dirs
      BY DEF Inv, TypeOK, ServerTypeOK
    <2>2. net[k].s2c # <<>>
      BY <1>3, <1>5, CliTakeOff, WireAssumption
    <2> QED BY <2>1, <2>2, WireIs
  <1>8. CASE ~CanRead(fs, cwd, cl[c].arg)
    <2>1. /\ th[k].pc = "recv" /\ Carries(net[k].s2c, Failure(cl[c].arg))
          /\ net[k].c2s = <<>> /\ ~cl[c].ok
      BY <1>3, <1>7, <1>8 DEF Heading
    <2>2. n = 1 /\ Len(net[k].s2c) = 1 /\ net[k].s2c \in Seq(Flit)
      BY <1>6, <1>7, <2>1 DEF Takes, Carries, Endpoint
    <2>3. got[1].k = "ERROR"
      <3>1. got[1] = net[k].s2c[1].c
        BY <1>6, <2>2 DEF Takes, Cells
      <3> QED BY <2>1, <3>1 DEF Carries, Failure
    <2>4. PICK p : p = [cl[c] EXCEPT !.pc = "prompt"] /\ GoOn(c, p)
      BY <1>4, <1>5, <1>6, <2>3
    <2>5. /\ p.pc = "prompt" /\ p.fd = k /\ p.fds = {k} /\ p.ok = cl[c].ok
      BY <1>3, <1>7, <2>4 DEF ClientState
    <2>6. net'[k].s2c = <<>>
      BY <1>6, <2>2 DEF Takes, Rest
    <2>7. InStep(p, th[k], net'[k], buf, msg, fs, cwd)
      BY <1>3, <1>6, <2>1, <2>5, <2>6 DEF InStep, Takes, Linked, Ready
    <2>8. Together'
      BY <1>0, <1>2, <1>6, <2>4, <2>5, <2>7, ClientActs DEF Takes
    <2>9. Stat(cwd, cl[c].arg) = Absent /\ cl'[c] = p
      BY <1>8, <2>4, WireIs DEF Stat, CanRead, GoOn
    <2> QED BY <2>1, <2>5, <2>8, <2>9 DEF Delivered
  <1>9. CASE CanRead(fs, cwd, cl[c].arg)
    <2>1. Announced(cl[c], th[k], net[k], buf, msg, fs, cwd)
      BY <1>3, <1>7, <1>9 DEF Heading, Announced, Endpoint
    <2>2. PICK out, need : out = Tail(got) /\ need = got[1].n
      OBVIOUS
    <2>3. got[1] = Header(SizeIn(fs, cwd, cl[c].arg))
      BY <1>6, <2>1, StepHead DEF Takes
    <2>4. got[1].k # "ERROR" /\ need = SizeIn(fs, cwd, cl[c].arg)
      BY <2>2, <2>3 DEF Header
    <2>5. PICK pc, p : /\ pc = GetOn(out, need)
                       /\ p = [cl[c] EXCEPT !.out = out, !.need = need, !.pc = pc, !.ok = TRUE]
                       /\ GoOn(c, p)
      BY <1>4, <1>5, <1>6, <2>2, <2>4
    <2>6. /\ p.pc = pc /\ p.out = out /\ p.need = need /\ p.ok = TRUE
          /\ p.fd = k /\ p.fds = {k} /\ p.cmd = cl[c].cmd /\ p.arg = cl[c].arg
      BY <1>3, <1>7, <2>5 DEF ClientState
    <2>7. Gets(p, th[k], net'[k], buf, msg, fs, cwd, out)
      BY <1>6, <2>1, <2>2, <2>6, StepHead DEF Takes
    <2>12. Counts(p, fs, cwd, out)
      BY <2>4, <2>5, <2>6, Zenon DEF Counts
    <2>8. /\ InStep(p, th[k], net'[k], buf, msg, fs, cwd)
          /\ p.pc = "prompt" /\ p.arg \notin Dirs => out = fs[cwd][p.arg]
      BY <1>7, <2>7, <2>12, StepGot
    <2>9. Together'
      BY <1>0, <1>2, <1>6, <2>5, <2>6, <2>8, ClientActs DEF Takes
    <2>10. cl'[c] = p
      BY <2>5, WireIs DEF GoOn
    <2>11. p.arg \notin Dirs => Stat(cwd, p.arg) = fs[cwd][p.arg]
      BY <1>9, <2>6 DEF CanRead, Stat
    <2> QED BY <2>6, <2>8, <2>9, <2>10, <2>11 DEF Delivered
  <1> QED BY <1>8, <1>9

(* A client receives more of the file.                                     *)
LEMMA SyncRecvFile ==
    ASSUME Inv, Together, NEW c \in Clients, recv_file(c), UNCHANGED serverVars
    PROVE  Together' /\ Delivered(c) /\ cl[c].cmd = "GET"
  <1>0. cl[c].pc = "get_body" /\ UNCHANGED <<nconn, backlog, up>>
    BY DEF recv_file
  <1>1. InCommand(cl[c])
    BY <1>0 DEF InCommand, Gone
  <1>2. PICK k \in Conns : OnConn(c, k) /\ OthersCalm(c)
    BY <1>1, InCommandAlone
  <1>3. /\ cl[c].fd = k /\ cl[c].fds = {k}
        /\ Getting(cl[c], th[k], net[k], buf, msg, fs, cwd) /\ Linked(net[k])
    BY <1>0, <1>2 DEF OnConn, InStep, Getting
  <1>4. PICK n \in CliResults(k, BufUnits) :
          IF n = -1
          THEN Die(c, "aborted", net)
          ELSE /\ TakeOff(c, n)
               /\ GoOn(c, [cl[c] EXCEPT !.out = cl[c].out \o Taken(c, n),
                             !.pc = GetOn(cl[c].out \o Taken(c, n), cl[c].need)])
    BY <1>3 DEF recv_file
  <1>5. TakeOff(c, n) /\ n # -1
    <2>1. n # -1
      BY <1>3, CliTakes, WireAssumption
    <2> QED BY <1>4, <2>1
  <1>6. PICK got : got = Taken(c, n) /\ Takes(c, k, n, got)
    BY <1>3, <1>5, CliTakeOff, WireAssumption
  <1>7. /\ cl[c] \in ClientState /\ th[k] \in Thread /\ net[k] \in Endpoint
        /\ fs \in FileSystem /\ cwd \in Dirs
    <2>1. fs \in FileSystem /\ cwd \in Dirs
      BY DEF Inv, TypeOK, ServerTypeOK
    <2> QED BY <2>1, WireIs
  <1>8. PICK out, pc : out = cl[c].out \o got /\ pc = GetOn(out, cl[c].need)
    OBVIOUS
  <1>9. PICK p : p = [cl[c] EXCEPT !.out = out, !.pc = pc] /\ GoOn(c, p)
    BY <1>4, <1>5, <1>6, <1>8
  <1>10. /\ p.pc = pc /\ p.out = out /\ p.need = cl[c].need /\ p.ok = cl[c].ok
         /\ p.fd = k /\ p.fds = {k} /\ p.cmd = cl[c].cmd /\ p.arg = cl[c].arg
    BY <1>3, <1>7, <1>9 DEF ClientState
  <1>11. Gets(cl[c], th[k], net[k], buf, msg, fs, cwd, cl[c].out)
    BY <1>3, <1>7 DEF Getting, Gets, ClientState, Endpoint
  <1>12. Gets(p, th[k], net'[k], buf, msg, fs, cwd, out)
    <2>1. Took(net[k], n, net'[k])
      BY <1>6 DEF Takes, Took
    <2>2. out = cl[c].out \o Cells(net[k].s2c, n)
      BY <1>6, <1>8 DEF Takes
    <2>3. p.cmd = cl[c].cmd /\ p.arg = cl[c].arg
      BY <1>10
    <2> QED BY <1>11, <2>1, <2>2, <2>3, StepTake
  <1>13. /\ cl[c].ok /\ cl[c].need = SizeIn(fs, cwd, cl[c].arg) /\ cl[c].cmd = "GET"
         /\ CanRead(fs, cwd, cl[c].arg)
    BY <1>3 DEF Getting
  <1>14. /\ InStep(p, th[k], net'[k], buf, msg, fs, cwd)
         /\ p.pc = "prompt" /\ p.arg \notin Dirs => out = fs[cwd][p.arg]
    <2>1. Counts(p, fs, cwd, out)
      BY <1>8, <1>10, <1>13, Zenon DEF Counts
    <2> QED BY <1>7, <1>12, <2>1, StepGot
  <1>15. Together'
    BY <1>0, <1>2, <1>6, <1>9, <1>10, <1>14, ClientActs DEF Takes
  <1>16. cl'[c] = p
    BY <1>9, WireIs DEF GoOn
  <1>17. p.arg \notin Dirs => Stat(cwd, p.arg) = fs[cwd][p.arg]
    BY <1>10, <1>13 DEF CanRead, Stat
  <1> QED BY <1>10, <1>13, <1>14, <1>15, <1>16, <1>17 DEF Delivered

(* The client sends d more cells of file f, of which x are on the way.     *)
Longer(q, q1, f, x, d) ==
    /\ Len(q1) = Len(q) + d
    /\ \A j \in 1 .. Len(q) : q1[j].c = q[j].c
    /\ \A j \in 1 .. d : q1[Len(q) + j].c = Body(f, x + j)

GrowsBy(q, q1, f, x, d, o) ==
    /\ q \in Seq(Flit) /\ x \in Nat /\ d \in Nat /\ o \in Nat
    /\ Longer(q, q1, f, x, d) /\ o + Len(q) = x /\ Brings(q, f, o)

(* A send puts the next cells of the file behind those under way.          *)
LEMMA BringsMore ==
    ASSUME NEW q, NEW q1, NEW f, NEW x, NEW d, NEW o, GrowsBy(q, q1, f, x, d, o)
    PROVE  Brings(q1, f, o) /\ o + Len(q1) = x + d
  <1>0. x \in Nat /\ d \in Nat /\ o \in Nat /\ Longer(q, q1, f, x, d) /\ Brings(q, f, o)
    BY DEF GrowsBy
  <1>1. PICK n \in Nat : n = Len(q) /\ o + n = x
    BY DEF GrowsBy
  <1>2. /\ Len(q1) = n + d /\ \A j \in 1 .. n : q1[j].c = q[j].c
        /\ \A j \in 1 .. d : q1[n + j].c = Body(f, x + j)
        /\ \A j \in 1 .. n : q[j].c = Body(f, o + j)
    BY <1>0, <1>1, Zenon DEF Longer, Brings
  <1>3. ASSUME NEW j \in 1 .. n + d PROVE q1[j].c = Body(f, o + j)
    <2>1. CASE j <= n
      <3>1. j \in 1 .. n
        BY <2>1
      <3> QED BY <1>2, <3>1, Zenon
    <2>2. CASE ~ (j <= n)
      <3>1. PICK i \in 1 .. d : n + i = j /\ x + i = o + j
        <4>1. j - n \in 1 .. d /\ n + (j - n) = j /\ x + (j - n) = o + j
          BY <1>0, <1>1, <2>2
        <4> QED BY <4>1
      <3>2. q1[n + i].c = Body(f, x + i)
        BY <1>2
      <3> QED BY <3>1, <3>2, Zenon
    <2> QED BY <2>1, <2>2
  <1>4. Brings(q1, f, o)
    BY <1>2, <1>3, Zenon DEF Brings
  <1>5. o + (n + d) = x + d
    BY <1>0, <1>1
  <1> QED BY <1>2, <1>4, <1>5, Zenon

WithHead(q, f, s, x) ==
    /\ Len(q) = x + 1 /\ q[1].c = PutHead(f, s)
    /\ \A j \in 2 .. Len(q) : q[j].c = Body(f, j - 1)

(* A send puts the next cells behind the header under way.                 *)
LEMMA HeadMore ==
    ASSUME NEW q, NEW q1, NEW f, NEW s, NEW x \in Nat, NEW d \in Nat,
           Longer(q, q1, f, x, d), WithHead(q, f, s, x)
    PROVE  WithHead(q1, f, s, x + d)
  <1>1. PICK n \in Nat : n = Len(q) /\ n = x + 1
    BY DEF WithHead
  <1>2. /\ Len(q1) = n + d /\ \A j \in 1 .. n : q1[j].c = q[j].c
        /\ \A j \in 1 .. d : q1[n + j].c = Body(f, x + j)
        /\ \A j \in 2 .. n : q[j].c = Body(f, j - 1)
        /\ q[1].c = PutHead(f, s)
    BY <1>1, Zenon DEF Longer, WithHead
  <1>3. ASSUME NEW j \in 2 .. n + d PROVE q1[j].c = Body(f, j - 1)
    <2>1. CASE j <= n
      <3>1. j \in 1 .. n /\ j \in 2 .. n
        BY <2>1
      <3> QED BY <1>2, <3>1, Zenon
    <2>2. CASE ~ (j <= n)
      <3>1. PICK i \in 1 .. d : n + i = j /\ x + i = j - 1
        <4>1. j - n \in 1 .. d /\ n + (j - n) = j /\ x + (j - n) = j - 1
          BY <1>1, <2>2
        <4> QED BY <4>1
      <3>2. q1[n + i].c = Body(f, x + i)
        BY <1>2
      <3> QED BY <3>1, <3>2, Zenon
    <2> QED BY <2>1, <2>2
  <1>4. 1 \in 1 .. n /\ n + d = (x + d) + 1
    BY <1>1
  <1> QED BY <1>2, <1>3, <1>4, Zenon DEF WithHead

(* The client goes on with put's loop as p1, its stream to the thread e1's.*)
SentOn(p, e, p1, e1, d) ==
    /\ p1.pc = "put_body" /\ p1.cmd = p.cmd /\ p1.arg = p.arg /\ p1.size = p.size
    /\ p.size # Missing /\ p1.pos = p.pos + d /\ p1.pos <= p.size
    /\ p.pos < p.size
    /\ e1.s2c = e.s2c /\ e1.cli = e.cli /\ e1.srv = e.srv /\ e1.reset = e.reset
    /\ Longer(e.c2s, e1.c2s, p.arg, p.pos, d)

(* A client that sends more of a file stays in step.                       *)
LEMMA StepPutBody ==
    ASSUME FairUse, NEW p \in ClientState, NEW t \in Thread, NEW e \in Endpoint,
           NEW b, NEW m, NEW F, NEW w, InStep(p, t, e, b, m, F, w), p.pc = "put_body",
           NEW p1, NEW e1, NEW d \in Nat, SentOn(p, e, p1, e1, d)
    PROVE  InStep(p1, t, e1, b, m, F, w)
  <1>1. Putting(p, t, e, b, m, F, w)
    BY DEF InStep
  <1>2a. PICK x \in Nat : x = p.pos /\ p1.pos = x + d
    BY DEF SentOn, ClientState
  <1>2b. PICK f, s : f = p.arg /\ s = p.size
    OBVIOUS
  <1>2. f = p.arg /\ s = p.size /\ x = p.pos /\ p1.pos = x + d
    BY <1>2a, <1>2b
  <1>3. /\ p.cmd = "PUT" /\ f \in Files /\ Linked(e1) /\ s \in Sizes \cup {Missing}
        /\ (Orderly => s # Missing) /\ s # Missing /\ p1.pos <= s /\ x < s
        /\ e1.s2c = e.s2c /\ Longer(e.c2s, e1.c2s, f, x, d)
        /\ p1.pc = "put_body" /\ p1.cmd = p.cmd /\ p1.arg = f /\ p1.size = s
    BY <1>1, <1>2 DEF Putting, SentOn, Linked
  <1>4. s \in Nat /\ x # s
    <2>1. s \in Sizes
      BY <1>3
    <2>2. s \in Nat
      BY <2>1, ClientAssumption
    <2> QED BY <1>3, <2>2
  <1>5. e.c2s \in Seq(Flit) /\ Len(e.c2s) \in Nat
    BY DEF Endpoint
  <1>6. CASE /\ e.s2c = <<>> /\ Ready(t, b, F, w)
             /\ Len(e.c2s) = x + 1 /\ e.c2s[1].c = PutHead(f, s)
             /\ \A j \in 2 .. Len(e.c2s) : e.c2s[j].c = Body(f, j - 1)
    <2>0. WithHead(e1.c2s, f, s, x + d)
      <3>1. WithHead(e.c2s, f, s, x)
        BY <1>6 DEF WithHead
      <3> QED BY <1>3, <3>1, HeadMore
    <2>1. /\ Len(e1.c2s) = (x + d) + 1 /\ e1.c2s[1].c = PutHead(f, s)
          /\ \A j \in 2 .. Len(e1.c2s) : e1.c2s[j].c = Body(f, j - 1)
      BY <2>0 DEF WithHead
    <2>2. Len(e1.c2s) = p1.pos + 1
      BY <1>2, <2>1
    <2>3. Putting(p1, t, e1, b, m, F, w)
      BY <1>3, <1>6, <2>1, <2>2 DEF Putting
    <2> QED BY <1>3, <2>3 DEF InStep
  <1>7. CASE t.pc \in {"dispatch", "put_rest", "put_recv", "put_write"}
    <2>1. PICK g, z :
             /\ Puts(p, e, g, z)
             /\ t.pc # "dispatch" => Stores(t, F, w, g, z)
             /\ t.pc \in {"dispatch", "put_rest"} => HeadIn(p, t, e, b, g, z)
             /\ t.pc = "put_recv" => Receives(p, t, e, g, z)
             /\ t.pc = "put_write" => HasPiece(p, t, e, b, g)
      BY <1>7, WhilePutting
    <2>2. g = f /\ z = s /\ s < SizeMod /\ e.s2c = <<>>
      BY <1>2, <1>3, <2>1 DEF Puts, PutSize
    <2>3. Puts(p1, e1, f, s)
      BY <1>3, <1>4, <2>2 DEF Puts, PutSize
    <2>4. PICK o \in Nat : o = Len(t.out)
      BY DEF Thread
    <2>5. CASE t.pc \in {"dispatch", "put_rest"}
      <3>1. HeadIn(p, t, e, b, f, s)
        BY <2>1, <2>2, <2>5
      <3>2. PICK h \in Nat : h = t.n - 1
        BY <3>1 DEF HeadIn, Thread
      <3>3. h + Len(e.c2s) = x /\ Brings(e.c2s, f, h)
        BY <1>2, <3>1, <3>2 DEF HeadIn
      <3>4. Brings(e1.c2s, f, h) /\ h + Len(e1.c2s) = x + d
        <4>1. GrowsBy(e.c2s, e1.c2s, f, x, d, h)
          BY <1>3, <1>5, <3>3 DEF GrowsBy
        <4> QED BY <4>1, BringsMore
      <3>5. HeadIn(p1, t, e1, b, f, s)
        BY <1>2, <3>1, <3>2, <3>4 DEF HeadIn
      <3> QED BY <2>1, <2>2, <2>3, <2>5, <3>5, PutStep
    <2>6. CASE t.pc = "put_recv"
      <3>1. Receives(p, t, e, f, s)
        BY <2>1, <2>2, <2>6
      <3>2. o + Len(e.c2s) = x /\ Brings(e.c2s, f, o)
        BY <1>2, <2>4, <3>1 DEF Receives
      <3>3. Brings(e1.c2s, f, o) /\ o + Len(e1.c2s) = x + d
        <4>1. GrowsBy(e.c2s, e1.c2s, f, x, d, o)
          BY <1>3, <1>5, <3>2 DEF GrowsBy
        <4> QED BY <4>1, BringsMore
      <3>4. Receives(p1, t, e1, f, s)
        BY <1>2, <2>4, <3>1, <3>3 DEF Receives
      <3> QED BY <2>1, <2>2, <2>3, <2>6, <3>4, PutStep
    <2>7. CASE t.pc = "put_write"
      <3>1. HasPiece(p, t, e, b, f)
        BY <2>1, <2>2, <2>7
      <3>2. PICK h \in Nat : h = o + t.n
        BY <2>4, <3>1 DEF HasPiece, Thread
      <3>3. h + Len(e.c2s) = x /\ Brings(e.c2s, f, h)
        BY <1>2, <2>4, <3>1, <3>2 DEF HasPiece
      <3>4. Brings(e1.c2s, f, h) /\ h + Len(e1.c2s) = x + d
        <4>1. GrowsBy(e.c2s, e1.c2s, f, x, d, h)
          BY <1>3, <1>5, <3>3 DEF GrowsBy
        <4> QED BY <4>1, BringsMore
      <3>5. HasPiece(p1, t, e1, b, f)
        BY <1>2, <2>4, <3>1, <3>2, <3>4 DEF HasPiece
      <3> QED BY <2>1, <2>2, <2>3, <2>7, <3>5, PutStep
    <2> QED BY <1>7, <2>5, <2>6, <2>7
  <1>8. p.pos # IF p.size = Missing THEN 0 ELSE p.size
    BY <1>2, <1>3, <1>4
  <1> QED BY <1>1, <1>2, <1>3, <1>6, <1>7, <1>8 DEF Putting

(* What a client that dies leaves of its connections.                      *)
LEMMA Dies ==
    ASSUME Inv, NEW c \in Clients, NEW pc, NEW conns, Die(c, pc, conns)
    PROVE  /\ cl'[c].pc = pc /\ cl'[c].fd = cl[c].fd /\ cl'[c].fds = cl[c].fds
           /\ \A d \in Clients \ {c} : cl'[d] = cl[d]
           /\ \A j \in Conns \ cl[c].fds : net'[j] = conns[j]
           /\ \E lost \in BOOLEAN :
                 \A j \in Conns \cap cl[c].fds : net'[j] = ClientClosed(conns[j], lost)
  <1>1. cl[c] \in ClientState /\ cl' = [cl EXCEPT ![c] = [cl[c] EXCEPT !.pc = pc]]
    BY WireIs DEF Die, GoOn
  <1>2. cl'[c].pc = pc /\ cl'[c].fd = cl[c].fd /\ cl'[c].fds = cl[c].fds
    BY <1>1, WireIs DEF ClientState
  <1>3. \A d \in Clients \ {c} : cl'[d] = cl[d]
    BY <1>1, WireIs
  <1> QED BY <1>2, <1>3 DEF Die

(* A client that breaks off: it has the only connection.                   *)
LEMMA BreaksOff ==
    ASSUME FairUse, Inv, Together, NEW c \in Clients, ~Orderly, InCommand(cl[c]),
           NEW conns, Die(c, "aborted", conns), UNCHANGED nconn
    PROVE  BrokenOff'
  <1>1. MaxConns = 1
    BY DEF FairUse
  <1>2. PICK k \in Conns : OnConn(c, k)
    BY InCommandAlone
  <1>3. cl[c].fd = k /\ k = 1 /\ nconn = 1
    BY <1>1, <1>2, WireIs DEF OnConn
  <1>4. \A d \in Clients \ {c} : cl[d].fd = 0
    <2> TAKE d \in Clients \ {c}
    <2>1. ASSUME cl[d].fd # 0 PROVE FALSE
      <3>1. PICK j \in Conns : OnConn(d, j)
        BY <2>1, ClientHas
      <3> QED BY <1>1, <1>3, <3>1 DEF OnConn
    <2> QED BY <2>1
  <1>5. cl'[c].pc = "aborted" /\ cl'[c].fd = k /\ \A d \in Clients \ {c} : cl'[d] = cl[d]
    BY <1>3, Dies
  <1>6. \A d \in Clients \ {c} : cl[d].pc \in {"prompt", "exited"}
    BY <1>4 DEF Together, Owners
  <1>7. nconn' = MaxConns
    BY <1>1, <1>3
  <1>8. ASSUME NEW d \in Clients
        PROVE  /\ cl'[d].fd # 0 => cl'[d].pc = "aborted"
               /\ cl'[d].fd = 0 => cl'[d].pc \in {"prompt", "exited"}
    <2>1. CASE d = c
      BY <1>3, <1>5, <2>1
    <2>2. CASE d # c
      BY <1>4, <1>5, <1>6, <2>2
    <2> QED BY <2>1, <2>2
  <1> QED BY <1>5, <1>7, <1>8 DEF BrokenOff

(* Ctrl-C, whose user has the only connection.                             *)
LEMMA SyncInterrupt ==
    ASSUME FairUse, Inv, Together, NEW c \in Clients, ~Orderly, sig_exit(c)
    PROVE  BrokenOff'
  BY BreaksOff DEF sig_exit, InCommand

(* A client sends more of the file of a put, or cannot read it.            *)
LEMMA SyncPutBody ==
    ASSUME FairUse, Inv, Together, NEW c \in Clients, PutBody(c), UNCHANGED serverVars
    PROVE  Together' \/ BrokenOff'
  <1>0. cl[c].pc = "put_body" /\ UNCHANGED <<nconn, backlog, up>>
    BY DEF PutBody
  <1>1. InCommand(cl[c])
    BY <1>0 DEF InCommand, Gone
  <1>2. PICK k \in Conns : OnConn(c, k) /\ OthersCalm(c)
    BY <1>1, InCommandAlone
  <1>3. /\ cl[c].fd = k /\ cl[c].fds = {k}
        /\ InStep(cl[c], th[k], net[k], buf, msg, fs, cwd)
        /\ Putting(cl[c], th[k], net[k], buf, msg, fs, cwd) /\ Linked(net[k])
    BY <1>0, <1>2 DEF OnConn, InStep, Putting
  <1>4. cl[c] \in ClientState /\ th[k] \in Thread /\ net[k] \in Endpoint
    BY WireIs
  <1>5. CASE cl[c].size = Missing
    <2>1. ~Orderly
      BY <1>3, <1>5 DEF Putting
    <2>2. Die(c, "aborted", net)
      BY <1>5 DEF PutBody
    <2> QED BY <1>0, <1>1, <2>1, <2>2, BreaksOff
  <1>6. CASE cl[c].size # Missing
    <2>1. PICK f \in Names, s \in Nat, x \in Nat :
             f = cl[c].arg /\ s = cl[c].size /\ x = cl[c].pos
      BY <1>4, <1>6 DEF ClientState, Missing
    <2>2. PICK C \in Seq(Cell) : C = Content(f, s) /\ Len(C) = s
      BY ContentType
    <2>3. PICK last, chunk : /\ last = Lesser(x + BufUnits, s)
                             /\ chunk = SubSeq(C, x + 1, last)
      OBVIOUS
    <2>4. /\ chunk = <<>> <=> x >= s
          /\ chunk # <<>> => IsPiece(C, x, chunk)
      <3>1. chunk = SubSeq(C, x + 1, Lesser(x + BufUnits, Len(C)))
        BY <2>2, <2>3
      <3>2. /\ chunk = <<>> <=> x >= Len(C)
            /\ chunk # <<>> => IsPiece(C, x, chunk)
        BY <3>1, ChunkIs
      <3> QED BY <2>2, <3>2
    <2>5. x <= s
      BY <1>3, <1>6, <2>1 DEF Putting
    <2>6. PICK p : /\ p = [cl[c] EXCEPT !.pos = IF chunk = <<>> THEN @ ELSE last,
                             !.pc = IF chunk = <<>> THEN "put_ack" ELSE "put_body"]
                   /\ GoOn(c, p)
                   /\ net' = IF chunk = <<>> THEN net
                             ELSE [net EXCEPT ![k].c2s = @ \o Packet(chunk)]
      BY <1>3, <1>6, <2>1, <2>2, <2>3 DEF PutBody, Linked
    <2>7. CASE chunk = <<>>
      <3>1. x = s /\ net' = net
        BY <2>4, <2>5, <2>6, <2>7
      <3>2. /\ p.pc = "put_ack" /\ p.pos = x /\ p.fd = k /\ p.fds = {k} /\ p.cmd = cl[c].cmd
            /\ p.arg = cl[c].arg /\ p.size = cl[c].size
        BY <1>3, <1>4, <2>1, <2>6, <2>7 DEF ClientState
      <3>3. Putting(p, th[k], net[k], buf, msg, fs, cwd)
        BY <1>3, <1>6, <2>1, <3>1, <3>2 DEF Putting
      <3>4. InStep(p, th[k], net'[k], buf, msg, fs, cwd)
        BY <3>1, <3>2, <3>3 DEF InStep
      <3> QED BY <1>0, <1>2, <2>6, <3>1, <3>2, <3>4, ClientActs
    <2>8. CASE chunk # <<>>
      <3>1. IsPiece(C, x, chunk) /\ x < s
        BY <2>4, <2>8
      <3>2. PICK d \in Nat : d = Len(chunk) /\ x + d <= s /\ d > 0
        BY <2>2, <3>1 DEF IsPiece
      <3>3. last = x + d
        <4>1. PICK u \in Nat : u = BufUnits /\ d <= u
          BY <3>1, <3>2, WireAssumption DEF IsPiece
        <4>2. PICK h \in Nat : h = last /\ h <= s /\ h > x
          BY <2>3, <3>1, WireAssumption DEF Lesser
        <4>3. Len(SubSeq(C, x + 1, h)) = h - x
          BY <2>2, <4>2
        <4>4. d = h - x
          BY <2>3, <3>2, <4>2, <4>3
        <4> QED BY <4>2, <4>4
      <3>4. /\ p.pc = "put_body" /\ p.pos = x + d /\ p.fd = k /\ p.fds = {k}
            /\ p.cmd = cl[c].cmd /\ p.arg = cl[c].arg /\ p.size = cl[c].size
        BY <1>3, <1>4, <2>1, <2>6, <2>8, <3>3 DEF ClientState
      <3>5. PICK q, q1 : q = net[k].c2s /\ q1 = q \o Packet(chunk)
        OBVIOUS
      <3>6. /\ net'[k].c2s = q1 /\ net'[k].s2c = net[k].s2c /\ net'[k].cli = net[k].cli
            /\ net'[k].srv = net[k].srv /\ net'[k].reset = net[k].reset
            /\ \A j \in Conns \ {k} : net'[j] = net[j]
        BY <1>4, <2>6, <2>8, <3>5, WireIs DEF Endpoint
      <3>7. Longer(q, q1, f, x, d)
        <4>1. q \in Seq(Flit) /\ chunk \in Seq(Cell)
          BY <1>4, <3>1, <3>5 DEF Endpoint, IsPiece
        <4>2. /\ Len(q1) = Len(q) + d /\ \A j \in 1 .. Len(q) : q1[j] = q[j]
              /\ \A j \in 1 .. d : q1[Len(q) + j].c = chunk[j]
          BY <3>2, <3>5, <4>1, Appended, Zenon
        <4>3. ASSUME NEW j \in 1 .. d PROVE chunk[j] = Body(f, x + j)
          <5>1. chunk[j] = C[x + j]
            BY <3>1, <3>2 DEF IsPiece
          <5>2. x + j \in 1 .. s
            BY <3>2
          <5>3. C[x + j] = Body(f, x + j)
            BY <2>2, <5>2 DEF Content
          <5> QED BY <5>1, <5>3
        <4> QED BY <4>2, <4>3, Zenon DEF Longer
      <3>8. SentOn(cl[c], net[k], p, net'[k], d)
        BY <1>6, <2>1, <3>1, <3>2, <3>4, <3>5, <3>6, <3>7 DEF SentOn
      <3>9. InStep(p, th[k], net'[k], buf, msg, fs, cwd)
        BY <1>0, <1>3, <1>4, <3>8, StepPutBody
      <3> QED BY <1>0, <1>2, <2>6, <3>4, <3>6, <3>9, ClientActs
    <2> QED BY <2>7, <2>8
  <1> QED BY <1>5, <1>6

(* What a put that returns has done.                                       *)
Stored(c) ==
    cl'[c].pc = "prompt" =>
        /\ cl'[c].ok
        /\ fs[cwd][cl[c].arg] = Content(cl[c].arg, cl[c].size)

(* A client receives the acknowledgement of a put.                         *)
LEMMA SyncPutAck ==
    ASSUME FairUse, Inv, Together, NEW c \in Clients, PutAck(c), UNCHANGED serverVars
    PROVE  Together' /\ Stored(c)
  <1>0. cl[c].pc = "put_ack" /\ UNCHANGED <<nconn, backlog, up>>
    BY DEF PutAck
  <1>1. InCommand(cl[c])
    BY <1>0 DEF InCommand, Gone
  <1>2. PICK k \in Conns : OnConn(c, k) /\ OthersCalm(c)
    BY <1>1, InCommandAlone
  <1>3. /\ cl[c].fd = k /\ cl[c].fds = {k}
        /\ Putting(cl[c], th[k], net[k], buf, msg, fs, cwd) /\ Linked(net[k])
    BY <1>0, <1>2 DEF OnConn, InStep, Putting
  <1>4. cl[c] \in ClientState /\ th[k] \in Thread /\ net[k] \in Endpoint
    BY WireIs
  <1>5. PICK n \in CliResults(k, 1) :
          /\ TakeOff(c, n)
          /\ GoOn(c, [cl[c] EXCEPT !.pc = "prompt",
                                    !.ok = n > 0 /\ Taken(c, n)[1].k = "END"])
    BY <1>3 DEF PutAck
  <1>6. PICK got : got = Taken(c, n) /\ Takes(c, k, n, got) /\ net[k].s2c # <<>>
    <2>1. PICK cap \in Nat \ {0} : cap = 1
      OBVIOUS
    <2>2. n \in CliResults(k, cap) /\ TakeOff(c, n)
      BY <1>5, <2>1
    <2> QED BY <1>3, <2>2, CliTakeOff
  <1>7. /\ th[k].pc = "recv" /\ Carries(net[k].s2c, End) /\ net[k].c2s = <<>>
        /\ fs[cwd][cl[c].arg] = Content(cl[c].arg, cl[c].size)
    BY <1>0, <1>3, <1>6 DEF Putting
  <1>8. n = 1 /\ Len(net[k].s2c) = 1
    BY <1>4, <1>6, <1>7 DEF Takes, Carries, Endpoint
  <1>9. got[1].k = "END"
    <2>1. got[1] = net[k].s2c[1].c
      BY <1>6, <1>8 DEF Takes, Cells
    <2> QED BY <1>7, <2>1 DEF Carries, End
  <1>10. PICK ok, p : /\ ok = (n > 0 /\ Taken(c, n)[1].k = "END")
                      /\ p = [cl[c] EXCEPT !.pc = "prompt", !.ok = ok] /\ GoOn(c, p)
    BY <1>5
  <1>11. ok
    <2>1. n > 0
      BY <1>8
    <2> QED BY <1>6, <1>9, <1>10, <2>1, Zenon
  <1>12. /\ p.pc = "prompt" /\ p.fd = k /\ p.fds = {k} /\ p.ok = ok
    BY <1>3, <1>4, <1>10 DEF ClientState
  <1>13. net'[k].s2c = <<>>
    BY <1>4, <1>6, <1>8 DEF Takes, Rest, Endpoint
  <1>14. InStep(p, th[k], net'[k], buf, msg, fs, cwd)
    BY <1>3, <1>6, <1>7, <1>12, <1>13 DEF InStep, Takes, Linked, Ready
  <1>15. Together'
    BY <1>0, <1>2, <1>6, <1>10, <1>12, <1>14, ClientActs DEF Takes
  <1>16. cl'[c] = p
    BY <1>10, WireIs DEF GoOn
  <1> QED BY <1>7, <1>11, <1>12, <1>15, <1>16, Zenon DEF Stored

(* A client that has no connection stays without one.                      *)
LEMMA SyncAlone ==
    ASSUME Inv, Together, NEW c \in Clients, cl[c].fd = 0,
           UNCHANGED <<serverVars, nconn, backlog, up>>, net' = net,
           cl'[c].pc \in {"prompt", "exited"}, cl'[c].fd = 0, cl'[c].fds = cl[c].fds,
           \A d \in Clients \ {c} : cl'[d] = cl[d]
    PROVE  Together'
  <1>1. \A d \in Clients : cl'[d].fd = cl[d].fd /\ cl'[d].fds = cl[d].fds
    OBVIOUS
  <1>2. /\ UNCHANGED main /\ UNCHANGED th /\ UNCHANGED buf /\ UNCHANGED msg
        /\ UNCHANGED fs /\ UNCHANGED cwd /\ UNCHANGED net /\ UNCHANGED nconn
        /\ UNCHANGED backlog /\ UNCHANGED up
    BY DEF serverVars
  <1>3. Entering' /\ up'
    BY <1>2 DEF Together, Entering
  <1>4. Owners'
    <2>1. \A d \in Clients : cl'[d].fd = 0 => cl'[d].pc \in {"prompt", "exited"}
      BY DEF Together, Owners
    <2> QED BY <1>1, <1>2, <2>1 DEF Together, Owners
  <1>5. \A d \in Clients : cl'[d].fd # 0 => cl'[d] = cl[d]
    OBVIOUS
  <1> QED BY <1>2, <1>3, <1>4, <1>5 DEF Together

(* exit: the request is the last thing on the stream.                      *)
LEMMA SyncQuit ==
    ASSUME FairUse, Inv, Together, NEW c \in Clients, Orderly => Quiet(c), cmd_exit(c),
           UNCHANGED serverVars
    PROVE  Together'
  <1>0. /\ cl[c].pc = "prompt" /\ Die(c, "exited", ExitSent(c))
        /\ UNCHANGED <<nconn, backlog, up>>
    BY DEF cmd_exit
  <1>1. CASE cl[c].fd = 0
    <2>1. cl[c].fds = {} /\ 0 \notin Conns
      BY <1>1, WireAssumption DEF Together, Owners
    <2>2. ExitSent(c) = net
      BY <1>1, <2>1 DEF ExitSent
    <2>3. net' = net
      <3>1. net' = [k \in Conns |-> net[k]]
        BY <1>0, <2>1, <2>2 DEF Die
      <3> QED BY <3>1, WireIs
    <2>4. /\ cl'[c].pc = "exited" /\ cl'[c].fd = 0 /\ cl'[c].fds = cl[c].fds
          /\ \A d \in Clients \ {c} : cl'[d] = cl[d]
      BY <1>0, <1>1, Dies
    <2> QED BY <1>0, <1>1, <2>3, <2>4, SyncAlone
  <1>2. CASE cl[c].fd # 0
    <2>1. PICK k \in Conns : OnConn(c, k)
      BY <1>2, ClientHas
    <2>2. /\ cl[c].fd = k /\ cl[c].fds = {k}
          /\ Linked(net[k]) /\ net[k].c2s = <<>> /\ net[k].s2c = <<>>
          /\ Ready(th[k], buf, fs, cwd)
      BY <1>0, <2>1 DEF OnConn, InStep
    <2>3. PICK cells, q : cells = Padded(Request("EXIT", None)) /\ q = Packet(cells)
      OBVIOUS
    <2>4. cells \in Seq(Cell) /\ cells = Cells1("EXIT", None)
      <3>1. cells = Cells1("EXIT", None)
        BY <2>3 DEF Cells1
      <3> QED BY <3>1, RequestCells DEF Requests, Names
    <2>5. <<>> \o q = q
      BY <2>3, <2>4, PacketIs, ConcatEmptySeq
    <2>6. ExitSent(c) = [net EXCEPT ![k].c2s = q]
      <3>1. ExitSent(c) = [net EXCEPT ![k].c2s = net[k].c2s \o q]
        BY <2>2, <2>3, WireIs DEF ExitSent, Linked
      <3> QED BY <2>2, <2>5, <3>1
    <2>7. /\ ExitSent(c)[k].c2s = q /\ ExitSent(c)[k].s2c = <<>>
          /\ ExitSent(c)[k].srv /\ ~ExitSent(c)[k].reset
          /\ \A j \in Conns \ {k} : ExitSent(c)[j] = net[j]
          /\ ExitSent(c)[k] \in Endpoint
      <3>1. net[k] \in Endpoint /\ q \in Seq(Flit)
        BY <2>3, <2>4, PacketIs, WireIs
      <3>2. ExitSent(c)[k] = [net[k] EXCEPT !.c2s = q]
        BY <2>6, WireIs
      <3>3. \A j \in Conns \ {k} : ExitSent(c)[j] = net[j]
        BY <2>6, WireIs
      <3> QED BY <2>2, <3>1, <3>2, <3>3 DEF Endpoint, Linked
    <2>8. PICK lost \in BOOLEAN : net'[k] = ClientClosed(ExitSent(c)[k], lost)
      BY <1>0, <2>2, Dies
    <2>9. /\ net'[k].c2s = q /\ net'[k].s2c = <<>> /\ net'[k].srv
          /\ ~net'[k].cli /\ ~net'[k].reset
      <3>1. PICK e \in Endpoint : e = ExitSent(c)[k] /\ e.s2c = <<>> /\ ~e.reset
        BY <2>7
      <3>2. PICK r \in BOOLEAN : r = (e.reset \/ e.s2c # <<>>) /\ ~r
        BY <3>1
      <3>3. net'[k] = [e EXCEPT !.cli = FALSE, !.s2c = <<>>, !.reset = r, !.c2s = e.c2s]
        BY <2>8, <3>1, <3>2 DEF ClientClosed
      <3>4. /\ net'[k].c2s = e.c2s /\ net'[k].s2c = <<>> /\ net'[k].srv = e.srv
            /\ net'[k].cli = FALSE /\ net'[k].reset = r
        BY <3>1, <3>3 DEF Endpoint
      <3> QED BY <2>7, <3>1, <3>2, <3>4, Zenon
    <2>10. \A j \in Conns \ {k} : net'[j] = net[j]
      BY <1>0, <2>2, <2>7, Dies
    <2>11. PICK p : p = [cl[c] EXCEPT !.pc = "exited"] /\ GoOn(c, p)
      BY <1>0 DEF Die
    <2>12. p.pc = "exited" /\ p.fd = k /\ p.fds = {k}
      BY <2>2, <2>11, WireIs DEF ClientState
    <2>13. Leaving(th[k], net'[k], buf, fs, cwd)
      BY <2>2, <2>3, <2>4, <2>9 DEF Leaving, Asked
    <2>14. InStep(p, th[k], net'[k], buf, msg, fs, cwd)
      BY <2>12, <2>13 DEF InStep
    <2>15. OthersCalm(c)
      BY <1>2, OthersWait
    <2> QED BY <1>0, <2>1, <2>10, <2>11, <2>12, <2>14, <2>15, ClientActs
  <1> QED BY <1>1, <1>2

(* Whatever a user types, his client stays in step with its thread.        *)
LEMMA SyncCommand ==
    ASSUME FairUse, Inv, Together, NEW c \in Clients, Command(c), UNCHANGED serverVars
    PROVE  Together'
  BY SyncOpen, SyncCheck, SyncAsks, SyncUpload, SyncQuit DEF Command

(* Whatever a client does, it stays in step, or breaks off for good.       *)
LEMMA SyncClient ==
    ASSUME FairUse, Inv, Together, NEW c \in Clients, UNCHANGED serverVars,
           Command(c) \/ ClientStep(c) \/ Interrupt(c)
    PROVE  Together' \/ BrokenOff'
  <1>1. CASE Command(c)
    BY <1>1, SyncCommand
  <1>2. CASE ClientStep(c)
    BY <1>2, SyncPrint, SyncGetHead, SyncRecvFile, SyncPutBody, SyncPutAck DEF ClientStep
  <1>3. CASE Interrupt(c)
    BY <1>3, SyncInterrupt DEF Interrupt
  <1> QED BY <1>1, <1>2, <1>3

-----------------------------------------------------------------------------
(* After a client broke off.                                               *)

(* The server leaves the clients and the number of connections alone.      *)
LEMMA ServerKeeps ==
    ASSUME ServerNext PROVE UNCHANGED nconn /\ UNCHANGED cl
  <1>1. CASE Main
    BY <1>1 DEF ServerNext, Main, Accept, ThrdCreate, wireVars
  <1>2. ASSUME NEW k \in Conns, Session(k) PROVE UNCHANGED nconn
    <2>1. CASE \/ SessionStart(k) \/ SessionRecv(k) \/ response_ls(k) \/ response_pwd(k)
               \/ response_cd(k) \/ PwdAfterCd(k) \/ response_get(k) \/ Fopen(k) \/ Fread(k)
      BY <2>1 DEF SessionStart, SessionRecv, response_ls, response_pwd, response_cd,
         PwdAfterCd, response_get, Fopen, Fread, wireVars
    <2>2. CASE \/ response_put(k) \/ PutRest(k) \/ PutRecv(k) \/ PutWrite(k) \/ PutClose(k)
               \/ response_exit(k) \/ NoCase(k) \/ Fill(k) \/ Send(k)
      BY <2>2 DEF response_put, PutRest, PutRecv, PutWrite, PutClose,
         response_exit, NoCase, Fill, Send, wireVars
    <2> QED BY <1>2, <2>1, <2>2 DEF Session
  <1> QED BY <1>1, <1>2 DEF ServerNext

(* The other clients have no connection, and there is none left to make.   *)
LEMMA BrokenClient ==
    ASSUME Inv, BrokenOff, NEW c \in Clients, Command(c) \/ ClientStep(c) \/ Interrupt(c)
    PROVE  /\ UNCHANGED nconn /\ cl[c].fd = 0 /\ cl'[c].fd = 0
           /\ cl[c].pc = "prompt" /\ cl'[c].pc \in {"prompt", "exited"}
           /\ \A d \in Clients \ {c} : cl'[d] = cl[d]
  <1>0. /\ nconn = MaxConns /\ 0 \notin Conns
        /\ cl[c].fd # 0 => cl[c].pc = "aborted"
        /\ cl[c].fd = 0 => cl[c].pc \in {"prompt", "exited"}
    BY WireAssumption DEF BrokenOff
  <1>1. ~ ClientStep(c) /\ ~ Interrupt(c)
    BY <1>0 DEF ClientStep, PRINT_RESPONSE_BODY, GetHead, recv_file, PutBody, PutAck,
       Interrupt, sig_exit, Gone
  <1>2. ~ cmd_open(c)
    BY <1>0, WireIs, WireAssumption DEF cmd_open
  <1>3. ~ (\/ cmd_ls(c) \/ cmd_pwd(c) \/ cmd_cd(c) \/ cmd_get(c, Targets)
           \/ cmd_put(c, IF Orderly THEN Sizes ELSE Sizes \cup {Missing}))
    <2>1. \A cells : ~ Ask(c, cells)
      BY <1>0 DEF Ask, Idle, tcp_connected
    <2> QED BY <2>1 DEF cmd_ls, cmd_pwd, cmd_cd, cmd_get, cmd_put
  <1>4. CASE CONNECT_CHECK(c)
    <2>1. cl[c].pc = "prompt" /\ UNCHANGED nconn
      BY <1>4 DEF CONNECT_CHECK, Idle, wireVars
    <2>2. cl[c].fd = 0
      BY <1>0, <2>1
    <2>3. PICK p : p = Begin(c, "prompt", "NONE", None) /\ GoOn(c, p)
      BY <1>4 DEF CONNECT_CHECK
    <2>4. p.pc = "prompt" /\ p.fd = 0
      BY <2>2, <2>3, Begun
    <2>5. cl'[c] = p /\ \A d \in Clients \ {c} : cl'[d] = cl[d]
      BY <2>3, WireIs DEF GoOn
    <2> QED BY <2>1, <2>2, <2>4, <2>5
  <1>5. CASE cmd_exit(c)
    <2>1. cl[c].pc = "prompt" /\ UNCHANGED nconn /\ Die(c, "exited", ExitSent(c))
      BY <1>5 DEF cmd_exit
    <2>2. cl[c].fd = 0
      BY <1>0, <2>1
    <2>3. /\ cl'[c].pc = "exited" /\ cl'[c].fd = cl[c].fd
          /\ \A d \in Clients \ {c} : cl'[d] = cl[d]
      BY <2>1, Dies
    <2> QED BY <2>1, <2>2, <2>3
  <1> QED BY <1>1, <1>2, <1>3, <1>4, <1>5 DEF Command

(* After the only connection was broken off nothing happens on it that a   *)
(* client could see.                                                       *)
LEMMA StaysBroken ==
    ASSUME Inv, BrokenOff, [Next]_vars PROVE BrokenOff'
  <1>1. CASE UNCHANGED vars
    BY <1>1 DEF vars, wireVars, BrokenOff
  <1>2. CASE ServerNext
    BY <1>2, ServerKeeps DEF BrokenOff
  <1>3. CASE ClientNext
    <2>1. PICK c \in Clients : Command(c) \/ ClientStep(c) \/ Interrupt(c)
      BY <1>3 DEF ClientNext
    <2>2. /\ UNCHANGED nconn /\ cl[c].fd = 0 /\ cl'[c].fd = 0
          /\ cl[c].pc = "prompt" /\ cl'[c].pc \in {"prompt", "exited"}
          /\ \A d \in Clients \ {c} : cl'[d] = cl[d]
      BY <2>1, BrokenClient
    <2>3. \E d \in Clients \ {c} : cl[d].pc = "aborted"
      BY <2>2 DEF BrokenOff
    <2> QED BY <2>2, <2>3 DEF BrokenOff
  <1> QED BY <1>1, <1>2, <1>3 DEF Next

(* The invariant is kept by every step.                                    *)
LEMMA SyncNext ==
    ASSUME FairUse, Inv, SyncInv, [Next]_vars PROVE SyncInv'
  <1>1. CASE BrokenOff
    BY <1>1, StaysBroken DEF SyncInv
  <1>2. CASE Together /\ UNCHANGED vars
    BY <1>2 DEF vars, wireVars, serverVars, SyncInv, Together, Entering, Owners
  <1>3. CASE Together /\ ServerNext
    BY <1>3, SyncMain, SyncSession DEF ServerNext, SyncInv
  <1>4. CASE Together /\ ClientNext
    BY <1>4, SyncClient DEF ClientNext, SyncInv
  <1> QED BY <1>1, <1>2, <1>3, <1>4 DEF Next, SyncInv

(* The setting is constant.                                                *)
LEMMA SyncAlways == FairUse => (Spec => [](Inv /\ SyncInv))
  <1> SUFFICES ASSUME FairUse PROVE Spec => [](Inv /\ SyncInv)
    OBVIOUS
  <1>1. Init => Inv /\ SyncInv
    BY InitInv, SyncStarts DEF SyncInv
  <1>2. Inv /\ SyncInv /\ [Next]_vars => (Inv /\ SyncInv)'
    BY NextInv, SyncNext
  <1> QED BY <1>1, <1>2, PTL DEF Spec

(* A command returns in a step of the client that gave it.                 *)
LEMMA ReturnsBy ==
    ASSUME FairUse, Inv, SyncInv, [Next]_vars, NEW c \in Clients,
           cl[c].pc # "prompt", cl'[c].pc = "prompt"
    PROVE  Together /\ ClientStep(c) /\ UNCHANGED serverVars
  <1>1. cl'[c] # cl[c]
    OBVIOUS
  <1>2. ClientNext
    BY <1>1, ServerKeeps DEF Next, vars
  <1>3. PICK a \in Clients : Command(a) \/ ClientStep(a) \/ Interrupt(a)
    BY <1>2 DEF ClientNext
  <1>4. Together
    <2> SUFFICES ASSUME BrokenOff PROVE FALSE
      BY DEF SyncInv
    <2>1. cl[a].pc = "prompt" /\ \A d \in Clients \ {a} : cl'[d] = cl[d]
      BY <1>3, BrokenClient
    <2> QED BY <1>1, <2>1
  <1>5. \A p : GoOn(a, p) => cl'[a] = p /\ \A d \in Clients \ {a} : cl'[d] = cl[d]
    BY WireIs DEF GoOn
  <1>6. CASE Command(a)
    <2>1. cl[a].pc = "prompt"
      BY <1>6 DEF Command, cmd_open, CONNECT_CHECK, cmd_ls, cmd_pwd, cmd_cd, cmd_get,
         cmd_put, Ask, Idle, cmd_exit
    <2>2. \E p : GoOn(a, p)
      BY <1>6 DEF Command, cmd_open, CONNECT_CHECK, cmd_ls, cmd_pwd, cmd_cd, cmd_get,
         cmd_put, cmd_exit, Die
    <2> QED BY <1>1, <1>5, <2>1, <2>2
  <1>7. CASE Interrupt(a)
    <2>1. Die(a, "aborted", ExitSent(a))
      BY <1>7 DEF Interrupt, sig_exit
    <2>2. cl'[a].pc = "aborted" /\ \A d \in Clients \ {a} : cl'[d] = cl[d]
      BY <2>1, Dies
    <2> QED BY <1>1, <2>2
  <1>8. CASE ClientStep(a)
    <2>1. \E p : GoOn(a, p)
      BY <1>8 DEF ClientStep, PRINT_RESPONSE_BODY, GetHead, recv_file, PutBody, PutAck, Die
    <2>2. a = c
      BY <1>1, <1>5, <2>1
    <2> QED BY <1>2, <1>4, <1>8, <2>2 DEF ClientNext
  <1> QED BY <1>3, <1>6, <1>7, <1>8

(* In which step, and with what done.                                      *)
LEMMA ReturnsWith ==
    ASSUME FairUse, Inv, SyncInv, [Next]_vars, NEW c \in Clients,
           cl[c].pc # "prompt", cl'[c].pc = "prompt"
    PROVE  \/ /\ cl[c].cmd \in {"LS", "PWD", "CD"}
              /\ Shows(cl'[c].shown, cl[c].cmd, cl[c].arg, fs, cwd)
           \/ cl[c].cmd = "GET" /\ Delivered(c)
           \/ cl[c].cmd = "PUT" /\ Stored(c)
  <1>1. Together /\ ClientStep(c) /\ UNCHANGED serverVars
    BY ReturnsBy
  <1>2. cl[c].fd # 0
    <2>1. cl[c].pc \notin {"prompt", "exited"}
      BY <1>1 DEF ClientStep, PRINT_RESPONSE_BODY, GetHead, recv_file, PutBody, PutAck
    <2> QED BY <1>1, <2>1 DEF Together, Owners
  <1>3. PICK k \in Conns : InStep(cl[c], th[k], net[k], buf, msg, fs, cwd)
    BY <1>1, <1>2, ClientHas DEF OnConn
  <1>4. CASE PRINT_RESPONSE_BODY(c)
    <2>1. cl[c].cmd \in {"LS", "PWD", "CD"}
      BY <1>3, <1>4 DEF PRINT_RESPONSE_BODY, InStep, Printing
    <2> QED BY <1>1, <1>4, <2>1, SyncPrint
  <1>5. CASE GetHead(c)
    <2>1. cl[c].cmd = "GET"
      BY <1>3, <1>5 DEF GetHead, InStep, Heading
    <2> QED BY <1>1, <1>5, <2>1, SyncGetHead
  <1>6. CASE recv_file(c)
    BY <1>1, <1>6, SyncRecvFile
  <1>7. CASE PutAck(c)
    <2>1. cl[c].cmd = "PUT"
      BY <1>3, <1>7 DEF PutAck, InStep, Putting
    <2> QED BY <1>1, <1>7, <2>1, SyncPutAck
  <1>8. CASE PutBody(c)
    <2>1. \A p : GoOn(c, p) => cl'[c] = p
      BY WireIs DEF GoOn
    <2>2. cl[c] \in ClientState
      BY WireIs
    <2>3. cl'[c].pc # "prompt"
      <3>1. CASE Die(c, "aborted", net)
        BY <3>1, Dies
      <3>2. CASE ~ Die(c, "aborted", net)
        <4>1. PICK last, chunk :
                 /\ last = Lesser(cl[c].pos + BufUnits, cl[c].size)
                 /\ chunk = SubSeq(Content(cl[c].arg, cl[c].size), cl[c].pos + 1, last)
          OBVIOUS
        <4>2. PICK pos, pc :
                 /\ pos = (IF chunk = <<>> THEN cl[c].pos ELSE last)
                 /\ pc = (IF chunk = <<>> THEN "put_ack" ELSE "put_body")
          OBVIOUS
        <4>3. PICK p : p = [cl[c] EXCEPT !.pos = pos, !.pc = pc]
          OBVIOUS
        <4>4. GoOn(c, p)
          BY <1>8, <3>2, <4>1, <4>2, <4>3 DEF PutBody
        <4>5. p.pc = pc /\ pc # "prompt"
          BY <2>2, <4>2, <4>3 DEF ClientState
        <4> QED BY <2>1, <4>4, <4>5
      <3> QED BY <3>1, <3>2
    <2> QED BY <2>3
  <1> QED BY <1>1, <1>4, <1>5, <1>6, <1>7, <1>8 DEF ClientStep

-----------------------------------------------------------------------------

(* Between two commands nothing is left on the connection: for any number  *)
(* of orderly clients, and for one client that may break off a command by  *)
(* SIGINT or upload a file it does not have, as long as recv returns what  *)
(* one send wrote.                                                         *)
THEOREM PromptsInSync == FairUse => (Spec => []PromptInSync)
  <1>1. Inv /\ SyncInv => PromptInSync
    <2> SUFFICES ASSUME SyncInv, NEW c \in Clients, cl[c].pc = "prompt", cl[c].fd # 0
                 PROVE  net[cl[c].fd].c2s = <<>> /\ net[cl[c].fd].s2c = <<>>
      BY DEF PromptInSync
    <2>1. Together
      BY DEF SyncInv, BrokenOff
    <2> QED BY <2>1 DEF Together, InStep
  <1> QED BY <1>1, SyncAlways, PTL

(* The server does not die of commands that run to their end.              *)
THEOREM DeathsNeedAbort == FairUse => (Spec => []DeathNeedsAbort)
  <1>1. Inv /\ SyncInv => DeathNeedsAbort
    BY DEF SyncInv, Together, BrokenOff, DeathNeedsAbort
  <1> QED BY <1>1, SyncAlways, PTL

(* What ls, pwd and cd print is the server's answer to that very command.  *)
THEOREM CommandsAnswered == FairUse => (Spec => AnswersCommand)
  <1> SUFFICES ASSUME FairUse PROVE Spec => AnswersCommand
    OBVIOUS
  <1>1. ASSUME Inv, SyncInv, [Next]_vars, NEW c \in Clients
        PROVE  /\ Returns(c, "LS") =>
                  IF cl[c].arg = NoSuch THEN cl'[c].shown = <<Text(NoSuch)>>
                  ELSE LET S == {f \in Files : fs[Path(cl[c].arg)][f] # Absent}
                       IN  TextsOf(cl'[c].shown) = S /\ Len(cl'[c].shown) = Cardinality(S)
               /\ Returns(c, "PWD") => cl'[c].shown = <<Text(cwd)>>
               /\ Returns(c, "CD") =>
                  cl'[c].shown = IF cl[c].arg = NoSuch THEN <<Text(NoSuch), Text(cwd)>>
                                 ELSE <<Text(Path(cl[c].arg))>>
    <2>1. ASSUME NEW cmd \in {"LS", "PWD", "CD"}, Returns(c, cmd)
          PROVE  cl[c].cmd = cmd /\ Shows(cl'[c].shown, cmd, cl[c].arg, fs, cwd)
      BY <1>1, <2>1, ReturnsWith DEF Returns
    <2>2. CASE Returns(c, "LS")
      BY <2>1, <2>2 DEF Shows, Path, Returns
    <2>3. CASE Returns(c, "PWD")
      BY <2>1, <2>3 DEF Shows, Returns
    <2>4. CASE Returns(c, "CD")
      BY <2>1, <2>4 DEF Shows, Path, Returns
    <2> QED BY <2>2, <2>3, <2>4
  <1>2. Inv /\ SyncInv /\ [Next]_vars =>
          [ \A c \in Clients :
          LET shown == cl'[c].shown
              d == cl[c].arg
          IN
          /\ Returns(c, "LS") =>
                IF d = NoSuch THEN shown = <<Text(NoSuch)>>
                ELSE LET S == {f \in Files : fs[Path(d)][f] # Absent}
                     IN  TextsOf(shown) = S /\ Len(shown) = Cardinality(S)
          /\ Returns(c, "PWD") => shown = <<Text(cwd)>>
          /\ Returns(c, "CD") =>
                shown = IF d = NoSuch THEN <<Text(NoSuch), Text(cwd)>>
                        ELSE <<Text(Path(d))>> ]_vars
    BY <1>1
  <1> QED BY <1>2, SyncAlways, PTL DEF Spec, AnswersCommand

(* A get that returns without an error has written the server's file, and  *)
(* it fails only for a file the server does not have; the names asked for  *)
(* are not directories (what get makes of one is FtGetDir's finding).      *)
THEOREM GetsDeliver == FairUse /\ Targets \cap Dirs = {} => (Spec => GetDelivers)
  <1> SUFFICES ASSUME FairUse, Targets \cap Dirs = {} PROVE Spec => GetDelivers
    OBVIOUS
  <1>1. ASSUME Inv, SyncInv, [Next]_vars, NEW c \in Clients, Returns(c, "GET")
        PROVE  IF cl'[c].ok THEN cl'[c].out = Stat(cwd, cl[c].arg)
                            ELSE Stat(cwd, cl[c].arg) = Absent
    <2>1. Delivered(c) /\ cl'[c].pc = "prompt"
      BY <1>1, ReturnsWith DEF Returns
    <2>2. cl[c].arg \in Targets
      <3>1. Together /\ ClientStep(c) /\ cl[c].cmd = "GET"
        BY <1>1, ReturnsBy DEF Returns
      <3>2. cl[c].pc \notin {"prompt", "exited"}
        BY <3>1 DEF ClientStep, PRINT_RESPONSE_BODY, GetHead, recv_file, PutBody, PutAck
      <3>3. cl[c].fd # 0
        BY <3>1, <3>2 DEF Together, Owners
      <3>4. PICK k \in Conns : InStep(cl[c], th[k], net[k], buf, msg, fs, cwd)
        BY <1>1, <3>1, <3>3, ClientHas DEF OnConn
      <3> QED BY <3>1, <3>2, <3>4 DEF InStep, Printing, Heading, Getting, Putting
    <2> QED BY <2>1, <2>2 DEF Delivered
  <1>2. Inv /\ SyncInv /\ [Next]_vars =>
          [ \A c \in Clients : Returns(c, "GET") =>
            IF cl'[c].ok THEN cl'[c].out = Stat(cwd, cl[c].arg)
                         ELSE Stat(cwd, cl[c].arg) = Absent ]_vars
    BY <1>1
  <1> QED BY <1>2, SyncAlways, PTL DEF Spec, GetDelivers

(* A put that returns has been acknowledged, and the server's file is then *)
(* the local one.                                                          *)
THEOREM PutsStore == FairUse => (Spec => PutStores)
  <1> SUFFICES ASSUME FairUse PROVE Spec => PutStores
    OBVIOUS
  <1>1. ASSUME Inv, SyncInv, [Next]_vars, NEW c \in Clients, Returns(c, "PUT")
        PROVE  cl'[c].ok /\ fs[cwd][cl[c].arg] = Content(cl[c].arg, cl[c].size)
    BY <1>1, ReturnsWith DEF Returns, Stored
  <1>2. Inv /\ SyncInv /\ [Next]_vars =>
          [ \A c \in Clients : Returns(c, "PUT") =>
            /\ cl'[c].ok
            /\ fs[cwd][cl[c].arg] = Content(cl[c].arg, cl[c].size) ]_vars
    BY <1>1
  <1> QED BY <1>2, SyncAlways, PTL DEF Spec, PutStores
=============================================================================

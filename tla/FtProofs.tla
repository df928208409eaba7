------------------------------ MODULE FtProofs ------------------------------
(***************************************************************************)
(* Type correctness of the file-transfer system and the safety of the      *)
(* handles its handlers use, for every number of clients, connections,     *)
(* files and cells per buffer, whatever the users do.                      *)
(***************************************************************************)
EXTENDS Ft, FiniteSetTheorems, TLAPS

USE DEF Conns

-----------------------------------------------------------------------------
(* The operators of the wire.                                              *)

(* Sending cells puts flits on the stream.                                 *)
LEMMA PacketType ==
    ASSUME NEW cells \in Seq(Cell)
    PROVE  Packet(cells) \in Seq(Flit)
  BY DEF Packet, Flit

(* Receiving takes cells off the stream.                                   *)
LEMMA CellsType ==
    ASSUME NEW q \in Seq(Flit), NEW n \in 1 .. Len(q)
    PROVE  /\ Cells(q, n) \in Seq(Cell)
           /\ Len(Cells(q, n)) = n
           /\ Rest(q, n) \in Seq(Flit)
  <1>0. \A m \in 1 .. Len(q) : q[m] \in Flit
    OBVIOUS
  <1>1. \A m \in 1 .. Len(q) : q[m].c \in Cell
    BY <1>0 DEF Flit
  <1>2. Cells(q, n) \in Seq(Cell) /\ Len(Cells(q, n)) = n
    BY <1>1 DEF Cells
  <1>3. Rest(q, n) \in Seq(Flit)
    BY DEF Rest
  <1> QED BY <1>2, <1>3

(* What recv may return: an error, the end of the stream, or as many cells *)
(* as are there and fit.                                                   *)
LEMMA ResultsType ==
    ASSUME NEW q \in Seq(Flit), NEW cap \in Nat \ {0},
           NEW mine, NEW theirs, NEW reset,
           NEW n \in Results(q, cap, mine, theirs, reset)
    PROVE  /\ n \in -1 .. cap
           /\ n > 0 => n \in 1 .. Len(q)
  BY DEF Results, RecvLens, Lesser

(* Overwriting the start of a buffer leaves a buffer.                      *)
LEMMA OverlayType ==
    ASSUME NEW a \in Buffer, NEW cells \in Seq(Cell)
    PROVE  Overlay(a, cells) \in Buffer
  BY WireAssumption DEF Overlay, Buffer

(* Everything the programs put on the wire is a cell.                      *)
LEMMA CellTypes ==
    /\ Zero \in Cell
    /\ End \in Cell
    /\ \A f \in Names : Text(f) \in Cell /\ Failure(f) \in Cell
    /\ \A n \in Nat : Header(n) \in Cell
    /\ \A f \in Names, n \in Nat : PutHead(f, n) \in Cell /\ Body(f, n) \in Cell
    /\ \A k \in Requests, f \in Names : Request(k, f) \in Cell
  BY DEF Zero, End, Text, Failure, Header, PutHead, Body, Request, Cell, Kinds,
         Names, Requests

(* A file of s cells is a sequence of s cells.                             *)
LEMMA ContentType ==
    ASSUME NEW f \in Names, NEW s \in Nat
    PROVE  Content(f, s) \in Seq(Cell) /\ Len(Content(f, s)) = s
  BY CellTypes DEF Content

(* A piece of a sequence within its bounds.                                *)
LEMMA PieceType ==
    ASSUME NEW S, NEW s \in Seq(S), NEW a \in Nat \ {0}, NEW b \in Int,
           b <= Len(s)
    PROVE  SubSeq(s, a, b) \in Seq(S)
  OBVIOUS

(* ... and its length.                                                     *)
LEMMA PieceLen ==
    ASSUME NEW S, NEW s \in Seq(S), NEW a \in Nat, NEW b \in Int,
           b <= Len(s), NEW m \in Nat, b <= a + m
    PROVE  Len(SubSeq(s, a + 1, b)) <= m
  OBVIOUS

(* An empty file is not a missing one.                                     *)
LEMMA EmptyType == <<>> \in Seq(Cell) /\ <<>> # Absent
  <1>1. <<>> \in Seq(Cell)
    OBVIOUS
  <1>2. \A s \in Seq(Cell) : s # Absent
    BY ServerAssumption
  <1> QED BY <1>1, <1>2

(* Appending keeps the element type, and appending one gives something.    *)
LEMMA ConcatType ==
    ASSUME NEW S, NEW s \in Seq(S), NEW r \in Seq(S)
    PROVE  /\ s \o r \in Seq(S)
           /\ Len(r) = 1 => s \o r # <<>>
  <1>1. s \o r \in Seq(S)
    OBVIOUS
  <1>2. Len(s \o r) = Len(s) + Len(r)
    OBVIOUS
  <1>3. Len(s) \in Nat /\ Len(<<>>) = 0
    OBVIOUS
  <1> QED BY <1>1, <1>2, <1>3

-----------------------------------------------------------------------------
(* The inductive invariant: types alone do not carry over a step, because  *)
(* a thread's file and answer have to exist when it uses them.             *)
Inv == TypeOK /\ HandlesHeld

(* No existing file becomes a missing one.                                 *)
FilesStay ==
    \A d \in Dirs, f \in Files : fs[d][f] # Absent => fs'[d][f] # Absent

(* A step that changes one thread and keeps the files leaves the other     *)
(* threads their handles.                                                  *)
LEMMA HeldFrame ==
    ASSUME Inv, NEW i \in Conns, NEW t \in Thread,
           th' = [th EXCEPT ![i] = t], Held(t, fs'), FilesStay
    PROVE  \A j \in Conns : Held(th'[j], fs')
  <1>1. \A j \in Conns : th[j].dir \in Dirs
    BY DEF Inv, TypeOK, ServerTypeOK, Thread
  <1>2. th'[i] = t /\ \A j \in Conns \ {i} : th'[j] = th[j]
    BY DEF Inv, TypeOK, ServerTypeOK
  <1>3. TAKE j \in Conns
  <1>4. CASE j = i
    BY <1>2, <1>4
  <1>5. CASE j # i
    BY <1>1, <1>2, <1>5 DEF Inv, HandlesHeld, Held, Reads, Writes, FilesStay
  <1> QED BY <1>4, <1>5

(* Clients keep theirs while the server moves.                             *)
LEMMA ClientFrame ==
    ASSUME Inv, UNCHANGED cl, \A j \in Conns : Held(th'[j], fs')
    PROVE  ClientTypeOK' /\ HandlesHeld'
  BY DEF Inv, TypeOK, ClientTypeOK, HandlesHeld

(* A step that changes at most thread i of the server, keeps the types and *)
(* gives that thread the handles it needs.                                 *)
LEMMA SessionFrame ==
    ASSUME Inv, NEW i \in Conns, NEW t \in Thread,
           Become(i, t), Held(t, fs'), FilesStay, WireTypeOK', UNCHANGED cl,
           main' \in MainState, buf' \in Buffer, msg' \in Buffer,
           fs' \in FileSystem, cwd' \in Dirs
    PROVE  Inv'
  <1>1. th' \in [Conns -> Thread]
    BY DEF Inv, TypeOK, ServerTypeOK, Become
  <1>2. \A j \in Conns : Held(th'[j], fs')
    BY HeldFrame DEF Become
  <1> QED BY <1>1, <1>2, ClientFrame DEF Inv, TypeOK, ServerTypeOK

(* The programs start with every variable in its type and no handler       *)
(* running.                                                                *)
THEOREM InitInv == Init => Inv
  <1> SUFFICES ASSUME Init PROVE Inv
    OBVIOUS
  <1>1. WireTypeOK
    BY WireAssumption DEF Init, WireInit, WireTypeOK, NoConn, Endpoint
  <1>2. PICK files \in FirstFiles : ServerInit(Home, files)
    BY DEF Init
  <1>3. files \in FileSystem
    <2>1. \A f \in Files, s \in FirstSizes : Content(f, s) \in Seq(Cell)
      BY ContentType, FtAssumption DEF Names
    <2> QED BY <2>1 DEF FirstFiles, FileSystem
  <1>4. ServerTypeOK
    <2>1. ZeroBuf \in Buffer
      BY CellTypes DEF ZeroBuf, Buffer
    <2>2. NewThread(Home) \in Thread
      BY FtAssumption, WireAssumption DEF NewThread, Thread, ThreadPc, AfterSend, Names
    <2> QED BY <1>2, <1>3, <2>1, <2>2, FtAssumption, WireAssumption
            DEF ServerInit, ServerTypeOK, MainState
  <1>5. ClientTypeOK
    BY ClientAssumption, WireAssumption
       DEF Init, ClientInit, ClientTypeOK, NewClient, ClientState, ClientPc,
           Requests, Names
  <1>6. HandlesHeld
    BY <1>2 DEF ServerInit, NewThread, Init, ClientInit, NewClient, HandlesHeld,
           Held, Reads, Writes, Gone
  <1> QED BY <1>1, <1>4, <1>5, <1>6 DEF Inv, TypeOK

(* Accepting a connection and creating its thread.                         *)
LEMMA MainInv ==
    ASSUME Inv, Main, UNCHANGED cl
    PROVE  Inv'
  <1> USE WireAssumption
  <1>1. CASE Accept
    <2>1. Head(backlog) \in Conns /\ Tail(backlog) \in Seq(Conns)
      BY <1>1 DEF Inv, TypeOK, WireTypeOK, Accept
    <2>2. WireTypeOK'
      BY <1>1, <2>1 DEF Inv, TypeOK, WireTypeOK, Accept
    <2>3. main' \in MainState
      <3>1. main \in MainState
        BY DEF Inv, TypeOK, ServerTypeOK
      <3>2. main' = [main EXCEPT !.pc = "create", !.fd = Head(backlog)]
        BY <1>1 DEF Accept
      <3>3. PICK k \in 0 .. MaxConns : k = Head(backlog)
        BY <2>1
      <3> QED BY <3>1, <3>2, <3>3 DEF MainState
    <2>4. ServerTypeOK'
      BY <1>1, <2>3 DEF Inv, TypeOK, ServerTypeOK, Accept
    <2>5. \A j \in Conns : Held(th'[j], fs')
      BY <1>1 DEF Inv, HandlesHeld, Accept, Held, Reads, Writes
    <2> QED BY <2>2, <2>4, <2>5, ClientFrame DEF Inv, TypeOK
  <1>2. CASE ThrdCreate
    <2>1. PICK i \in Conns : i = main.made + 1
      BY <1>2 DEF Inv, TypeOK, ServerTypeOK, MainState, ThrdCreate
    <2>2. WireTypeOK'
      BY <1>2 DEF Inv, TypeOK, WireTypeOK, ThrdCreate, wireVars
    <2>3. th[i] \in Thread
      BY DEF Inv, TypeOK, ServerTypeOK
    <2>4. PICK t : t = [th[i] EXCEPT !.pc = "start"]
      OBVIOUS
    <2>5. t \in Thread
      BY <2>3, <2>4 DEF Thread, ThreadPc
    <2>6. t.pc = "start"
      BY <2>3, <2>4 DEF Thread
    <2>7. Held(t, fs')
      BY <2>6 DEF Held, Reads, Writes
    <2>8. main' \in MainState
      <3>1. main \in MainState
        BY DEF Inv, TypeOK, ServerTypeOK
      <3>2. main' = [main EXCEPT !.pc = "accept", !.made = @ + 1]
        BY <1>2 DEF ThrdCreate
      <3>3. PICK k \in 0 .. MaxConns : k = main.made + 1
        BY <2>1
      <3>4. main' = [main EXCEPT !.pc = "accept", !.made = k]
        BY <3>2, <3>3
      <3> QED BY <3>1, <3>3, <3>4 DEF MainState
    <2>9. Become(i, t)
      BY <1>2, <2>1, <2>4 DEF ThrdCreate, Become
    <2> QED BY <1>2, <2>2, <2>5, <2>7, <2>8, <2>9, SessionFrame
            DEF ThrdCreate, Inv, TypeOK, ServerTypeOK, FilesStay
  <1> QED BY <1>1, <1>2 DEF Main

-----------------------------------------------------------------------------
(* The parts of the session's steps.                                       *)

(* What the invariant says about one thread and the server's globals.      *)
LEMMA ThreadType ==
    ASSUME Inv, NEW i \in Conns
    PROVE  /\ th[i] \in Thread
           /\ Held(th[i], fs)
           /\ main \in MainState /\ buf \in Buffer /\ msg \in Buffer
           /\ fs \in FileSystem /\ cwd \in Dirs
  BY DEF Inv, TypeOK, ServerTypeOK, HandlesHeld

(* buf[n] = 0 leaves buffers, and the request byte is a cell.              *)
LEMMA SwitchType ==
    ASSUME Inv, NEW i \in Conns
    PROVE  /\ Terminated(th[i].n) \in Buffer
           /\ \A m \in Overrun(th[i].n) : m \in Buffer
           /\ Seen(i) \in Cell
           /\ Seen(i).f \in Names
           /\ Seen(i).n \in Nat
  <1>1. buf \in Buffer /\ msg \in Buffer /\ Zero \in Cell
    BY ThreadType, CellTypes
  <1>2. Terminated(th[i].n) \in Buffer
    BY <1>1 DEF Terminated, Buffer
  <1>3. \A m \in Overrun(th[i].n) : m \in Buffer
    BY <1>1 DEF Overrun, Buffer
  <1>4. Seen(i) \in Cell
    BY <1>2, WireAssumption DEF Seen, Buffer
  <1> QED BY <1>2, <1>3, <1>4 DEF Cell

(* A thread that starts to answer.                                         *)
LEMMA AnswerFrame ==
    ASSUME Inv, NEW i \in Conns,
           NEW replies \in Seq(Reply), replies # <<>>,
           NEW next \in AfterSend, next # "fread",
           Answer(i, replies, next), FilesStay, WireTypeOK', UNCHANGED cl,
           main' \in MainState, buf' \in Buffer, msg' \in Buffer,
           fs' \in FileSystem, cwd' \in Dirs
    PROVE  Inv'
  <1>1. PICK t : t = [th[i] EXCEPT !.pc = "fill", !.todo = replies,
                                   !.next = next]
    OBVIOUS
  <1>2. th[i] \in Thread
    BY ThreadType
  <1>3. t \in Thread
    BY <1>1, <1>2 DEF Thread, ThreadPc, AfterSend
  <1>4. t.pc = "fill" /\ t.todo = replies /\ t.next = next
    BY <1>1, <1>2 DEF Thread
  <1>5. Held(t, fs')
    BY <1>4 DEF Held, Reads, Writes
  <1>6. Become(i, t)
    BY <1>1 DEF Answer
  <1> QED BY <1>3, <1>5, <1>6, SessionFrame

(* A piece that fits the buffer, and a single cell, make an answer.        *)
LEMMA ReplyTypes ==
    /\ \A b \in {"buf", "msg", "own"} : \A cells \in Piece :
          Via(b, cells) \in Reply
    /\ \A b \in {"buf", "msg", "own"} : \A c \in Cell :
          Via(b, <<c>>) \in Reply
  <1>1. \A c \in Cell : <<c>> \in Piece
    BY WireAssumption DEF Piece
  <1> QED BY <1>1 DEF Via, Reply

(* A step of thread i that leaves everything but threads alone.            *)
LEMMA StartInv ==
    ASSUME Inv, NEW i \in Conns, SessionStart(i), UNCHANGED cl
    PROVE  Inv'
  <1>1. PICK t : t = [th[i] EXCEPT !.pc = "recv", !.fd = main.fd]
    OBVIOUS
  <1>2. th[i] \in Thread /\ main.fd \in 0 .. MaxConns
    BY ThreadType DEF MainState
  <1>3. t \in Thread /\ t.pc = "recv"
    BY <1>1, <1>2 DEF Thread, ThreadPc
  <1>4. Held(t, fs')
    BY <1>3 DEF Held, Reads, Writes
  <1>5. Become(i, t)
    BY <1>1 DEF SessionStart
  <1>6. WireTypeOK'
    BY DEF Inv, TypeOK, WireTypeOK, SessionStart, wireVars
  <1> QED BY <1>3, <1>4, <1>5, <1>6, ThreadType, SessionFrame
          DEF SessionStart, FilesStay

(* recv into the shared buffer.                                            *)
LEMMA RecvType ==
    ASSUME Inv, NEW i \in Conns, NEW n \in SrvResults(th[i].fd),
           RecvInto(i, n), UNCHANGED <<nconn, backlog, up>>
    PROVE  n \in -1 .. BufUnits /\ buf' \in Buffer /\ WireTypeOK'
  <1> DEFINE k == th[i].fd
  <1>1. buf \in Buffer /\ net \in [Conns -> Endpoint]
    BY ThreadType DEF Inv, TypeOK, WireTypeOK
  <1>2. n \in -1 .. BufUnits /\ (n > 0 => k \in Conns /\ n \in 1 .. Len(net[k].c2s))
    <2>1. CASE k \in Conns
      <3>1. net[k].c2s \in Seq(Flit)
        BY <1>1, <2>1 DEF Endpoint
      <3> QED BY <2>1, <3>1, ResultsType, WireAssumption DEF SrvResults
    <2>2. CASE k \notin Conns
      BY <2>2, WireAssumption DEF SrvResults
    <2> QED BY <2>1, <2>2
  <1>3. CASE n > 0
    <2>1. net[k] \in Endpoint /\ net[k].c2s \in Seq(Flit)
      BY <1>1, <1>2, <1>3 DEF Endpoint
    <2>2. Cells(net[k].c2s, n) \in Seq(Cell) /\ Rest(net[k].c2s, n) \in Seq(Flit)
      BY <1>2, <1>3, <2>1, CellsType
    <2>3. buf' \in Buffer
      BY <1>1, <1>3, <2>2, OverlayType DEF RecvInto
    <2>4. net' \in [Conns -> Endpoint]
      BY <1>1, <1>3, <2>1, <2>2 DEF RecvInto, Endpoint
    <2> QED BY <1>2, <2>3, <2>4 DEF Inv, TypeOK, WireTypeOK
  <1>4. CASE ~(n > 0)
    BY <1>1, <1>2, <1>4 DEF RecvInto, Inv, TypeOK, WireTypeOK
  <1> QED BY <1>3, <1>4

(* The session's recv.                                                     *)
LEMMA SessionRecvInv ==
    ASSUME Inv, NEW i \in Conns, SessionRecv(i), UNCHANGED cl
    PROVE  Inv'
  <1>1. PICK n \in SrvResults(th[i].fd) :
            /\ RecvInto(i, n)
            /\ Become(i, [th[i] EXCEPT !.pc = "dispatch", !.n = n])
    BY DEF SessionRecv
  <1>2. n \in -1 .. BufUnits /\ buf' \in Buffer /\ WireTypeOK'
    BY <1>1, RecvType DEF SessionRecv
  <1>3. PICK t : t = [th[i] EXCEPT !.pc = "dispatch", !.n = n]
    OBVIOUS
  <1>4. t \in Thread /\ t.pc = "dispatch"
    BY <1>2, <1>3, ThreadType DEF Thread, ThreadPc
  <1>5. Held(t, fs')
    BY <1>4 DEF Held, Reads, Writes
  <1> QED BY <1>1, <1>2, <1>3, <1>4, <1>5, ThreadType, SessionFrame
          DEF SessionRecv, FilesStay

-----------------------------------------------------------------------------
(* The handlers.                                                           *)

(* response_ls: the answers are one cell per entry, then END.              *)
LEMMA LsInv ==
    ASSUME Inv, NEW i \in Conns, response_ls(i), UNCHANGED cl
    PROVE  Inv'
  <1>1. /\ WireTypeOK' /\ main' \in MainState /\ fs' \in FileSystem
        /\ cwd' \in Dirs /\ FilesStay
    BY ThreadType DEF response_ls, wireVars, Inv, TypeOK, WireTypeOK, FilesStay
  <1>2. buf' \in Buffer
    BY SwitchType DEF response_ls, Switch
  <1>3. "recv" \in AfterSend
    BY DEF AfterSend
  <1>4. CASE Path(Seen(i).f) \notin Dirs
    <2>1. PICK r : r = << Via("msg", <<Text(Seen(i).f)>>), Via("msg", <<End>>) >>
      OBVIOUS
    <2>2. r \in Seq(Reply) /\ r # <<>>
      BY <2>1, SwitchType, CellTypes, ReplyTypes
    <2>3. Answer(i, r, "recv") /\ msg' = ZeroBuf
      BY <1>4, <2>1 DEF response_ls
    <2>4. msg' \in Buffer
      BY <2>3, CellTypes DEF ZeroBuf, Buffer
    <2> QED BY <1>1, <1>2, <1>3, <2>2, <2>3, <2>4, AnswerFrame
  <1>5. CASE Path(Seen(i).f) \in Dirs
    <2>1. PICK e \in Listings(Path(Seen(i).f)) :
            Answer(i, [j \in 1 .. Len(e) |-> Via("buf", <<Text(e[j])>>)]
                        \o << Via("buf", <<End>>) >>, "recv")
      BY <1>5 DEF response_ls
    <2>2. e \in Seq(Files)
      <3>1. PICK S : S = {f \in Files : fs[Path(Seen(i).f)][f] # Absent}
        OBVIOUS
      <3>2. IsFiniteSet(S)
        BY <3>1, FS_Subset, ServerAssumption
      <3>3. Cardinality(S) \in Nat
        BY <3>2, FS_CardinalityType
      <3>4. e \in [1 .. Cardinality(S) -> S]
        BY <2>1, <3>1 DEF Listings
      <3>5. PICK m \in Nat : m = Cardinality(S)
        BY <3>3
      <3>6. e \in [1 .. m -> Files]
        BY <3>1, <3>4, <3>5
      <3> QED BY <3>6
    <2>3. PICK r1 : r1 = [j \in 1 .. Len(e) |-> Via("buf", <<Text(e[j])>>)]
      OBVIOUS
    <2>4. \A j \in 1 .. Len(e) : Via("buf", <<Text(e[j])>>) \in Reply
      BY <2>2, CellTypes, ReplyTypes DEF Names
    <2>5. r1 \in Seq(Reply)
      BY <2>2, <2>3, <2>4
    <2>6. PICK r2 : r2 = << Via("buf", <<End>>) >>
      OBVIOUS
    <2>7. r2 \in Seq(Reply) /\ Len(r2) = 1
      BY <2>6, CellTypes, ReplyTypes
    <2>8. r1 \o r2 \in Seq(Reply) /\ r1 \o r2 # <<>>
      BY <2>5, <2>7, ConcatType
    <2>9. Answer(i, r1 \o r2, "recv")
      BY <2>1, <2>3, <2>6
    <2>10. msg' \in Buffer
      BY <1>5, SwitchType DEF response_ls
    <2> QED BY <1>1, <1>2, <1>3, <2>8, <2>9, <2>10, AnswerFrame
  <1> QED BY <1>4, <1>5

(* The answer of response_pwd.                                             *)
LEMMA PwdRepliesType ==
    ASSUME Inv
    PROVE  PwdReplies \in Seq(Reply) /\ PwdReplies # <<>>
  <1>1. cwd \in Names
    BY DEF Inv, TypeOK, ServerTypeOK, Names
  <1> QED BY <1>1, CellTypes, ReplyTypes DEF PwdReplies

(* response_pwd as a request of its own.                                   *)
LEMMA PwdInv ==
    ASSUME Inv, NEW i \in Conns, response_pwd(i), UNCHANGED cl
    PROVE  Inv'
  <1>1. /\ WireTypeOK' /\ main' \in MainState /\ fs' \in FileSystem
        /\ cwd' \in Dirs /\ FilesStay
    BY ThreadType DEF response_pwd, wireVars, Inv, TypeOK, WireTypeOK, FilesStay
  <1>2. buf' \in Buffer /\ msg' \in Buffer
    BY SwitchType DEF response_pwd, Switch
  <1>3. Answer(i, PwdReplies, "recv") /\ "recv" \in AfterSend
    BY DEF response_pwd, AfterSend
  <1> QED BY <1>1, <1>2, <1>3, PwdRepliesType, AnswerFrame

(* response_pwd as the end of response_cd.                                 *)
LEMMA PwdAfterCdInv ==
    ASSUME Inv, NEW i \in Conns, PwdAfterCd(i), UNCHANGED cl
    PROVE  Inv'
  <1>1. /\ WireTypeOK' /\ main' \in MainState /\ fs' \in FileSystem
        /\ cwd' \in Dirs /\ FilesStay
    BY ThreadType DEF PwdAfterCd, wireVars, Inv, TypeOK, WireTypeOK, FilesStay
  <1>2. buf' \in Buffer /\ msg' \in Buffer
    BY ThreadType DEF PwdAfterCd
  <1>3. Answer(i, PwdReplies, "recv") /\ "recv" \in AfterSend
    BY DEF PwdAfterCd, AfterSend
  <1> QED BY <1>1, <1>2, <1>3, PwdRepliesType, AnswerFrame

(* response_cd changes to a directory or complains.                        *)
LEMMA CdInv ==
    ASSUME Inv, NEW i \in Conns, response_cd(i), UNCHANGED cl
    PROVE  Inv'
  <1>1. /\ WireTypeOK' /\ main' \in MainState /\ fs' \in FileSystem
        /\ FilesStay
    BY ThreadType DEF response_cd, wireVars, Inv, TypeOK, WireTypeOK, FilesStay
  <1>2. buf' \in Buffer
    BY SwitchType DEF response_cd, Switch
  <1>3. CASE Path(Seen(i).f) \in Dirs
    <2>1. PICK t : t = [th[i] EXCEPT !.pc = "pwd"]
      OBVIOUS
    <2>2. t \in Thread /\ t.pc = "pwd"
      BY <2>1, ThreadType DEF Thread, ThreadPc
    <2>3. Held(t, fs')
      BY <2>2 DEF Held, Reads, Writes
    <2>4. Become(i, t) /\ cwd' \in Dirs /\ msg' \in Buffer
      BY <1>3, <2>1, SwitchType DEF response_cd
    <2> QED BY <1>1, <1>2, <2>2, <2>3, <2>4, SessionFrame
  <1>4. CASE Path(Seen(i).f) \notin Dirs
    <2>1. PICK r : r = << Via("msg", <<Text(Seen(i).f)>>) >>
      OBVIOUS
    <2>2. r \in Seq(Reply) /\ r # <<>>
      BY <2>1, SwitchType, CellTypes, ReplyTypes
    <2>3. Answer(i, r, "pwd") /\ msg' = ZeroBuf /\ cwd' = cwd
      BY <1>4, <2>1 DEF response_cd
    <2>4. msg' \in Buffer /\ cwd' \in Dirs /\ "pwd" \in AfterSend
      BY <2>3, CellTypes, ThreadType DEF ZeroBuf, Buffer, AfterSend
    <2> QED BY <1>1, <1>2, <2>2, <2>3, <2>4, AnswerFrame
  <1> QED BY <1>3, <1>4

(* A crash closes the server's ends and leaves the rest as it is.          *)
LEMMA CrashType ==
    ASSUME Inv, Crash, UNCHANGED <<nconn, backlog>>
    PROVE  WireTypeOK'
  <1>1. net \in [Conns -> Endpoint]
    BY DEF Inv, TypeOK, WireTypeOK
  <1>2. \A k \in Conns : [net[k] EXCEPT !.srv = FALSE] \in Endpoint
    BY <1>1 DEF Endpoint
  <1>3. net' \in [Conns -> Endpoint]
    BY <1>2 DEF Crash, ServerClosed
  <1> QED BY <1>3 DEF Inv, TypeOK, WireTypeOK, Crash

(* A step that leaves the thread as it is.                                 *)
LEMMA SameThread ==
    ASSUME Inv, UNCHANGED <<th, fs, main, cwd, cl>>, WireTypeOK',
           buf' \in Buffer, msg' \in Buffer
    PROVE  Inv'
  BY DEF Inv, TypeOK, ServerTypeOK, ClientTypeOK, HandlesHeld

(* response_get up to its first send.                                      *)
LEMMA GetInv ==
    ASSUME Inv, NEW i \in Conns, response_get(i), UNCHANGED cl
    PROVE  Inv'
  <1>1. /\ WireTypeOK' /\ main' \in MainState /\ fs' \in FileSystem
        /\ cwd' \in Dirs /\ FilesStay
    BY ThreadType DEF response_get, wireVars, Inv, TypeOK, WireTypeOK, FilesStay
  <1>2. buf' \in Buffer /\ msg' \in Buffer
    BY SwitchType, CellTypes DEF response_get, Switch, ZeroBuf, Buffer
  <1>3. "recv" \in AfterSend /\ "fopen" \in AfterSend
    BY DEF AfterSend
  <1>4. PICK f : f = Seen(i).f
    OBVIOUS
  <1>5. CASE ~Readable(f)
    <2>1. PICK r : r = << Via("msg", <<Failure(Seen(i).f)>>) >>
      OBVIOUS
    <2>2. r \in Seq(Reply) /\ r # <<>>
      BY <2>1, SwitchType, CellTypes, ReplyTypes
    <2>3. Answer(i, r, "recv")
      BY <1>4, <1>5, <2>1 DEF response_get
    <2> QED BY <1>1, <1>2, <1>3, <2>2, <2>3, AnswerFrame
  <1>6. CASE Readable(f)
    <2>0. f \in Dirs \/ Stat(cwd, f) \in Seq(Cell)
      BY <1>6, ThreadType DEF Readable, Stat, FileSystem
    <2>1. get_file_size(f) \in Nat
      BY <2>0, ServerAssumption DEF get_file_size
    <2>2. PICK n \in Nat : n = get_file_size(f) % SizeMod
      BY <2>1, WireAssumption
    <2>3. PICK r : r = << Via("msg", <<Header(n)>>) >>
      OBVIOUS
    <2>4. r \in Seq(Reply) /\ r # <<>>
      BY <2>3, CellTypes, ReplyTypes
    <2>5. Answer(i, r, "fopen")
      BY <1>4, <1>6, <2>2, <2>3 DEF response_get
    <2> QED BY <1>1, <1>2, <1>3, <2>4, <2>5, AnswerFrame
  <1> QED BY <1>5, <1>6

(* The fopen of response_get: a session that goes on has a file that exists. *)
LEMMA FopenInv ==
    ASSUME Inv, NEW i \in Conns, Fopen(i), UNCHANGED cl
    PROVE  Inv'
  <1>1. buf' \in Buffer /\ msg' \in Buffer /\ UNCHANGED <<fs, main, cwd>>
    BY ThreadType DEF Fopen
  <1>2. CASE ~Readable(buf[1].f)
    <2>1. WireTypeOK'
      BY <1>2, CrashType DEF Fopen
    <2> QED BY <1>1, <1>2, <2>1, SameThread DEF Fopen
  <1>3. CASE Readable(buf[1].f)
    <2>1. PICK name : name = buf[1].f
      OBVIOUS
    <2>2. /\ name \in Dirs \/ (name \in Files /\ fs[cwd][name] # Absent)
          /\ name \in Names
      BY <1>3, <2>1 DEF Readable, Stat, Names
    <2>3. PICK t : t = [th[i] EXCEPT !.pc = "fread", !.pos = 0,
                                     !.file = name, !.dir = cwd]
      OBVIOUS
    <2>4. /\ t \in Thread
          /\ t.pc = "fread" /\ t.file = name /\ t.dir = cwd
      BY <2>2, <2>3, ThreadType DEF Thread, ThreadPc
    <2>5. Held(t, fs')
      BY <1>1, <2>2, <2>4 DEF Held, Reads, Writes
    <2>6. Become(i, t) /\ WireTypeOK'
      BY <1>3, <2>1, <2>3 DEF Fopen, Inv, TypeOK, WireTypeOK
    <2> QED BY <1>1, <2>4, <2>5, <2>6, ThreadType, SessionFrame DEF FilesStay
  <1> QED BY <1>2, <1>3

(* The fread loop: a piece read from the file fits msg.                    *)
LEMMA FreadInv ==
    ASSUME Inv, NEW i \in Conns, Fread(i), UNCHANGED cl
    PROVE  Inv'
  <1>1. /\ WireTypeOK' /\ buf' \in Buffer /\ fs' \in FileSystem /\ fs' = fs
        /\ main' \in MainState /\ cwd' \in Dirs /\ FilesStay
    BY ThreadType DEF Fread, wireVars, Inv, TypeOK, WireTypeOK, FilesStay
  <1>2. \/ th[i].file \in Files /\ fs[th[i].dir][th[i].file] # Absent
        \/ th[i].file \in Dirs
    BY ThreadType DEF Fread, Held, Reads, Writes
  <1>3. PICK file : file = IF th[i].file \in Dirs THEN <<>>
                           ELSE fs[th[i].dir][th[i].file]
    OBVIOUS
  <1>4. file \in Seq(Cell) /\ th[i].pos \in Nat
    BY <1>2, <1>3, EmptyType, ThreadType DEF FileSystem, Thread
  <1>5. PICK last : last = Lesser(th[i].pos + BufUnits, Len(file))
    OBVIOUS
  <1>6. last \in Int /\ last <= Len(file)
    BY <1>4, <1>5, WireAssumption DEF Lesser
  <1>7. PICK chunk : chunk = SubSeq(file, th[i].pos + 1, last)
    OBVIOUS
  <1>8. chunk \in Seq(Cell) /\ chunk \in Piece
    <2>1. chunk \in Seq(Cell)
      BY <1>4, <1>6, <1>7, PieceType
    <2>2. last <= th[i].pos + BufUnits
      BY <1>4, <1>5, WireAssumption DEF Lesser
    <2>3. Len(chunk) <= BufUnits
      BY <1>4, <1>6, <1>7, <2>2, PieceLen, WireAssumption
    <2> QED BY <2>1, <2>3 DEF Piece
  <1>9. CASE chunk = <<>>
    <2>1. PICK t : t = [th[i] EXCEPT !.pc = "recv"]
      OBVIOUS
    <2>2. t \in Thread /\ t.pc = "recv"
      BY <2>1, ThreadType DEF Thread, ThreadPc
    <2>3. Held(t, fs')
      BY <2>2 DEF Held, Reads, Writes
    <2>4. Become(i, t) /\ msg' \in Buffer
      BY <1>3, <1>5, <1>7, <1>9, <2>1, ThreadType DEF Fread
    <2> QED BY <1>1, <2>2, <2>3, <2>4, SessionFrame
  <1>10. CASE chunk # <<>>
    <2>1. PICK r : r = << Via("msg", chunk) >>
      OBVIOUS
    <2>2. r \in Seq(Reply) /\ r # <<>>
      BY <1>8, <2>1, ReplyTypes
    <2>3. PICK pos \in Nat : pos = th[i].pos + Len(chunk)
      BY <1>4, <1>8
    <2>4. PICK t : t = [th[i] EXCEPT !.pc = "send", !.next = "fread",
                                     !.todo = r, !.pos = pos]
      OBVIOUS
    <2>5. /\ t \in Thread
          /\ t.pc = "send" /\ t.todo = r /\ t.file = th[i].file
          /\ t.dir = th[i].dir
      BY <2>2, <2>4, ThreadType DEF Thread, ThreadPc, AfterSend
    <2>6. Held(t, fs')
      BY <1>1, <1>2, <2>2, <2>5 DEF Held, Reads, Writes
    <2>7. Become(i, t) /\ msg' = Overlay(msg, chunk)
      BY <1>3, <1>5, <1>7, <1>10, <2>1, <2>3, <2>4 DEF Fread
    <2>8. msg' \in Buffer
      BY <1>8, <2>7, ThreadType, OverlayType
    <2> QED BY <1>1, <2>5, <2>6, <2>7, <2>8, SessionFrame
  <1> QED BY <1>9, <1>10

(* response_put up to its fopen, which creates or empties the file.        *)
LEMMA PutInv ==
    ASSUME Inv, NEW i \in Conns, response_put(i), UNCHANGED cl
    PROVE  Inv'
  <1>1. /\ buf' \in Buffer /\ msg' \in Buffer
        /\ main' \in MainState /\ main' = main /\ cwd' \in Dirs /\ cwd' = cwd
    BY SwitchType, ThreadType DEF response_put, Switch
  <1>2. CASE th[i].n < 1 \/ Seen(i).f \notin Files
    <2>1. WireTypeOK'
      BY <1>2, CrashType DEF response_put
    <2> QED BY <1>1, <1>2, <2>1, SameThread DEF response_put
  <1>3. CASE ~(th[i].n < 1 \/ Seen(i).f \notin Files)
    <2>1. PICK name \in Files : name = Seen(i).f
      BY <1>3
    <2>2. PICK need \in Nat : need = Seen(i).n
      BY SwitchType
    <2>3. PICK t : t = [th[i] EXCEPT !.pc = "put_rest", !.file = name,
                                     !.dir = cwd, !.need = need]
      OBVIOUS
    <2>4. name \in Names /\ th[i].n \in Int
      BY ThreadType DEF Names, Thread
    <2>5. /\ t \in Thread
          /\ t.pc = "put_rest" /\ t.file = name /\ t.dir = cwd /\ t.n = th[i].n
      BY <2>2, <2>3, <2>4, ThreadType DEF Thread, ThreadPc
    <2>6. fs' = [fs EXCEPT ![cwd][name] = <<>>]
      BY <1>3, <2>1 DEF response_put
    <2>7. <<>> \in Seq(Cell) /\ <<>> # Absent
      BY EmptyType
    <2>8. fs' \in FileSystem /\ FilesStay /\ fs'[cwd][name] # Absent
      BY <2>6, <2>7, ThreadType DEF FileSystem, FilesStay
    <2>9. Held(t, fs')
      BY <1>3, <2>4, <2>5, <2>8 DEF Held, Reads, Writes
    <2>10. Become(i, t) /\ WireTypeOK'
      BY <1>3, <2>1, <2>2, <2>3 DEF response_put, Inv, TypeOK, WireTypeOK
    <2> QED BY <1>1, <2>5, <2>8, <2>9, <2>10, SessionFrame
  <1> QED BY <1>2, <1>3

(* Writing received cells to the file and going on with the loop.          *)
LEMMA WrittenFrame ==
    ASSUME Inv, NEW i \in Conns, NEW out \in Seq(Cell), Written(i, out),
           Writes(th[i]),
           UNCHANGED <<wireVars, main, buf, msg, fs, cwd, cl>>
    PROVE  Inv'
  <1>1. PICK pc : pc = PutOn(out, th[i].need)
    OBVIOUS
  <1>2. pc \in {"put_recv", "put_close"}
    BY <1>1 DEF PutOn
  <1>3. PICK t : t = [th[i] EXCEPT !.out = out, !.pc = pc]
    OBVIOUS
  <1>4. /\ t \in Thread
        /\ t.pc = pc /\ t.file = th[i].file /\ t.dir = th[i].dir
    BY <1>2, <1>3, ThreadType DEF Thread, ThreadPc
  <1>5. Held(t, fs')
    BY <1>2, <1>4, ThreadType DEF Held, Reads, Writes
  <1>6. Become(i, t) /\ WireTypeOK'
    BY <1>1, <1>3 DEF Written, wireVars, Inv, TypeOK, WireTypeOK
  <1> QED BY <1>4, <1>5, <1>6, ThreadType, SessionFrame DEF FilesStay

(* What is in the first cells of the shared buffer.                        *)
LEMMA BufferPiece ==
    ASSUME Inv, NEW a \in {1, 2}, NEW b \in Int, b <= BufUnits
    PROVE  SubSeq(buf, a, b) \in Seq(Cell)
  <1>1. buf \in Seq(Cell) /\ Len(buf) = BufUnits
    BY WireAssumption DEF Inv, TypeOK, ServerTypeOK, Buffer
  <1> QED BY <1>1, PieceType

(* The data that came with the header.                                     *)
LEMMA PutRestInv ==
    ASSUME Inv, NEW i \in Conns, PutRest(i), UNCHANGED cl
    PROVE  Inv'
  <1>1. PICK out : out = SubSeq(buf, 2, th[i].n)
    OBVIOUS
  <1>2. th[i].n \in Int /\ th[i].n <= BufUnits
    BY ThreadType, WireAssumption DEF Thread
  <1>3. out \in Seq(Cell)
    BY <1>1, <1>2, BufferPiece
  <1> QED BY <1>1, <1>3, WrittenFrame DEF PutRest, Writes

(* Writing what the loop received.                                         *)
LEMMA PutWriteInv ==
    ASSUME Inv, NEW i \in Conns, PutWrite(i), UNCHANGED cl
    PROVE  Inv'
  <1>1. PICK piece : piece = SubSeq(buf, 1, th[i].n)
    OBVIOUS
  <1>2. th[i].n \in Int /\ th[i].n <= BufUnits /\ th[i].out \in Seq(Cell)
    BY ThreadType, WireAssumption DEF Thread
  <1>3. piece \in Seq(Cell)
    BY <1>1, <1>2, BufferPiece
  <1>4. th[i].out \o piece \in Seq(Cell)
    BY <1>2, <1>3, ConcatType
  <1> QED BY <1>1, <1>4, WrittenFrame DEF PutWrite, Writes

(* The recv of response_put's loop: the process dies on -1.                *)
LEMMA PutRecvInv ==
    ASSUME Inv, NEW i \in Conns, PutRecv(i), UNCHANGED cl
    PROVE  Inv'
  <1>1. UNCHANGED <<main, msg, fs, cwd, nconn, backlog>>
    BY DEF PutRecv
  <1>2. PICK n \in SrvResults(th[i].fd) :
            IF n = -1
            THEN Crash /\ UNCHANGED <<th, buf>>
            ELSE /\ RecvInto(i, n)
                 /\ Become(i, [th[i] EXCEPT !.pc = "put_write", !.n = n])
                 /\ up' = up
    BY DEF PutRecv
  <1>3. CASE n = -1
    BY <1>1, <1>2, <1>3, CrashType, SameThread, ThreadType
  <1>4. CASE n # -1
    <2>1. n \in -1 .. BufUnits /\ buf' \in Buffer /\ WireTypeOK'
      BY <1>1, <1>2, <1>4, RecvType
    <2>2. PICK t : t = [th[i] EXCEPT !.pc = "put_write", !.n = n]
      OBVIOUS
    <2>3. /\ t \in Thread
          /\ t.pc = "put_write" /\ t.n = n
          /\ t.file = th[i].file /\ t.dir = th[i].dir
      BY <2>1, <2>2, ThreadType DEF Thread, ThreadPc
    <2>4. n >= 0
      BY <1>4, <2>1, WireAssumption
    <2>5. Held(t, fs')
      BY <1>1, <2>3, <2>4, ThreadType DEF Held, Reads, Writes, PutRecv
    <2> QED BY <1>1, <1>2, <1>4, <2>1, <2>2, <2>3, <2>5, ThreadType, SessionFrame
            DEF FilesStay
  <1> QED BY <1>3, <1>4

(* fclose: the file still exists afterwards.                               *)
LEMMA PutCloseInv ==
    ASSUME Inv, NEW i \in Conns, PutClose(i), UNCHANGED cl
    PROVE  Inv'
  <1>1. /\ WireTypeOK' /\ buf' \in Buffer /\ msg' \in Buffer
        /\ main' \in MainState /\ cwd' \in Dirs
    BY ThreadType DEF PutClose, wireVars, Inv, TypeOK, WireTypeOK
  <1>2. th[i].file \in Files /\ th[i].dir \in Dirs
        /\ fs[th[i].dir][th[i].file] # Absent /\ th[i].out \in Seq(Cell)
    BY ThreadType DEF PutClose, Held, Reads, Writes, Thread
  <1>3. PICK old : old = fs[th[i].dir][th[i].file]
    OBVIOUS
  <1>4. old \in Seq(Cell)
    BY <1>2, <1>3, ThreadType DEF FileSystem
  <1>5. PICK tail : tail = SubSeq(old, Len(th[i].out) + 1, Len(old))
    OBVIOUS
  <1>6. tail \in Seq(Cell)
    BY <1>2, <1>4, <1>5, PieceType
  <1>7. PICK new : new = th[i].out \o tail
    OBVIOUS
  <1>8. new \in Seq(Cell) /\ new # Absent
    BY <1>2, <1>6, <1>7, ConcatType, ServerAssumption
  <1>9. fs' = [fs EXCEPT ![th[i].dir][th[i].file] = new]
    BY <1>3, <1>5, <1>7 DEF PutClose
  <1>10. fs' \in FileSystem /\ FilesStay
    BY <1>8, <1>9, ThreadType DEF FileSystem, FilesStay
  <1>11. PICK r : r = << Via("buf", <<End>>) >>
    OBVIOUS
  <1>12. r \in Seq(Reply) /\ r # <<>>
    BY <1>11, CellTypes, ReplyTypes
  <1>13. PICK none \in Seq(Cell) : none = <<>>
    BY EmptyType
  <1>14. PICK t : t = [th[i] EXCEPT !.pc = "fill", !.next = "recv",
                                    !.out = none, !.todo = r]
    OBVIOUS
  <1>15. /\ t \in Thread
         /\ t.pc = "fill" /\ t.next = "recv" /\ t.todo = r
    BY <1>12, <1>14, ThreadType DEF Thread, ThreadPc, AfterSend
  <1>16. Held(t, fs')
    BY <1>12, <1>15 DEF Held, Reads, Writes
  <1>17. Become(i, t)
    BY <1>11, <1>14, <1>13 DEF PutClose
  <1> QED BY <1>1, <1>10, <1>15, <1>16, <1>17, SessionFrame

(* response_exit.                                                          *)
LEMMA ExitInv ==
    ASSUME Inv, NEW i \in Conns, response_exit(i), UNCHANGED cl
    PROVE  Inv'
  <1>1. /\ buf' \in Buffer /\ msg' \in Buffer /\ fs' \in FileSystem
        /\ main' \in MainState /\ cwd' \in Dirs /\ FilesStay
    BY SwitchType, ThreadType DEF response_exit, Switch, FilesStay
  <1>2. net' \in [Conns -> Endpoint]
    <2>1. net \in [Conns -> Endpoint]
      BY DEF Inv, TypeOK, WireTypeOK
    <2>2. \A k \in Conns : [net[k] EXCEPT !.srv = FALSE] \in Endpoint
      BY <2>1 DEF Endpoint
    <2> QED BY <2>1, <2>2 DEF response_exit
  <1>3. WireTypeOK'
    BY <1>2 DEF response_exit, Inv, TypeOK, WireTypeOK
  <1>4. PICK t : t = [th[i] EXCEPT !.pc = "done"]
    OBVIOUS
  <1>5. t \in Thread /\ t.pc = "done"
    BY <1>4, ThreadType DEF Thread, ThreadPc
  <1>6. Held(t, fs')
    BY <1>5 DEF Held, Reads, Writes
  <1>7. Become(i, t)
    BY <1>4 DEF response_exit
  <1> QED BY <1>1, <1>3, <1>5, <1>6, <1>7, SessionFrame

(* A byte that is no request.                                              *)
LEMMA NoCaseInv ==
    ASSUME Inv, NEW i \in Conns, NoCase(i), UNCHANGED cl
    PROVE  Inv'
  <1>1. /\ buf' \in Buffer /\ msg' \in Buffer /\ fs' \in FileSystem
        /\ main' \in MainState /\ cwd' \in Dirs /\ FilesStay
    BY SwitchType, ThreadType DEF NoCase, Switch, FilesStay
  <1>2. WireTypeOK'
    <2>1. CASE UNCHANGED <<net, up>>
      BY <2>1 DEF NoCase, Inv, TypeOK, WireTypeOK
    <2>2. CASE Crash
      BY <2>2, CrashType DEF NoCase
    <2> QED BY <2>1, <2>2 DEF NoCase
  <1>3. PICK t : t = [th[i] EXCEPT !.pc = "recv"]
    OBVIOUS
  <1>4. t \in Thread /\ t.pc = "recv"
    BY <1>3, ThreadType DEF Thread, ThreadPc
  <1>5. Held(t, fs')
    BY <1>4 DEF Held, Reads, Writes
  <1>6. Become(i, t)
    BY <1>3 DEF NoCase
  <1> QED BY <1>1, <1>2, <1>4, <1>5, <1>6, SessionFrame

(* The answer at the head of the queue of a thread that is to send.        *)
LEMMA HeadReply ==
    ASSUME Inv, NEW i \in Conns, th[i].pc \in {"fill", "send"}
    PROVE  /\ th[i].todo \in Seq(Reply) /\ th[i].todo # <<>>
           /\ Head(th[i].todo) \in Reply
           /\ Tail(th[i].todo) \in Seq(Reply)
           /\ Len(th[i].todo) > 1 => Tail(th[i].todo) # <<>>
  <1>1. th[i].todo \in Seq(Reply) /\ th[i].todo # <<>>
    BY ThreadType DEF Held, Thread
  <1>2. \A s \in Seq(Reply) : s # <<>> =>
            /\ Head(s) \in Reply
            /\ Tail(s) \in Seq(Reply)
            /\ Len(s) > 1 => Tail(s) # <<>>
    <2> SUFFICES ASSUME NEW s \in Seq(Reply), s # <<>>
                 PROVE  /\ Head(s) \in Reply
                        /\ Tail(s) \in Seq(Reply)
                        /\ Len(s) > 1 => Tail(s) # <<>>
      OBVIOUS
    <2>1. Head(s) \in Reply /\ Tail(s) \in Seq(Reply)
      OBVIOUS
    <2>2. ASSUME Len(s) > 1 PROVE Tail(s) # <<>>
      <3>1. Len(Tail(s)) = Len(s) - 1 /\ Len(s) \in Nat
        OBVIOUS
      <3>2. Len(Tail(s)) # 0
        BY <2>2, <3>1
      <3>3. Len(<<>>) = 0
        OBVIOUS
      <3> QED BY <3>2, <3>3
    <2> QED BY <2>1, <2>2
  <1> QED BY <1>1, <1>2

(* Writing an answer into a shared buffer.                                 *)
LEMMA FillInv ==
    ASSUME Inv, NEW i \in Conns, Fill(i), UNCHANGED cl
    PROVE  Inv'
  <1>1. /\ WireTypeOK' /\ main' \in MainState /\ fs' \in FileSystem
        /\ fs' = fs /\ cwd' \in Dirs /\ FilesStay
    BY ThreadType DEF Fill, wireVars, Inv, TypeOK, WireTypeOK, FilesStay
  <1>2. PICK r \in Reply : r = Head(th[i].todo)
    BY HeadReply DEF Fill
  <1>3. r.cells \in Seq(Cell)
    BY <1>2 DEF Reply, Piece
  <1>4. buf' \in Buffer /\ msg' \in Buffer
    BY <1>2, <1>3, OverlayType, ThreadType DEF Fill
  <1>5. PICK t : t = [th[i] EXCEPT !.pc = "send"]
    OBVIOUS
  <1>6. /\ t \in Thread /\ t.pc = "send" /\ t.todo = th[i].todo
        /\ t.next = th[i].next /\ t.file = th[i].file /\ t.dir = th[i].dir
    BY <1>5, ThreadType DEF Thread, ThreadPc
  <1>7. Held(t, fs')
    BY <1>1, <1>6, ThreadType DEF Held, Reads, Writes, Fill
  <1>8. Become(i, t)
    BY <1>5 DEF Fill
  <1> QED BY <1>1, <1>4, <1>6, <1>7, <1>8, SessionFrame

(* Sending it: the next answer exists, or the thread goes on.              *)
LEMMA SendInv ==
    ASSUME Inv, NEW i \in Conns, Send(i), UNCHANGED cl
    PROVE  Inv'
  <1>1. /\ buf' \in Buffer /\ msg' \in Buffer /\ main' \in MainState
        /\ fs' \in FileSystem /\ fs' = fs /\ cwd' \in Dirs /\ FilesStay
    BY ThreadType DEF Send, FilesStay
  <1>2. PICK r \in Reply : r = Head(th[i].todo)
    BY HeadReply DEF Send
  <1>3. InBuffer(r) \in Seq(Cell)
    <2>1. /\ r.cells \in Seq(Cell) /\ Len(r.cells) \in Nat
          /\ Len(r.cells) <= BufUnits
      BY <1>2 DEF Reply, Piece
    <2>2. buf \in Seq(Cell) /\ msg \in Seq(Cell)
          /\ Len(buf) = BufUnits /\ Len(msg) = BufUnits
      BY ThreadType, WireAssumption DEF Buffer
    <2> QED BY <2>1, <2>2, PieceType DEF InBuffer
  <1>4. WireTypeOK'
    <2>1. net \in [Conns -> Endpoint]
      BY DEF Inv, TypeOK, WireTypeOK
    <2>2. PICK k : k = th[i].fd
      OBVIOUS
    <2>3. CASE UNCHANGED <<net, up>>
      BY <2>3 DEF Send, Inv, TypeOK, WireTypeOK
    <2>4. CASE Crash
      BY <2>4, CrashType DEF Send
    <2>5. CASE k \in Conns /\ up' = up
               /\ net' = [net EXCEPT ![k].s2c = @ \o Packet(InBuffer(r))]
      <3>1. net[k] \in Endpoint /\ net[k].s2c \in Seq(Flit)
        BY <2>1, <2>5 DEF Endpoint
      <3>2. PICK q \in Seq(Flit) : q = net[k].s2c \o Packet(InBuffer(r))
        BY <1>3, <3>1, PacketType, ConcatType
      <3>3. [net[k] EXCEPT !.s2c = q] \in Endpoint
        BY <3>1 DEF Endpoint
      <3>4. net' \in [Conns -> Endpoint]
        BY <2>1, <2>5, <3>2, <3>3
      <3> QED BY <2>5, <3>4 DEF Send, Inv, TypeOK, WireTypeOK
    <2>6. CASE k \in Conns /\ up' = up
               /\ net' = [net EXCEPT ![k].reset = TRUE]
      <3>1. [net[k] EXCEPT !.reset = TRUE] \in Endpoint
        BY <2>1, <2>6 DEF Endpoint
      <3>2. net' \in [Conns -> Endpoint]
        BY <2>1, <2>6, <3>1
      <3> QED BY <2>6, <3>2 DEF Send, Inv, TypeOK, WireTypeOK
    <2> QED BY <1>2, <2>2, <2>3, <2>4, <2>5, <2>6 DEF Send
  <1>5. PICK pc : pc = IF Len(th[i].todo) > 1 THEN "fill" ELSE th[i].next
    OBVIOUS
  <1>6. PICK todo : todo = Tail(th[i].todo)
    OBVIOUS
  <1>7. /\ todo \in Seq(Reply) /\ (pc = "fill" => todo # <<>>)
        /\ pc = "fill" \/ (pc = th[i].next /\ th[i].next \in AfterSend)
        /\ pc \in ThreadPc
    BY <1>5, <1>6, HeadReply, ThreadType DEF Send, Thread, ThreadPc, AfterSend
  <1>8. PICK t : t = [th[i] EXCEPT !.todo = todo, !.pc = pc]
    OBVIOUS
  <1>9. /\ t \in Thread /\ t.pc = pc /\ t.todo = todo
        /\ t.next = th[i].next /\ t.file = th[i].file /\ t.dir = th[i].dir
    BY <1>7, <1>8, ThreadType DEF Thread
  <1>10. Held(t, fs')
    BY <1>1, <1>7, <1>9, ThreadType DEF Held, Reads, Writes, AfterSend, Send
  <1>11. Become(i, t)
    BY <1>5, <1>6, <1>8 DEF Send
  <1> QED BY <1>1, <1>4, <1>9, <1>10, <1>11, SessionFrame

(* Every step of a session.                                                *)
LEMMA SessionInv ==
    ASSUME Inv, NEW i \in Conns, Session(i), UNCHANGED cl
    PROVE  Inv'
  BY StartInv, SessionRecvInv, LsInv, PwdInv, CdInv, PwdAfterCdInv, GetInv,
     FopenInv, FreadInv, PutInv, PutRestInv, PutRecvInv, PutWriteInv,
     PutCloseInv, ExitInv, NoCaseInv, FillInv, SendInv
     DEF Session

-----------------------------------------------------------------------------
(* The client.                                                             *)

InCommand(p) == p.pc \notin Gone \cup {"prompt"}

(* What the invariant says about one client.                               *)
LEMMA ClientType ==
    ASSUME Inv, NEW c \in Clients
    PROVE  /\ cl[c] \in ClientState
           /\ InCommand(cl[c]) => cl[c].fd \in Conns
           /\ net \in [Conns -> Endpoint]
  BY DEF Inv, TypeOK, ClientTypeOK, WireTypeOK, HandlesHeld, InCommand

(* A client that goes on as p.                                             *)
LEMMA ClientMove ==
    ASSUME Inv, NEW c \in Clients, NEW p \in ClientState, GoOn(c, p),
           InCommand(p) => p.fd \in Conns, WireTypeOK', UNCHANGED serverVars
    PROVE  Inv'
  <1>1. ServerTypeOK' /\ \A i \in Conns : Held(th'[i], fs')
    BY DEF serverVars, Inv, TypeOK, ServerTypeOK, HandlesHeld
  <1>2. cl' \in [Clients -> ClientState]
    BY DEF GoOn, Inv, TypeOK, ClientTypeOK
  <1>3. \A d \in Clients : InCommand(cl'[d]) => cl'[d].fd \in Conns
    <2>1. cl'[c] = p /\ \A d \in Clients \ {c} : cl'[d] = cl[d]
      BY DEF GoOn, Inv, TypeOK, ClientTypeOK
    <2> QED BY <2>1, ClientType
  <1> QED BY <1>1, <1>2, <1>3
          DEF Inv, TypeOK, ClientTypeOK, HandlesHeld, InCommand

(* Putting cells on the stream to the server keeps the wire's types.       *)
LEMMA SentType ==
    ASSUME Inv, NEW k \in Conns, NEW cells \in Seq(Cell)
    PROVE  [net EXCEPT ![k].c2s = @ \o Packet(cells)] \in [Conns -> Endpoint]
  <1>1. net \in [Conns -> Endpoint]
    BY DEF Inv, TypeOK, WireTypeOK
  <1>2. net[k] \in Endpoint /\ net[k].c2s \in Seq(Flit)
    BY <1>1 DEF Endpoint
  <1>3. PICK q \in Seq(Flit) : q = net[k].c2s \o Packet(cells)
    BY <1>2, PacketType, ConcatType
  <1>4. [net[k] EXCEPT !.c2s = q] \in Endpoint
    BY <1>2 DEF Endpoint
  <1> QED BY <1>1, <1>3, <1>4

(* A command that starts.                                                  *)
LEMMA BeginType ==
    ASSUME Inv, NEW c \in Clients, Idle(c), NEW pc \in ClientPc,
           NEW cmd \in Requests \cup {"OPEN", "NONE"}, NEW arg \in Names
    PROVE  /\ Begin(c, pc, cmd, arg) \in ClientState
           /\ Begin(c, pc, cmd, arg).pc = pc
           /\ Begin(c, pc, cmd, arg).fd = cl[c].fd
  <1>1. cl[c] \in ClientState
    BY ClientType
  <1>2. PICK left \in 0 .. MaxCmds : left = cl[c].left - 1
    BY <1>1, ClientAssumption DEF Idle, ClientState
  <1>3. PICK none \in Seq(Cell) : none = <<>>
    BY EmptyType
  <1>4. PICK p : p = [cl[c] EXCEPT !.pc = pc, !.left = left, !.cmd = cmd,
                        !.arg = arg, !.shown = none, !.out = none, !.pos = 0,
                        !.ok = FALSE]
    OBVIOUS
  <1>5. p = Begin(c, pc, cmd, arg)
    BY <1>2, <1>3, <1>4 DEF Begin
  <1>6. p \in ClientState /\ p.pc = pc /\ p.fd = cl[c].fd
    BY <1>1, <1>2, <1>3, <1>4 DEF ClientState
  <1> QED BY <1>5, <1>6

(* A command that sends a request.                                         *)
LEMMA AskFrame ==
    ASSUME Inv, NEW c \in Clients, NEW cells \in Seq(Cell), Ask(c, cells),
           NEW p \in ClientState, p.fd = cl[c].fd, GoOn(c, p),
           UNCHANGED serverVars
    PROVE  Inv'
  <1>1. cl[c].fd \in Conns
    BY DEF Ask, tcp_connected
  <1>2. net' \in [Conns -> Endpoint]
    BY <1>1, SentType DEF Ask
  <1>3. WireTypeOK'
    BY <1>2 DEF Ask, Inv, TypeOK, WireTypeOK
  <1> QED BY <1>1, <1>3, ClientMove

(* The BUF_SIZE bytes of a request are cells.                              *)
LEMMA PaddedType ==
    ASSUME NEW k \in Requests, NEW f \in Names
    PROVE  Padded(Request(k, f)) \in Seq(Cell)
  BY CellTypes, WireAssumption DEF Padded

(* A command that sends a padded request.                                  *)
LEMMA PaddedCommand ==
    ASSUME Inv, NEW c \in Clients, NEW k \in Requests, NEW f \in Names,
           NEW pc \in ClientPc, Ask(c, Padded(Request(k, f))),
           GoOn(c, Begin(c, pc, k, f)), UNCHANGED serverVars
    PROVE  Inv'
  <1>1. PICK p : p = Begin(c, pc, k, f)
    OBVIOUS
  <1>2. p \in ClientState /\ p.fd = cl[c].fd
    BY <1>1, BeginType DEF Ask
  <1> QED BY <1>1, <1>2, PaddedType, AskFrame

(* open.                                                                   *)
LEMMA OpenInv ==
    ASSUME Inv, NEW c \in Clients, cmd_open(c), UNCHANGED serverVars
    PROVE  Inv'
  <1>0. nconn \in 0 .. MaxConns /\ nconn < MaxConns
    BY DEF cmd_open, Inv, TypeOK, WireTypeOK
  <1>1. PICK k \in Conns : k = nconn + 1
    BY <1>0, WireAssumption
  <1>2. net' \in [Conns -> Endpoint] /\ backlog' \in Seq(Conns)
    <2>1. net \in [Conns -> Endpoint] /\ backlog \in Seq(Conns)
      BY DEF Inv, TypeOK, WireTypeOK
    <2>2. CASE up
      <3>1. [net[k] EXCEPT !.cli = TRUE, !.srv = TRUE] \in Endpoint
        BY <2>1 DEF Endpoint
      <3>2. net' = [net EXCEPT ![k].cli = TRUE, ![k].srv = TRUE]
            /\ backlog' = Append(backlog, k)
        BY <1>1, <2>2 DEF cmd_open
      <3>3. net' \in [Conns -> Endpoint]
        BY <2>1, <3>1, <3>2
      <3>4. backlog' \in Seq(Conns)
        BY <2>1, <3>2
      <3> QED BY <3>3, <3>4
    <2>3. CASE ~up
      BY <2>1, <2>3 DEF cmd_open
    <2> QED BY <2>2, <2>3
  <1>3. nconn' \in 0 .. MaxConns
    BY <1>1, WireAssumption DEF cmd_open
  <1>4. WireTypeOK'
    BY <1>2, <1>3 DEF cmd_open, Inv, TypeOK, WireTypeOK
  <1>5. PICK b : b = Begin(c, "prompt", "OPEN", None)
    OBVIOUS
  <1>6. b \in ClientState /\ b.pc = "prompt"
    BY <1>5, BeginType DEF cmd_open, ClientPc, Names
  <1>7. PICK p : p = [b EXCEPT !.fd = k, !.fds = @ \cup {k}]
    OBVIOUS
  <1>8. PICK fds \in SUBSET Conns : fds = b.fds \cup {k}
    BY <1>6 DEF ClientState
  <1>9. PICK fd \in 0 .. MaxConns : fd = k
    OBVIOUS
  <1>10. p = [b EXCEPT !.fd = fd, !.fds = fds]
    BY <1>7, <1>8, <1>9
  <1>11. p \in ClientState /\ p.pc = "prompt"
    BY <1>6, <1>10 DEF ClientState
  <1>12. GoOn(c, p)
    BY <1>1, <1>5, <1>7 DEF cmd_open
  <1> QED BY <1>4, <1>11, <1>12, ClientMove DEF InCommand

(* The commands that send a padded request, and the one that gives up.     *)
LEMMA RequestInv ==
    ASSUME Inv, NEW c \in Clients,
           cmd_ls(c) \/ cmd_cd(c) \/ cmd_get(c, Targets) \/ cmd_pwd(c) \/ CONNECT_CHECK(c),
           UNCHANGED serverVars
    PROVE  Inv'
  <1>0. /\ Dirs \cup {None, NoSuch} \subseteq Names
        /\ Targets \subseteq Names
        /\ None \in Names
    BY FtAssumption DEF Names
  <1>1. CASE cmd_ls(c)
    BY <1>0, <1>1, PaddedCommand DEF cmd_ls, Requests, ClientPc
  <1>2. CASE cmd_cd(c)
    BY <1>0, <1>2, PaddedCommand DEF cmd_cd, Requests, ClientPc
  <1>3. CASE cmd_get(c, Targets)
    BY <1>0, <1>3, PaddedCommand DEF cmd_get, Requests, ClientPc
  <1>4. CASE cmd_pwd(c)
    <2>1. PICK p : p = Begin(c, "print", "PWD", None)
      OBVIOUS
    <2>2. p \in ClientState /\ p.fd = cl[c].fd
      BY <1>0, <1>4, <2>1, BeginType DEF cmd_pwd, Ask, Requests, ClientPc
    <2>3. PICK r \in Cell : r = Request("PWD", None)
      BY <1>0, CellTypes DEF Requests
    <2>4. <<r>> \in Seq(Cell)
      OBVIOUS
    <2> QED BY <1>4, <2>1, <2>2, <2>3, <2>4, AskFrame DEF cmd_pwd
  <1>5. CASE CONNECT_CHECK(c)
    <2>1. PICK p : p = Begin(c, "prompt", "NONE", None)
      OBVIOUS
    <2>2. p \in ClientState /\ p.pc = "prompt"
      BY <1>0, <1>5, <2>1, BeginType DEF CONNECT_CHECK, ClientPc
    <2>3. WireTypeOK'
      BY <1>5 DEF CONNECT_CHECK, wireVars, Inv, TypeOK, WireTypeOK
    <2> QED BY <1>5, <2>1, <2>2, <2>3, ClientMove DEF CONNECT_CHECK, InCommand
  <1> QED BY <1>1, <1>2, <1>3, <1>4, <1>5

(* The header of an upload.                                                *)
LEMMA PutHeadInv ==
    ASSUME Inv, NEW c \in Clients, NEW sizes \in SUBSET (Sizes \cup {Missing}),
           cmd_put(c, sizes), UNCHANGED serverVars
    PROVE  Inv'
  <1>1. PICK f \in Files, s \in sizes :
            /\ Ask(c, <<PutHead(f, IF s = Missing THEN 0 ELSE s % SizeMod)>>)
            /\ GoOn(c, [Begin(c, "put_body", "PUT", f) EXCEPT !.size = s])
    BY DEF cmd_put
  <1>2. s \in Nat \cup {-1} /\ f \in Names
    BY ClientAssumption DEF Missing, Names
  <1>3. PICK n \in Nat : n = IF s = Missing THEN 0 ELSE s % SizeMod
    BY <1>2, WireAssumption DEF Missing
  <1>4. PICK r \in Cell : r = PutHead(f, n)
    BY <1>2, CellTypes
  <1>5. <<r>> \in Seq(Cell)
    OBVIOUS
  <1>6. PICK b : b = Begin(c, "put_body", "PUT", f)
    OBVIOUS
  <1>7. b \in ClientState /\ b.fd = cl[c].fd
    BY <1>1, <1>2, <1>6, BeginType DEF Ask, ClientPc, Requests
  <1>8. PICK p : p = [b EXCEPT !.size = s]
    OBVIOUS
  <1>9. p \in ClientState /\ p.fd = cl[c].fd
    BY <1>2, <1>7, <1>8 DEF ClientState
  <1>10. Ask(c, <<r>>) /\ GoOn(c, p)
    BY <1>1, <1>3, <1>4, <1>6, <1>8
  <1> QED BY <1>5, <1>9, <1>10, AskFrame

(* A client that dies: its sockets are closed and it needs no handle.      *)
LEMMA DieInv ==
    ASSUME Inv, NEW c \in Clients, NEW pc \in Gone,
           NEW conns \in [Conns -> Endpoint], Die(c, pc, conns),
           UNCHANGED <<nconn, backlog, up>>, UNCHANGED serverVars
    PROVE  Inv'
  <1>1. PICK lost \in BOOLEAN :
            net' = [k \in Conns |-> IF k \in cl[c].fds
                                    THEN ClientClosed(conns[k], lost)
                                    ELSE conns[k]]
    BY DEF Die
  <1>2. \A e \in Endpoint : ClientClosed(e, lost) \in Endpoint
    <2> TAKE e \in Endpoint
    <2>0. <<>> \in Seq(Flit)
      OBVIOUS
    <2>1. PICK none \in Seq(Flit) : none = <<>>
      BY <2>0
    <2>2. PICK r \in BOOLEAN : r = (e.reset \/ e.s2c # <<>>)
      OBVIOUS
    <2>3. PICK q \in Seq(Flit) :
              q = IF e.s2c # <<>> /\ lost THEN <<>> ELSE e.c2s
      BY <2>1 DEF Endpoint
    <2>4. ClientClosed(e, lost) = [e EXCEPT !.cli = FALSE, !.s2c = none,
                                            !.reset = r, !.c2s = q]
      BY <2>1, <2>2, <2>3 DEF ClientClosed
    <2> QED BY <2>4 DEF Endpoint
  <1>3. WireTypeOK'
    BY <1>1, <1>2 DEF Inv, TypeOK, WireTypeOK
  <1>4. PICK p : p = [cl[c] EXCEPT !.pc = pc]
    OBVIOUS
  <1>5. p \in ClientState /\ p.pc = pc
    BY <1>4, ClientType DEF ClientState, ClientPc, Gone
  <1> QED BY <1>3, <1>4, <1>5, ClientMove DEF Die, InCommand, Gone

(* exit and SIGINT.                                                        *)
LEMMA QuitInv ==
    ASSUME Inv, NEW c \in Clients, cmd_exit(c) \/ sig_exit(c),
           UNCHANGED serverVars
    PROVE  Inv'
  <1>1. Padded(Request("EXIT", None)) \in Seq(Cell)
    BY PaddedType DEF Requests, Names
  <1>2. ExitSent(c) \in [Conns -> Endpoint]
    BY <1>1, SentType, ClientType DEF ExitSent
  <1> QED BY <1>2, DieInv DEF cmd_exit, sig_exit, Gone

(* recv by a client: what it returns and what it leaves.                   *)
LEMMA TakenType ==
    ASSUME Inv, NEW c \in Clients, InCommand(cl[c]), NEW cap \in Nat \ {0},
           NEW n \in CliResults(cl[c].fd, cap)
    PROVE  /\ n \in -1 .. cap
           /\ Taken(c, n) \in Seq(Cell)
           /\ Len(Taken(c, n)) = IF n > 0 THEN n ELSE 0
           /\ TakeOff(c, n) => net' \in [Conns -> Endpoint]
  <1>1. PICK k \in Conns : k = cl[c].fd
    BY ClientType
  <1>2. net \in [Conns -> Endpoint] /\ net[k] \in Endpoint
        /\ net[k].s2c \in Seq(Flit)
    BY ClientType DEF Endpoint
  <1>3. n \in -1 .. cap /\ (n > 0 => n \in 1 .. Len(net[k].s2c))
    BY <1>1, <1>2, ResultsType DEF CliResults
  <1>4. CASE n > 0
    <2>1. /\ Cells(net[k].s2c, n) \in Seq(Cell)
          /\ Len(Cells(net[k].s2c, n)) = n
          /\ Rest(net[k].s2c, n) \in Seq(Flit)
      BY <1>2, <1>3, <1>4, CellsType
    <2>2. PICK q \in Seq(Flit) : q = Rest(net[k].s2c, n)
      BY <2>1
    <2>3. [net[k] EXCEPT !.s2c = q] \in Endpoint
      BY <1>2 DEF Endpoint
    <2>4. [net EXCEPT ![k].s2c = Rest(@, n)] \in [Conns -> Endpoint]
      BY <1>2, <2>2, <2>3
    <2> QED BY <1>1, <1>3, <1>4, <2>1, <2>4 DEF Taken, TakeOff
  <1>5. CASE ~(n > 0)
    <2>1. Taken(c, n) = <<>>
      BY <1>5 DEF Taken
    <2>2. <<>> \in Seq(Cell) /\ Len(<<>>) = 0
      OBVIOUS
    <2> QED BY <1>2, <1>3, <1>5, <2>1, <2>2 DEF TakeOff
  <1> QED BY <1>4, <1>5

(* PRINT_RESPONSE_BODY.                                                    *)
LEMMA PrintInv ==
    ASSUME Inv, NEW c \in Clients, PRINT_RESPONSE_BODY(c), UNCHANGED serverVars
    PROVE  Inv'
  <1>0. InCommand(cl[c]) /\ cl[c] \in ClientState /\ cl[c].fd \in Conns
    BY ClientType DEF InCommand, PRINT_RESPONSE_BODY, Gone
  <1>1. PICK n \in CliResults(cl[c].fd, BufUnits) :
          IF n = -1
          THEN Die(c, "aborted", net)
          ELSE \E j \in 1 .. Len(Taken(c, n)) + 1 :
               /\ EndAt(Taken(c, n), j)
               /\ TakeOff(c, n)
               /\ GoOn(c, [cl[c] EXCEPT
                    !.shown = @ \o SubSeq(Taken(c, n), 1, j - 1),
                    !.pc = IF j <= Len(Taken(c, n)) THEN "prompt" ELSE "print",
                    !.ok = j <= Len(Taken(c, n))])
    BY DEF PRINT_RESPONSE_BODY
  <1>2. CASE n = -1
    BY <1>1, <1>2, DieInv, ClientType DEF PRINT_RESPONSE_BODY, Gone
  <1>3. CASE n # -1
    <2>1. PICK got : got = Taken(c, n)
      OBVIOUS
    <2>2. got \in Seq(Cell) /\ (TakeOff(c, n) => net' \in [Conns -> Endpoint])
      BY <1>0, <2>1, TakenType, WireAssumption
    <2>3. PICK j \in 1 .. Len(got) + 1 :
             /\ TakeOff(c, n)
             /\ GoOn(c, [cl[c] EXCEPT
                  !.shown = @ \o SubSeq(got, 1, j - 1),
                  !.pc = IF j <= Len(got) THEN "prompt" ELSE "print",
                  !.ok = j <= Len(got)])
      BY <1>1, <1>3, <2>1
    <2>4. SubSeq(got, 1, j - 1) \in Seq(Cell)
      BY <2>2, PieceType
    <2>5. PICK s \in Seq(Cell) : s = cl[c].shown \o SubSeq(got, 1, j - 1)
      BY <1>0, <2>4, ConcatType DEF ClientState
    <2>6. PICK pc \in {"prompt", "print"} :
              pc = IF j <= Len(got) THEN "prompt" ELSE "print"
      OBVIOUS
    <2>7. PICK ok \in BOOLEAN : ok = (j <= Len(got))
      <3>1. (j <= Len(got)) \in BOOLEAN
        OBVIOUS
      <3> QED BY <3>1, Zenon
    <2>8. PICK p : p = [cl[c] EXCEPT !.shown = s, !.pc = pc, !.ok = ok]
      OBVIOUS
    <2>9. p \in ClientState /\ p.fd = cl[c].fd
      BY <1>0, <2>5, <2>6, <2>7, <2>8 DEF ClientState, ClientPc
    <2>10. GoOn(c, p)
      BY <2>3, <2>5, <2>6, <2>7, <2>8
    <2>11. WireTypeOK'
      BY <2>2, <2>3 DEF PRINT_RESPONSE_BODY, Inv, TypeOK, WireTypeOK
    <2> QED BY <1>0, <2>9, <2>10, <2>11, ClientMove
  <1> QED BY <1>2, <1>3

(* The first piece of a download.                                          *)
LEMMA GetHeadInv ==
    ASSUME Inv, NEW c \in Clients, GetHead(c), UNCHANGED serverVars
    PROVE  Inv'
  <1>0. InCommand(cl[c]) /\ cl[c] \in ClientState /\ cl[c].fd \in Conns
    BY ClientType DEF InCommand, GetHead, Gone
  <1>1. PICK n \in CliResults(cl[c].fd, BufUnits) :
          IF n < 1
          THEN Die(c, "aborted", net)
          ELSE /\ TakeOff(c, n)
               /\ IF Taken(c, n)[1].k = "ERROR"
                  THEN GoOn(c, [cl[c] EXCEPT !.pc = "prompt"])
                  ELSE GoOn(c, [cl[c] EXCEPT
                          !.out = Tail(Taken(c, n)), !.need = Taken(c, n)[1].n,
                          !.pc = GetOn(Tail(Taken(c, n)), Taken(c, n)[1].n),
                          !.ok = TRUE])
    BY DEF GetHead
  <1>2. CASE n < 1
    BY <1>1, <1>2, DieInv, ClientType DEF GetHead, Gone
  <1>3. CASE ~(n < 1)
    <2>1. PICK got : got = Taken(c, n)
      OBVIOUS
    <2>2. /\ got \in Seq(Cell)
          /\ Len(got) >= 1
          /\ TakeOff(c, n) => net' \in [Conns -> Endpoint]
      BY <1>0, <1>3, <2>1, TakenType, WireAssumption
    <2>3. WireTypeOK'
      BY <1>1, <1>3, <2>2 DEF GetHead, Inv, TypeOK, WireTypeOK
    <2>4. got[1] \in Cell
      BY <2>2
    <2>5. PICK need \in Nat : need = got[1].n
      BY <2>4 DEF Cell
    <2>6. PICK out \in Seq(Cell) : out = Tail(got)
      <3>1. got # <<>>
        BY <2>2
      <3>2. Tail(got) \in Seq(Cell)
        BY <2>2, <3>1
      <3> QED BY <3>2
    <2>7. PICK pc \in {"prompt", "get_body"} : pc = GetOn(out, need)
      BY DEF GetOn
    <2>8. PICK p : p = IF got[1].k = "ERROR"
                       THEN [cl[c] EXCEPT !.pc = "prompt"]
                       ELSE [cl[c] EXCEPT !.out = out, !.need = need,
                                          !.pc = pc, !.ok = TRUE]
      OBVIOUS
    <2>9. p \in ClientState /\ p.fd = cl[c].fd
      BY <1>0, <2>5, <2>6, <2>7, <2>8 DEF ClientState, ClientPc
    <2>10. GoOn(c, p)
      BY <1>1, <1>3, <2>1, <2>5, <2>6, <2>7, <2>8
    <2> QED BY <1>0, <2>3, <2>9, <2>10, ClientMove
  <1> QED BY <1>2, <1>3

(* The loop of a download.                                                 *)
LEMMA RecvFileInv ==
    ASSUME Inv, NEW c \in Clients, recv_file(c), UNCHANGED serverVars
    PROVE  Inv'
  <1>0. InCommand(cl[c]) /\ cl[c] \in ClientState /\ cl[c].fd \in Conns
    BY ClientType DEF InCommand, recv_file, Gone
  <1>1. PICK n \in CliResults(cl[c].fd, BufUnits) :
          IF n = -1
          THEN Die(c, "aborted", net)
          ELSE /\ TakeOff(c, n)
               /\ GoOn(c, [cl[c] EXCEPT !.out = cl[c].out \o Taken(c, n),
                     !.pc = GetOn(cl[c].out \o Taken(c, n), cl[c].need)])
    BY DEF recv_file
  <1>2. CASE n = -1
    BY <1>1, <1>2, DieInv, ClientType DEF recv_file, Gone
  <1>3. CASE n # -1
    <2>1. Taken(c, n) \in Seq(Cell) /\ net' \in [Conns -> Endpoint]
      BY <1>0, <1>1, <1>3, TakenType, WireAssumption
    <2>2. PICK s \in Seq(Cell) : s = cl[c].out \o Taken(c, n)
      BY <1>0, <2>1, ConcatType DEF ClientState
    <2>3. PICK pc \in {"prompt", "get_body"} : pc = GetOn(s, cl[c].need)
      BY DEF GetOn
    <2>4. PICK p : p = [cl[c] EXCEPT !.out = s, !.pc = pc]
      OBVIOUS
    <2>5. p \in ClientState /\ p.fd = cl[c].fd
      BY <1>0, <2>2, <2>3, <2>4 DEF ClientState, ClientPc
    <2>6. GoOn(c, p)
      BY <1>1, <1>3, <2>2, <2>3, <2>4
    <2>7. WireTypeOK'
      BY <2>1 DEF recv_file, Inv, TypeOK, WireTypeOK
    <2> QED BY <1>0, <2>5, <2>6, <2>7, ClientMove
  <1> QED BY <1>2, <1>3

(* The loop of an upload.                                                  *)
LEMMA PutBodyInv ==
    ASSUME Inv, NEW c \in Clients, PutBody(c), UNCHANGED serverVars
    PROVE  Inv'
  <1>0. InCommand(cl[c]) /\ cl[c] \in ClientState /\ cl[c].fd \in Conns
    BY ClientType DEF InCommand, PutBody, Gone
  <1>1. PICK k \in Conns : k = cl[c].fd
    BY <1>0
  <1>2. net \in [Conns -> Endpoint]
    BY ClientType
  <1>3. CASE Die(c, "aborted", net)
    BY <1>2, <1>3, DieInv DEF PutBody, Gone
  <1>4. CASE ~Die(c, "aborted", net)
    <2>1. cl[c].size \in Nat /\ cl[c].pos \in Nat /\ cl[c].arg \in Names
      BY <1>0, <1>4 DEF PutBody, ClientState, Missing
    <2>2. PICK last \in Nat : last = Lesser(cl[c].pos + BufUnits, cl[c].size)
      BY <2>1, WireAssumption DEF Lesser
    <2>3. last <= cl[c].size
      BY <2>1, <2>2, WireAssumption DEF Lesser
    <2>4. PICK chunk \in Seq(Cell) :
              chunk = SubSeq(Content(cl[c].arg, cl[c].size), cl[c].pos + 1, last)
      <3>1. Content(cl[c].arg, cl[c].size) \in Seq(Cell)
            /\ Len(Content(cl[c].arg, cl[c].size)) = cl[c].size
        BY <2>1, ContentType
      <3>2. SubSeq(Content(cl[c].arg, cl[c].size), cl[c].pos + 1, last)
                \in Seq(Cell)
        BY <2>1, <2>2, <2>3, <3>1, PieceType
      <3> QED BY <3>2
    <2>5. PICK pos \in Nat : pos = IF chunk = <<>> THEN cl[c].pos ELSE last
      BY <2>1, <2>2
    <2>6. PICK pc \in {"put_ack", "put_body"} :
              pc = IF chunk = <<>> THEN "put_ack" ELSE "put_body"
      OBVIOUS
    <2>7. PICK p : p = [cl[c] EXCEPT !.pos = pos, !.pc = pc]
      OBVIOUS
    <2>8. p \in ClientState /\ p.fd = cl[c].fd
      BY <1>0, <2>5, <2>6, <2>7 DEF ClientState, ClientPc
    <2>9. GoOn(c, p)
      BY <1>4, <2>2, <2>4, <2>5, <2>6, <2>7 DEF PutBody
    <2>10. net' = IF chunk = <<>> THEN net
                  ELSE IF net[k].srv
                  THEN [net EXCEPT ![k].c2s = @ \o Packet(chunk)]
                  ELSE [net EXCEPT ![k].reset = TRUE]
      BY <1>1, <1>4, <2>2, <2>4 DEF PutBody
    <2>11. [net EXCEPT ![k].reset = TRUE] \in [Conns -> Endpoint]
      <3>1. [net[k] EXCEPT !.reset = TRUE] \in Endpoint
        BY <1>2 DEF Endpoint
      <3> QED BY <1>2, <3>1
    <2>12. [net EXCEPT ![k].c2s = @ \o Packet(chunk)] \in [Conns -> Endpoint]
      BY SentType
    <2>13. WireTypeOK'
      BY <1>2, <2>10, <2>11, <2>12 DEF PutBody, Inv, TypeOK, WireTypeOK
    <2> QED BY <1>0, <2>8, <2>9, <2>13, ClientMove
  <1> QED BY <1>3, <1>4

(* The acknowledgement of an upload.                                       *)
LEMMA PutAckInv ==
    ASSUME Inv, NEW c \in Clients, PutAck(c), UNCHANGED serverVars
    PROVE  Inv'
  <1>0. InCommand(cl[c]) /\ cl[c] \in ClientState /\ cl[c].fd \in Conns
    BY ClientType DEF InCommand, PutAck, Gone
  <1>1. PICK n \in CliResults(cl[c].fd, 1) :
          /\ TakeOff(c, n)
          /\ GoOn(c, [cl[c] EXCEPT !.pc = "prompt",
                                    !.ok = n > 0 /\ Taken(c, n)[1].k = "END"])
    BY DEF PutAck
  <1>2. net' \in [Conns -> Endpoint]
    <2>1. PICK cap \in Nat \ {0} : cap = 1
      OBVIOUS
    <2>2. n \in CliResults(cl[c].fd, cap)
      BY <2>1
    <2> QED BY <1>0, <1>1, <2>2, TakenType
  <1>3. PICK ok \in BOOLEAN : ok = (n > 0 /\ Taken(c, n)[1].k = "END")
    <2>1. CASE n > 0 /\ Taken(c, n)[1].k = "END"
      BY <2>1
    <2>2. CASE ~(n > 0 /\ Taken(c, n)[1].k = "END")
      BY <2>2
    <2> QED BY <2>1, <2>2
  <1>4. PICK p : p = [cl[c] EXCEPT !.pc = "prompt", !.ok = ok]
    OBVIOUS
  <1>5. p \in ClientState /\ p.pc = "prompt"
    BY <1>0, <1>3, <1>4 DEF ClientState, ClientPc
  <1>6. WireTypeOK'
    BY <1>2 DEF PutAck, Inv, TypeOK, WireTypeOK
  <1> QED BY <1>1, <1>3, <1>4, <1>5, <1>6, ClientMove DEF InCommand

(* Whatever a user types.                                                  *)
LEMMA CommandInv ==
    ASSUME Inv, NEW c \in Clients, Command(c), UNCHANGED serverVars
    PROVE  Inv'
  <1>1. (IF Orderly THEN Sizes ELSE Sizes \cup {Missing})
            \in SUBSET (Sizes \cup {Missing})
    OBVIOUS
  <1>2. CASE cmd_put(c, IF Orderly THEN Sizes ELSE Sizes \cup {Missing})
    BY <1>1, <1>2, PutHeadInv
  <1>3. CASE cmd_open(c) \/ cmd_exit(c)
    BY <1>3, OpenInv, QuitInv
  <1>4. CASE cmd_ls(c) \/ cmd_cd(c) \/ cmd_get(c, Targets) \/ cmd_pwd(c) \/ CONNECT_CHECK(c)
    BY <1>4, RequestInv
  <1> QED BY <1>2, <1>3, <1>4 DEF Command

-----------------------------------------------------------------------------
(* Inv is inductive.                                                       *)
THEOREM NextInv ==
    ASSUME Inv, [Next]_vars
    PROVE  Inv'
  <1>1. CASE Main /\ UNCHANGED cl
    BY <1>1, MainInv
  <1>2. ASSUME NEW i \in Conns, Session(i), UNCHANGED cl
        PROVE  Inv'
    BY <1>2, SessionInv
  <1>3. ASSUME NEW c \in Clients, UNCHANGED serverVars,
               Command(c) \/ ClientStep(c) \/ Interrupt(c)
        PROVE  Inv'
    BY <1>3, CommandInv, QuitInv, PrintInv, GetHeadInv, RecvFileInv, PutBodyInv,
       PutAckInv
       DEF ClientStep, Interrupt
  <1>4. CASE UNCHANGED vars
    <2>1. WireTypeOK' /\ ServerTypeOK' /\ ClientTypeOK'
      BY <1>4 DEF vars, wireVars, serverVars, Inv, TypeOK, WireTypeOK,
         ServerTypeOK, ClientTypeOK
    <2>2. HandlesHeld'
      BY <1>4 DEF vars, wireVars, serverVars, Inv, HandlesHeld, Held, Reads, Writes
    <2> QED BY <2>1, <2>2 DEF Inv, TypeOK
  <1> QED BY <1>1, <1>2, <1>3, <1>4 DEF Next, ServerNext, ClientNext

(* Every variable of clients, connections and server keeps its type: in    *)
(* particular every length recv returns fits the buffer it is used on.     *)
THEOREM TypeCorrect == Spec => []TypeOK
  <1>1. Inv => TypeOK
    BY DEF Inv
  <1> QED BY <1>1, InitInv, NextInv, PTL DEF Spec

(* No session reads or writes a file that it has not opened or that does   *)
(* not exist, starts to send without an answer, or writes a length that    *)
(* wrapped around, and no client talks on a socket it does not have,       *)
(* however the threads interleave on the shared buffers.                   *)
THEOREM HandlesSafe == Spec => []HandlesHeld
  <1>1. Inv => HandlesHeld
    BY DEF Inv
  <1> QED BY <1>1, InitInv, NextInv, PTL DEF Spec

-----------------------------------------------------------------------------
(* Who has which connection.                                               *)

Running(t) == t.pc \notin {"idle", "start"}

(* A running session keeps running on its connection until it is done.     *)
Keeps(i) ==
    /\ Running(th[i]) /\ Running(th'[i]) /\ th'[i].fd = th[i].fd
    /\ \A j \in Conns \ {i} : th'[j] = th[j]
    /\ UNCHANGED <<main, backlog, nconn>>

(* A session that has started leaves main and the descriptors of the       *)
(* threads alone.                                                          *)
LEMMA SessionKeeps ==
    ASSUME Inv, NEW i \in Conns, Session(i), ~SessionStart(i)
    PROVE  Keeps(i)
  <1>0. th \in [Conns -> Thread] /\ th[i] \in Thread
    BY ThreadType DEF Inv, TypeOK, ServerTypeOK
  <1>1. ASSUME NEW t, th' = [th EXCEPT ![i] = t], t.fd = th[i].fd, Running(t),
               Running(th[i]), UNCHANGED <<main, backlog, nconn>>
        PROVE  Keeps(i)
    BY <1>0, <1>1 DEF Keeps
  <1>2. ASSUME UNCHANGED th, Running(th[i]), UNCHANGED <<main, backlog, nconn>>
        PROVE  Keeps(i)
    BY <1>2 DEF Keeps
  <1>3. ASSUME NEW replies, NEW next, Answer(i, replies, next), Running(th[i]),
               UNCHANGED <<main, backlog, nconn>>
        PROVE  Keeps(i)
    BY <1>0, <1>1, <1>3 DEF Answer, Become, Running, Thread
  <1>4. CASE SessionRecv(i)
    <2>1. PICK n : Become(i, [th[i] EXCEPT !.pc = "dispatch", !.n = n])
      BY <1>4 DEF SessionRecv
    <2> QED BY <1>0, <1>1, <1>4, <2>1 DEF SessionRecv, Become, Running, Thread
  <1>5. CASE response_ls(i)
    <2>1. Running(th[i]) /\ UNCHANGED <<main, backlog, nconn>>
      BY <1>5 DEF response_ls, Switch, Running, wireVars
    <2>2. \E replies, next : Answer(i, replies, next)
      BY <1>5 DEF response_ls
    <2> QED BY <1>3, <2>1, <2>2
  <1>6. CASE response_pwd(i) \/ PwdAfterCd(i)
    <2>1. Running(th[i]) /\ UNCHANGED <<main, backlog, nconn>>
      BY <1>6 DEF response_pwd, PwdAfterCd, Switch, Running, wireVars
    <2>2. \E replies, next : Answer(i, replies, next)
      BY <1>6 DEF response_pwd, PwdAfterCd
    <2> QED BY <1>3, <2>1, <2>2
  <1>7. CASE response_cd(i)
    <2>1. Running(th[i]) /\ UNCHANGED <<main, backlog, nconn>>
      BY <1>7 DEF response_cd, Switch, Running, wireVars
    <2>2. \/ \E replies, next : Answer(i, replies, next)
          \/ Become(i, [th[i] EXCEPT !.pc = "pwd"])
      BY <1>7 DEF response_cd
    <2>3. CASE Become(i, [th[i] EXCEPT !.pc = "pwd"])
      BY <1>0, <1>1, <2>1, <2>3 DEF Become, Running, Thread
    <2> QED BY <1>3, <2>1, <2>2, <2>3
  <1>8. CASE response_get(i)
    <2>1. Running(th[i]) /\ UNCHANGED <<main, backlog, nconn>>
      BY <1>8 DEF response_get, Switch, Running, wireVars
    <2>2. \E replies, next : Answer(i, replies, next)
      BY <1>8 DEF response_get
    <2> QED BY <1>3, <2>1, <2>2
  <1>9. CASE Fopen(i)
    <2>1. Running(th[i]) /\ UNCHANGED <<main, backlog, nconn>>
      BY <1>9 DEF Fopen, Running
    <2>2. \/ UNCHANGED th
          \/ Become(i, [th[i] EXCEPT !.pc = "fread", !.pos = 0,
                                      !.file = buf[1].f, !.dir = cwd])
      BY <1>9 DEF Fopen
    <2> QED BY <1>0, <1>1, <1>2, <2>1, <2>2 DEF Become, Running, Thread
  <1>10. CASE Fread(i)
    <2>1. Running(th[i]) /\ UNCHANGED <<main, backlog, nconn>>
      BY <1>10 DEF Fread, Running, wireVars
    <2>2. \/ Become(i, [th[i] EXCEPT !.pc = "recv"])
          \/ \E todo, pos : Become(i, [th[i] EXCEPT !.pc = "send", !.next = "fread",
                                       !.todo = todo, !.pos = pos])
      BY <1>10 DEF Fread
    <2>3. CASE Become(i, [th[i] EXCEPT !.pc = "recv"])
      BY <1>0, <1>1, <2>1, <2>3 DEF Become, Running, Thread
    <2>4. ASSUME NEW todo, NEW pos,
                 Become(i, [th[i] EXCEPT !.pc = "send", !.next = "fread",
                                         !.todo = todo, !.pos = pos])
          PROVE  Keeps(i)
      BY <1>0, <1>1, <2>1, <2>4 DEF Become, Running, Thread
    <2> QED BY <2>2, <2>3, <2>4
  <1>11. CASE response_put(i)
    <2>1. Running(th[i]) /\ UNCHANGED <<main, backlog, nconn>>
      BY <1>11 DEF response_put, Switch, Running
    <2>2. \/ UNCHANGED th
          \/ Become(i, [th[i] EXCEPT !.pc = "put_rest", !.file = Seen(i).f,
                                      !.dir = cwd, !.need = Seen(i).n])
      BY <1>11 DEF response_put
    <2> QED BY <1>0, <1>1, <1>2, <2>1, <2>2 DEF Become, Running, Thread
  <1>12. CASE PutRest(i) \/ PutWrite(i)
    <2>1. Running(th[i]) /\ UNCHANGED <<main, backlog, nconn>>
      BY <1>12 DEF PutRest, PutWrite, Running, wireVars
    <2>2. \E out : Written(i, out)
      BY <1>12 DEF PutRest, PutWrite
    <2> QED BY <1>0, <1>1, <2>1, <2>2 DEF Written, PutOn, Become, Running, Thread
  <1>13. CASE PutRecv(i)
    <2>1. Running(th[i]) /\ UNCHANGED <<main, backlog, nconn>>
      BY <1>13 DEF PutRecv, Running
    <2>2. \/ UNCHANGED th
          \/ \E n : Become(i, [th[i] EXCEPT !.pc = "put_write", !.n = n])
      BY <1>13 DEF PutRecv
    <2>3. ASSUME NEW n, Become(i, [th[i] EXCEPT !.pc = "put_write", !.n = n])
          PROVE  Keeps(i)
      BY <1>0, <1>1, <2>1, <2>3 DEF Become, Running, Thread
    <2> QED BY <1>2, <2>1, <2>2, <2>3
  <1>14. CASE PutClose(i)
    <2>1. Running(th[i]) /\ UNCHANGED <<main, backlog, nconn>>
      BY <1>14 DEF PutClose, Running, wireVars
    <2>2. Become(i, [th[i] EXCEPT !.pc = "fill", !.next = "recv", !.out = <<>>,
                                !.todo = << Via("buf", <<End>>) >>])
      BY <1>14 DEF PutClose
    <2> QED BY <1>0, <1>1, <2>1, <2>2 DEF Become, Running, Thread
  <1>15. CASE response_exit(i) \/ NoCase(i)
    <2>1. Running(th[i]) /\ UNCHANGED <<main, backlog, nconn>>
      BY <1>15 DEF response_exit, NoCase, Switch, Running
    <2>2. \/ Become(i, [th[i] EXCEPT !.pc = "done"])
          \/ Become(i, [th[i] EXCEPT !.pc = "recv"])
      BY <1>15 DEF response_exit, NoCase
    <2> QED BY <1>0, <1>1, <2>1, <2>2 DEF Become, Running, Thread
  <1>16. CASE Fill(i)
    <2>1. Running(th[i]) /\ UNCHANGED <<main, backlog, nconn>>
      BY <1>16 DEF Fill, Running, wireVars
    <2>2. Become(i, [th[i] EXCEPT !.pc = "send"])
      BY <1>16 DEF Fill
    <2> QED BY <1>0, <1>1, <2>1, <2>2 DEF Become, Running, Thread
  <1>17. CASE Send(i)
    <2>1. Running(th[i]) /\ UNCHANGED <<main, backlog, nconn>>
      BY <1>17 DEF Send, Running
    <2>2. PICK pc : /\ pc \in {"fill"} \cup AfterSend
                    /\ Become(i, [th[i] EXCEPT !.todo = Tail(@), !.pc = pc])
      BY <1>0, <1>17 DEF Send, Thread
    <2> QED BY <1>0, <1>1, <2>1, <2>2 DEF Become, Running, Thread, AfterSend
  <1> QED BY <1>4, <1>5, <1>6, <1>7, <1>8, <1>9, <1>10, <1>11, <1>12, <1>13,
             <1>14, <1>15, <1>16, <1>17 DEF Session

(* A connection on its way to its thread: from open to the thread's first  *)
(* statement, which reads main's client_fd.  With orderly users there is   *)
(* at most one at a time, and no session has its connection.               *)
Fresh(k) == k \in Conns /\ k <= nconn /\ \A i \in Conns : ~SessionOf(i, k)

Starting == {i \in Conns : th[i].pc = "start"}

OneEnters ==
    /\ backlog # <<>> => /\ Len(backlog) = 1 /\ Fresh(Head(backlog))
                         /\ main.pc = "accept" /\ Starting = {}
    /\ main.pc = "create" => Fresh(main.fd) /\ Starting = {}
    /\ Starting # {} => Fresh(main.fd)
    /\ \A i, j \in Starting : i = j

OwnInv ==
    /\ SessionOwnsFd /\ OneEnters
    /\ \A i, k \in Conns : SessionOf(i, k) => k <= nconn

(* Nobody has a descriptor at first.                                       *)
LEMMA OwnStarts == Init => OwnInv
  <1> SUFFICES ASSUME Init PROVE OwnInv
    OBVIOUS
  <1>1. \A i \in Conns : th[i].pc = "idle"
    BY DEF Init, ServerInit, NewThread
  <1>2. \A i, k : i \in Conns => ~SessionOf(i, k)
    BY <1>1 DEF SessionOf
  <1>3. Starting = {}
    BY <1>1 DEF Starting
  <1>4. backlog = <<>> /\ main.pc = "accept"
    BY DEF Init, WireInit, ServerInit
  <1> QED BY <1>2, <1>3, <1>4 DEF OwnInv, OneEnters, SessionOwnsFd

(* main hands on a descriptor that no session has.                         *)
LEMMA OwnMain == ASSUME Inv, OwnInv, Main PROVE OwnInv'
  <1>0. main \in MainState /\ th \in [Conns -> Thread] /\ backlog \in Seq(Conns)
    BY DEF Inv, TypeOK, ServerTypeOK, WireTypeOK
  <1>1. CASE Accept
    <2>1. /\ main.pc = "accept" /\ backlog # <<>> /\ backlog' = Tail(backlog)
          /\ main'.pc = "create" /\ main'.fd = Head(backlog)
          /\ UNCHANGED <<nconn, th>>
      BY <1>0, <1>1 DEF Accept, MainState
    <2>2. Len(backlog) = 1 /\ Fresh(Head(backlog)) /\ Starting = {}
      BY <2>1 DEF OwnInv, OneEnters
    <2>3. backlog' = <<>>
      BY <1>0, <2>1, <2>2
    <2>4. Fresh(main.fd)' /\ Starting' = {}
      BY <2>1, <2>2 DEF Fresh, SessionOf, Starting
    <2> QED BY <2>1, <2>3, <2>4 DEF OwnInv, OneEnters, SessionOwnsFd, SessionOf
  <1>2. CASE ThrdCreate
    <2>0. PICK i \in Conns : i = main.made + 1
      BY <1>0, <1>2, WireAssumption DEF ThrdCreate, MainState
    <2>1. /\ main.pc = "create" /\ main'.pc = "accept" /\ main'.fd = main.fd
          /\ UNCHANGED <<nconn, backlog>>
          /\ th' = [th EXCEPT ![i] = [th[i] EXCEPT !.pc = "start"]]
      BY <1>0, <1>2, <2>0 DEF ThrdCreate, Become, MainState, wireVars
    <2>2. Fresh(main.fd) /\ Starting = {} /\ backlog = <<>>
      BY <2>1 DEF OwnInv, OneEnters
    <2>3. th'[i].pc = "start" /\ \A j \in Conns \ {i} : th'[j] = th[j]
      BY <1>0, <2>1 DEF Thread
    <2>4. \A j, k \in Conns : SessionOf(j, k)' => SessionOf(j, k)
      BY <2>3 DEF SessionOf
    <2>5. Fresh(main.fd)' /\ Starting' = {i}
      BY <2>1, <2>2, <2>3, <2>4 DEF Fresh, Starting
    <2>6. OneEnters'
      BY <2>1, <2>2, <2>5 DEF OneEnters, Fresh
    <2> QED BY <2>1, <2>4, <2>6 DEF OwnInv, SessionOwnsFd
  <1> QED BY <1>1, <1>2 DEF Main

(* A thread that starts takes it, and then it is nobody else's.            *)
LEMMA OwnSession == ASSUME Inv, OwnInv, NEW i \in Conns, Session(i) PROVE OwnInv'
  <1>0. main \in MainState /\ th \in [Conns -> Thread] /\ backlog \in Seq(Conns)
    BY DEF Inv, TypeOK, ServerTypeOK, WireTypeOK
  <1>1. CASE SessionStart(i)
    <2>1. /\ i \in Starting /\ UNCHANGED <<nconn, backlog, main>>
          /\ th' = [th EXCEPT ![i] = [th[i] EXCEPT !.pc = "recv", !.fd = main.fd]]
      BY <1>1 DEF SessionStart, Starting, Become, wireVars
    <2>2. /\ Starting = {i} /\ Fresh(main.fd) /\ backlog = <<>>
          /\ main.pc # "create"
      BY <2>1 DEF OwnInv, OneEnters
    <2>3. /\ th'[i].pc = "recv" /\ th'[i].fd = main.fd
          /\ \A j \in Conns \ {i} : th'[j] = th[j]
      BY <1>0, <2>1 DEF Thread
    <2>4. Starting' = {}
      BY <2>2, <2>3 DEF Starting
    <2>5. \A j, k \in Conns : SessionOf(j, k)' =>
             (SessionOf(j, k) /\ k # main.fd) \/ (j = i /\ k = main.fd)
      BY <2>2, <2>3 DEF SessionOf, Fresh
    <2>6. OneEnters'
      BY <2>1, <2>2, <2>4 DEF OneEnters
    <2>7. SessionOwnsFd'
      BY <2>5 DEF SessionOwnsFd, OwnInv
    <2> QED BY <2>1, <2>2, <2>5, <2>6, <2>7 DEF OwnInv, Fresh
  <1>2. CASE ~SessionStart(i)
    <2>1. Keeps(i)
      BY <1>2, SessionKeeps
    <2>2. \A j, k : j \in Conns => (SessionOf(j, k)' <=> SessionOf(j, k))
      BY <2>1 DEF SessionOf, Keeps, Running
    <2>3. Starting' = Starting /\ UNCHANGED <<main, backlog, nconn>>
      BY <2>1 DEF Starting, Keeps, Running
    <2>4. \A k : Fresh(k)' <=> Fresh(k)
      BY <2>2, <2>3 DEF Fresh
    <2>5. OneEnters'
      BY <2>3, <2>4 DEF OneEnters, OwnInv
    <2> QED BY <2>2, <2>3, <2>5 DEF OwnInv, SessionOwnsFd
  <1> QED BY <1>1, <1>2

(* Only open brings a connection in, and orderly users open one only when  *)
(* none is on its way.                                                     *)
LEMMA OwnClient ==
    ASSUME Inv, OwnInv, Orderly, NEW c \in Clients, UNCHANGED serverVars,
           Command(c) \/ ClientStep(c) \/ Interrupt(c)
    PROVE  OwnInv'
  <1>0. /\ backlog \in Seq(Conns) /\ nconn \in 0 .. MaxConns /\ UNCHANGED <<main, th>>
    BY DEF Inv, TypeOK, WireTypeOK, serverVars
  <1>1. \A j, k : SessionOf(j, k)' <=> SessionOf(j, k)
    BY <1>0 DEF SessionOf
  <1>2. Starting' = Starting
    BY <1>0 DEF Starting
  <1>3. CASE UNCHANGED <<nconn, backlog>>
    <2>1. \A k : Fresh(k)' <=> Fresh(k)
      BY <1>1, <1>3 DEF Fresh
    <2>2. OneEnters'
      BY <1>0, <1>2, <1>3, <2>1 DEF OneEnters, OwnInv
    <2> QED BY <1>1, <1>3, <2>2 DEF OwnInv, SessionOwnsFd
  <1>4. CASE Quiet(c) /\ cmd_open(c)
    <2>0. PICK k : k = nconn + 1
      OBVIOUS
    <2>1. backlog = <<>> /\ main.pc = "accept" /\ Starting = {}
      BY <1>4 DEF Quiet, Starting
    <2>2. k \in Conns /\ nconn' = k /\ (backlog' = Append(backlog, k) \/ backlog' = backlog)
      BY <1>0, <1>4, <2>0, WireAssumption DEF cmd_open
    <2>3. \A i, j \in Conns : SessionOf(i, j)' => j < nconn'
      BY <1>0, <1>1, <2>0, <2>2, WireAssumption DEF OwnInv
    <2>4. Fresh(k)'
      BY <2>2, <2>3, WireAssumption DEF Fresh
    <2>5. backlog' = <<>> \/ (Len(backlog') = 1 /\ Head(backlog') = k)
      BY <2>1, <2>2
    <2>6. OneEnters'
      BY <1>0, <1>2, <2>1, <2>4, <2>5 DEF OneEnters
    <2>7. SessionOwnsFd'
      BY <1>1 DEF OwnInv, SessionOwnsFd
    <2>8. \A i, j \in Conns : SessionOf(i, j)' => j <= nconn'
      BY <2>2, <2>3, WireAssumption
    <2> QED BY <2>6, <2>7, <2>8 DEF OwnInv
  <1>5. \/ UNCHANGED <<nconn, backlog>>
        \/ Quiet(c) /\ cmd_open(c)
    <2>1. CASE Command(c)
      <3>1. CASE cmd_open(c)
        BY <2>1, <3>1 DEF Command
      <3>2. CASE CONNECT_CHECK(c) \/ cmd_exit(c)
        BY <3>2 DEF CONNECT_CHECK, cmd_exit, wireVars
      <3>3. CASE cmd_ls(c) \/ cmd_pwd(c) \/ cmd_cd(c) \/ cmd_get(c, Targets)
                 \/ cmd_put(c, IF Orderly THEN Sizes ELSE Sizes \cup {Missing})
        BY <3>3 DEF cmd_ls, cmd_pwd, cmd_cd, cmd_get, cmd_put, Ask
      <3> QED BY <2>1, <3>1, <3>2, <3>3 DEF Command
    <2>2. CASE ClientStep(c)
      BY <2>2 DEF ClientStep, PRINT_RESPONSE_BODY, GetHead, recv_file, PutBody, PutAck
    <2>3. CASE Interrupt(c)
      BY <2>3 DEF Interrupt
    <2> QED BY <2>1, <2>2, <2>3
  <1> QED BY <1>3, <1>4, <1>5

(* ft-server.c passes the address of main's client_fd to every thread.     *)
(* For any number of orderly clients and connections each session          *)
(* nevertheless gets a connection of its own: the next connection is       *)
(* accepted only after the thread has read the last one.                   *)
THEOREM OrderlySessionsOwn == Orderly => (Spec => []SessionOwnsFd)
  <1> SUFFICES ASSUME Orderly PROVE Spec => []SessionOwnsFd
    OBVIOUS
  <1>1. Inv /\ OwnInv /\ [Next]_vars => (Inv /\ OwnInv)'
    <2> SUFFICES ASSUME Inv, OwnInv, [Next]_vars PROVE OwnInv'
      BY NextInv
    <2>1. CASE UNCHANGED vars
      BY <2>1 DEF vars, wireVars, serverVars, OwnInv, OneEnters, SessionOwnsFd,
         Fresh, Starting, SessionOf
    <2> QED BY <2>1, OwnMain, OwnSession, OwnClient DEF Next, ServerNext, ClientNext
  <1>2. OwnInv => SessionOwnsFd
    BY DEF OwnInv
  <1> QED BY <1>1, <1>2, InitInv, OwnStarts, PTL DEF Spec
=============================================================================

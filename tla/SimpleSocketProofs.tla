------------------------- MODULE SimpleSocketProofs -------------------------
(***************************************************************************)
(* Proofs about SimpleSocket: every descriptor has one owner, a session    *)
(* keeps its client, and both programs implement the abstract echo         *)
(* service.                                                                *)
(***************************************************************************)
EXTENDS SimpleSocket, EchoNetProofs

Serving == {"read", "write", "close"}

(* The table: number 3 listens, the others belong to one client each.      *)
TableAt ==
    /\ \A p \in Conns : fdt[p] = NoFds
    /\ \A fd \in Fds \ {3} : fdt[0][fd] = FREE \/ fdt[0][fd] \in Conns
    /\ fdt[0][3] = IF th[0].pc = "open" THEN FREE ELSE LISTEN
    /\ \A fd, fe \in Fds : fdt[0][fd] \in Conns /\ fdt[0][fd] = fdt[0][fe]
                              => fd = fe

(* Every descriptor has one owner, and every owner a descriptor.           *)
Owns(ob, tb) ==
    /\ \A fd \in Fds : tb[fd] # FREE => \E o \in Objects : ob[o] = fd
    /\ \A o \in Objects : ob[o] # -1 => tb[ob[o]] # FREE
    /\ \A o, q \in Objects : ob[o] # -1 /\ ob[o] = ob[q] => o = q

(* main's objects.                                                         *)
MainAt ==
    /\ th[0].pc = "open" => /\ \A o \in Objects : obj[o] = -1
                            /\ \A k \in Conns : th[k].pc = "none"
                            /\ \A fd \in Fds : fdt[0][fd] = FREE
                            /\ backlog = <<>>
    /\ th[0].pc # "open" => obj[Sock] = 3
    /\ obj[Tmp] # -1 <=> th[0].pc = "assign"
    /\ prog = "thread" =>
          /\ th[0].pc \in {"open", "accept", "assign", "spawn"}
          /\ obj[Clnt] # -1 <=> th[0].pc = "spawn"
    /\ prog = "obj" =>
          /\ th[0].pc \in {"open", "accept", "assign", "read", "write"}
          /\ th[0].pc \in {"read", "write"} => obj[Clnt] # -1
          /\ \A k \in Conns : th[k].pc = "none"

(* A session owns its client's descriptor exactly while it serves it, and  *)
(* nobody else ever gets that client.                                      *)
SessionOf(k, pc, ob, tb, l, bl) ==
    /\ pc \in Serving \cup {"none", "destroy", "ended"}
    /\ pc \in Serving => ob[k] # -1 /\ tb[ob[k]] = k
    /\ pc \notin Serving => ob[k] = -1
    /\ pc # "none" =>
          /\ l # "off" /\ ~ Pending(bl, k)
          /\ \A fd \in Fds : tb[fd] = k => fd = ob[k]
SessionAt ==
    \A k \in Conns : SessionOf(k, th[k].pc, obj, fdt[0], cl[k], backlog)

(* The accept queue: each client once, none of them accepted already.      *)
QueueAt ==
    /\ \A x \in 1 .. Len(backlog), fd \in Fds : fdt[0][fd] # backlog[x]
    /\ \A x, y \in 1 .. Len(backlog) : backlog[x] = backlog[y] => x = y

Up == TableAt /\ Owns(obj, fdt[0]) /\ MainAt /\ SessionAt /\ QueueAt

(* After the end of the process nothing of it is left.                     *)
Down ==
    /\ \A p \in Procs : fdt[p] = NoFds /\ th[p].pc = "ended"
    /\ backlog = <<>>

(* What a thread has read from client k and not yet written back.          *)
BufOf(k) ==
    IF th[k].pc = "write" THEN th[k].buf
    ELSE IF th[0].pc = "write" /\ Peer(0) = k THEN th[0].buf ELSE <<>>
Bufs == [k \in Conns |-> BufOf(k)]

SockInv ==
    /\ SockTypeOK
    /\ \A p \in Procs : th[p].pc # "write" => th[p].buf = <<>>
    /\ status = "up" => Up
    /\ status # "up" => Down
    /\ InPlace(sent, rcvd, conn, cl, fdt, backlog, Bufs)

-----------------------------------------------------------------------------
(* The socket objects: main's three, and one for each thread.              *)
LEMMA ObjectsAre ==
    /\ Objects = {Sock, Clnt, Tmp} \cup Conns
    /\ Sock # Clnt /\ Sock # Tmp /\ Clnt # Tmp
    /\ Sock \notin Conns /\ Clnt \notin Conns /\ Tmp \notin Conns
  BY EchoNetAssumption DEF Objects, Sock, Clnt, Tmp, Conns

(* Only the table of process 0 is in use.                                  *)
LEMMA OneTable ==
    ASSUME NEW tab, \A p \in Conns : tab[p] = NoFds, NEW x, x # FREE
    PROVE  Refers(tab, x) <=> \E fd \in Fds : tab[0][fd] = x
  <1>1. \A p \in Conns, fd \in Fds : tab[p][fd] = FREE
    BY DEF NoFds
  <1> QED BY <1>1, ProcsAre DEF Refers

(* The types of the parts of the state.                                    *)
LEMMA TypeFacts ==
    ASSUME SockTypeOK
    PROVE  /\ conn \in [Conns -> Connection] /\ backlog \in Seq(Conns)
           /\ fdt \in Tables /\ fdt[0] \in [Fds -> -2 .. MaxConns]
           /\ obj \in [Objects -> {-1} \cup Fds] /\ th \in [Procs -> Thread]
           /\ \A p \in Procs : th[p].buf \in Seq(Cell)
           /\ Bufs \in [Conns -> Seq(Cell)]
  <1>1. /\ conn \in [Conns -> Connection] /\ backlog \in Seq(Conns)
        /\ fdt \in Tables
        /\ obj \in [Objects -> {-1} \cup Fds] /\ th \in [Procs -> Thread]
    BY DEF SockTypeOK, NetTypeOK, Tables
  <1>2. fdt[0] \in [Fds -> -2 .. MaxConns]
    BY <1>1, ProcsAre DEF Tables
  <1>3. \A p \in Procs : th[p].buf \in Seq(Cell)
    BY <1>1 DEF Thread
  <1>4. \A k \in Conns : BufOf(k) \in Seq(Cell)
    <2>1. <<>> \in Seq(Cell)
      OBVIOUS
    <2> QED BY <1>3, <2>1, ProcsAre DEF BufOf
  <1> QED BY <1>1, <1>2, <1>3, <1>4 DEF Bufs

(* A change of main's table, and what becomes of the connections.          *)
LEMMA BecomeEffect ==
    ASSUME SockTypeOK, TableAt, NEW s, s.tab \in [Fds -> -2 .. MaxConns],
           s.tab[3] = LISTEN, NEW bl \in Seq(Conns), Become(s, bl)
    PROVE  /\ obj' = s.obj /\ fdt' \in Tables /\ fdt'[0] = s.tab
           /\ \A p \in Conns : fdt'[p] = NoFds
           /\ backlog' = bl /\ conn' \in [Conns -> Connection]
           /\ \A k \in Conns : Has(fdt', backlog', k) <=>
                  ((\E fd \in Fds : s.tab[fd] = k) \/ Pending(bl, k))
           /\ Retab(conn, fdt', bl)
  <1> DEFINE tab == [fdt EXCEPT ![0] = s.tab]
  <1>1. obj' = s.obj /\ Retab(conn, tab, bl)
    BY DEF Become
  <1>2. fdt \in Tables /\ conn \in [Conns -> Connection]
    BY TypeFacts
  <1>3. /\ tab \in Tables /\ tab[0] = s.tab
        /\ \A p \in Conns : tab[p] = NoFds
    BY <1>2, ProcsAre DEF Tables, TableAt
  <1> HIDE DEF tab
  <1>4. Refers(tab, LISTEN)
    BY <1>3, ProcsAre, FdsAre DEF Refers
  <1>5. fdt' = tab /\ backlog' = bl /\ conn' \in [Conns -> Connection]
    <2>1. /\ fdt' = tab /\ conn' \in [Conns -> Connection]
          /\ backlog' = IF Refers(tab, LISTEN) THEN bl ELSE <<>>
      BY <1>1, <1>2, <1>3, RetabEffect
    <2> QED BY <1>4, <2>1
  <1>6. ASSUME NEW k \in Conns
        PROVE  Refers(tab, k) <=> \E fd \in Fds : s.tab[fd] = k
    <2>1. k # FREE
      BY FdsAre
    <2>2. Refers(tab, k) <=> \E fd \in Fds : tab[0][fd] = k
      BY <1>3, <2>1, OneTable
    <2> QED BY <1>3, <2>2
  <1> QED BY <1>1, <1>3, <1>5, <1>6 DEF Has

(* The end of the process, of whatever cause.                              *)
LEMMA EndStep ==
    ASSUME SockInv, NEW how \in {"failed", "sigpipe"}, status = "up", End(how)
    PROVE  SockInv' /\ UNCHANGED <<sent, rcvd>>
  <1>t. SockTypeOK /\ TableAt
    BY DEF SockInv, Up
  <1>1. /\ status' = how /\ UNCHANGED <<cl, sent, rcvd, prog, obj>>
        /\ th' = [p \in Procs |-> [th[p] EXCEPT !.pc = "ended", !.buf = <<>>]]
    BY DEF End, peerVars
  <1> DEFINE tab == [fdt EXCEPT ![0] = NoFds]
  <1>2. NoFds \in [Fds -> -2 .. MaxConns]
    BY FdsAre DEF NoFds
  <1>3. tab \in Tables /\ \A p \in Procs : tab[p] = NoFds
    BY <1>t, <1>2, TypeFacts, ProcsAre DEF Tables, TableAt
  <1>4. \A x : x # FREE => ~ Refers(tab, x)
    BY <1>3 DEF Refers, NoFds
  <1>5. Retab(conn, tab, backlog)
    BY DEF End
  <1> HIDE DEF tab
  <1>6. fdt' = tab /\ backlog' = <<>> /\ conn' \in [Conns -> Connection]
    BY <1>t, <1>3, <1>4, <1>5, TypeFacts, RetabEffect, FdsAre
  <1>7. \A p \in Procs : th'[p].pc = "ended" /\ th'[p].buf = <<>> /\ th'[p] \in Thread
    <2>1. <<>> \in {q \in Seq(Cell) : Len(q) <= BufCells}
      BY EchoNetAssumption
    <2> QED BY <1>t, <1>1, <2>1, TypeFacts DEF Thread
  <1>8. th' \in [Procs -> Thread]
    BY <1>1, <1>7
  <1>9. SockTypeOK'
    <2>1. NetTypeOK /\ prog \in Programs
      BY <1>t DEF SockTypeOK
    <2>2. <<>> \in Seq(Conns) /\ fdt' \in [Procs -> [Fds -> -2 .. MaxConns]]
      BY <1>3, <1>6 DEF Tables
    <2>3. NetTypeOK'
      BY <1>1, <1>6, <2>1, <2>2 DEF NetTypeOK
    <2> QED BY <1>t, <1>1, <1>8, <2>1, <2>3, TypeFacts DEF SockTypeOK
  <1>10. Down'
    BY <1>3, <1>6, <1>7 DEF Down
  <1>11. \A k \in Conns : Bufs'[k] = <<>>
    BY <1>7, ProcsAre DEF Bufs, BufOf
  <1>12. InPlace(sent', rcvd', conn', cl', fdt', backlog', Bufs')
    <2>1. \A k \in Conns : ~ Has(tab, backlog', k)
      <3>1. \A k : ~ Pending(<<>>, k)
        BY DEF Pending
      <3> QED BY <1>4, <1>6, <3>1, FdsAre DEF Has
    <2>2. NetTypeOK /\ InPlace(sent, rcvd, conn, cl, fdt, backlog, Bufs)
      BY DEF SockInv, SockTypeOK
    <2>3. InPlace(sent, rcvd, conn', cl, fdt', backlog', Bufs')
      <3> HIDE DEF Bufs
      <3> QED BY <1>t, <1>3, <1>5, <1>11, <2>1, <2>2, TypeFacts, RetabKeeps
    <2> QED BY <1>1, <2>3
  <1>13. \A p \in Procs : th'[p].pc # "write" => th'[p].buf = <<>>
    BY <1>7
  <1> QED BY <1>1, <1>9, <1>10, <1>12, <1>13 DEF SockInv

-----------------------------------------------------------------------------
(* A step of the program while the process lives: what has to be shown of  *)
(* it besides the structure of the tables.                                 *)
LEMMA StepKeeps ==
    ASSUME SockInv, status = "up", UNCHANGED <<cl, sent, rcvd, status, prog>>,
           NEW bl \in Seq(Conns), Retab(conn, fdt', bl), fdt' \in Tables,
           backlog' \in Seq(Conns), conn' \in [Conns -> Connection],
           obj' \in [Objects -> {-1} \cup Fds], th' \in [Procs -> Thread],
           \A p \in Procs : \/ th'[p].buf = th[p].buf /\ th[p].pc # "write"
                            \/ th'[p] = th[p],
           Up',
           \A k \in Conns : Has(fdt', backlog', k) => Has(fdt, backlog, k),
           \A k \in Conns : Bufs'[k] = Bufs[k]
    PROVE  SockInv'
  <1>1. SockTypeOK /\ NetTypeOK /\ prog \in Programs
    BY DEF SockInv, SockTypeOK
  <1>2. SockTypeOK'
    <2>1. NetTypeOK'
      BY <1>1 DEF NetTypeOK, Tables
    <2> QED BY <1>1, <2>1 DEF SockTypeOK
  <1>3. \A p \in Procs : th'[p].pc # "write" => th'[p].buf = <<>>
    BY DEF SockInv
  <1>4. InPlace(sent', rcvd', conn', cl', fdt', backlog', Bufs')
    <2>1. InPlace(sent, rcvd, conn, cl, fdt, backlog, Bufs)
      BY DEF SockInv
    <2>2. \A k \in Conns : cl[k] = "off" => Bufs'[k] = <<>>
      BY <2>1 DEF InPlace
    <2> HIDE DEF Bufs
    <2>3. InPlace(sent, rcvd, conn', cl, fdt', backlog', Bufs')
      BY <1>1, <2>1, <2>2, RetabKeeps
    <2> QED BY <2>3
  <1> QED BY <1>2, <1>3, <1>4 DEF SockInv

(* Opening the listening socket keeps the invariant.                       *)
LEMMA OpenStep ==
    ASSUME SockInv, status = "up", Open
    PROVE  SockInv' /\ UNCHANGED <<sent, rcvd>>
  <1>t. SockTypeOK /\ TableAt /\ Owns(obj, fdt[0]) /\ MainAt /\ SessionAt
    BY DEF SockInv, Up
  <1>y. /\ backlog \in Seq(Conns) /\ fdt[0] \in [Fds -> -2 .. MaxConns]
        /\ obj \in [Objects -> {-1} \cup Fds] /\ th \in [Procs -> Thread]
    BY <1>t, TypeFacts
  <1> DEFINE ob == [obj EXCEPT ![Sock] = 3]
             tb == [fdt[0] EXCEPT ![3] = LISTEN]
             s == [obj |-> ob, tab |-> tb]
  <1>1. /\ Become(s, backlog) /\ th[0].pc = "open"
        /\ th' = [th EXCEPT ![0].pc = "accept"]
        /\ UNCHANGED <<cl, sent, rcvd, status, prog>>
    BY DEF Open, peerVars
  <1>2. /\ \A o \in Objects : obj[o] = -1
        /\ \A k \in Conns : th[k].pc = "none"
        /\ \A fd \in Fds : fdt[0][fd] = FREE
        /\ backlog = <<>>
    BY <1>t, <1>1 DEF MainAt
  <1>3. /\ tb \in [Fds -> -2 .. MaxConns] /\ tb[3] = LISTEN
        /\ \A fd \in Fds \ {3} : tb[fd] = FREE
    BY <1>y, <1>2, FdsAre
  <1>4. /\ ob \in [Objects -> {-1} \cup Fds] /\ ob[Sock] = 3
        /\ \A o \in Objects \ {Sock} : ob[o] = -1
    BY <1>y, <1>2, FdsAre, ObjectsAre
  <1>5. s.obj = ob /\ s.tab = tb
    OBVIOUS
  <1> HIDE DEF ob, tb, s
  <1>6. /\ obj' = ob /\ fdt' \in Tables /\ fdt'[0] = tb
        /\ \A p \in Conns : fdt'[p] = NoFds
        /\ backlog' = backlog /\ conn' \in [Conns -> Connection]
        /\ \A k \in Conns : Has(fdt', backlog', k) <=>
               ((\E fd \in Fds : tb[fd] = k) \/ Pending(backlog, k))
        /\ Retab(conn, fdt', backlog)
    BY <1>t, <1>y, <1>1, <1>3, <1>5, BecomeEffect
  <1>7. /\ th' \in [Procs -> Thread] /\ th'[0].pc = "accept"
        /\ th'[0].buf = th[0].buf /\ \A p \in Conns : th'[p] = th[p]
    BY <1>y, <1>1, ProcsAre DEF Thread
  <1>8. Up'
    <2>1. TableAt'
      BY <1>3, <1>6, <1>7, FdsAre DEF TableAt
    <2>2. Owns(obj', fdt'[0])
      BY <1>3, <1>4, <1>6, FdsAre, ObjectsAre DEF Owns
    <2>3. MainAt'
      BY <1>t, <1>1, <1>2, <1>4, <1>6, <1>7, FdsAre, ObjectsAre DEF MainAt
    <2>4. SessionAt'
      BY <1>2, <1>4, <1>6, <1>7, FdsAre, ObjectsAre DEF SessionAt, SessionOf, Serving
    <2>5. QueueAt'
      BY <1>2, <1>6 DEF QueueAt
    <2> QED BY <2>1, <2>2, <2>3, <2>4, <2>5 DEF Up
  <1>9. \A k \in Conns : Has(fdt', backlog', k) => Has(fdt, backlog, k)
    BY <1>3, <1>6, FdsAre DEF Has
  <1>10. \A k \in Conns : Bufs'[k] = Bufs[k]
    BY <1>1, <1>2, <1>7 DEF Bufs, BufOf
  <1>11. obj' \in [Objects -> {-1} \cup Fds] /\ backlog' \in Seq(Conns)
    BY <1>y, <1>4, <1>6
  <1>12. \A p \in Procs : \/ th'[p].buf = th[p].buf /\ th[p].pc # "write"
                          \/ th'[p] = th[p]
    BY <1>1, <1>7, ProcsAre
  <1> HIDE DEF Bufs
  <1> QED BY <1>y, <1>1, <1>6, <1>7, <1>8, <1>9, <1>10, <1>11, <1>12, StepKeeps

(* Accepting into a temporary object keeps it.                             *)
LEMMA AcceptStep ==
    ASSUME SockInv, status = "up", Accept
    PROVE  SockInv' /\ UNCHANGED <<sent, rcvd>>
  <1>t. /\ SockTypeOK /\ TableAt /\ Owns(obj, fdt[0]) /\ MainAt /\ SessionAt
        /\ QueueAt
    BY DEF SockInv, Up
  <1>y. /\ backlog \in Seq(Conns) /\ fdt[0] \in [Fds -> -2 .. MaxConns]
        /\ obj \in [Objects -> {-1} \cup Fds] /\ th \in [Procs -> Thread]
    BY <1>t, TypeFacts
  <1> DEFINE new == Lowest(Free(fdt[0]))
             k == Head(backlog)
             bl == Tail(backlog)
             ob == [obj EXCEPT ![Tmp] = new]
             tb == [fdt[0] EXCEPT ![new] = k]
             s == [obj |-> ob, tab |-> tb]
  <1>1. /\ Become(s, bl) /\ th[0].pc = "accept" /\ backlog # <<>>
        /\ Free(fdt[0]) # {}
        /\ th' = [th EXCEPT ![0].pc = "assign"]
        /\ UNCHANGED <<cl, sent, rcvd, status, prog>>
    BY DEF Accept, peerVars
  <1>2. new \in Fds /\ fdt[0][new] = FREE
    <2>1. Free(fdt[0]) \subseteq Nat
      BY FdsAre DEF Free
    <2>2. new \in Free(fdt[0])
      BY <1>1, <2>1, LowestIs
    <2> HIDE DEF new
    <2> QED BY <2>2 DEF Free
  <1>3. fdt[0][3] = LISTEN /\ new # 3
    BY <1>t, <1>1, <1>2, FdsAre DEF TableAt
  <1>4. /\ k \in Conns /\ bl \in Seq(Conns) /\ Pending(backlog, k)
        /\ \A fd \in Fds : fdt[0][fd] # k
        /\ ~ Pending(bl, k) /\ \A j : Pending(bl, j) => Pending(backlog, j)
        /\ \A x \in 1 .. Len(bl), fd \in Fds : fdt[0][fd] # bl[x]
        /\ \A x, y \in 1 .. Len(bl) : bl[x] = bl[y] => x = y
    <2>1. /\ Len(backlog) \in Nat /\ Len(backlog) >= 1 /\ k = backlog[1]
          /\ bl \in Seq(Conns) /\ Len(bl) = Len(backlog) - 1
          /\ \A x \in 1 .. Len(bl) : bl[x] = backlog[x + 1]
      BY <1>y, <1>1
    <2>2. /\ \A x \in 1 .. Len(backlog), fd \in Fds : fdt[0][fd] # backlog[x]
          /\ \A x, y \in 1 .. Len(backlog) : backlog[x] = backlog[y] => x = y
      BY <1>t DEF QueueAt
    <2> HIDE DEF bl, k
    <2>3. 1 \in 1 .. Len(backlog) /\ \A x \in 1 .. Len(bl) : x + 1 \in 1 .. Len(backlog)
      BY <2>1
    <2>4. k \in Conns
      BY <1>y, <2>1, <2>3
    <2>5. \A x \in 1 .. Len(bl) : bl[x] # k
      <3> TAKE x \in 1 .. Len(bl)
      <3>1. x + 1 # 1 /\ x + 1 \in 1 .. Len(backlog) /\ bl[x] = backlog[x + 1]
        BY <2>1, <2>3
      <3> QED BY <2>1, <2>2, <2>3, <3>1
    <2>6. \A x, y \in 1 .. Len(bl) : bl[x] = bl[y] => x = y
      <3> TAKE x, y \in 1 .. Len(bl)
      <3>1. /\ bl[x] = backlog[x + 1] /\ bl[y] = backlog[y + 1]
            /\ x + 1 \in 1 .. Len(backlog) /\ y + 1 \in 1 .. Len(backlog)
        BY <2>1, <2>3
      <3>2. bl[x] = bl[y] => x + 1 = y + 1
        BY <2>2, <3>1
      <3> QED BY <3>2
    <2> QED BY <2>1, <2>2, <2>3, <2>4, <2>5, <2>6 DEF Pending
  <1>5. \A fd \in Fds : fdt[0][fd] # k
    BY <1>4
  <1> HIDE DEF new, k, bl
  <1>6. /\ tb \in [Fds -> -2 .. MaxConns] /\ tb[3] = LISTEN /\ tb[new] = k
        /\ \A fd \in Fds \ {new} : tb[fd] = fdt[0][fd]
    BY <1>y, <1>2, <1>3, <1>4, FdsAre
  <1>7. /\ ob \in [Objects -> {-1} \cup Fds] /\ ob[Tmp] = new
        /\ \A o \in Objects \ {Tmp} : ob[o] = obj[o]
    BY <1>y, <1>2, ObjectsAre
  <1>8. s.obj = ob /\ s.tab = tb
    OBVIOUS
  <1> HIDE DEF ob, tb, s
  <1>9. /\ obj' = ob /\ fdt' \in Tables /\ fdt'[0] = tb
        /\ \A p \in Conns : fdt'[p] = NoFds
        /\ backlog' = bl /\ conn' \in [Conns -> Connection]
        /\ \A j \in Conns : Has(fdt', backlog', j) <=>
               ((\E fd \in Fds : tb[fd] = j) \/ Pending(bl, j))
        /\ Retab(conn, fdt', bl)
    BY <1>t, <1>1, <1>4, <1>6, <1>8, BecomeEffect
  <1>10. /\ th' \in [Procs -> Thread] /\ th'[0].pc = "assign"
         /\ th'[0].buf = th[0].buf /\ \A p \in Conns : th'[p] = th[p]
    BY <1>y, <1>1, ProcsAre DEF Thread
  <1>11. obj[Tmp] = -1 /\ obj[Sock] = 3
    BY <1>t, <1>1 DEF MainAt
  <1>12. \A o \in Objects : obj[o] # new
    BY <1>t, <1>2, FdsAre DEF Owns
  <1>13. Up'
    <2>1. TableAt'
      <3>1. \A fd \in Fds \ {3} : tb[fd] = FREE \/ tb[fd] \in Conns
        BY <1>t, <1>4, <1>6 DEF TableAt
      <3>2. \A fd, fe \in Fds : tb[fd] \in Conns /\ tb[fd] = tb[fe] => fd = fe
        BY <1>t, <1>4, <1>6 DEF TableAt
      <3> QED BY <1>6, <1>9, <1>10, <3>1, <3>2 DEF TableAt
    <2>2. Owns(ob, tb)
      <3>1. \A fd \in Fds : tb[fd] # FREE => \E o \in Objects : ob[o] = fd
        <4> TAKE fd \in Fds
        <4>1. CASE fd = new
          BY <1>7, <4>1, ObjectsAre
        <4>2. CASE fd # new
          <5> HAVE tb[fd] # FREE
          <5>1. PICK o \in Objects : obj[o] = fd
            BY <1>t, <1>6, <4>2 DEF Owns
          <5>2. o # Tmp
            BY <1>11, <5>1, FdsAre
          <5> QED BY <1>7, <5>1, <5>2
        <4> QED BY <4>1, <4>2
      <3>2. \A o \in Objects : ob[o] # -1 => tb[ob[o]] # FREE
        <4> TAKE o \in Objects
        <4>1. CASE o = Tmp
          BY <1>4, <1>6, <1>7, <4>1, FdsAre
        <4>2. CASE o # Tmp
          <5>1. ob[o] = obj[o] /\ obj[o] # new /\ obj[o] \in {-1} \cup Fds
            BY <1>y, <1>7, <1>12, <4>2
          <5> QED BY <1>t, <1>6, <5>1 DEF Owns
        <4> QED BY <4>1, <4>2
      <3>3. \A o, q \in Objects : ob[o] # -1 /\ ob[o] = ob[q] => o = q
        BY <1>t, <1>7, <1>12 DEF Owns
      <3> QED BY <3>1, <3>2, <3>3 DEF Owns
    <2>3. MainAt'
      <3>1. ob[Sock] = 3 /\ ob[Clnt] = obj[Clnt] /\ ob[Tmp] # -1
        BY <1>2, <1>7, <1>11, ObjectsAre, FdsAre
      <3> QED BY <1>t, <1>1, <1>9, <1>10, <3>1 DEF MainAt
    <2>4. SessionAt'
      <3> SUFFICES ASSUME NEW j \in Conns
                   PROVE  SessionOf(j, th[j].pc, ob, tb, cl[j], bl)
        BY <1>1, <1>9, <1>10 DEF SessionAt
      <3>1. ob[j] = obj[j] /\ obj[j] # new /\ obj[j] \in {-1} \cup Fds
        BY <1>y, <1>7, <1>12, ObjectsAre
      <3>2. th[j].pc # "none" => j # k
        BY <1>t, <1>4 DEF SessionAt, SessionOf
      <3>3. /\ th[j].pc \in Serving \cup {"none", "destroy", "ended"}
            /\ th[j].pc \in Serving => obj[j] # -1 /\ fdt[0][obj[j]] = j
            /\ th[j].pc \notin Serving => obj[j] = -1
            /\ th[j].pc # "none" =>
                  /\ cl[j] # "off" /\ ~ Pending(backlog, j)
                  /\ \A fd \in Fds : fdt[0][fd] = j => fd = obj[j]
        BY <1>t DEF SessionAt, SessionOf
      <3>4. th[j].pc # "none" => \A fd \in Fds : tb[fd] = j => fd = obj[j]
        BY <1>6, <3>2, <3>3
      <3>5. th[j].pc \in Serving => tb[obj[j]] = j
        BY <1>6, <3>1, <3>3
      <3> QED BY <1>4, <3>1, <3>3, <3>4, <3>5 DEF SessionOf
    <2>5. QueueAt'
      <3>1. \A x \in 1 .. Len(bl), fd \in Fds : tb[fd] # bl[x]
        BY <1>4, <1>6 DEF Pending
      <3> QED BY <1>4, <1>9, <3>1 DEF QueueAt
    <2> QED BY <1>9, <2>1, <2>2, <2>3, <2>4, <2>5 DEF Up
  <1>14. \A j \in Conns : Has(fdt', backlog', j) => Has(fdt, backlog, j)
    <2> TAKE j \in Conns
    <2>1. \A fd \in Fds : fdt[0][fd] = j => Refers(fdt, j)
      BY ProcsAre DEF Refers
    <2> QED BY <1>4, <1>6, <1>9, <2>1 DEF Has
  <1>15. \A j \in Conns : Bufs'[j] = Bufs[j]
    BY <1>1, <1>10 DEF Bufs, BufOf
  <1>16. obj' \in [Objects -> {-1} \cup Fds] /\ backlog' \in Seq(Conns)
    BY <1>4, <1>7, <1>9
  <1>17. \A p \in Procs : \/ th'[p].buf = th[p].buf /\ th[p].pc # "write"
                          \/ th'[p] = th[p]
    BY <1>1, <1>10, ProcsAre
  <1> HIDE DEF Bufs
  <1> QED BY <1>1, <1>4, <1>9, <1>10, <1>13, <1>14, <1>15, <1>16, <1>17, StepKeeps

(* The other steps of main and of the sessions take nothing from the       *)
(* accept queue and give no number away: some are closed.                  *)
LEMMA MoveStep ==
    ASSUME SockInv, status = "up", UNCHANGED <<cl, sent, rcvd, status, prog>>,
           NEW s, NEW ob, NEW tb, s.obj = ob, s.tab = tb, Become(s, backlog),
           ob \in [Objects -> {-1} \cup Fds], tb \in [Fds -> -2 .. MaxConns],
           \A fd \in Fds : tb[fd] = fdt[0][fd] \/ (tb[fd] = FREE /\ fd # 3),
           th' \in [Procs -> Thread],
           \A p \in Procs : th'[p] = th[p] \/ ( /\ th'[p].buf = th[p].buf
                                                /\ th[p].pc # "write"
                                                /\ th'[p].pc # "write"),
           th[0].pc \notin {"open", "write"}, th'[0].pc # "open", Owns(ob, tb),
           obj' = ob /\ fdt'[0] = tb /\ backlog' = backlog => MainAt',
           \A k \in Conns : SessionOf(k, th'[k].pc, ob, tb, cl[k], backlog)
    PROVE  SockInv'
  <1>t. SockTypeOK /\ TableAt /\ QueueAt
    BY DEF SockInv, Up
  <1>y. backlog \in Seq(Conns) /\ fdt[0] \in [Fds -> -2 .. MaxConns]
    BY <1>t, TypeFacts
  <1>1. fdt[0][3] = LISTEN /\ tb[3] = LISTEN
    BY <1>t, FdsAre DEF TableAt
  <1>2. /\ obj' = ob /\ fdt' \in Tables /\ fdt'[0] = tb
        /\ \A p \in Conns : fdt'[p] = NoFds
        /\ backlog' = backlog /\ conn' \in [Conns -> Connection]
        /\ \A j \in Conns : Has(fdt', backlog', j) <=>
               ((\E fd \in Fds : tb[fd] = j) \/ Pending(backlog, j))
        /\ Retab(conn, fdt', backlog)
    BY <1>t, <1>y, <1>1, BecomeEffect
  <1>3. \A fd \in Fds : tb[fd] # FREE => tb[fd] = fdt[0][fd]
    OBVIOUS
  <1>4. Up'
    <2>1. TableAt'
      <3>1. \A fd \in Fds \ {3} : tb[fd] = FREE \/ tb[fd] \in Conns
        BY <1>t, <1>3 DEF TableAt
      <3>2. \A fd, fe \in Fds : tb[fd] \in Conns /\ tb[fd] = tb[fe] => fd = fe
        BY <1>t, <1>3, FdsAre DEF TableAt
      <3> QED BY <1>1, <1>2, <3>1, <3>2 DEF TableAt
    <2>2. QueueAt'
      <3>1. \A x \in 1 .. Len(backlog), fd \in Fds : tb[fd] # backlog[x]
        <4> TAKE x \in 1 .. Len(backlog), fd \in Fds
        <4>1. backlog[x] \in Conns /\ fdt[0][fd] # backlog[x]
          BY <1>t, <1>y DEF QueueAt
        <4> QED BY <1>3, <4>1, FdsAre
      <3> QED BY <1>t, <1>2, <3>1 DEF QueueAt
    <2>3. SessionAt'
      BY <1>2 DEF SessionAt
    <2> QED BY <1>2, <2>1, <2>2, <2>3 DEF Up
  <1>5. \A j \in Conns : Has(fdt', backlog', j) => Has(fdt, backlog, j)
    <2> TAKE j \in Conns
    <2>1. \A fd \in Fds : fdt[0][fd] = j => Refers(fdt, j)
      BY ProcsAre DEF Refers
    <2> QED BY <1>2, <1>3, <2>1, FdsAre DEF Has
  <1>6. \A j \in Conns : Bufs'[j] = Bufs[j]
    <2> SUFFICES ASSUME NEW j \in Conns PROVE Bufs'[j] = Bufs[j]
      OBVIOUS
    <2>1. th[0].pc # "write" /\ th'[0].pc # "write"
      BY ProcsAre
    <2> QED BY <2>1, ProcsAre DEF Bufs, BufOf
  <1>7. obj' \in [Objects -> {-1} \cup Fds] /\ backlog' \in Seq(Conns)
    BY <1>y, <1>2
  <1>8. \A p \in Procs : \/ th'[p].buf = th[p].buf /\ th[p].pc # "write"
                         \/ th'[p] = th[p]
    OBVIOUS
  <1> HIDE DEF Bufs
  <1> QED BY <1>y, <1>2, <1>4, <1>5, <1>6, <1>7, <1>8, StepKeeps

(* The move assignment from the temporary object keeps it.                 *)
LEMMA AssignStep ==
    ASSUME SockInv, status = "up", Assign
    PROVE  SockInv' /\ UNCHANGED <<sent, rcvd>>
  <1>t. SockTypeOK /\ TableAt /\ Owns(obj, fdt[0]) /\ MainAt /\ SessionAt
    BY DEF SockInv, Up
  <1>y. /\ fdt[0] \in [Fds -> -2 .. MaxConns]
        /\ obj \in [Objects -> {-1} \cup Fds] /\ th \in [Procs -> Thread]
    BY <1>t, TypeFacts
  <1> DEFINE n == obj[Tmp]
             e == obj[Clnt]
             ob == [[obj EXCEPT ![Clnt] = n] EXCEPT ![Tmp] = -1]
             tb == IF e = -1 THEN fdt[0] ELSE [fdt[0] EXCEPT ![e] = FREE]
             s == Destroy(MoveAssign(Now, Clnt, Tmp), Tmp)
  <1>1. /\ Become(s, backlog) /\ th[0].pc = "assign"
        /\ th' = [th EXCEPT ![0].pc = IF prog = "obj" THEN "read" ELSE "spawn"]
        /\ UNCHANGED <<cl, sent, rcvd, status, prog>>
    BY DEF Assign, peerVars
  <1>2. s.obj = ob /\ s.tab = tb
    BY <1>y, ObjectsAre
       DEF Destroy, MoveAssign, MoveCtor, Close, Now
  <1>3. n \in Fds /\ n # 3 /\ e # 3 /\ e # n /\ e \in {-1} \cup Fds /\ obj[Sock] = 3
    <2>1. n # -1 /\ obj[Sock] = 3
      BY <1>t, <1>1 DEF MainAt
    <2>2. n \in {-1} \cup Fds /\ e \in {-1} \cup Fds
      BY <1>y, ObjectsAre
    <2>3. \A o, q \in Objects : obj[o] # -1 /\ obj[o] = obj[q] => o = q
      BY <1>t DEF Owns
    <2>4. /\ Sock \in Objects /\ Clnt \in Objects /\ Tmp \in Objects
          /\ Sock # Clnt /\ Sock # Tmp /\ Clnt # Tmp
      BY ObjectsAre
    <2> QED BY <2>1, <2>2, <2>3, <2>4
  <1>4. /\ ob \in [Objects -> {-1} \cup Fds] /\ ob[Tmp] = -1 /\ ob[Clnt] = n
        /\ \A o \in Objects \ {Tmp, Clnt} : ob[o] = obj[o]
    BY <1>y, <1>3, ObjectsAre
  <1>5. /\ tb \in [Fds -> -2 .. MaxConns]
        /\ \A fd \in Fds : tb[fd] = IF fd = e THEN FREE ELSE fdt[0][fd]
    BY <1>y, <1>3, FdsAre
  <1> HIDE DEF n, e, ob, tb, s
  <1>6. /\ th' \in [Procs -> Thread]
        /\ th'[0].pc = IF prog = "obj" THEN "read" ELSE "spawn"
        /\ th'[0].buf = th[0].buf /\ \A p \in Conns : th'[p] = th[p]
    BY <1>y, <1>1, ProcsAre DEF Thread
  <1>7. \A o \in Objects \ {Tmp, Clnt} : obj[o] # -1 => obj[o] # n /\ obj[o] # e
    BY <1>t, <1>y, ObjectsAre DEF Owns, n, e
  <1>8. Owns(ob, tb)
    <2>1. \A fd \in Fds : tb[fd] # FREE => \E o \in Objects : ob[o] = fd
      <3> SUFFICES ASSUME NEW fd \in Fds, tb[fd] # FREE
                   PROVE  \E o \in Objects : ob[o] = fd
        OBVIOUS
      <3>1. fdt[0][fd] # FREE /\ fd # e
        BY <1>5
      <3>2. PICK o \in Objects : obj[o] = fd
        BY <1>t, <3>1 DEF Owns
      <3>3. CASE o = Tmp
        BY <1>4, <3>2, <3>3, ObjectsAre DEF n
      <3>4. CASE o # Tmp
        <4>1. o # Clnt
          BY <3>1, <3>2 DEF e
        <4> QED BY <1>4, <3>2, <3>4, <4>1
      <3> QED BY <3>3, <3>4
    <2>2. \A o \in Objects : ob[o] # -1 => tb[ob[o]] # FREE
      <3> SUFFICES ASSUME NEW o \in Objects, ob[o] # -1
                   PROVE  tb[ob[o]] # FREE
        OBVIOUS
      <3>1. ob[o] \in Fds /\ ob[o] # e /\ \E q \in Objects : obj[q] = ob[o]
        <4>1. CASE o = Clnt
          BY <1>3, <1>4, <4>1, ObjectsAre DEF n
        <4>2. CASE o # Clnt
          BY <1>y, <1>4, <1>7, <4>2
        <4> QED BY <4>1, <4>2
      <3> QED BY <1>t, <1>5, <3>1 DEF Owns
    <2>3. \A o, q \in Objects : ob[o] # -1 /\ ob[o] = ob[q] => o = q
      <3> SUFFICES ASSUME NEW o \in Objects, NEW q \in Objects, ob[o] # -1, ob[o] = ob[q]
                   PROVE  o = q
        OBVIOUS
      <3>1. o # Tmp /\ q # Tmp
        BY <1>4
      <3>2. CASE o # Clnt /\ q # Clnt
        BY <1>t, <1>4, <3>1, <3>2 DEF Owns
      <3>3. CASE o = Clnt \/ q = Clnt
        BY <1>4, <1>7, <3>1, <3>3
      <3> QED BY <3>2, <3>3
    <2> QED BY <2>1, <2>2, <2>3 DEF Owns
  <1>9. ASSUME obj' = ob, fdt'[0] = tb, backlog' = backlog PROVE MainAt'
    <2>1. ob[Sock] = 3 /\ ob[Clnt] # -1 /\ ob[Tmp] = -1
      BY <1>3, <1>4, ObjectsAre, FdsAre
    <2>2. prog \in {"thread", "obj"}
      BY <1>t, SimpleSocketAssumption DEF SockTypeOK
    <2> QED BY <1>t, <1>1, <1>6, <1>9, <2>1, <2>2 DEF MainAt
  <1>10. ASSUME NEW j \in Conns
         PROVE  SessionOf(j, th'[j].pc, ob, tb, cl[j], backlog)
    <2>1. SessionOf(j, th[j].pc, obj, fdt[0], cl[j], backlog) /\ th'[j] = th[j]
      BY <1>t, <1>6 DEF SessionAt
    <2>2. ob[j] = obj[j] /\ (obj[j] # -1 => obj[j] # e /\ obj[j] \in Fds)
      BY <1>y, <1>4, <1>7, ObjectsAre
    <2>3. \A fd \in Fds : tb[fd] = j => fdt[0][fd] = j
      BY <1>5, FdsAre
    <2>4. obj[j] # -1 => tb[obj[j]] = fdt[0][obj[j]]
      BY <1>5, <2>2
    <2> QED BY <2>1, <2>2, <2>3, <2>4 DEF SessionOf
  <1>11. \A fd \in Fds : tb[fd] = fdt[0][fd] \/ (tb[fd] = FREE /\ fd # 3)
    BY <1>3, <1>5
  <1>12. \A p \in Procs : th'[p] = th[p] \/ ( /\ th'[p].buf = th[p].buf
                                              /\ th[p].pc # "write"
                                              /\ th'[p].pc # "write")
    BY <1>1, <1>6, ProcsAre
  <1>13. th[0].pc \notin {"open", "write"} /\ th'[0].pc # "open"
    BY <1>1, <1>6
  <1> QED BY <1>1, <1>2, <1>4, <1>5, <1>6, <1>8, <1>9, <1>10, <1>11, <1>12, <1>13, MoveStep

(* main is about to hand over a client that no session ever had.           *)
LEMMA SpawnStep ==
    ASSUME SockInv, status = "up", Spawn
    PROVE  SockInv' /\ UNCHANGED <<sent, rcvd>>
  <1>t. /\ SockTypeOK /\ TableAt /\ Owns(obj, fdt[0]) /\ MainAt /\ SessionAt
        /\ QueueAt /\ InPlace(sent, rcvd, conn, cl, fdt, backlog, Bufs)
    BY DEF SockInv, Up
  <1>y. /\ fdt[0] \in [Fds -> -2 .. MaxConns]
        /\ obj \in [Objects -> {-1} \cup Fds] /\ th \in [Procs -> Thread]
    BY <1>t, TypeFacts
  <1> DEFINE c == obj[Clnt]
             tb == fdt[0]
             k == tb[c]
             ob == [[obj EXCEPT ![k] = c] EXCEPT ![Clnt] = -1]
             s == MoveCtor(Now, k, Clnt)
  <1>1. /\ Become(s, backlog) /\ th[0].pc = "spawn"
        /\ th' = [[th EXCEPT ![0].pc = "accept"] EXCEPT ![k].pc = "read"]
        /\ UNCHANGED <<cl, sent, rcvd, status, prog>>
    BY DEF Spawn, peerVars
  <1>2. s.obj = ob /\ s.tab = tb
    BY <1>y, ObjectsAre DEF MoveCtor, Now
  <1>3. prog = "thread" /\ obj[Sock] = 3 /\ c # -1 /\ obj[Tmp] = -1
    <2>1. prog \in {"thread", "obj"}
      BY <1>t, SimpleSocketAssumption DEF SockTypeOK
    <2> QED BY <1>t, <1>1, <2>1 DEF MainAt
  <1>4. /\ \A o, q \in Objects : obj[o] # -1 /\ obj[o] = obj[q] => o = q
        /\ \A o \in Objects : obj[o] # -1 => tb[obj[o]] # FREE
    BY <1>t DEF Owns
  <1>5. c \in Fds /\ c # 3 /\ k \in Conns
    <2>1. c \in {-1} \cup Fds /\ Sock \in Objects /\ Clnt \in Objects /\ Sock # Clnt
      BY <1>y, ObjectsAre
    <2>2. c \in Fds /\ c # 3 /\ tb[c] # FREE
      BY <1>3, <1>4, <2>1
    <2> QED BY <1>t, <2>2 DEF TableAt
  <1>6. th[k].pc = "none" /\ obj[k] = -1
    <2>1. SessionOf(k, th[k].pc, obj, tb, cl[k], backlog)
      BY <1>t, <1>5 DEF SessionAt
    <2>2. obj[k] # c
      BY <1>3, <1>4, <1>5, ObjectsAre
    <2> QED BY <1>5, <2>1, <2>2 DEF SessionOf, Serving
  <1>7. cl[k] # "off" /\ ~ Pending(backlog, k)
    <2>1. Has(fdt, backlog, k)
      BY <1>5, ProcsAre DEF Has, Refers
    <2>2. cl[k] # "off"
      BY <1>t, <1>5, <2>1 DEF InPlace, Echoed, Served
    <2>3. ~ Pending(backlog, k)
      BY <1>t, <1>5 DEF QueueAt, Pending
    <2> QED BY <2>2, <2>3
  <1>8. \A fd \in Fds : tb[fd] = k => fd = c
    BY <1>t, <1>5 DEF TableAt
  <1>9. tb[c] = k
    OBVIOUS
  <1> HIDE DEF c, k, tb
  <1>10. /\ ob \in [Objects -> {-1} \cup Fds] /\ ob[Clnt] = -1 /\ ob[k] = c
         /\ \A o \in Objects \ {k, Clnt} : ob[o] = obj[o]
    BY <1>y, <1>5, ObjectsAre
  <1> HIDE DEF ob, s
  <1>11. /\ th' \in [Procs -> Thread]
         /\ th'[0].pc = "accept" /\ th'[0].buf = th[0].buf
         /\ th'[k].pc = "read" /\ th'[k].buf = th[k].buf
         /\ \A p \in Conns \ {k} : th'[p] = th[p]
    BY <1>y, <1>1, <1>5, ProcsAre DEF Thread
  <1>12. \A o \in Objects \ {Clnt} : obj[o] # c
    BY <1>3, <1>4, ObjectsAre DEF c
  <1>13. Owns(ob, tb)
    <2>1. \A fd \in Fds : tb[fd] # FREE => \E o \in Objects : ob[o] = fd
      <3> SUFFICES ASSUME NEW fd \in Fds, tb[fd] # FREE
                   PROVE  \E o \in Objects : ob[o] = fd
        OBVIOUS
      <3>1. CASE fd = c
        BY <1>5, <1>10, <3>1, ObjectsAre
      <3>2. CASE fd # c
        <4>1. PICK o \in Objects : obj[o] = fd
          BY <1>t DEF Owns, tb
        <4>2. o # Clnt /\ o # k
          BY <1>6, <3>2, <4>1, FdsAre DEF c
        <4> QED BY <1>10, <4>1, <4>2
      <3> QED BY <3>1, <3>2
    <2>2. \A o \in Objects : ob[o] # -1 => tb[ob[o]] # FREE
      <3> SUFFICES ASSUME NEW o \in Objects, ob[o] # -1
                   PROVE  tb[ob[o]] # FREE
        OBVIOUS
      <3>1. \E q \in Objects : obj[q] = ob[o]
        <4>1. CASE o = k
          BY <1>10, <4>1, ObjectsAre DEF c
        <4>2. CASE o # k
          BY <1>10, <4>2
        <4> QED BY <4>1, <4>2
      <3> QED BY <1>4, <3>1
    <2>3. \A o, q \in Objects : ob[o] # -1 /\ ob[o] = ob[q] => o = q
      <3> SUFFICES ASSUME NEW o \in Objects, NEW q \in Objects, ob[o] # -1, ob[o] = ob[q]
                   PROVE  o = q
        OBVIOUS
      <3>1. o # Clnt /\ q # Clnt
        BY <1>10
      <3>2. CASE o # k /\ q # k
        BY <1>4, <1>10, <3>1, <3>2
      <3>3. CASE o = k \/ q = k
        BY <1>10, <1>12, <3>1, <3>3
      <3> QED BY <3>2, <3>3
    <2> QED BY <2>1, <2>2, <2>3 DEF Owns
  <1>14. ASSUME obj' = ob, fdt'[0] = tb, backlog' = backlog PROVE MainAt'
    <2>1. ob[Sock] = 3 /\ ob[Clnt] = -1 /\ ob[Tmp] = -1
      BY <1>3, <1>5, <1>10, ObjectsAre
    <2> QED BY <1>1, <1>3, <1>11, <1>14, <2>1 DEF MainAt
  <1>15. ASSUME NEW j \in Conns
         PROVE  SessionOf(j, th'[j].pc, ob, tb, cl[j], backlog)
    <2>1. CASE j = k
      <3>1. c # -1
        BY <1>3
      <3> QED BY <1>7, <1>8, <1>9, <1>10, <1>11, <2>1, <3>1 DEF SessionOf, Serving
    <2>2. CASE j # k
      <3>1. SessionOf(j, th[j].pc, obj, tb, cl[j], backlog)
        BY <1>t DEF SessionAt, tb
      <3>2. ob[j] = obj[j] /\ th'[j] = th[j]
        BY <1>10, <1>11, <2>2, ObjectsAre
      <3> QED BY <3>1, <3>2 DEF SessionOf
    <2> QED BY <2>1, <2>2
  <1>16. \A fd \in Fds : tb[fd] = fdt[0][fd] \/ (tb[fd] = FREE /\ fd # 3)
    BY DEF tb
  <1>17. \A p \in Procs : th'[p] = th[p] \/ ( /\ th'[p].buf = th[p].buf
                                              /\ th[p].pc # "write"
                                              /\ th'[p].pc # "write")
    BY <1>1, <1>6, <1>11, ProcsAre
  <1>18. th[0].pc \notin {"open", "write"} /\ th'[0].pc # "open"
    BY <1>1, <1>11
  <1>19. tb \in [Fds -> -2 .. MaxConns]
    BY <1>y DEF tb
  <1>20. Become(s, backlog) /\ UNCHANGED <<cl, sent, rcvd, status, prog>>
    BY <1>1
  <1>21. /\ ob \in [Objects -> {-1} \cup Fds] /\ th' \in [Procs -> Thread]
         /\ s.obj = ob /\ s.tab = tb
    BY <1>2, <1>10, <1>11
  <1> QED BY <1>13, <1>14, <1>15, <1>16, <1>17, <1>18, <1>19, <1>20, <1>21,
             MoveStep

(* A session that runs belongs to tcpsocket-server.cpp, whose main reads   *)
(* and writes nothing.                                                     *)
LEMMA SessionRuns ==
    ASSUME SockInv, status = "up", NEW k \in Conns, th[k].pc # "none"
    PROVE  /\ prog = "thread" /\ obj[Sock] = 3
           /\ th[0].pc \in {"accept", "assign", "spawn"}
  <1>1. MainAt /\ prog \in {"thread", "obj"}
    BY SimpleSocketAssumption DEF SockInv, Up, SockTypeOK
  <1> QED BY <1>1 DEF MainAt

(* The destructor at the end of a thread keeps it.                         *)
LEMMA SessionClosesStep ==
    ASSUME SockInv, status = "up", NEW k \in Conns, SessionCloses(k)
    PROVE  SockInv' /\ UNCHANGED <<sent, rcvd>>
  <1>t. SockTypeOK /\ TableAt /\ Owns(obj, fdt[0]) /\ MainAt /\ SessionAt
    BY DEF SockInv, Up
  <1>y. /\ fdt[0] \in [Fds -> -2 .. MaxConns]
        /\ obj \in [Objects -> {-1} \cup Fds] /\ th \in [Procs -> Thread]
    BY <1>t, TypeFacts
  <1> DEFINE e == obj[k]
             ob == [obj EXCEPT ![k] = -1]
             tb == [fdt[0] EXCEPT ![e] = FREE]
             s == Close(Now, k)
  <1>1. /\ Become(s, backlog) /\ th[k].pc = "close"
        /\ th' = [th EXCEPT ![k].pc = "destroy"]
        /\ UNCHANGED <<cl, sent, rcvd, status, prog>>
    BY DEF SessionCloses, peerVars
  <1>2. SessionOf(k, "close", obj, fdt[0], cl[k], backlog)
    BY <1>t, <1>1 DEF SessionAt
  <1>3. e # -1 /\ fdt[0][e] = k /\ e \in Fds
    BY <1>y, <1>2, ObjectsAre DEF SessionOf, Serving
  <1>4. s.obj = ob /\ s.tab = tb
    BY <1>3, <1>y, ObjectsAre DEF Close, Now
  <1>5. /\ prog = "thread" /\ th[0].pc \in {"accept", "assign", "spawn"}
        /\ obj[Sock] = 3
    BY <1>1, SessionRuns
  <1>6. e # 3
    BY <1>t, <1>3, <1>5, FdsAre DEF TableAt
  <1>7. /\ ob \in [Objects -> {-1} \cup Fds] /\ ob[k] = -1
        /\ \A o \in Objects \ {k} : ob[o] = obj[o]
    BY <1>y, ObjectsAre
  <1>8. /\ tb \in [Fds -> -2 .. MaxConns]
        /\ \A fd \in Fds : tb[fd] = IF fd = e THEN FREE ELSE fdt[0][fd]
    BY <1>y, FdsAre
  <1>9. \A o \in Objects \ {k} : obj[o] # e
    BY <1>t, <1>3, ObjectsAre DEF Owns
  <1>10. obj[k] = e
    OBVIOUS
  <1> HIDE DEF e, ob, tb, s
  <1>11. /\ th' \in [Procs -> Thread] /\ th'[k].pc = "destroy"
         /\ th'[k].buf = th[k].buf /\ \A p \in Procs \ {k} : th'[p] = th[p]
    BY <1>y, <1>1, ProcsAre DEF Thread
  <1>12. Owns(ob, tb)
    <2>1. \A fd \in Fds : tb[fd] # FREE => \E o \in Objects : ob[o] = fd
      <3> SUFFICES ASSUME NEW fd \in Fds, tb[fd] # FREE
                   PROVE  \E o \in Objects : ob[o] = fd
        OBVIOUS
      <3>1. PICK o \in Objects : obj[o] = fd
        BY <1>t, <1>8 DEF Owns
      <3>2. o # k
        BY <1>8, <1>10, <3>1
      <3> QED BY <1>7, <3>1, <3>2
    <2>2. \A o \in Objects : ob[o] # -1 => tb[ob[o]] # FREE
      <3> SUFFICES ASSUME NEW o \in Objects, ob[o] # -1
                   PROVE  tb[ob[o]] # FREE
        OBVIOUS
      <3>1. ob[o] = obj[o] /\ obj[o] # e /\ obj[o] \in Fds
        BY <1>y, <1>7, <1>9
      <3> QED BY <1>t, <1>8, <3>1 DEF Owns
    <2>3. \A o, q \in Objects : ob[o] # -1 /\ ob[o] = ob[q] => o = q
      BY <1>t, <1>7 DEF Owns
    <2> QED BY <2>1, <2>2, <2>3 DEF Owns
  <1>13. ASSUME obj' = ob, fdt'[0] = tb, backlog' = backlog PROVE MainAt'
    <2>1. ob[Sock] = obj[Sock] /\ ob[Clnt] = obj[Clnt] /\ ob[Tmp] = obj[Tmp]
      BY <1>7, ObjectsAre
    <2>2. th'[0] = th[0]
      BY <1>11, ProcsAre
    <2> QED BY <1>t, <1>1, <1>5, <1>13, <2>1, <2>2 DEF MainAt
  <1>14. ASSUME NEW j \in Conns
         PROVE  SessionOf(j, th'[j].pc, ob, tb, cl[j], backlog)
    <2>1. SessionOf(j, th[j].pc, obj, fdt[0], cl[j], backlog)
      BY <1>t DEF SessionAt
    <2>2. CASE j = k
      <3>1. \A fd \in Fds : tb[fd] # k
        BY <1>2, <1>8, <1>10, FdsAre DEF SessionOf
      <3> QED BY <1>2, <1>7, <1>11, <2>2, <3>1 DEF SessionOf, Serving
    <2>3. CASE j # k
      <3>1. ob[j] = obj[j] /\ th'[j] = th[j] /\ (obj[j] # -1 => obj[j] # e /\ obj[j] \in Fds)
        BY <1>y, <1>7, <1>9, <1>11, <2>3, ObjectsAre, ProcsAre
      <3>2. \A fd \in Fds : tb[fd] = j => fdt[0][fd] = j
        BY <1>8, FdsAre
      <3>3. obj[j] # -1 => tb[obj[j]] = fdt[0][obj[j]]
        BY <1>8, <3>1
      <3> QED BY <2>1, <3>1, <3>2, <3>3 DEF SessionOf
    <2> QED BY <2>2, <2>3
  <1>15. \A fd \in Fds : tb[fd] = fdt[0][fd] \/ (tb[fd] = FREE /\ fd # 3)
    BY <1>6, <1>8
  <1>16. \A p \in Procs : th'[p] = th[p] \/ ( /\ th'[p].buf = th[p].buf
                                              /\ th[p].pc # "write"
                                              /\ th'[p].pc # "write")
    BY <1>1, <1>11
  <1>17. th[0].pc \notin {"open", "write"} /\ th'[0].pc # "open"
    BY <1>5, <1>11, ProcsAre
  <1> QED BY <1>1, <1>4, <1>7, <1>8, <1>11, <1>12, <1>13, <1>14, <1>15, <1>16,
             <1>17, MoveStep

(* The destructor finds -1: it closes nothing, whoever has the number now. *)
LEMMA SessionReturnsStep ==
    ASSUME SockInv, status = "up", NEW k \in Conns, SessionReturns(k)
    PROVE  SockInv' /\ UNCHANGED <<sent, rcvd>>
  <1>t. SockTypeOK /\ Owns(obj, fdt[0]) /\ MainAt /\ SessionAt
    BY DEF SockInv, Up
  <1>y. /\ fdt[0] \in [Fds -> -2 .. MaxConns]
        /\ obj \in [Objects -> {-1} \cup Fds] /\ th \in [Procs -> Thread]
    BY <1>t, TypeFacts
  <1> DEFINE s == Destroy(Now, k)
  <1>1. /\ Become(s, backlog) /\ th[k].pc = "destroy"
        /\ th' = [th EXCEPT ![k].pc = "ended"]
        /\ UNCHANGED <<cl, sent, rcvd, status, prog>>
    BY DEF SessionReturns, peerVars
  <1>2. SessionOf(k, "destroy", obj, fdt[0], cl[k], backlog)
    BY <1>t, <1>1 DEF SessionAt
  <1>3. s.obj = obj /\ s.tab = fdt[0]
    <2>1. obj[k] = -1
      BY <1>2 DEF SessionOf, Serving
    <2> QED BY <2>1 DEF Destroy, Close, Now
  <1>4. /\ prog = "thread" /\ th[0].pc \in {"accept", "assign", "spawn"}
        /\ obj[Sock] = 3
    BY <1>1, SessionRuns
  <1> HIDE DEF s
  <1>5. /\ th' \in [Procs -> Thread] /\ th'[k].pc = "ended"
        /\ th'[k].buf = th[k].buf /\ \A p \in Procs \ {k} : th'[p] = th[p]
    BY <1>y, <1>1, ProcsAre DEF Thread
  <1>6. th'[0] = th[0]
    BY <1>5, ProcsAre
  <1>7. ASSUME obj' = obj, fdt'[0] = fdt[0], backlog' = backlog PROVE MainAt'
    BY <1>t, <1>1, <1>4, <1>6, <1>7 DEF MainAt
  <1>8. ASSUME NEW j \in Conns
        PROVE  SessionOf(j, th'[j].pc, obj, fdt[0], cl[j], backlog)
    <2>1. CASE j = k
      BY <1>2, <1>5, <2>1 DEF SessionOf, Serving
    <2>2. CASE j # k
      BY <1>t, <1>5, <2>2, ProcsAre DEF SessionAt
    <2> QED BY <2>1, <2>2
  <1>9. \A p \in Procs : th'[p] = th[p] \/ ( /\ th'[p].buf = th[p].buf
                                             /\ th[p].pc # "write"
                                             /\ th'[p].pc # "write")
    BY <1>1, <1>5
  <1>10. th[0].pc \notin {"open", "write"} /\ th'[0].pc # "open"
    BY <1>4, <1>6
  <1> QED BY <1>t, <1>y, <1>1, <1>3, <1>5, <1>7, <1>8, <1>9, <1>10, MoveStep

-----------------------------------------------------------------------------
(* A thread that reads or writes does so on a connection the server has,   *)
(* and it is the only one whose buffer holds anything of that client.      *)
LEMMA PeerIs ==
    ASSUME SockInv, status = "up", NEW p \in Procs, th[p].pc \in {"read", "write"}
    PROVE  /\ Peer(p) \in Conns /\ Has(fdt, backlog, Peer(p))
           /\ Bufs[Peer(p)] = th[p].buf
           /\ p # 0 => Peer(p) = p /\ th[0].pc \in {"accept", "assign", "spawn"}
           /\ p = 0 => prog = "obj" /\ \A k \in Conns : th[k].pc = "none"
           /\ \A q \in Procs \ {p} :
                 th[q].pc = "write" => Peer(q) # Peer(p)
  <1>t. SockTypeOK /\ TableAt /\ Owns(obj, fdt[0]) /\ MainAt /\ SessionAt
    BY DEF SockInv, Up
  <1>y. obj \in [Objects -> {-1} \cup Fds]
    BY <1>t, TypeFacts
  <1>e. th[p].pc # "write" => th[p].buf = <<>>
    BY DEF SockInv
  <1>1. CASE p = 0
    <2>1. prog \in {"thread", "obj"}
      BY <1>t, SimpleSocketAssumption DEF SockTypeOK
    <2>2. /\ prog = "obj" /\ obj[Clnt] # -1 /\ obj[Sock] = 3
          /\ \A k \in Conns : th[k].pc = "none"
      BY <1>t, <1>1, <2>1 DEF MainAt
    <2>3. obj[Clnt] \in Fds /\ obj[Clnt] # 3 /\ fdt[0][obj[Clnt]] # FREE
      BY <1>t, <1>y, <2>2, ObjectsAre DEF Owns
    <2>4. Peer(p) \in Conns /\ Has(fdt, backlog, Peer(p))
      BY <1>t, <1>1, <2>3, ProcsAre DEF TableAt, Peer, Owned, Has, Refers
    <2>5. Bufs[Peer(p)] = th[p].buf
      BY <1>1, <1>e, <2>2, <2>4 DEF Bufs, BufOf
    <2> QED BY <1>1, <2>2, <2>4, <2>5, ProcsAre
  <1>2. CASE p # 0
    <2>1. p \in Conns
      BY <1>2, ProcsAre
    <2>2. obj[p] # -1 /\ fdt[0][obj[p]] = p
      BY <1>t, <2>1 DEF SessionAt, SessionOf, Serving
    <2>3. th[0].pc \in {"accept", "assign", "spawn"}
      BY <2>1, SessionRuns
    <2>4. obj[p] \in Fds
      BY <1>y, <2>1, <2>2, ObjectsAre
    <2>5. Peer(p) = p /\ Has(fdt, backlog, p)
      BY <1>2, <2>2, <2>4, ProcsAre DEF Peer, Owned, Has, Refers
    <2>6. Bufs[p] = th[p].buf
      BY <1>e, <2>1, <2>3 DEF Bufs, BufOf
    <2>7. ASSUME NEW q \in Procs \ {p}, th[q].pc = "write" PROVE Peer(q) # p
      <3>1. q \in Conns
        BY <2>3, <2>7, ProcsAre
      <3>2. Peer(q) = q
        BY <1>t, <2>7, <3>1, ProcsAre DEF SessionAt, SessionOf, Serving, Peer, Owned
      <3> QED BY <2>7, <3>2
    <2> QED BY <1>2, <2>1, <2>3, <2>5, <2>6, <2>7
  <1> QED BY <1>1, <1>2

(* What such a thread does leaves the tables alone; the connection and the *)
(* thread's buffer change.                                                 *)
LEMMA IoStep ==
    ASSUME SockInv, status = "up", NEW p \in Procs, th[p].pc \in {"read", "write"},
           UNCHANGED <<backlog, cl, sent, rcvd, fdt, status, prog, obj>>,
           conn' \in [Conns -> Connection], th' \in [Procs -> Thread],
           \A q \in Procs \ {p} : th'[q] = th[q],
           th'[p].pc # "write" => th'[p].buf = <<>>,
           th'[p].pc \in IF p = 0 THEN {"accept", "write"}
                                  ELSE {"read", "write", "close"},
           \A bf : /\ bf[Peer(p)] = th'[p].buf
                   /\ \A j \in Conns \ {Peer(p)} : bf[j] = Bufs[j]
                   => InPlace(sent, rcvd, conn', cl, fdt, backlog, bf)
    PROVE  SockInv'
  <1>t. /\ SockTypeOK /\ TableAt /\ Owns(obj, fdt[0]) /\ MainAt /\ SessionAt
        /\ QueueAt
    BY DEF SockInv, Up
  <1>p. /\ Peer(p) \in Conns
        /\ p # 0 => Peer(p) = p /\ th[0].pc \in {"accept", "assign", "spawn"}
        /\ p = 0 => prog = "obj" /\ \A k \in Conns : th[k].pc = "none"
    BY PeerIs
  <1>1. Peer(0)' = Peer(0)
    BY DEF Peer, Owned
  <1>2. Bufs'[Peer(p)] = th'[p].buf
    <2>1. CASE p = 0
      BY <1>p, <1>1, <2>1, ProcsAre DEF Bufs, BufOf
    <2>2. CASE p # 0
      <3>1. p \in Conns /\ th'[0] = th[0]
        BY <2>2, ProcsAre
      <3> QED BY <1>p, <2>2, <3>1 DEF Bufs, BufOf
    <2> QED BY <2>1, <2>2
  <1>3. ASSUME NEW j \in Conns \ {Peer(p)} PROVE Bufs'[j] = Bufs[j]
    <2>1. CASE p = 0
      <3>1. th'[j] = th[j] /\ th[j].pc = "none"
        BY <1>p, <2>1, ProcsAre
      <3> QED BY <1>1, <1>3, <2>1, <3>1 DEF Bufs, BufOf
    <2>2. CASE p # 0
      <3>1. th'[j] = th[j] /\ th'[0] = th[0]
        BY <1>p, <1>3, <2>2, ProcsAre
      <3> QED BY <1>1, <3>1 DEF Bufs, BufOf
    <2> QED BY <2>1, <2>2
  <1>4. InPlace(sent', rcvd', conn', cl', fdt', backlog', Bufs')
    <2> HIDE DEF Bufs
    <2>1. InPlace(sent, rcvd, conn', cl, fdt, backlog, Bufs')
      BY <1>2, <1>3
    <2> QED BY <2>1
  <1>5. SockTypeOK'
    BY <1>t DEF SockTypeOK, NetTypeOK
  <1>6. \A q \in Procs : th'[q].pc # "write" => th'[q].buf = <<>>
    BY DEF SockInv
  <1>7. TableAt'
    <2>1. th'[0].pc # "open" /\ th[0].pc # "open"
      BY <1>p, ProcsAre
    <2> QED BY <1>t, <2>1 DEF TableAt
  <1>8. MainAt'
    <2>1. CASE p = 0
      <3>1. \A k \in Conns : th'[k] = th[k]
        BY <2>1, ProcsAre
      <3> QED BY <1>t, <1>p, <2>1, <3>1 DEF MainAt
    <2>2. CASE p # 0
      <3>1. th'[0] = th[0] /\ p \in Conns /\ th[p].pc # "none"
        BY <2>2, ProcsAre
      <3>2. prog = "thread"
        BY <3>1, SessionRuns
      <3> QED BY <1>t, <1>p, <2>2, <3>1, <3>2 DEF MainAt
    <2> QED BY <2>1, <2>2
  <1>9. SessionAt'
    <2> SUFFICES ASSUME NEW k \in Conns
                 PROVE  SessionOf(k, th'[k].pc, obj, fdt[0], cl[k], backlog)
      BY DEF SessionAt
    <2>1. SessionOf(k, th[k].pc, obj, fdt[0], cl[k], backlog)
      BY <1>t DEF SessionAt
    <2>2. CASE k = p
      BY <2>1, <2>2, ProcsAre DEF SessionOf, Serving
    <2>3. CASE k # p
      BY <2>1, <2>3, ProcsAre
    <2> QED BY <2>2, <2>3
  <1>10. QueueAt' /\ Owns(obj', fdt'[0])
    BY <1>t DEF QueueAt
  <1>11. Up'
    BY <1>7, <1>8, <1>9, <1>10 DEF Up
  <1> QED BY <1>4, <1>5, <1>6, <1>11 DEF SockInv

(* recv keeps it.                                                          *)
LEMMA ReadStep ==
    ASSUME SockInv, status = "up", NEW p \in Procs, Read(p)
    PROVE  SockInv' /\ UNCHANGED <<sent, rcvd>>
  <1>t. SockTypeOK /\ NetTypeOK /\ InPlace(sent, rcvd, conn, cl, fdt, backlog, Bufs)
    BY DEF SockInv, SockTypeOK
  <1>y. /\ conn \in [Conns -> Connection] /\ th \in [Procs -> Thread]
        /\ Bufs \in [Conns -> Seq(Cell)]
    BY <1>t, TypeFacts
  <1> DEFINE k == Peer(p)
             b(n) == SubSeq(conn[k].c2s, 1, n)
  <1>1. /\ th[p].pc = "read"
        /\ UNCHANGED <<backlog, cl, sent, rcvd, fdt, status, prog, obj>>
    BY DEF Read, peerVars
  <1>2. PICK n \in ReadResults(k) :
          /\ conn' = AfterRead(k, n)
          /\ th' = IF n > 0 THEN [th EXCEPT ![p].pc = "write", ![p].buf = b(n)]
                   ELSE [th EXCEPT ![p].pc = AfterNoData(p, n)]
    BY DEF Read
  <1>3. k \in Conns /\ Has(fdt, backlog, k) /\ Bufs[k] = th[p].buf
    BY <1>1, PeerIs
  <1>4. th[p].buf = <<>>
    BY <1>1 DEF SockInv
  <1> HIDE DEF k
  <1>5. /\ conn' \in [Conns -> Connection] /\ b(n) \in Seq(Cell)
        /\ Len(b(n)) <= BufCells /\ n \in -1 .. BufCells
        /\ n <= 0 => b(n) = <<>>
    BY <1>y, <1>2, <1>3, ReadEffect, EchoNetAssumption
  <1> DEFINE bb == b(n)
             pc == IF n > 0 THEN "write" ELSE IF p = 0 THEN "accept" ELSE "close"
  <1>6. /\ th' \in [Procs -> Thread] /\ th'[p].pc = pc /\ th'[p].buf = bb
        /\ \A q \in Procs \ {p} : th'[q] = th[q]
    <2>1. bb \in {s \in Seq(Cell) : Len(s) <= BufCells}
      BY <1>5
    <2>2. n <= 0 => bb = <<>>
      BY <1>5
    <2>3. n > 0 \/ n <= 0
      BY <1>5, EchoNetAssumption
    <2>4. th' = IF n > 0 THEN [th EXCEPT ![p].pc = "write", ![p].buf = bb]
                ELSE [th EXCEPT ![p].pc = AfterNoData(p, n)]
      BY <1>2
    <2> HIDE DEF bb
    <2>5. CASE n > 0
      BY <1>y, <2>1, <2>4, <2>5 DEF Thread
    <2>6. CASE n <= 0
      <3>1. th' = [th EXCEPT ![p].pc = pc] /\ pc \in {"accept", "close"}
        <4>1. ~ (n > 0)
          BY <1>5, <2>6, EchoNetAssumption
        <4>2. AfterNoData(p, n) = pc /\ pc \in {"accept", "close"}
          BY <4>1 DEF AfterNoData
        <4> HIDE DEF pc
        <4> QED BY <2>4, <4>1, <4>2
      <3> HIDE DEF pc
      <3> QED BY <1>y, <1>4, <2>2, <2>6, <3>1 DEF Thread
    <2> QED BY <2>3, <2>5, <2>6
  <1>7. ASSUME NEW bf, bf[k] = bb, \A j \in Conns \ {k} : bf[j] = Bufs[j]
        PROVE  InPlace(sent, rcvd, conn', cl, fdt, backlog, bf)
    <2> HIDE DEF Bufs
    <2> QED BY <1>t, <1>y, <1>2, <1>3, <1>4, <1>7, ReadKeeps, EchoNetAssumption
  <1>8. pc # "write" => bb = <<>>
    BY <1>5, EchoNetAssumption
  <1>9. pc \in IF p = 0 THEN {"accept", "write"} ELSE {"read", "write", "close"}
    OBVIOUS
  <1> HIDE DEF bb, pc, Bufs
  <1>10. \A bf : /\ bf[Peer(p)] = th'[p].buf
                 /\ \A j \in Conns \ {Peer(p)} : bf[j] = Bufs[j]
                 => InPlace(sent, rcvd, conn', cl, fdt, backlog, bf)
    BY <1>6, <1>7 DEF k
  <1> QED BY <1>1, <1>5, <1>6, <1>8, <1>9, <1>10, IoStep

(* send keeps it.                                                          *)
LEMMA WriteStep ==
    ASSUME SockInv, status = "up", NEW p \in Procs, Write(p)
    PROVE  SockInv' /\ UNCHANGED <<sent, rcvd>>
  <1>t. SockTypeOK /\ NetTypeOK /\ InPlace(sent, rcvd, conn, cl, fdt, backlog, Bufs)
    BY DEF SockInv, SockTypeOK
  <1>y. /\ conn \in [Conns -> Connection] /\ th \in [Procs -> Thread]
        /\ Bufs \in [Conns -> Seq(Cell)]
    BY <1>t, TypeFacts
  <1> DEFINE k == Peer(p)
             pc == IF p = 0 THEN "accept" ELSE "read"
  <1>1. /\ th[p].pc = "write"
        /\ UNCHANGED <<backlog, cl, sent, rcvd, fdt, status, prog, obj>>
        /\ th' = [th EXCEPT ![p].pc = pc, ![p].buf = <<>>]
    BY DEF Write, peerVars
  <1>2. PICK c \in AfterWrite(k, th[p].buf) : conn' = [conn EXCEPT ![k] = c]
    BY DEF Write, Outgoing
  <1>3. k \in Conns /\ Has(fdt, backlog, k) /\ Bufs[k] = th[p].buf
    BY <1>1, PeerIs
  <1>4. /\ th' \in [Procs -> Thread] /\ th'[p].pc = pc /\ th'[p].buf = <<>>
        /\ \A q \in Procs \ {p} : th'[q] = th[q]
    <2>1. <<>> \in {s \in Seq(Cell) : Len(s) <= BufCells}
      BY EchoNetAssumption
    <2> QED BY <1>y, <1>1, <2>1 DEF Thread
  <1> HIDE DEF k, Bufs
  <1>5. ASSUME NEW bf, bf[k] = <<>>, \A j \in Conns \ {k} : bf[j] = Bufs[j]
        PROVE  /\ conn' \in [Conns -> Connection]
               /\ InPlace(sent, rcvd, conn', cl, fdt, backlog, bf)
    BY <1>t, <1>y, <1>2, <1>3, <1>5, WriteKeeps
  <1>6. conn' \in [Conns -> Connection]
    <2> DEFINE bf == [Bufs EXCEPT ![k] = <<>>]
    <2>1. bf[k] = <<>> /\ \A j \in Conns \ {k} : bf[j] = Bufs[j]
      BY <1>y, <1>3
    <2> HIDE DEF bf
    <2> QED BY <1>5, <2>1
  <1>7. \A bf : /\ bf[Peer(p)] = th'[p].buf
                /\ \A j \in Conns \ {Peer(p)} : bf[j] = Bufs[j]
                => InPlace(sent, rcvd, conn', cl, fdt, backlog, bf)
    BY <1>4, <1>5 DEF k
  <1>8. pc \in IF p = 0 THEN {"accept", "write"} ELSE {"read", "write", "close"}
    OBVIOUS
  <1> HIDE DEF pc
  <1> QED BY <1>1, <1>4, <1>6, <1>7, <1>8, IoStep

-----------------------------------------------------------------------------
(* A client's step: the server's side stays as it is, but for the client   *)
(* that enters the queue, which nobody has met before.                     *)
LEMMA ClientKeepsAll ==
    ASSUME SockInv, NEW k \in Conns, Client(k), UNCHANGED sockVars
    PROVE  SockInv' /\ [Promised!Next]_<<sent, rcvd>>
  <1>t. SockTypeOK /\ NetTypeOK /\ InPlace(sent, rcvd, conn, cl, fdt, backlog, Bufs)
    BY DEF SockInv, SockTypeOK
  <1>y. /\ fdt[0] \in [Fds -> -2 .. MaxConns] /\ Bufs \in [Conns -> Seq(Cell)]
        /\ backlog \in Seq(Conns)
    BY <1>t, TypeFacts
  <1>1. /\ ClientStep(k, Bufs)
        /\ InPlace(sent', rcvd', conn', cl', fdt', backlog', Bufs)
    <2> HIDE DEF Bufs
    <2> QED BY <1>t, <1>y, ClientKeeps, EchoNetAssumption
  <1>2. /\ NetTypeOK' /\ fdt' = fdt /\ status' = status
        /\ \A j \in Conns \ {k} : cl'[j] = cl[j]
        /\ cl'[k] # "off"
        /\ \/ backlog' = backlog
           \/ cl[k] = "off" /\ Listening /\ backlog' = Append(backlog, k)
        /\ [Promised!Next]_<<sent, rcvd>>
    BY <1>1 DEF ClientStep
  <1>3. th' = th /\ obj' = obj /\ prog' = prog
    BY DEF sockVars
  <1>4. SockTypeOK'
    BY <1>t, <1>2, <1>3 DEF SockTypeOK
  <1>5. InPlace(sent', rcvd', conn', cl', fdt', backlog', Bufs')
    <2>1. Bufs' = Bufs
      BY <1>2, <1>3 DEF Bufs, BufOf, Peer
    <2> QED BY <1>1, <2>1
  <1>6. \A p \in Procs : th'[p].pc # "write" => th'[p].buf = <<>>
    BY <1>3 DEF SockInv
  <1>7. ASSUME status = "up" PROVE Up'
    <2>t. /\ TableAt /\ Owns(obj, fdt[0]) /\ MainAt /\ SessionAt /\ QueueAt
      BY <1>7 DEF SockInv, Up
    <2>1. TableAt' /\ Owns(obj', fdt'[0])
      BY <1>2, <1>3, <2>t DEF TableAt
    <2>2. CASE backlog' = backlog
      <3>1. MainAt' /\ QueueAt'
        BY <1>2, <1>3, <2>t, <2>2 DEF MainAt, QueueAt
      <3>2. SessionAt'
        <4> SUFFICES ASSUME NEW j \in Conns
                     PROVE  SessionOf(j, th[j].pc, obj, fdt[0], cl'[j], backlog)
          BY <1>2, <1>3, <2>2 DEF SessionAt
        <4>1. SessionOf(j, th[j].pc, obj, fdt[0], cl[j], backlog)
          BY <2>t DEF SessionAt
        <4> QED BY <1>2, <4>1 DEF SessionOf
      <3> QED BY <2>1, <3>1, <3>2 DEF Up
    <2>3. CASE cl[k] = "off" /\ Listening /\ backlog' = Append(backlog, k)
      <3> DEFINE bl == Append(backlog, k)
      <3>1. /\ ~ Has(fdt, backlog, k) /\ th[k].pc = "none"
        <4>1. ~ Has(fdt, backlog, k)
          BY <1>t, <2>3 DEF InPlace, Echoed, Served
        <4>2. th[k].pc = "none"
          BY <2>t, <2>3 DEF SessionAt, SessionOf
        <4> QED BY <4>1, <4>2
      <3>2. /\ Len(backlog) \in Nat /\ Len(bl) = Len(backlog) + 1
            /\ bl[Len(backlog) + 1] = k
            /\ \A x \in 1 .. Len(backlog) : bl[x] = backlog[x] /\ backlog[x] \in Conns
        BY <1>y
      <3> HIDE DEF bl
      <3>3. \A x \in 1 .. Len(bl) : x \in 1 .. Len(backlog) \/ x = Len(backlog) + 1
        BY <3>2
      <3>4. \A j \in Conns \ {k} : Pending(bl, j) => Pending(backlog, j)
        BY <3>2, <3>3 DEF Pending
      <3>5. /\ \A x \in 1 .. Len(backlog) : backlog[x] # k
            /\ \A fd \in Fds : fdt[0][fd] # k
        BY <3>1, ProcsAre DEF Has, Pending, Refers
      <3>6. QueueAt'
        <4>1. \A x \in 1 .. Len(bl), fd \in Fds : fdt[0][fd] # bl[x]
          BY <2>t, <3>2, <3>3, <3>5 DEF QueueAt
        <4>2. \A x, y \in 1 .. Len(bl) : bl[x] = bl[y] => x = y
          BY <2>t, <3>2, <3>3, <3>5 DEF QueueAt
        <4> QED BY <1>2, <2>3, <4>1, <4>2 DEF QueueAt, bl
      <3>7. th[0].pc # "open"
        <4>1. \E fd \in Fds : fdt[0][fd] = LISTEN
          BY <2>t, <2>3, OneTable, FdsAre DEF Listening, TableAt
        <4> QED BY <2>t, <4>1, FdsAre DEF MainAt
      <3>8. MainAt'
        BY <1>2, <1>3, <2>t, <3>7 DEF MainAt
      <3>9. SessionAt'
        <4> SUFFICES ASSUME NEW j \in Conns
                     PROVE  SessionOf(j, th[j].pc, obj, fdt[0], cl'[j], bl)
          BY <1>2, <1>3, <2>3 DEF SessionAt, bl
        <4>1. SessionOf(j, th[j].pc, obj, fdt[0], cl[j], backlog)
          BY <2>t DEF SessionAt
        <4>2. CASE j = k
          BY <3>1, <4>1, <4>2 DEF SessionOf
        <4>3. CASE j # k
          BY <1>2, <3>4, <4>1, <4>3 DEF SessionOf
        <4> QED BY <4>2, <4>3
      <3> QED BY <2>1, <3>6, <3>8, <3>9 DEF Up
    <2> QED BY <1>2, <2>2, <2>3
  <1>8. ASSUME status # "up" PROVE Down'
    <2>1. Down
      BY <1>8 DEF SockInv
    <2>2. ~ Listening
      BY <2>1, FdsAre DEF Down, Listening, Refers, NoFds
    <2> QED BY <1>2, <1>3, <2>1, <2>2 DEF Down
  <1> QED BY <1>2, <1>4, <1>5, <1>6, <1>7, <1>8 DEF SockInv

-----------------------------------------------------------------------------
(* The initial states satisfy the invariant and are those of EchoService.  *)
LEMMA SockStarts == Init => SockInv /\ Promised!Init
  <1> SUFFICES ASSUME Init PROVE SockInv /\ Promised!Init
    OBVIOUS
  <1>1. /\ NetInit /\ prog \in Programs /\ obj = [o \in Objects |-> -1]
        /\ th = [p \in Procs |-> [pc |-> IF p = 0 THEN "open" ELSE "none",
                                  buf |-> <<>>]]
    BY DEF Init
  <1>2. <<>> \in {s \in Seq(Cell) : Len(s) <= BufCells}
    BY EchoNetAssumption
  <1>3. /\ th \in [Procs -> Thread] /\ th[0].pc = "open"
        /\ \A p \in Procs : th[p].buf = <<>> /\ th[p].pc # "write"
        /\ \A k \in Conns : th[k].pc = "none"
    BY <1>1, <1>2, ProcsAre DEF Thread
  <1>4. \A k \in Conns : Bufs[k] = <<>>
    BY <1>3, ProcsAre DEF Bufs, BufOf
  <1>5. /\ NetTypeOK /\ InPlace(sent, rcvd, conn, cl, fdt, backlog, Bufs)
        /\ Promised!Init
    <2> HIDE DEF Bufs
    <2> QED BY <1>1, <1>4, StartsInPlace, EchoNetAssumption
  <1>6. /\ status = "up" /\ backlog = <<>> /\ \A p \in Procs : fdt[p] = NoFds
        /\ \A fd \in Fds : fdt[0][fd] = FREE
    BY <1>1, ProcsAre DEF NetInit, NoFds
  <1>7. \A o \in Objects : obj[o] = -1
    BY <1>1
  <1>8. SockTypeOK
    BY <1>1, <1>3, <1>5 DEF SockTypeOK
  <1>9. TableAt /\ Owns(obj, fdt[0]) /\ QueueAt
    BY <1>3, <1>6, <1>7, ProcsAre, FdsAre DEF TableAt, Owns, QueueAt
  <1>10. MainAt
    BY <1>3, <1>6, <1>7, ObjectsAre DEF MainAt
  <1>11. SessionAt
    BY <1>3, <1>7, ObjectsAre DEF SessionAt, SessionOf, Serving
  <1> QED BY <1>3, <1>5, <1>6, <1>8, <1>9, <1>10, <1>11 DEF SockInv, Up

(* After the end of the process only the clients move.                     *)
LEMMA NothingAfterTheEnd ==
    ASSUME SockInv, Main \/ Body(0) \/ \E k \in Conns : Worker(k)
    PROVE  status = "up"
  <1> SUFFICES ASSUME status # "up" PROVE FALSE
    OBVIOUS
  <1>1. \A p \in Procs : th[p].pc = "ended"
    BY DEF SockInv, Down
  <1>2. ~ Main
    BY <1>1, ProcsAre DEF Main, Open, OpenFails, Accept, AcceptFails, Assign, Spawn
  <1>3. \A p \in Procs : ~ Body(p)
    BY <1>1 DEF Body, Read, Write, Killed
  <1>4. \A k \in Conns : ~ Worker(k)
    BY <1>1, <1>3, ProcsAre DEF Worker, SessionCloses, SessionReturns
  <1> QED BY <1>2, <1>3, <1>4, ProcsAre

(* Serving a client keeps it, a signal that ends the server included.      *)
LEMMA BodyStep ==
    ASSUME SockInv, status = "up", NEW p \in Procs, Body(p)
    PROVE  SockInv' /\ UNCHANGED <<sent, rcvd>>
  <1>1. ASSUME Killed(p) PROVE SockInv' /\ UNCHANGED <<sent, rcvd>>
    BY <1>1, EndStep DEF Killed
  <1> QED BY <1>1, ReadStep, WriteStep DEF Body

(* Every step keeps the invariant and is one of EchoService or a stutter.  *)
LEMMA SockStep ==
    SockInv /\ [Next]_vars => SockInv' /\ [Promised!Next]_<<sent, rcvd>>
  <1> SUFFICES ASSUME SockInv, [Next]_vars
               PROVE  SockInv' /\ [Promised!Next]_<<sent, rcvd>>
    OBVIOUS
  <1>1. ASSUME UNCHANGED vars PROVE SockInv' /\ UNCHANGED <<sent, rcvd>>
    <2>1. /\ UNCHANGED <<conn, backlog, cl, sent, rcvd, fdt, status>>
          /\ UNCHANGED <<prog, obj, th>>
      BY <1>1 DEF vars, netVars, sockVars, peerVars
    <2>2. SockTypeOK' /\ Up' = Up /\ Down' = Down
      BY <2>1 DEF SockInv, SockTypeOK, NetTypeOK, Up, Down, TableAt, MainAt,
                  SessionAt, QueueAt
    <2>3. InPlace(sent', rcvd', conn', cl', fdt', backlog', Bufs')
      <3>1. Bufs' = Bufs
        BY <2>1 DEF Bufs, BufOf, Peer
      <3> HIDE DEF Bufs
      <3> QED BY <2>1, <3>1 DEF SockInv
    <2> QED BY <2>1, <2>2, <2>3 DEF SockInv
  <1>2. ASSUME Main PROVE SockInv' /\ UNCHANGED <<sent, rcvd>>
    <2>1. status = "up"
      BY <1>2, NothingAfterTheEnd
    <2>2. ASSUME OpenFails \/ AcceptFails
          PROVE  SockInv' /\ UNCHANGED <<sent, rcvd>>
      BY <2>1, <2>2, EndStep DEF OpenFails, AcceptFails
    <2> QED BY <1>2, <2>1, <2>2, OpenStep, AcceptStep, AssignStep, SpawnStep DEF Main
  <1>3. ASSUME Body(0) PROVE SockInv' /\ UNCHANGED <<sent, rcvd>>
    BY <1>3, NothingAfterTheEnd, BodyStep, ProcsAre
  <1>4. ASSUME NEW k \in Conns, Worker(k)
        PROVE  SockInv' /\ UNCHANGED <<sent, rcvd>>
    <2>1. status = "up" /\ k \in Procs
      BY <1>4, NothingAfterTheEnd, ProcsAre
    <2> QED BY <1>4, <2>1, BodyStep, SessionClosesStep, SessionReturnsStep DEF Worker
  <1>5. ASSUME NEW k \in Conns, Client(k), UNCHANGED sockVars
        PROVE  SockInv' /\ [Promised!Next]_<<sent, rcvd>>
    BY <1>5, ClientKeepsAll
  <1> QED BY <1>1, <1>2, <1>3, <1>4, <1>5 DEF Next

(* What a descriptor is opened by, moved to and closed by: in              *)
(* tcpsocket-server.cpp and obj-echo-server.cpp, for every number of       *)
(* clients, descriptors and lines, every open number has one owner among   *)
(* the Socket objects and no object keeps a number that was closed, across *)
(* accept, move assignment, move construction, close and destruction.      *)
THEOREM EveryFdHasOneOwner == Spec => []OwnedOnce
  <1>1. SockInv => OwnedOnce
    <2> SUFFICES ASSUME SockInv, status = "up"
                 PROVE  /\ \A fd \in Fds : fdt[0][fd] # FREE =>
                              \E o \in Objects : obj[o] = fd
                        /\ \A o \in Objects : obj[o] # -1 =>
                              /\ fdt[0][obj[o]] # FREE
                              /\ \A q \in Objects \ {o} : obj[q] # obj[o]
      BY DEF OwnedOnce, SockInv
    <2>1. Owns(obj, fdt[0])
      BY DEF SockInv, Up
    <2> QED BY <2>1 DEF Owns
  <1> QED BY <1>1, SockStarts, SockStep, PTL DEF Spec

(* session() reads from and writes to the client it was started for until  *)
(* it closes its socket, whatever numbers other sessions close and main    *)
(* accepts again in the meantime.                                          *)
THEOREM SessionsKeepTheirPeer == Spec => []SessionKeepsPeer
  <1>1. SockInv => SessionKeepsPeer
    <2> SUFFICES ASSUME SockInv, NEW k \in Conns,
                        th[k].pc \in {"read", "write", "close"}
                 PROVE  obj[k] # -1 /\ fdt[0][obj[k]] = k
      BY DEF SessionKeepsPeer
    <2>1. status = "up"
      BY ProcsAre DEF SockInv, Down
    <2> QED BY <2>1 DEF SockInv, Up, SessionAt, SessionOf, Serving
  <1> QED BY <1>1, SockStarts, SockStep, PTL DEF Spec

(* Both programs implement EchoService: what a client reads back is at     *)
(* every moment a prefix of what it wrote, however reads split the stream, *)
(* whenever sessions close and whoever is killed.                          *)
THEOREM ObjectServersEcho == Spec => ObjEchoesInOrder
  <1>1. Promised!Init => Service!Init
    BY DEF Promised!Init, Service!Init
  <1>2. [Promised!Next]_<<sent, rcvd>> => [Service!Next]_(Service!vars)
    BY DEF Promised!Next, Service!Next, Promised!Send, Service!Send,
           Promised!Return, Service!Return, Service!vars
  <1> QED BY <1>1, <1>2, SockStarts, SockStep, PTL
         DEF Spec, ObjEchoesInOrder, Service!Spec
=============================================================================

------------------------- MODULE EchoServersProofs -------------------------
(***************************************************************************)
(* Proofs about EchoServers: the four C servers account for every          *)
(* descriptor, a reported event stays true, what kills a server, what      *)
(* leaves a zombie, and that all four implement the abstract echo service. *)
(***************************************************************************)
EXTENDS EchoServers, EchoNetProofs, FiniteSetTheorems

Busy == {"fork", "closing", "read", "write"}
Alive == {"start", "read", "write"}
Pollers == {"epoll", "select"}

(* The server process: where it can be, and its table t.                   *)
MainOf(kd, st, pc, fd, t) ==
    /\ pc \in {"init", "wait", "ended"} \cup
                 (IF kd = "fork" THEN {"fork", "closing"} ELSE {"read", "write"})
    /\ st = "up" <=> pc # "ended"
    /\ pc \in {"init", "ended"} => t = NoFds
    /\ pc \notin {"init", "ended"} =>
          /\ t[3] = LISTEN
          /\ kd = "epoll" => t[4] = EPOLL
          /\ \A d \in Fds \ {3} : \/ t[d] = FREE \/ t[d] \in Conns
                                  \/ (d = 4 /\ kd = "epoll")
          /\ \A d, e \in Fds : t[d] \in Conns /\ t[d] = t[e] => d = e
          /\ pc \in Busy => fd \in Fds /\ t[fd] \in Conns
          /\ kd \notin Pollers => \A d \in Fds : t[d] \in Conns => pc \in Busy /\ d = fd

(* What it watches, and the events it still has to handle.                 *)
WatchOf(kd, pc, fd, t, wt, bt, mx) ==
    /\ pc = "init" => wt = {} /\ bt = {}
    /\ kd \notin Pollers => wt = {} /\ bt = {}
    /\ kd \in Pollers /\ pc \notin {"init", "ended"} =>
          /\ wt = {d \in Fds : t[d] \in Conns} \cup {3}
          /\ bt \subseteq wt
          /\ pc \in Busy => fd \notin bt
          /\ kd = "select" => \A d \in wt : d < mx

(* Child k at kpc with its table t and its clnt_sock fd; l is where client *)
(* k is, and the server is at pc with table t0.                            *)
KidOf(k, kd, kpc, fd, t, l, bl, pc, t0) ==
    /\ kpc \in {"none", "zombie", "ended"} \cup Alive
    /\ kd # "fork" \/ pc = "init" => kpc = "none"
    /\ kpc \notin Alive => t = NoFds
    /\ kpc \in Alive =>
          /\ fd \in Fds \ {3} /\ t[fd] = k
          /\ t[3] = IF kpc = "start" THEN LISTEN ELSE FREE
          /\ \A d \in Fds \ {3, fd} : t[d] = FREE
    /\ kpc # "none" => /\ l # "off" /\ ~ Pending(bl, k)
                       /\ \A d \in Fds : t0[d] = k => pc = "closing"

QueueOf(tab, bl) ==
    /\ \A x \in 1 .. Len(bl) : ~ Refers(tab, bl[x])
    /\ \A x, y \in 1 .. Len(bl) : bl[x] = bl[y] => x = y

(* The SIGCHLDs: at most one is merged per child that has ended, and while *)
(* none was, the only zombie is the one the pending signal is about.       *)
Done(ww) == {k \in Conns : ww[k].pc \in {"zombie", "ended"}}
SignalsOf(ww, st, ch, mg) ==
    /\ mg <= Cardinality(Done(ww))
    /\ st = "up" /\ mg = 0 =>
          \A j, k \in Conns : ww[j].pc = "zombie" /\ ww[k].pc = "zombie" =>
              j = k /\ ch = TRUE

AbortOf(kd, st, at, sn, rc) ==
    st = "sigpipe" =>
        kd # "fork" /\ \E k \in Conns : at[k] = "gone" /\ Len(rc[k]) < Len(sn[k])

(* What a process has read from client k and not yet written back.         *)
BufOf(k, ww, tab) ==
    IF ww[k].pc = "write" THEN ww[k].buf
    ELSE IF ww[0].pc = "write" /\ tab[0][ww[0].fd] = k THEN ww[0].buf ELSE <<>>
Bufs(ww, tab) == [k \in Conns |-> BufOf(k, ww, tab)]

(* A read of the server's end of c does not block.                         *)
Readable(c) == c.c2s # <<>> \/ c.rst # "no" \/ c.cli = FALSE

(* EventsStayTrue, of the table t, the events bt, the queue and all ends.  *)
EventsOf(st, t, bt, bl, cn) ==
    st = "up" => \A d \in bt : \/ t[d] = LISTEN /\ bl # <<>>
                               \/ t[d] \in Conns /\ Readable(cn[t[d]])

MainAt == MainOf(kind, status, w[0].pc, w[0].fd, fdt[0])
WatchAt == WatchOf(kind, w[0].pc, w[0].fd, fdt[0], watch, batch, max_fd)
KidsAt == \A k \in Conns : KidOf(k, kind, w[k].pc, w[k].fd, fdt[k], cl[k],
                                 backlog, w[0].pc, fdt[0])

EchoInv ==
    /\ EchoTypeOK
    /\ \A p \in Procs : w[p].pc \notin {"write", "zombie", "ended"} =>
                            w[p].buf = <<>>
    /\ MainAt /\ WatchAt /\ KidsAt /\ QueueOf(fdt, backlog)
    /\ w[0].pc = "init" => backlog = <<>>
    /\ EventsOf(status, fdt[0], batch, backlog, conn)
    /\ SignalsOf(w, status, chld, merged)
    /\ AbortOf(kind, status, cl, sent, rcvd)
    /\ InPlace(sent, rcvd, conn, cl, fdt, backlog, Bufs(w, fdt))

-----------------------------------------------------------------------------
(* The types of the parts of the state.                                    *)
LEMMA TypeFacts ==
    ASSUME EchoTypeOK
    PROVE  /\ conn \in [Conns -> Connection] /\ backlog \in Seq(Conns)
           /\ fdt \in Tables /\ w \in [Procs -> Process]
           /\ \A p \in Procs : /\ fdt[p] \in [Fds -> -2 .. MaxConns]
                               /\ w[p] \in Process /\ w[p].fd \in {0} \cup Fds
                               /\ w[p].buf \in Seq(Cell)
           /\ NetTypeOK /\ kind \in {"iter", "fork", "epoll", "select"}
           /\ Bufs(w, fdt) \in [Conns -> Seq(Cell)]
  <1>1. /\ conn \in [Conns -> Connection] /\ backlog \in Seq(Conns)
        /\ fdt \in Tables /\ w \in [Procs -> Process] /\ NetTypeOK
    BY DEF EchoTypeOK, NetTypeOK, Tables
  <1>2. \A p \in Procs : /\ fdt[p] \in [Fds -> -2 .. MaxConns]
                         /\ w[p] \in Process /\ w[p].fd \in {0} \cup Fds
                         /\ w[p].buf \in Seq(Cell)
    BY <1>1 DEF Tables, Process
  <1>3. kind \in {"iter", "fork", "epoll", "select"}
    BY EchoServersAssumption DEF EchoTypeOK
  <1>4. \A k \in Conns : BufOf(k, w, fdt) \in Seq(Cell)
    <2>1. <<>> \in Seq(Cell)
      OBVIOUS
    <2> QED BY <1>2, <2>1, ProcsAre DEF BufOf
  <1>5. Bufs(w, fdt) \in [Conns -> Seq(Cell)]
    BY <1>4 DEF Bufs
  <1> QED BY <1>1, <1>2, <1>3, <1>5

(* There is always a descriptor left: 3, perhaps 4, and one for each other *)
(* client at most are in use while somebody waits to be accepted.          *)
LEMMA DescriptorLeft ==
    ASSUME EchoInv, w[0].pc = "wait", backlog # <<>>
    PROVE  LET new == Lowest(Free(fdt[0]))
           IN  new \in Fds \ {3} /\ fdt[0][new] = FREE
  <1> DEFINE t == fdt[0]
             h == Head(backlog)
             S == 5 .. MaxFd
             T == Conns \ {h}
             f == [d \in S |-> t[d]]
  <1>t. EchoTypeOK /\ MainAt /\ QueueOf(fdt, backlog)
    BY DEF EchoInv
  <1>y. backlog \in Seq(Conns) /\ t \in [Fds -> -2 .. MaxConns]
    BY <1>t, TypeFacts, ProcsAre
  <1>1. /\ t[3] = LISTEN
        /\ \A d \in Fds \ {3} : t[d] = FREE \/ t[d] \in Conns \/ d = 4
        /\ \A d, e \in Fds : t[d] \in Conns /\ t[d] = t[e] => d = e
    BY <1>t DEF MainAt, MainOf
  <1>2. h \in Conns /\ \A d \in Fds : t[d] # h
    <2>1. h \in Conns /\ h = backlog[1] /\ 1 \in 1 .. Len(backlog)
      BY <1>y
    <2>2. ~ Refers(fdt, h)
      BY <1>t, <2>1 DEF QueueOf
    <2> QED BY <2>1, <2>2, ProcsAre DEF Refers
  <1>3. Free(t) # {}
    <2> SUFFICES ASSUME Free(t) = {} PROVE FALSE
      OBVIOUS
    <2>1. S \subseteq Fds \ {3} /\ 4 \notin S
      BY EchoNetAssumption DEF Fds
    <2>2. \A d \in S : t[d] \in T
      BY <1>1, <1>2, <2>1 DEF Free
    <2>3. f \in [S -> T]
      BY <2>2
    <2>4. IsFiniteSet(S) /\ Cardinality(S) = MaxFd - 4
      <3>1. MaxFd \in Int /\ MaxFd >= 5
        BY EchoNetAssumption, EchoServersAssumption
      <3> QED BY <3>1, FS_Interval
    <2>5. IsFiniteSet(T) /\ Cardinality(T) = MaxConns - 1
      <3>1. IsFiniteSet(Conns) /\ Cardinality(Conns) = MaxConns
        BY EchoNetAssumption, FS_Interval DEF Conns
      <3> QED BY <1>2, <3>1, FS_RemoveElement
    <2>6. Cardinality(T) < Cardinality(S)
      BY <2>4, <2>5, EchoNetAssumption, EchoServersAssumption
    <2>7. \A x \in S : f[x] = t[x]
      OBVIOUS
    <2> HIDE DEF S, T, f
    <2>8. PICK x, y \in S : x # y /\ f[x] = f[y]
      BY <2>3, <2>4, <2>5, <2>6, FS_PigeonHole
    <2> QED BY <1>1, <2>1, <2>2, <2>7, <2>8 DEF T
  <1>4. Free(t) \subseteq Nat
    BY FdsAre DEF Free
  <1> DEFINE new == Lowest(Free(t))
  <1>5. new \in Free(t)
    BY <1>3, <1>4, LowestIs
  <1> HIDE DEF new
  <1>6. new \in Fds \ {3} /\ t[new] = FREE
    BY <1>1, <1>5, FdsAre DEF Free
  <1> QED BY <1>6 DEF new

(* Who is accepted next: nobody has met it yet.                            *)
LEMMA QueueHead ==
    ASSUME EchoInv, backlog # <<>>
    PROVE  LET k == Head(backlog)
               bl == Tail(backlog)
           IN  /\ k \in Conns /\ bl \in Seq(Conns)
               /\ ~ Refers(fdt, k) /\ w[k].pc = "none"
               /\ Pending(backlog, k) /\ ~ Pending(bl, k)
               /\ \A j : Pending(bl, j) => Pending(backlog, j)
               /\ \A x, y \in 1 .. Len(bl) : bl[x] = bl[y] => x = y
  <1> DEFINE k == Head(backlog)
             bl == Tail(backlog)
  <1>t. EchoTypeOK /\ KidsAt /\ QueueOf(fdt, backlog)
    BY DEF EchoInv
  <1>y. backlog \in Seq(Conns)
    BY <1>t, TypeFacts
  <1>1. /\ Len(backlog) \in Nat /\ Len(backlog) >= 1 /\ k = backlog[1]
        /\ bl \in Seq(Conns) /\ Len(bl) = Len(backlog) - 1
        /\ \A x \in 1 .. Len(bl) : bl[x] = backlog[x + 1]
    BY <1>y
  <1>2. /\ \A x \in 1 .. Len(backlog) : ~ Refers(fdt, backlog[x])
        /\ \A x, y \in 1 .. Len(backlog) : backlog[x] = backlog[y] => x = y
    BY <1>t DEF QueueOf
  <1> HIDE DEF bl, k
  <1>3. 1 \in 1 .. Len(backlog) /\ \A x \in 1 .. Len(bl) : x + 1 \in 1 .. Len(backlog)
    BY <1>1
  <1>4. k \in Conns /\ ~ Refers(fdt, k) /\ Pending(backlog, k)
    BY <1>y, <1>1, <1>2, <1>3 DEF Pending
  <1>5. \A x \in 1 .. Len(bl) : bl[x] # k
    <2> TAKE x \in 1 .. Len(bl)
    <2>1. x + 1 # 1 /\ x + 1 \in 1 .. Len(backlog) /\ bl[x] = backlog[x + 1]
      BY <1>1, <1>3
    <2> QED BY <1>1, <1>2, <1>3, <2>1
  <1>6. \A x, y \in 1 .. Len(bl) : bl[x] = bl[y] => x = y
    <2> TAKE x, y \in 1 .. Len(bl)
    <2>1. /\ bl[x] = backlog[x + 1] /\ bl[y] = backlog[y + 1]
          /\ x + 1 \in 1 .. Len(backlog) /\ y + 1 \in 1 .. Len(backlog)
      BY <1>1, <1>3
    <2>2. bl[x] = bl[y] => x + 1 = y + 1
      BY <1>2, <2>1
    <2> QED BY <2>2
  <1>7. w[k].pc = "none"
    BY <1>t, <1>4 DEF KidsAt, KidOf
  <1>8. /\ ~ Pending(bl, k) /\ \A j : Pending(bl, j) => Pending(backlog, j)
    BY <1>1, <1>3, <1>5 DEF Pending
  <1> QED BY <1>1, <1>4, <1>6, <1>7, <1>8 DEF k, bl

(* The wait reports what can be read.                                      *)
Results(c) ==
    IF c.c2s # <<>> THEN 1 .. Lesser(BufCells, Len(c.c2s))
    ELSE IF c.rst = "err" THEN {-1}
    ELSE IF c.cli /\ c.rst = "no" THEN {} ELSE {0}

(* A descriptor is readable when a read would return something.            *)
LEMMA ReadableIs ==
    ASSUME NEW c \in Connection
    PROVE  Results(c) # {} <=> Readable(c)
  <1>1. /\ c.c2s \in Seq(Cell) /\ c.rst \in {"no", "err", "shut"}
        /\ c.cli \in BOOLEAN
    BY DEF Connection
  <1>2. CASE c.c2s # <<>>
    <2> DEFINE n == Len(c.c2s)
    <2>1. n \in Nat /\ n >= 1
      BY <1>1, <1>2
    <2> HIDE DEF n
    <2>2. 1 \in 1 .. Lesser(BufCells, n)
      BY <2>1, EchoNetAssumption DEF Lesser
    <2>3. Results(c) = 1 .. Lesser(BufCells, n)
      BY <1>2 DEF Results, n
    <2> QED BY <1>2, <2>2, <2>3 DEF Readable
  <1>3. CASE c.c2s = <<>>
    BY <1>1, <1>3 DEF Results, Readable
  <1> QED BY <1>2, <1>3

(* What the polling calls report.                                          *)
LEMMA ReadyIs ==
    ASSUME EchoTypeOK
    PROVE  \A d : Ready(d) <=>
               \/ fdt[0][d] = LISTEN /\ backlog # <<>>
               \/ fdt[0][d] \in Conns /\ Readable(conn[fdt[0][d]])
  <1>1. conn \in [Conns -> Connection]
    BY TypeFacts
  <1>2. \A k \in Conns : ReadResults(k) # {} <=> Readable(conn[k])
    <2> TAKE k \in Conns
    <2>1. conn[k] \in Connection /\ ReadResults(k) = Results(conn[k])
      BY <1>1 DEF ReadResults, Results
    <2> QED BY <2>1, ReadableIs
  <1> QED BY <1>2, FdsAre DEF Ready

(* EventsStayTrue in terms of the values it depends on.                    *)
LEMMA EventsAre ==
    ASSUME EchoTypeOK
    PROVE  EventsStayTrue <=> EventsOf(status, fdt[0], batch, backlog, conn)
  BY ReadyIs DEF EventsStayTrue, EventsOf

-----------------------------------------------------------------------------
(* A step of the server process that changes its own table to t and the    *)
(* accept queue to bl.  Nothing that t gains was known to anybody, and no  *)
(* event that is left is touched.                                          *)
Narrows(t, bl) ==
    /\ \A j : Pending(bl, j) => Pending(backlog, j)
    /\ \A x, y \in 1 .. Len(bl) : bl[x] = bl[y] => x = y
    /\ \A d \in Fds : t[d] \in Conns =>
          /\ \/ t[d] = fdt[0][d]
             \/ Pending(backlog, t[d]) /\ ~ Pending(bl, t[d])
          /\ w[t[d]].pc = "none"

(* What every step of the server's own process that opens or closes        *)
(* descriptors has in common.                                              *)
LEMMA NarrowsKeep ==
    ASSUME EchoInv, NEW t \in [Fds -> -2 .. MaxConns], NEW bl \in Seq(Conns),
           Retab(conn, [fdt EXCEPT ![0] = t], bl), Narrows(t, bl)
    PROVE  /\ fdt' \in Tables /\ fdt'[0] = t /\ \A k \in Conns : fdt'[k] = fdt[k]
           /\ backlog' \in Seq(Conns) /\ conn' \in [Conns -> Connection]
           /\ backlog' = bl \/ backlog' = <<>>
           /\ t[3] = LISTEN => backlog' = bl
           /\ \A j : Pending(backlog', j) => Pending(bl, j)
           /\ QueueOf(fdt', backlog')
           /\ \A k \in Conns : Has(fdt', backlog', k) =>
                  Has(fdt, backlog, k) /\ conn'[k] = conn[k]
  <1> DEFINE tab == [fdt EXCEPT ![0] = t]
  <1>t. EchoTypeOK /\ QueueOf(fdt, backlog)
    BY DEF EchoInv
  <1>y. fdt \in Tables /\ conn \in [Conns -> Connection] /\ backlog \in Seq(Conns)
    BY <1>t, TypeFacts
  <1>1. tab \in Tables /\ tab[0] = t /\ \A k \in Conns : tab[k] = fdt[k]
    BY <1>y, ProcsAre DEF Tables
  <1> HIDE DEF tab
  <1>2. Retab(conn, tab, bl)
    BY DEF tab
  <1>3. /\ fdt' = tab
        /\ backlog' = (IF Refers(tab, LISTEN) THEN bl ELSE <<>>)
        /\ backlog' \in Seq(Conns) /\ conn' \in [Conns -> Connection]
        /\ \A k \in Conns : Has(tab, backlog', k) => conn'[k] = conn[k]
    BY <1>y, <1>1, <1>2, RetabEffect
  <1>4. t[3] = LISTEN => Refers(tab, LISTEN)
    BY <1>1, ProcsAre, FdsAre DEF Refers
  <1>5. /\ backlog' = bl \/ backlog' = <<>>
        /\ \A j : Pending(backlog', j) => Pending(bl, j)
    <2>1. \A j : ~ Pending(<<>>, j)
      BY DEF Pending
    <2> QED BY <1>3, <2>1
  <1>6. ASSUME NEW k \in Conns, Refers(tab, k)
        PROVE  Refers(fdt, k) \/ (Pending(backlog, k) /\ ~ Pending(bl, k))
    <2>1. PICK p \in Procs, d \in Fds : tab[p][d] = k
      BY <1>6 DEF Refers
    <2>2. CASE p = 0
      <3>1. \/ t[d] = fdt[0][d]
            \/ Pending(backlog, t[d]) /\ ~ Pending(bl, t[d])
        BY <1>1, <2>1, <2>2 DEF Narrows
      <3> QED BY <1>1, <2>1, <2>2, <3>1, ProcsAre DEF Refers
    <2>3. CASE p # 0
      <3>1. fdt[p][d] = k
        BY <1>1, <2>1, <2>3, ProcsAre
      <3> QED BY <3>1 DEF Refers
    <2> QED BY <2>2, <2>3
  <1>7. \A k \in Conns : Has(tab, backlog', k) => Has(fdt, backlog, k)
    BY <1>5, <1>6 DEF Has, Narrows
  <1>8. QueueOf(tab, bl)
    <2>1. ASSUME NEW x \in 1 .. Len(bl) PROVE ~ Refers(tab, bl[x])
      <3>1. bl[x] \in Conns /\ Pending(bl, bl[x])
        BY DEF Pending
      <3>2. PICK z \in 1 .. Len(backlog) : backlog[z] = bl[x]
        BY <3>1 DEF Narrows, Pending
      <3>3. ~ Refers(fdt, bl[x])
        BY <1>t, <3>2 DEF QueueOf
      <3> QED BY <1>6, <3>1, <3>3
    <2> QED BY <2>1 DEF QueueOf, Narrows
  <1>9. QueueOf(tab, <<>>)
    BY DEF QueueOf
  <1> QED BY <1>1, <1>3, <1>4, <1>5, <1>7, <1>8, <1>9

(* Such a step of the server's process keeps the invariant.                *)
LEMMA MainStep ==
    ASSUME EchoInv, NEW t \in [Fds -> -2 .. MaxConns], NEW bl \in Seq(Conns),
           Retab(conn, [fdt EXCEPT ![0] = t], bl), Narrows(t, bl),
           UNCHANGED <<cl, sent, rcvd, kind, addr_sz, chld, merged>>,
           w' \in [Procs -> Process], \A k \in Conns : w'[k] = w[k],
           status' \in {"up", "exited", "failed", "sigpipe"},
           watch' \subseteq Fds, batch' \subseteq Fds,
           max_fd' \in 0 .. MaxFd + 1, turns' \in 0 .. Turns,
           w'[0].pc \notin {"init", "write"},
           w'[0].pc # "ended" => w'[0].buf = <<>>,
           w[0].pc = "write" => t = NoFds,
           MainOf(kind, status', w'[0].pc, w'[0].fd, t),
           WatchOf(kind, w'[0].pc, w'[0].fd, t, watch', batch', max_fd'),
           status' = "up" =>
              /\ status = "up"
              /\ \A d \in batch' : /\ d \in batch /\ t[d] = fdt[0][d]
                                   /\ t[d] = LISTEN => bl = backlog,
           AbortOf(kind, status', cl, sent, rcvd)
    PROVE  EchoInv' /\ UNCHANGED <<sent, rcvd>>
  <1>t. /\ EchoTypeOK /\ MainAt /\ KidsAt /\ SignalsOf(w, status, chld, merged)
        /\ EventsOf(status, fdt[0], batch, backlog, conn)
        /\ InPlace(sent, rcvd, conn, cl, fdt, backlog, Bufs(w, fdt))
        /\ \A p \in Procs : w[p].pc \notin {"write", "zombie", "ended"} =>
                                w[p].buf = <<>>
    BY DEF EchoInv
  <1>y. NetTypeOK /\ fdt \in Tables /\ backlog \in Seq(Conns)
    BY <1>t, TypeFacts
  <1>1. /\ fdt' \in Tables /\ fdt'[0] = t /\ \A k \in Conns : fdt'[k] = fdt[k]
        /\ backlog' \in Seq(Conns) /\ conn' \in [Conns -> Connection]
        /\ backlog' = bl \/ backlog' = <<>>
        /\ t[3] = LISTEN => backlog' = bl
        /\ \A j : Pending(backlog', j) => Pending(bl, j)
        /\ QueueOf(fdt', backlog')
        /\ \A k \in Conns : Has(fdt', backlog', k) =>
               Has(fdt, backlog, k) /\ conn'[k] = conn[k]
    BY NarrowsKeep
  <1>2. EchoTypeOK'
    <2>1. NetTypeOK'
      BY <1>y, <1>1 DEF NetTypeOK, Tables
    <2> QED BY <1>t, <2>1 DEF EchoTypeOK
  <1>3. \A p \in Procs : w'[p].pc \notin {"write", "zombie", "ended"} =>
                             w'[p].buf = <<>>
    BY <1>t, ProcsAre
  <1>4. MainAt' /\ WatchAt'
    BY <1>1 DEF MainAt, WatchAt
  <1>5. KidsAt'
    <2> SUFFICES ASSUME NEW k \in Conns
                 PROVE  KidOf(k, kind, w[k].pc, w[k].fd, fdt[k], cl[k], backlog',
                              w'[0].pc, t)
      BY <1>1 DEF KidsAt
    <2>1. KidOf(k, kind, w[k].pc, w[k].fd, fdt[k], cl[k], backlog, w[0].pc, fdt[0])
      BY <1>t DEF KidsAt
    <2>2. w[k].pc # "none" => \A d \in Fds : t[d] # k
      BY DEF Narrows
    <2>3. Pending(backlog', k) => Pending(backlog, k)
      BY <1>1 DEF Narrows
    <2> QED BY <2>1, <2>2, <2>3 DEF KidOf
  <1>6. EventsOf(status', fdt'[0], batch', backlog', conn')
    <2> SUFFICES ASSUME status' = "up", NEW d \in batch'
                 PROVE  \/ t[d] = LISTEN /\ backlog' # <<>>
                        \/ t[d] \in Conns /\ Readable(conn'[t[d]])
      BY <1>1 DEF EventsOf
    <2>1. /\ d \in Fds /\ t[d] = fdt[0][d]
          /\ \/ t[d] = LISTEN /\ backlog # <<>> /\ bl = backlog
             \/ t[d] \in Conns /\ Readable(conn[t[d]])
      BY <1>t DEF EventsOf
    <2>2. CASE t[d] = LISTEN /\ backlog # <<>> /\ bl = backlog
      <3>1. t[3] = LISTEN
        BY <1>1, <2>2 DEF MainOf, NoFds
      <3> QED BY <1>1, <2>2, <3>1
    <2>3. CASE t[d] \in Conns /\ Readable(conn[t[d]])
      <3>1. Has(fdt', backlog', t[d])
        BY <1>1, <2>1, ProcsAre DEF Has, Refers
      <3> QED BY <1>1, <2>3, <3>1
    <2> QED BY <2>1, <2>2, <2>3
  <1>7. SignalsOf(w', status', chld', merged')
    <2>1. Done(w') = Done(w)
      BY DEF Done
    <2> QED BY <1>t, <2>1 DEF SignalsOf
  <1>8. InPlace(sent', rcvd', conn', cl', fdt', backlog', Bufs(w', fdt'))
    <2> DEFINE bf == Bufs(w, fdt)
               bf1 == Bufs(w', fdt')
    <2>1. ASSUME NEW k \in Conns PROVE cl[k] = "off" => bf1[k] = <<>>
      <3>1. w[k].pc = "write" => cl[k] # "off"
        BY <1>t DEF KidsAt, KidOf
      <3> QED BY <3>1 DEF Bufs, BufOf
    <2>2. ASSUME NEW k \in Conns, Has(fdt', backlog', k) PROVE bf1[k] = bf[k]
      <3>1. CASE w[0].pc # "write"
        BY <3>1 DEF Bufs, BufOf
      <3>2. CASE w[0].pc = "write"
        <4>1. /\ \A j \in Conns : fdt'[j] = NoFds
              /\ fdt'[0] = NoFds
          BY <1>t, <1>1, <3>2 DEF MainAt, MainOf, KidsAt, KidOf, Alive
        <4>2. \A x : x # FREE => ~ Refers(fdt', x)
          BY <4>1, ProcsAre DEF Refers, NoFds
        <4>3. backlog' = <<>>
          <5>1. fdt' = [fdt EXCEPT ![0] = t]
            BY DEF Retab
          <5>2. ~ Refers([fdt EXCEPT ![0] = t], LISTEN)
            BY <4>2, <5>1, FdsAre
          <5> QED BY <5>2 DEF Retab
        <4> QED BY <2>2, <4>2, <4>3, FdsAre DEF Has, Pending
      <3> QED BY <3>1, <3>2
    <2> HIDE DEF bf, bf1
    <2>3. Retab(conn, fdt', bl)
      <3>1. fdt' = [fdt EXCEPT ![0] = t]
        BY DEF Retab
      <3> QED BY <3>1
    <2>4. InPlace(sent, rcvd, conn, cl, fdt, backlog, bf)
      BY <1>t DEF bf
    <2>5. InPlace(sent, rcvd, conn', cl, fdt', backlog', bf1)
      BY <1>y, <1>1, <2>1, <2>2, <2>3, <2>4, RetabKeeps
    <2> QED BY <2>5 DEF bf1
  <1>9. AbortOf(kind', status', cl', sent', rcvd')
    OBVIOUS
  <1>10. w'[0].pc # "init"
    OBVIOUS
  <1> QED BY <1>1, <1>2, <1>3, <1>4, <1>5, <1>6, <1>7, <1>8, <1>9, <1>10 DEF EchoInv

-----------------------------------------------------------------------------
(* The server process opens and closes descriptors.                        *)

(* A table that changes at one number.                                     *)
LEMMA OneNumber ==
    ASSUME fdt \in Tables, NEW p \in Procs, NEW d \in Fds, NEW x \in -2 .. MaxConns
    PROVE  /\ [fdt EXCEPT ![p][d] = x] = [fdt EXCEPT ![p] = [fdt[p] EXCEPT ![d] = x]]
           /\ [fdt[p] EXCEPT ![d] = x] \in [Fds -> -2 .. MaxConns]
           /\ \A e \in Fds : [fdt[p] EXCEPT ![d] = x][e] =
                                 IF e = d THEN x ELSE fdt[p][e]
  <1>1. fdt[p] \in [Fds -> -2 .. MaxConns]
    BY DEF Tables
  <1> QED BY <1>1 DEF Tables

(* No server process outlives this.                                        *)
LEMMA QuitServer ==
    ASSUME EchoInv, NEW how \in {"exited", "failed", "sigpipe"}, status' = how,
           w' = [w EXCEPT ![0].pc = "ended"],
           Retab(conn, [fdt EXCEPT ![0] = NoFds], backlog),
           UNCHANGED <<cl, sent, rcvd, kind, watch, batch, max_fd, turns,
                       addr_sz, chld, merged>>,
           AbortOf(kind, how, cl, sent, rcvd)
    PROVE  EchoInv' /\ UNCHANGED <<sent, rcvd>>
  <1>t. EchoTypeOK /\ WatchAt /\ QueueOf(fdt, backlog)
    BY DEF EchoInv
  <1>y. w \in [Procs -> Process] /\ backlog \in Seq(Conns)
    BY <1>t, TypeFacts
  <1>1. NoFds \in [Fds -> -2 .. MaxConns] /\ \A d \in Fds : NoFds[d] = FREE
    BY FdsAre DEF NoFds
  <1>2. /\ w' \in [Procs -> Process] /\ w'[0].pc = "ended"
        /\ \A k \in Conns : w'[k] = w[k]
    BY <1>y, ProcsAre DEF Process
  <1>3. Narrows(NoFds, backlog)
    BY <1>t, <1>1, FdsAre DEF Narrows, QueueOf
  <1>4. MainOf(kind, how, "ended", w'[0].fd, NoFds)
    BY DEF MainOf
  <1>5. WatchOf(kind, "ended", w'[0].fd, NoFds, watch, batch, max_fd)
    BY <1>t DEF WatchOf, WatchAt
  <1>6. /\ watch' \subseteq Fds /\ batch' \subseteq Fds
        /\ max_fd' \in 0 .. MaxFd + 1 /\ turns' \in 0 .. Turns
    BY <1>t DEF EchoTypeOK
  <1>7. /\ WatchOf(kind, w'[0].pc, w'[0].fd, NoFds, watch', batch', max_fd')
        /\ MainOf(kind, status', w'[0].pc, w'[0].fd, NoFds)
        /\ AbortOf(kind, status', cl, sent, rcvd)
    BY <1>2, <1>4, <1>5
  <1> QED BY <1>y, <1>1, <1>2, <1>3, <1>6, <1>7, MainStep

(* The end of main keeps the invariant.                                    *)
LEMMA FinishStep ==
    ASSUME EchoInv, Finish \/ ForkFails
    PROVE  EchoInv' /\ UNCHANGED <<sent, rcvd>>
  <1>1. PICK how \in {"exited", "failed"} :
           /\ status' = how
           /\ w' = [w EXCEPT ![0].pc = "ended"]
           /\ Retab(conn, [fdt EXCEPT ![0] = NoFds], backlog)
           /\ UNCHANGED <<cl, sent, rcvd, kind, watch, batch, max_fd, turns,
                          addr_sz, chld, merged>>
    BY DEF Finish, ForkFails, peerVars, pollVars, forkVars
  <1>2. AbortOf(kind, how, cl, sent, rcvd)
    BY DEF AbortOf
  <1> QED BY <1>1, <1>2, QuitServer

(* SIGPIPE: the client has left, and the buffer is not all it lacks.       *)
LEMMA ShutMeansGone ==
    ASSUME NEW k, NEW s \in Seq(Cell), NEW r \in Seq(Cell),
           NEW c \in Connection, NEW b \in Seq(Cell), NEW l,
           Kept(k, s, r, c, l), Echoed(k, s, r, c, b, l),
           c.rst = "shut", b # <<>>
    PROVE  l = "gone" /\ Len(r) < Len(s)
  <1>1. l = "gone"
    BY DEF Kept
  <1> DEFINE out == c.s2c
             inp == c.c2s
  <1>2. out \in Seq(Cell) /\ inp \in Seq(Cell)
    BY DEF Connection
  <1>3. Served(k, s, r, out, b, inp, l)
    BY DEF Echoed
  <1> HIDE DEF out, inp
  <1>4. /\ Len(s) \in Nat /\ Len(r) \in Nat /\ Len(out) \in Nat
        /\ Len(b) \in Nat /\ Len(b) # 0 /\ Len(inp) \in Nat
    BY <1>2
  <1>5. Len(r) + Len(out) + Len(b) + Len(inp) <= Len(s)
    BY <1>3 DEF Served
  <1> DEFINE ls == Len(s)
             lr == Len(r)
             lo == Len(out)
             lb == Len(b)
             li == Len(inp)
  <1>6. /\ ls \in Nat /\ lr \in Nat /\ lo \in Nat /\ lb \in Nat /\ lb # 0
        /\ li \in Nat /\ lr + lo + lb + li <= ls
    BY <1>4, <1>5
  <1> HIDE DEF ls, lr, lo, lb, li
  <1>7. lr < ls
    BY <1>6
  <1> QED BY <1>1, <1>7 DEF lr, ls

(* Process p, at a read or a write, has its client's connection.           *)
LEMMA PeerIs ==
    ASSUME EchoInv, NEW p \in Procs, w[p].pc \in {"read", "write"}
    PROVE  /\ Peer(p) \in Conns /\ Has(fdt, backlog, Peer(p))
           /\ Bufs(w, fdt)[Peer(p)] = w[p].buf
           /\ w[p].fd \in Fds /\ (p = 0 => kind # "fork" /\ status = "up")
           /\ p # 0 => p \in Conns /\ Peer(p) = p /\ kind = "fork"
                         /\ w[0].pc \notin {"read", "write"}
  <1>t. /\ EchoTypeOK /\ MainAt /\ KidsAt
        /\ w[p].pc # "write" => w[p].buf = <<>>
    BY DEF EchoInv
  <1>1. CASE p = 0
    <2>1. /\ Peer(p) \in Conns /\ w[p].fd \in Fds /\ kind # "fork"
          /\ status = "up"
      BY <1>t, <1>1 DEF MainAt, MainOf, Busy, Peer
    <2>2. Has(fdt, backlog, Peer(p))
      BY <1>1, <2>1, ProcsAre DEF Has, Refers, Peer
    <2>3. w[Peer(p)].pc = "none"
      BY <1>t, <2>1 DEF KidsAt, KidOf
    <2>4. Bufs(w, fdt)[Peer(p)] = w[p].buf
      BY <1>t, <1>1, <2>1, <2>3 DEF Bufs, BufOf, Peer
    <2> QED BY <1>1, <2>1, <2>2, <2>4
  <1>2. CASE p # 0
    <2>1. p \in Conns
      BY <1>2, ProcsAre
    <2>2. w[p].fd \in Fds /\ Peer(p) = p /\ kind = "fork"
      BY <1>t, <2>1 DEF KidsAt, KidOf, Alive, Peer
    <2>3. Has(fdt, backlog, p)
      BY <2>2 DEF Has, Refers, Peer
    <2>4. w[0].pc \notin {"read", "write"}
      BY <1>t, <2>2 DEF MainAt, MainOf
    <2>5. Bufs(w, fdt)[p] = w[p].buf
      BY <1>t, <2>1, <2>4 DEF Bufs, BufOf
    <2> QED BY <1>2, <2>1, <2>2, <2>3, <2>4, <2>5
  <1> QED BY <1>1, <1>2

(* A signal that ends the server's process keeps it.                       *)
LEMMA ServerKilled ==
    ASSUME EchoInv, Killed(0)
    PROVE  EchoInv' /\ UNCHANGED <<sent, rcvd>>
  <1>t. /\ EchoTypeOK
        /\ InPlace(sent, rcvd, conn, cl, fdt, backlog, Bufs(w, fdt))
    BY DEF EchoInv
  <1>1. /\ w[0].pc = "write" /\ RaisesSigpipe(Peer(0), w[0].buf)
        /\ status' = "sigpipe"
        /\ w' = [w EXCEPT ![0].pc = "ended"]
        /\ Retab(conn, [fdt EXCEPT ![0] = NoFds], backlog)
        /\ UNCHANGED <<cl, sent, rcvd, kind, watch, batch, max_fd, turns,
                       addr_sz, chld, merged>>
    BY DEF Killed, peerVars, pollVars, forkVars
  <1> DEFINE k == Peer(0)
             b == w[0].buf
  <1>2. /\ k \in Conns /\ Has(fdt, backlog, k) /\ Bufs(w, fdt)[k] = b
        /\ kind # "fork"
    BY <1>1, PeerIs, ProcsAre
  <1>3. b # <<>> /\ conn[k].rst = "shut" /\ b \in Seq(Cell)
    BY <1>t, <1>1, TypeFacts, ProcsAre DEF RaisesSigpipe
  <1>4. conn[k] \in Connection /\ sent[k] \in Seq(Cell) /\ rcvd[k] \in Seq(Cell)
    BY <1>t, <1>2 DEF EchoTypeOK, NetTypeOK
  <1> HIDE DEF k, b
  <1>5. /\ Kept(k, sent[k], rcvd[k], conn[k], cl[k])
        /\ Echoed(k, sent[k], rcvd[k], conn[k], b, cl[k])
    BY <1>t, <1>2 DEF InPlace
  <1>6. cl[k] = "gone" /\ Len(rcvd[k]) < Len(sent[k])
    BY <1>3, <1>4, <1>5, ShutMeansGone
  <1>7. AbortOf(kind, "sigpipe", cl, sent, rcvd)
    BY <1>2, <1>6 DEF AbortOf
  <1> QED BY <1>1, <1>7, QuitServer

(* The table after an accept, whoever made it.                             *)
LEMMA Accepted ==
    ASSUME EchoInv, w[0].pc = "wait", backlog # <<>>, NEW new,
           new = Lowest(Free(fdt[0]))
    PROVE  LET h == Head(backlog)
               bl == Tail(backlog)
               t == [fdt[0] EXCEPT ![new] = h]
           IN  /\ h \in Conns /\ bl \in Seq(Conns)
               /\ new \in Fds \ {3} /\ fdt[0][new] = FREE
               /\ [fdt EXCEPT ![0][new] = h] = [fdt EXCEPT ![0] = t]
               /\ t \in [Fds -> -2 .. MaxConns]
               /\ \A e \in Fds : t[e] = IF e = new THEN h ELSE fdt[0][e]
               /\ Narrows(t, bl) /\ \A d \in Fds : fdt[0][d] # h
               /\ MainOf(kind, "up", "wait", 0, fdt[0])
  <1> DEFINE h == Head(backlog)
             bl == Tail(backlog)
             t == [fdt[0] EXCEPT ![new] = h]
  <1>t. EchoTypeOK /\ MainAt /\ KidsAt
    BY DEF EchoInv
  <1>y. fdt \in Tables
    BY <1>t, TypeFacts
  <1>1. new \in Fds \ {3} /\ fdt[0][new] = FREE
    BY DescriptorLeft
  <1>2. /\ h \in Conns /\ bl \in Seq(Conns)
        /\ ~ Refers(fdt, h) /\ w[h].pc = "none"
        /\ Pending(backlog, h) /\ ~ Pending(bl, h)
        /\ \A j : Pending(bl, j) => Pending(backlog, j)
        /\ \A x, y \in 1 .. Len(bl) : bl[x] = bl[y] => x = y
    BY QueueHead
  <1> HIDE DEF h, bl
  <1>3. /\ [fdt EXCEPT ![0][new] = h] = [fdt EXCEPT ![0] = t]
        /\ t \in [Fds -> -2 .. MaxConns]
        /\ \A e \in Fds : t[e] = IF e = new THEN h ELSE fdt[0][e]
    <2>1. h \in -2 .. MaxConns /\ new \in Fds /\ 0 \in Procs
      BY <1>1, <1>2, FdsAre, ProcsAre
    <2> QED BY <1>y, <2>1, OneNumber
  <1> HIDE DEF t
  <1>4. \A d \in Fds : fdt[0][d] \in Conns => w[fdt[0][d]].pc = "none"
    <2> TAKE d \in Fds
    <2> HAVE fdt[0][d] \in Conns
    <2> DEFINE j == fdt[0][d]
    <2>1. KidOf(j, kind, w[j].pc, w[j].fd, fdt[j], cl[j], backlog, "wait", fdt[0])
      BY <1>t DEF KidsAt
    <2> QED BY <2>1 DEF KidOf
  <1>5. Narrows(t, bl)
    BY <1>2, <1>3, <1>4 DEF Narrows
  <1>6. MainOf(kind, "up", "wait", 0, fdt[0])
    BY <1>t DEF MainAt, MainOf, Busy
  <1>7. \A d \in Fds : fdt[0][d] # h
    BY <1>2, ProcsAre DEF Refers
  <1> QED BY <1>1, <1>2, <1>3, <1>5, <1>6, <1>7 DEF h, bl, t

(* accept() of the iterative and the forking server keeps it.              *)
LEMMA AcceptStep ==
    ASSUME EchoInv, Accept
    PROVE  EchoInv' /\ UNCHANGED <<sent, rcvd>>
  <1> DEFINE new == Lowest(Free(fdt[0]))
             h == Head(backlog)
             bl == Tail(backlog)
             t == [fdt[0] EXCEPT ![new] = h]
             pc == IF kind = "iter" THEN "read" ELSE "fork"
  <1>t. EchoTypeOK /\ MainAt /\ WatchAt
    BY DEF EchoInv
  <1>y. w \in [Procs -> Process] /\ kind \in {"iter", "fork", "epoll", "select"}
    BY <1>t, TypeFacts
  <1>1. /\ w[0].pc = "wait" /\ backlog # <<>> /\ kind \in {"iter", "fork"}
        /\ w' = [w EXCEPT ![0].pc = pc, ![0].fd = new]
        /\ Retab(conn, [fdt EXCEPT ![0][new] = h], bl)
        /\ UNCHANGED <<cl, sent, rcvd, status, kind, watch, batch, max_fd,
                       addr_sz, chld, merged>>
    BY <1>y DEF Accept, Polls, peerVars, pollVars, forkVars
  <1>2. turns' \in 0 .. Turns
    <2>1. turns \in 0 .. Turns /\ Turns \in Nat
      BY <1>t, EchoServersAssumption DEF EchoTypeOK
    <2>2. turns' = IF kind = "iter" THEN turns + 1 ELSE turns
      BY DEF Accept
    <2>3. kind = "iter" => turns < Turns
      BY DEF Accept
    <2> QED BY <2>1, <2>2, <2>3
  <1>3. /\ h \in Conns /\ bl \in Seq(Conns)
        /\ new \in Fds \ {3} /\ fdt[0][new] = FREE
        /\ [fdt EXCEPT ![0][new] = h] = [fdt EXCEPT ![0] = t]
        /\ t \in [Fds -> -2 .. MaxConns]
        /\ \A e \in Fds : t[e] = IF e = new THEN h ELSE fdt[0][e]
        /\ Narrows(t, bl) /\ \A d \in Fds : fdt[0][d] # h
        /\ MainOf(kind, "up", "wait", 0, fdt[0])
    BY <1>1, Accepted
  <1> HIDE DEF new, h, bl, t
  <1>4. Retab(conn, [fdt EXCEPT ![0] = t], bl)
    BY <1>1, <1>3
  <1>5. /\ w' \in [Procs -> Process] /\ w'[0].pc = pc /\ w'[0].fd = new
        /\ w'[0].buf = w[0].buf /\ \A k \in Conns : w'[k] = w[k]
    <2>1. pc \in {"read", "fork"} /\ new \in {0} \cup Fds
      BY <1>3
    <2> HIDE DEF pc
    <2> QED BY <1>y, <1>1, <2>1, ProcsAre DEF Process
  <1>6. w[0].buf = <<>> /\ status = "up"
    BY <1>t, <1>1, ProcsAre DEF EchoInv, MainAt, MainOf
  <1>7. MainOf(kind, "up", pc, new, t)
    <2>1. /\ fdt[0][3] = LISTEN
          /\ \A d \in Fds \ {3} : fdt[0][d] = FREE
      BY <1>1, <1>3 DEF MainOf, Pollers, Busy
    <2>2. t[3] = LISTEN /\ \A d \in Fds \ {3} : t[d] = IF d = new THEN h ELSE FREE
      BY <1>3, <2>1, FdsAre
    <2>3. \A d \in Fds : t[d] \in Conns => d = new
      BY <2>2, FdsAre
    <2>4. (pc = "read" /\ kind = "iter") \/ (pc = "fork" /\ kind = "fork")
      BY <1>1
    <2>5. t[new] \in Conns
      BY <1>3, <2>2
    <2> HIDE DEF pc
    <2> QED BY <1>1, <1>3, <2>2, <2>3, <2>4, <2>5, FdsAre DEF MainOf, Pollers, Busy
  <1>8. watch = {} /\ batch = {}
    BY <1>t, <1>1 DEF WatchAt, WatchOf, Pollers
  <1>9. WatchOf(kind, pc, new, t, watch, batch, max_fd)
    BY <1>1, <1>8 DEF WatchOf, Pollers
  <1>10. pc \notin {"init", "write", "ended"}
    BY <1>1
  <1>11. /\ status' \in {"up", "exited", "failed", "sigpipe"}
         /\ watch' \subseteq Fds /\ batch' = {} /\ max_fd' \in 0 .. MaxFd + 1
    BY <1>t, <1>1, <1>6, <1>8 DEF EchoTypeOK
  <1>12. AbortOf(kind, status', cl, sent, rcvd)
    BY <1>1, <1>6 DEF AbortOf
  <1>13. /\ WatchOf(kind, w'[0].pc, w'[0].fd, t, watch', batch', max_fd')
         /\ MainOf(kind, status', w'[0].pc, w'[0].fd, t)
    BY <1>1, <1>5, <1>6, <1>7, <1>9
  <1>14. UNCHANGED <<cl, sent, rcvd, kind, addr_sz, chld, merged>> /\ w[0].pc # "write"
    BY <1>1
  <1> HIDE DEF pc
  <1> QED BY <1>2, <1>3, <1>4, <1>5, <1>6, <1>10, <1>11, <1>12, <1>13, <1>14, MainStep

(* An accept() that is given a bad length, and drops a connection, keeps it. *)
LEMMA AcceptDropsStep ==
    ASSUME EchoInv, AcceptDrops
    PROVE  EchoInv' /\ UNCHANGED <<sent, rcvd>>
  <1> DEFINE bl == Tail(backlog)
             t == fdt[0]
  <1>t. /\ EchoTypeOK /\ MainAt /\ WatchAt
        /\ AbortOf(kind, status, cl, sent, rcvd)
    BY DEF EchoInv
  <1>y. w \in [Procs -> Process] /\ fdt \in Tables
    BY <1>t, TypeFacts
  <1>1. /\ w[0].pc = "wait" /\ backlog # <<>> /\ kind = "fork"
        /\ Retab(conn, fdt, bl)
        /\ UNCHANGED <<cl, sent, rcvd, status, kind, w, turns, watch, batch,
                       max_fd, addr_sz, chld, merged>>
    BY DEF AcceptDrops, peerVars, serverVars, pollVars, forkVars
  <1>2. /\ bl \in Seq(Conns) /\ \A j : Pending(bl, j) => Pending(backlog, j)
        /\ \A x, y \in 1 .. Len(bl) : bl[x] = bl[y] => x = y
    BY <1>1, QueueHead
  <1>3. t \in [Fds -> -2 .. MaxConns] /\ [fdt EXCEPT ![0] = t] = fdt
    BY <1>y, ProcsAre DEF Tables
  <1>4. MainOf(kind, status, "wait", w[0].fd, t) /\ status = "up"
    BY <1>t, <1>1 DEF MainAt, MainOf
  <1>5. \A d \in Fds : t[d] \notin Conns
    BY <1>1, <1>4 DEF MainOf, Pollers, Busy
  <1> HIDE DEF bl, t
  <1>6. Narrows(t, bl)
    BY <1>2, <1>5 DEF Narrows
  <1>7. watch = {} /\ batch = {} /\ w[0].buf = <<>>
    BY <1>t, <1>1, ProcsAre DEF WatchAt, WatchOf, Pollers, EchoInv
  <1>8. /\ status' \in {"up", "exited", "failed", "sigpipe"}
        /\ watch' \subseteq Fds /\ batch' = {}
        /\ max_fd' \in 0 .. MaxFd + 1 /\ turns' \in 0 .. Turns
    BY <1>t, <1>1, <1>4, <1>7 DEF EchoTypeOK
  <1>9. /\ WatchOf(kind, w'[0].pc, w'[0].fd, t, watch', batch', max_fd')
        /\ MainOf(kind, status', w'[0].pc, w'[0].fd, t)
        /\ AbortOf(kind, status', cl, sent, rcvd)
    BY <1>t, <1>1, <1>4 DEF WatchAt, t
  <1>10. Retab(conn, [fdt EXCEPT ![0] = t], bl)
    BY <1>1, <1>3
  <1>11. /\ UNCHANGED <<cl, sent, rcvd, kind, addr_sz, chld, merged>>
         /\ w' = w /\ w[0].pc = "wait"
    BY <1>1
  <1> QED BY <1>y, <1>2, <1>3, <1>4, <1>6, <1>7, <1>8, <1>9, <1>10, <1>11, MainStep

(* accept() of a polling server keeps it.                                  *)
LEMMA AcceptEventStep ==
    ASSUME EchoInv, NEW fd \in Fds, AcceptEvent(fd)
    PROVE  EchoInv' /\ UNCHANGED <<sent, rcvd>>
  <1> DEFINE new == Lowest(Free(fdt[0]))
             h == Head(backlog)
             bl == Tail(backlog)
             t == [fdt[0] EXCEPT ![new] = h]
  <1>t. EchoTypeOK /\ MainAt /\ WatchAt
    BY DEF EchoInv
  <1>y. w \in [Procs -> Process]
    BY <1>t, TypeFacts
  <1>1. /\ w[0].pc = "wait" /\ backlog # <<>> /\ kind \in Pollers
        /\ fdt[0][fd] = LISTEN /\ watch' = watch \cup {new}
        /\ max_fd' = IF kind = "select" THEN GrownMax(new) ELSE max_fd
        /\ batch' = batch \ {fd}
        /\ Retab(conn, [fdt EXCEPT ![0][new] = h], bl)
        /\ UNCHANGED <<cl, sent, rcvd, status, kind, w, turns, addr_sz, chld,
                       merged>>
    BY DEF AcceptEvent, NextEvent, Polls, Pollers, Handled, peerVars, forkVars
  <1>2. /\ h \in Conns /\ bl \in Seq(Conns)
        /\ new \in Fds \ {3} /\ fdt[0][new] = FREE
        /\ [fdt EXCEPT ![0][new] = h] = [fdt EXCEPT ![0] = t]
        /\ t \in [Fds -> -2 .. MaxConns]
        /\ \A e \in Fds : t[e] = IF e = new THEN h ELSE fdt[0][e]
        /\ Narrows(t, bl) /\ \A d \in Fds : fdt[0][d] # h
        /\ MainOf(kind, "up", "wait", 0, fdt[0])
    BY <1>1, Accepted
  <1> HIDE DEF new, h, bl, t
  <1>3. Retab(conn, [fdt EXCEPT ![0] = t], bl)
    BY <1>1, <1>2
  <1>4. w[0].buf = <<>> /\ status = "up" /\ kind # "iter" /\ kind # "fork"
    BY <1>t, <1>1, ProcsAre DEF EchoInv, MainAt, MainOf, Pollers
  <1>5. /\ fdt[0][3] = LISTEN /\ (kind = "epoll" => fdt[0][4] = EPOLL)
        /\ \A d \in Fds \ {3} : \/ fdt[0][d] = FREE \/ fdt[0][d] \in Conns
                                \/ (d = 4 /\ kind = "epoll")
        /\ \A d, e \in Fds : fdt[0][d] \in Conns /\ fdt[0][d] = fdt[0][e] => d = e
    BY <1>2 DEF MainOf
  <1>6. fd = 3
    BY <1>1, <1>5, FdsAre
  <1>7. /\ t[3] = LISTEN /\ (kind = "epoll" => t[4] = EPOLL)
        /\ \A d \in Fds \ {3} : \/ t[d] = FREE \/ t[d] \in Conns
                                \/ (d = 4 /\ kind = "epoll")
    BY <1>2, <1>5, FdsAre
  <1>8. \A d, e \in Fds : t[d] \in Conns /\ t[d] = t[e] => d = e
    BY <1>2, <1>5
  <1>9. MainOf(kind, "up", "wait", w[0].fd, t)
    BY <1>1, <1>7, <1>8 DEF MainOf, Busy
  <1>10. /\ watch = {d \in Fds : fdt[0][d] \in Conns} \cup {3}
         /\ batch \subseteq watch
         /\ kind = "select" => \A d \in watch : d < max_fd
    BY <1>t, <1>1 DEF WatchAt, WatchOf, Pollers
  <1>11. watch \cup {new} = {d \in Fds : t[d] \in Conns} \cup {3}
    BY <1>2, <1>10, FdsAre
  <1>12. /\ max_fd' \in 0 .. MaxFd + 1
         /\ kind = "select" => \A d \in watch \cup {new} : d < max_fd'
    <2>1. max_fd \in 0 .. MaxFd + 1 /\ new \in 3 .. MaxFd /\ MaxFd \in Nat
      BY <1>t, <1>2, EchoNetAssumption DEF EchoTypeOK, Fds
    <2>2. CASE kind = "select"
      <3>1. max_fd' = IF max_fd < new + 1 THEN new + 1 ELSE max_fd
        BY <1>1, <2>2 DEF GrownMax
      <3>2. \A d \in watch : d \in Nat /\ d < max_fd
        BY <1>10, <2>2, FdsAre
      <3> QED BY <2>1, <3>1, <3>2
    <2>3. CASE kind # "select"
      BY <1>1, <2>1, <2>3
    <2> QED BY <2>2, <2>3
  <1>13. WatchOf(kind, "wait", w[0].fd, t, watch', batch', max_fd')
    <2>1. batch' \subseteq watch' /\ watch' = {d \in Fds : t[d] \in Conns} \cup {3}
      BY <1>1, <1>10, <1>11
    <2> QED BY <1>1, <1>12, <2>1 DEF WatchOf, Busy
  <1>14. \A d \in batch' : /\ d \in batch /\ t[d] = fdt[0][d]
                           /\ t[d] # LISTEN
    <2> TAKE d \in batch'
    <2>1. d \in batch /\ d # 3 /\ d \in Fds /\ fdt[0][d] \in Conns
      BY <1>1, <1>6, <1>10
    <2>2. d # new
      BY <1>2, <2>1, FdsAre
    <2> QED BY <1>2, <2>1, <2>2, FdsAre
  <1>15. /\ status' \in {"up", "exited", "failed", "sigpipe"}
         /\ watch' \subseteq Fds /\ batch' \subseteq Fds /\ turns' \in 0 .. Turns
    BY <1>t, <1>1, <1>2, <1>4 DEF EchoTypeOK
  <1>16. AbortOf(kind, status', cl, sent, rcvd)
    BY <1>1, <1>4 DEF AbortOf
  <1>17. /\ WatchOf(kind, w'[0].pc, w'[0].fd, t, watch', batch', max_fd')
         /\ MainOf(kind, status', w'[0].pc, w'[0].fd, t)
    BY <1>1, <1>4, <1>9, <1>13
  <1>18. /\ UNCHANGED <<cl, sent, rcvd, kind, addr_sz, chld, merged>>
         /\ w' = w /\ w[0].pc = "wait"
    BY <1>1
  <1> QED BY <1>y, <1>2, <1>3, <1>4, <1>12, <1>14, <1>15, <1>16, <1>17, <1>18, MainStep

(* The server process closes a client's descriptor and waits again.        *)
LEMMA ServerCloses ==
    ASSUME EchoInv, w[0].pc \in {"read", "closing"}, w' = [w EXCEPT ![0].pc = "wait"],
           Retab(conn, [fdt EXCEPT ![0] = [fdt[0] EXCEPT ![w[0].fd] = FREE]], backlog),
           watch' = watch \ {w[0].fd},
           UNCHANGED <<cl, sent, rcvd, status, kind, batch, max_fd, turns,
                       addr_sz, chld, merged>>
    PROVE  EchoInv' /\ UNCHANGED <<sent, rcvd>>
  <1> DEFINE c == w[0].fd
             t == [fdt[0] EXCEPT ![c] = FREE]
             pc == w[0].pc
  <1>t. /\ EchoTypeOK /\ MainAt /\ WatchAt /\ KidsAt /\ QueueOf(fdt, backlog)
        /\ w[0].buf = <<>>
    BY ProcsAre DEF EchoInv
  <1>y. /\ w \in [Procs -> Process] /\ fdt \in Tables /\ backlog \in Seq(Conns)
        /\ kind \in {"iter", "fork", "epoll", "select"}
    BY <1>t, TypeFacts
  <1>1. /\ fdt[0][3] = LISTEN /\ (kind = "epoll" => fdt[0][4] = EPOLL)
        /\ \A d \in Fds \ {3} : \/ fdt[0][d] = FREE \/ fdt[0][d] \in Conns
                                \/ (d = 4 /\ kind = "epoll")
        /\ \A d, e \in Fds : fdt[0][d] \in Conns /\ fdt[0][d] = fdt[0][e] => d = e
        /\ c \in Fds /\ fdt[0][c] \in Conns /\ status = "up"
        /\ kind \notin Pollers => \A d \in Fds : fdt[0][d] \in Conns => d = c
    BY <1>t DEF MainAt, MainOf, Busy
  <1>2. /\ t \in [Fds -> -2 .. MaxConns]
        /\ \A e \in Fds : t[e] = IF e = c THEN FREE ELSE fdt[0][e]
    <2>1. FREE \in -2 .. MaxConns /\ 0 \in Procs
      BY FdsAre, ProcsAre
    <2> QED BY <1>y, <1>1, <2>1, OneNumber
  <1>3. Retab(conn, [fdt EXCEPT ![0] = t], backlog)
    OBVIOUS
  <1> HIDE DEF c, t
  <1>4. c # 3 /\ (kind = "epoll" => c # 4)
    BY <1>1, FdsAre
  <1>5. /\ t[3] = LISTEN /\ (kind = "epoll" => t[4] = EPOLL)
        /\ \A d \in Fds \ {3} : \/ t[d] = FREE \/ t[d] \in Conns
                                \/ (d = 4 /\ kind = "epoll")
        /\ kind \notin Pollers => \A d \in Fds : t[d] \notin Conns
    BY <1>1, <1>2, <1>4, FdsAre
  <1>6. \A d, e \in Fds : t[d] \in Conns /\ t[d] = t[e] => d = e
    BY <1>1, <1>2, FdsAre
  <1>7. MainOf(kind, "up", "wait", c, t)
    BY <1>1, <1>5, <1>6 DEF MainOf, Busy
  <1>8. WatchOf(kind, "wait", c, t, watch \ {c}, batch, max_fd)
    <2>1. CASE kind \in Pollers
      <3>1. /\ watch = {d \in Fds : fdt[0][d] \in Conns} \cup {3}
            /\ batch \subseteq watch /\ c \notin batch
            /\ kind = "select" => \A d \in watch : d < max_fd
        BY <1>t, <2>1 DEF WatchAt, WatchOf, Busy, c
      <3>2. watch \ {c} = {d \in Fds : t[d] \in Conns} \cup {3}
        BY <1>2, <1>4, <3>1, FdsAre
      <3> QED BY <2>1, <3>1, <3>2 DEF WatchOf, Busy
    <2>2. CASE kind \notin Pollers
      <3>1. watch = {} /\ batch = {}
        BY <1>t, <2>2 DEF WatchAt, WatchOf
      <3> QED BY <2>2, <3>1 DEF WatchOf
    <2> QED BY <2>1, <2>2
  <1>9. ASSUME NEW d \in batch
        PROVE  t[d] = fdt[0][d]
    <2>1. kind \in Pollers
      BY <1>t, <1>9 DEF WatchAt, WatchOf
    <2>2. d # c /\ d \in Fds
      BY <1>t, <1>9, <2>1 DEF WatchAt, WatchOf, Busy, EchoTypeOK, c
    <2> QED BY <1>2, <2>2
  <1>10. Narrows(t, backlog)
    <2>1. \A x, y \in 1 .. Len(backlog) : backlog[x] = backlog[y] => x = y
      BY <1>t DEF QueueOf
    <2>2. ASSUME NEW d \in Fds, t[d] \in Conns
          PROVE  t[d] = fdt[0][d] /\ w[t[d]].pc = "none"
      <3>1. t[d] = fdt[0][d] /\ kind # "fork"
        BY <1>2, <1>5, <2>2, FdsAre DEF Pollers
      <3>2. w[t[d]].pc = "none"
        BY <1>t, <2>2, <3>1 DEF KidsAt, KidOf
      <3> QED BY <3>1, <3>2
    <2> QED BY <2>1, <2>2 DEF Narrows
  <1>11. /\ w' \in [Procs -> Process] /\ w'[0].pc = "wait" /\ w'[0].fd = c
         /\ w'[0].buf = w[0].buf /\ \A k \in Conns : w'[k] = w[k]
    BY <1>y, ProcsAre DEF Process, c
  <1>12. /\ status' \in {"up", "exited", "failed", "sigpipe"}
         /\ watch' \subseteq Fds /\ batch' \subseteq Fds
         /\ max_fd' \in 0 .. MaxFd + 1 /\ turns' \in 0 .. Turns
    BY <1>t, <1>1 DEF EchoTypeOK
  <1>13. AbortOf(kind, status', cl, sent, rcvd)
    BY <1>1 DEF AbortOf
  <1>14. /\ WatchOf(kind, w'[0].pc, w'[0].fd, t, watch', batch', max_fd')
         /\ MainOf(kind, status', w'[0].pc, w'[0].fd, t)
    BY <1>1, <1>7, <1>8, <1>11 DEF c
  <1>15. w[0].pc # "write" /\ w'[0].pc \notin {"init", "write"} /\ w'[0].buf = <<>>
    BY <1>t, <1>11
  <1> HIDE DEF pc
  <1> QED BY <1>t, <1>y, <1>1, <1>2, <1>3, <1>9, <1>10, <1>11, <1>12, <1>13, <1>14,
             <1>15, MainStep

(* The close() of the parent after fork() keeps it.                        *)
LEMMA ParentClosesStep ==
    ASSUME EchoInv, ParentCloses
    PROVE  EchoInv' /\ UNCHANGED <<sent, rcvd>>
  <1>1. /\ w[0].pc = "closing" /\ w' = [w EXCEPT ![0].pc = "wait"]
        /\ Retab(conn, [fdt EXCEPT ![0] = [fdt[0] EXCEPT ![w[0].fd] = FREE]], backlog)
        /\ UNCHANGED <<cl, sent, rcvd, status, kind, watch, batch, max_fd, turns,
                       addr_sz, chld, merged>>
    BY DEF ParentCloses, ParentTable, peerVars, pollVars, forkVars
  <1>2. kind = "fork"
    BY <1>1 DEF EchoInv, MainAt, MainOf
  <1>3. watch = {}
    BY <1>2 DEF EchoInv, WatchAt, WatchOf, Pollers
  <1> QED BY <1>1, <1>3, ServerCloses

(* The end of a stream that the server's process reads keeps it.           *)
LEMMA ServerReadsEnd ==
    ASSUME EchoInv, ReadEnd(0)
    PROVE  EchoInv' /\ UNCHANGED <<sent, rcvd>>
  <1>1. /\ w[0].pc = "read" /\ w' = [w EXCEPT ![0].pc = "wait"]
        /\ Retab(conn, [fdt EXCEPT ![0][w[0].fd] = FREE], backlog)
        /\ watch' = watch \ {w[0].fd}
        /\ UNCHANGED <<cl, sent, rcvd, status, kind, batch, max_fd, turns,
                       addr_sz, chld, merged>>
    BY DEF ReadEnd, Unwatched, peerVars, forkVars
  <1>2. fdt \in Tables /\ w[0].fd \in Fds /\ 0 \in Procs /\ FREE \in -2 .. MaxConns
    BY <1>1, PeerIs, TypeFacts, ProcsAre, FdsAre DEF EchoInv
  <1>3. Retab(conn, [fdt EXCEPT ![0] = [fdt[0] EXCEPT ![w[0].fd] = FREE]], backlog)
    BY <1>1, <1>2, OneNumber
  <1> QED BY <1>1, <1>3, ServerCloses

-----------------------------------------------------------------------------
(* Steps that leave every connection alone.                                *)

(* The buffers of the connections stay unless a process starts or ends a   *)
(* write.                                                                  *)
LEMMA BufsSame ==
    ASSUME fdt'[0] = fdt[0],
           \A p \in Procs : \/ w'[p] = w[p]
                            \/ w[p].pc # "write" /\ w'[p].pc # "write"
    PROVE  \A k \in Conns : Bufs(w', fdt')[k] = Bufs(w, fdt)[k]
  BY ProcsAre DEF Bufs, BufOf

(* Fewer processes may have a connection: what is left is in place.        *)
LEMMA InPlaceFewer ==
    ASSUME NEW sn, NEW rc, NEW cn, NEW at, NEW tab, NEW bl, NEW bf,
           InPlace(sn, rc, cn, at, tab, bl, bf),
           NEW tab1, NEW bl1, NEW bf1, \A k \in Conns : bf1[k] = bf[k],
           \A k \in Conns : Has(tab1, bl1, k) => Has(tab, bl, k)
    PROVE  InPlace(sn, rc, cn, at, tab1, bl1, bf1)
  BY DEF InPlace

(* The start of the server keeps the invariant.                            *)
LEMMA StartStep ==
    ASSUME EchoInv, Start
    PROVE  EchoInv' /\ UNCHANGED <<sent, rcvd>>
  <1>t. /\ EchoTypeOK /\ MainAt /\ WatchAt /\ KidsAt /\ QueueOf(fdt, backlog)
        /\ SignalsOf(w, status, chld, merged)
        /\ InPlace(sent, rcvd, conn, cl, fdt, backlog, Bufs(w, fdt))
        /\ \A p \in Procs : w[p].pc \notin {"write", "zombie", "ended"} =>
                                w[p].buf = <<>>
    BY DEF EchoInv
  <1>y. /\ w \in [Procs -> Process] /\ fdt \in Tables
        /\ kind \in {"iter", "fork", "epoll", "select"}
    BY <1>t, TypeFacts
  <1>1. /\ w[0].pc = "init" /\ w' = [w EXCEPT ![0].pc = "wait"]
        /\ fdt' = [fdt EXCEPT ![0][3] = LISTEN,
                              ![0][4] = IF kind = "epoll" THEN EPOLL ELSE @]
        /\ watch' = IF Polls THEN {3} ELSE {}
        /\ max_fd' = IF kind = "select" THEN 4 ELSE 0
        /\ UNCHANGED <<conn, backlog, cl, sent, rcvd, status, kind, batch, turns,
                       addr_sz, chld, merged>>
    BY DEF Start, peerVars, forkVars
  <1>2. /\ backlog = <<>> /\ batch = {} /\ fdt[0] = NoFds /\ status = "up"
        /\ \A d \in Fds : fdt[0][d] = FREE
        /\ \A k \in Conns : w[k].pc = "none" /\ fdt[k] = NoFds
    BY <1>t, <1>1 DEF EchoInv, MainAt, MainOf, WatchAt, WatchOf, KidsAt, KidOf, NoFds,
                      Alive
  <1> DEFINE t == fdt'[0]
  <1>3. /\ fdt' \in Tables /\ \A k \in Conns : fdt'[k] = NoFds
        /\ t[3] = LISTEN /\ t[4] = IF kind = "epoll" THEN EPOLL ELSE FREE
        /\ \A d \in Fds \ {3, 4} : t[d] = FREE
    <2>1. fdt[0] \in [Fds -> -2 .. MaxConns]
      BY <1>y, ProcsAre DEF Tables
    <2> DEFINE e == IF kind = "epoll" THEN EPOLL ELSE FREE
               t1 == [fdt[0] EXCEPT ![3] = LISTEN]
               t2 == [t1 EXCEPT ![4] = e]
    <2>2. /\ t1 \in [Fds -> -2 .. MaxConns] /\ t1[3] = LISTEN /\ t1[4] = FREE
          /\ \A d \in Fds \ {3} : t1[d] = FREE
      BY <1>2, <2>1, FdsAre
    <2>3. e \in -2 .. MaxConns /\ e = IF kind = "epoll" THEN EPOLL ELSE t1[4]
      BY <2>2, FdsAre
    <2>4. fdt' = [[fdt EXCEPT ![0] = t1] EXCEPT ![0] = t2]
      <3>1. fdt' = [[fdt EXCEPT ![0][3] = LISTEN] EXCEPT
                       ![0][4] = IF kind = "epoll" THEN EPOLL ELSE @]
        BY <1>1
      <3>2. [fdt EXCEPT ![0][3] = LISTEN] = [fdt EXCEPT ![0] = t1]
        BY <1>y, ProcsAre, FdsAre, OneNumber
      <3> DEFINE f == [fdt EXCEPT ![0] = t1]
      <3>3. f \in Tables /\ f[0] = t1
        BY <1>y, <2>2, ProcsAre DEF Tables
      <3> HIDE DEF f, t1
      <3>4. fdt' = [f EXCEPT ![0] = [f[0] EXCEPT ![4] =
                                        IF kind = "epoll" THEN EPOLL ELSE f[0][4]]]
        BY <3>1, <3>2 DEF f
      <3> QED BY <2>3, <3>3, <3>4 DEF f
    <2> HIDE DEF e, t1
    <2>5. /\ t2 \in [Fds -> -2 .. MaxConns] /\ t2[3] = LISTEN /\ t2[4] = e
          /\ \A d \in Fds \ {3, 4} : t2[d] = FREE
      BY <2>2, <2>3, FdsAre
    <2> HIDE DEF t2
    <2>6. fdt' \in Tables /\ fdt'[0] = t2 /\ \A k \in Conns : fdt'[k] = fdt[k]
      BY <1>y, <2>2, <2>4, <2>5, ProcsAre DEF Tables
    <2> QED BY <1>2, <2>5, <2>6 DEF e
  <1>4. /\ w' \in [Procs -> Process] /\ w'[0].pc = "wait"
        /\ w'[0].buf = w[0].buf /\ \A k \in Conns : w'[k] = w[k]
    BY <1>y, <1>1, ProcsAre DEF Process
  <1>5. EchoTypeOK'
    <2>1. NetTypeOK'
      BY <1>t, <1>1, <1>3 DEF EchoTypeOK, NetTypeOK, Tables
    <2>2. watch' \subseteq Fds /\ max_fd' \in 0 .. MaxFd + 1
      BY <1>1, FdsAre, EchoNetAssumption
    <2> QED BY <1>t, <1>1, <1>4, <2>1, <2>2 DEF EchoTypeOK
  <1>6. \A p \in Procs : w'[p].pc \notin {"write", "zombie", "ended"} =>
                             w'[p].buf = <<>>
    BY <1>t, <1>1, <1>4, ProcsAre
  <1>7. MainAt'
    <2>1. \A d \in Fds : t[d] \notin Conns
      BY <1>3, FdsAre
    <2>2. MainOf(kind, "up", "wait", w'[0].fd, t)
      BY <1>3, <2>1 DEF MainOf, Busy
    <2> QED BY <1>1, <1>2, <1>4, <2>2 DEF MainAt
  <1>8. WatchAt'
    <2>1. {d \in Fds : t[d] \in Conns} \cup {3} = {3}
      BY <1>3, FdsAre
    <2>2. WatchOf(kind, "wait", w'[0].fd, t, watch', {}, max_fd')
      <3>1. /\ kind \in Pollers => watch' = {3}
            /\ kind \notin Pollers => watch' = {}
        BY <1>1 DEF Polls, Pollers
      <3>2. kind = "select" => \A d \in {3} : d < max_fd'
        BY <1>1
      <3> HIDE DEF t
      <3> QED BY <2>1, <3>1, <3>2 DEF WatchOf, Pollers, Busy
    <2> QED BY <1>1, <1>2, <1>4, <2>2 DEF WatchAt
  <1>9. KidsAt'
    <2> SUFFICES ASSUME NEW k \in Conns
                 PROVE  KidOf(k, kind, "none", w'[k].fd, NoFds, cl[k], <<>>, "wait", t)
      BY <1>1, <1>2, <1>3, <1>4 DEF KidsAt
    <2> QED BY DEF KidOf, Alive
  <1>10. QueueOf(fdt', backlog') /\ EventsOf(status', fdt'[0], batch', backlog', conn')
    BY <1>1, <1>2 DEF QueueOf, EventsOf
  <1>11. SignalsOf(w', status', chld', merged')
    <2>1. Done(w') = Done(w)
      BY <1>4 DEF Done
    <2> QED BY <1>t, <1>1, <1>4, <2>1 DEF SignalsOf
  <1>12. InPlace(sent', rcvd', conn', cl', fdt', backlog', Bufs(w', fdt'))
    <2>1. \A k \in Conns : Bufs(w', fdt')[k] = Bufs(w, fdt)[k]
      BY <1>1, <1>4 DEF Bufs, BufOf
    <2>2. \A k \in Conns : ~ Has(fdt', backlog, k)
      <3>1. \A k \in Conns : ~ Refers(fdt', k)
        BY <1>3, ProcsAre, FdsAre DEF Refers, NoFds
      <3> QED BY <1>2, <3>1 DEF Has, Pending
    <2> DEFINE bf == Bufs(w, fdt)
               bf1 == Bufs(w', fdt')
    <2>3. \A k \in Conns : bf1[k] = bf[k]
      BY <2>1
    <2>4. InPlace(sent, rcvd, conn, cl, fdt, backlog, bf)
      BY <1>t
    <2> HIDE DEF bf, bf1
    <2>5. InPlace(sent, rcvd, conn, cl, fdt', backlog, bf1)
      BY <2>2, <2>3, <2>4, InPlaceFewer
    <2> QED BY <1>1, <2>5 DEF bf1
  <1>13. AbortOf(kind', status', cl', sent', rcvd')
    BY <1>1, <1>2 DEF AbortOf
  <1>14. w'[0].pc # "init"
    BY <1>4
  <1> QED BY <1>1, <1>5, <1>6, <1>7, <1>8, <1>9, <1>10, <1>11, <1>12, <1>13, <1>14
          DEF EchoInv

(* Steps of the server process between two system calls on descriptors.    *)
LEMMA QuietStep ==
    ASSUME EchoInv,
           UNCHANGED <<conn, backlog, cl, sent, rcvd, fdt, kind, watch, max_fd,
                       turns, addr_sz, chld, merged>>,
           w' \in [Procs -> Process], \A k \in Conns : w'[k] = w[k],
           status' \in {"up", "failed"}, status' = "up" => status = "up",
           batch' \subseteq Fds, w[0].pc # "write",
           w'[0].pc \notin {"init", "write"}, w'[0].buf = w[0].buf,
           w[0].pc \notin {"zombie", "ended"},
           w[0].pc = "closing" => w'[0].pc = "closing",
           MainOf(kind, status', w'[0].pc, w'[0].fd, fdt[0]),
           WatchOf(kind, w'[0].pc, w'[0].fd, fdt[0], watch, batch', max_fd),
           EventsOf(status', fdt[0], batch', backlog, conn)
    PROVE  EchoInv' /\ UNCHANGED <<sent, rcvd>>
  <1>t. /\ EchoTypeOK /\ KidsAt /\ QueueOf(fdt, backlog)
        /\ SignalsOf(w, status, chld, merged)
        /\ InPlace(sent, rcvd, conn, cl, fdt, backlog, Bufs(w, fdt))
        /\ \A p \in Procs : w[p].pc \notin {"write", "zombie", "ended"} =>
                                w[p].buf = <<>>
    BY DEF EchoInv
  <1>1. EchoTypeOK'
    BY <1>t DEF EchoTypeOK, NetTypeOK
  <1>2. \A p \in Procs : w'[p].pc \notin {"write", "zombie", "ended"} =>
                             w'[p].buf = <<>>
    BY <1>t, ProcsAre
  <1>3. MainAt' /\ WatchAt' /\ QueueOf(fdt', backlog')
        /\ EventsOf(status', fdt'[0], batch', backlog', conn')
    BY <1>t DEF MainAt, WatchAt
  <1>4. KidsAt'
    <2> SUFFICES ASSUME NEW k \in Conns
                 PROVE  KidOf(k, kind, w[k].pc, w[k].fd, fdt[k], cl[k], backlog,
                              w'[0].pc, fdt[0])
      BY DEF KidsAt
    <2>1. KidOf(k, kind, w[k].pc, w[k].fd, fdt[k], cl[k], backlog, w[0].pc, fdt[0])
      BY <1>t DEF KidsAt
    <2> QED BY <2>1 DEF KidOf
  <1>5. SignalsOf(w', status', chld', merged')
    <2>1. Done(w') = Done(w)
      BY DEF Done
    <2> QED BY <1>t, <2>1 DEF SignalsOf
  <1>6. InPlace(sent', rcvd', conn', cl', fdt', backlog', Bufs(w', fdt'))
    <2> DEFINE bf == Bufs(w, fdt)
               bf1 == Bufs(w', fdt')
    <2>1. \A k \in Conns : bf1[k] = bf[k]
      BY BufsSame, ProcsAre
    <2>2. InPlace(sent, rcvd, conn, cl, fdt, backlog, bf)
      BY <1>t
    <2> HIDE DEF bf, bf1
    <2>3. InPlace(sent, rcvd, conn, cl, fdt, backlog, bf1)
      BY <2>1, <2>2, InPlaceFewer
    <2> QED BY <2>3 DEF bf1
  <1>7. AbortOf(kind', status', cl', sent', rcvd')
    BY DEF AbortOf
  <1> QED BY <1>1, <1>2, <1>3, <1>4, <1>5, <1>6, <1>7 DEF EchoInv

(* A start that fails keeps it.                                            *)
LEMMA StartFailsStep ==
    ASSUME EchoInv, StartFails
    PROVE  EchoInv' /\ UNCHANGED <<sent, rcvd>>
  <1>t. EchoTypeOK /\ MainAt /\ WatchAt
    BY DEF EchoInv
  <1>y. w \in [Procs -> Process]
    BY <1>t, TypeFacts
  <1>1. /\ w[0].pc = "init" /\ w' = [w EXCEPT ![0].pc = "ended"]
        /\ status' = "failed"
        /\ UNCHANGED <<conn, backlog, cl, sent, rcvd, fdt, kind, watch, batch,
                       max_fd, turns, addr_sz, chld, merged>>
    BY DEF StartFails, peerVars, pollVars, forkVars
  <1>2. /\ w' \in [Procs -> Process] /\ w'[0].pc = "ended"
        /\ w'[0].buf = w[0].buf /\ \A k \in Conns : w'[k] = w[k]
    BY <1>y, <1>1, ProcsAre DEF Process
  <1>3. watch = {} /\ batch = {} /\ fdt[0] = NoFds
    BY <1>t, <1>1 DEF WatchAt, WatchOf, MainAt, MainOf
  <1>4. MainOf(kind, "failed", "ended", w'[0].fd, fdt[0])
    BY <1>3 DEF MainOf
  <1>5. /\ WatchOf(kind, "ended", w'[0].fd, fdt[0], watch, batch', max_fd)
        /\ EventsOf(status', fdt[0], batch', backlog, conn)
    BY <1>1, <1>3 DEF WatchOf, EventsOf
  <1>6. /\ WatchOf(kind, w'[0].pc, w'[0].fd, fdt[0], watch, batch', max_fd)
        /\ MainOf(kind, status', w'[0].pc, w'[0].fd, fdt[0])
        /\ batch' \subseteq Fds /\ status' \in {"up", "failed"} /\ status' # "up"
        /\ w[0].pc \notin {"write", "zombie", "ended", "closing"}
        /\ w'[0].pc \notin {"init", "write"}
    BY <1>1, <1>2, <1>3, <1>4, <1>5
  <1>7. UNCHANGED <<conn, backlog, cl, sent, rcvd, fdt, kind, watch, max_fd,
                    turns, addr_sz, chld, merged>>
    BY <1>1
  <1> QED BY <1>2, <1>5, <1>6, <1>7, QuietStep

(* What the wait reports is ready, and what the loop turns to was.         *)
LEMMA PollStep ==
    ASSUME EchoInv, Poll
    PROVE  EchoInv' /\ UNCHANGED <<sent, rcvd>>
  <1>t. EchoTypeOK /\ MainAt /\ WatchAt
    BY DEF EchoInv
  <1>y. w \in [Procs -> Process]
    BY <1>t, TypeFacts
  <1>1. /\ w[0].pc = "wait" /\ kind \in Pollers /\ w' = w /\ status' = status
        /\ batch' \subseteq watch /\ \A d \in batch' : Ready(d)
        /\ UNCHANGED <<conn, backlog, cl, sent, rcvd, fdt, kind, watch, max_fd,
                       turns, addr_sz, chld, merged>>
    BY DEF Poll, Polls, Pollers, netVars, peerVars, forkVars
  <1>2. MainOf(kind, status, "wait", w[0].fd, fdt[0]) /\ status = "up"
    BY <1>t, <1>1 DEF MainAt, MainOf
  <1>3. EventsOf(status', fdt[0], batch', backlog, conn)
    BY <1>t, <1>1, ReadyIs DEF EventsOf
  <1>4. WatchOf(kind, "wait", w[0].fd, fdt[0], watch, batch', max_fd)
    BY <1>t, <1>1 DEF WatchAt, WatchOf, Busy
  <1>5. /\ WatchOf(kind, w'[0].pc, w'[0].fd, fdt[0], watch, batch', max_fd)
        /\ MainOf(kind, status', w'[0].pc, w'[0].fd, fdt[0])
        /\ batch' \subseteq Fds /\ status' \in {"up", "failed"}
    BY <1>t, <1>1, <1>2, <1>4 DEF EchoTypeOK
  <1> QED BY <1>y, <1>1, <1>2, <1>3, <1>5, QuietStep

(* Turning to a reported client keeps the invariant.                       *)
LEMMA ClientEventStep ==
    ASSUME EchoInv, NEW fd \in Fds, ClientEvent(fd)
    PROVE  EchoInv' /\ UNCHANGED <<sent, rcvd>>
  <1>t. EchoTypeOK /\ MainAt /\ WatchAt /\ EventsOf(status, fdt[0], batch, backlog, conn)
    BY DEF EchoInv
  <1>y. w \in [Procs -> Process]
    BY <1>t, TypeFacts
  <1>1. /\ w[0].pc = "wait" /\ kind \in Pollers /\ fd \in batch
        /\ fdt[0][fd] # LISTEN /\ status' = status
        /\ w' = [w EXCEPT ![0].pc = "read", ![0].fd = fd]
        /\ batch' = batch \ {fd}
        /\ UNCHANGED <<conn, backlog, cl, sent, rcvd, fdt, kind, watch, max_fd,
                       turns, addr_sz, chld, merged>>
    BY DEF ClientEvent, NextEvent, Handled, Polls, Pollers, netVars, peerVars, forkVars
  <1>2. /\ w' \in [Procs -> Process] /\ w'[0].pc = "read" /\ w'[0].fd = fd
        /\ w'[0].buf = w[0].buf /\ \A k \in Conns : w'[k] = w[k]
    BY <1>y, <1>1, ProcsAre DEF Process
  <1>3. MainOf(kind, "up", "wait", w[0].fd, fdt[0]) /\ status = "up"
    BY <1>t, <1>1 DEF MainAt, MainOf
  <1>4. fdt[0][fd] \in Conns
    BY <1>t, <1>1, <1>3 DEF EventsOf
  <1>5. MainOf(kind, "up", "read", fd, fdt[0])
    BY <1>1, <1>3, <1>4 DEF MainOf, Pollers, Busy
  <1>6. WatchOf(kind, "read", fd, fdt[0], watch, batch', max_fd)
    BY <1>t, <1>1 DEF WatchAt, WatchOf
  <1>7. EventsOf(status', fdt[0], batch', backlog, conn)
    BY <1>t, <1>1 DEF EventsOf
  <1>8. /\ WatchOf(kind, w'[0].pc, w'[0].fd, fdt[0], watch, batch', max_fd)
        /\ MainOf(kind, status', w'[0].pc, w'[0].fd, fdt[0])
        /\ batch' \subseteq Fds /\ status' \in {"up", "failed"} /\ status = "up"
        /\ w[0].pc \notin {"write", "zombie", "ended", "closing"}
        /\ w'[0].pc \notin {"init", "write"}
    BY <1>t, <1>1, <1>2, <1>3, <1>5, <1>6 DEF EchoTypeOK
  <1>9. UNCHANGED <<conn, backlog, cl, sent, rcvd, fdt, kind, watch, max_fd,
                    turns, addr_sz, chld, merged>>
    BY <1>1
  <1> QED BY <1>2, <1>7, <1>8, <1>9, QuietStep

-----------------------------------------------------------------------------
(* mp-echo-server.c and its children.                                      *)

(* fork() keeps it.                                                        *)
LEMMA ForkStep ==
    ASSUME EchoInv, Fork
    PROVE  EchoInv' /\ UNCHANGED <<sent, rcvd>>
  <1>t. /\ EchoTypeOK /\ MainAt /\ WatchAt /\ KidsAt /\ QueueOf(fdt, backlog)
        /\ SignalsOf(w, status, chld, merged)
        /\ AbortOf(kind, status, cl, sent, rcvd)
        /\ InPlace(sent, rcvd, conn, cl, fdt, backlog, Bufs(w, fdt))
        /\ \A p \in Procs : w[p].pc \notin {"write", "zombie", "ended"} =>
                                w[p].buf = <<>>
    BY DEF EchoInv
  <1>y. w \in [Procs -> Process] /\ fdt \in Tables
    BY <1>t, TypeFacts
  <1> DEFINE c == w[0].fd
             t == fdt[0]
             k == t[c]
             kid == [pc |-> "start", fd |-> c, buf |-> <<>>]
  <1>1. /\ w[0].pc = "fork"
        /\ w' = [[w EXCEPT ![0].pc = "closing"] EXCEPT ![k] = kid]
        /\ fdt' = [fdt EXCEPT ![k] = t]
        /\ UNCHANGED <<conn, backlog, cl, sent, rcvd, status, kind, watch, batch,
                       max_fd, turns, addr_sz, chld, merged>>
    BY DEF Fork, peerVars, pollVars, forkVars
  <1>2. /\ kind = "fork" /\ status = "up" /\ t[3] = LISTEN /\ c \in Fds /\ k \in Conns
        /\ \A d \in Fds \ {3} : t[d] = FREE \/ t[d] \in Conns
        /\ \A d, e \in Fds : t[d] \in Conns /\ t[d] = t[e] => d = e
        /\ \A d \in Fds : t[d] \in Conns => d = c
    BY <1>t, <1>1 DEF MainAt, MainOf, Busy, Pollers
  <1>3. w[k].pc = "none"
    <2>1. KidOf(k, kind, w[k].pc, w[k].fd, fdt[k], cl[k], backlog, "fork", t)
      BY <1>t, <1>1, <1>2 DEF KidsAt
    <2> QED BY <1>2, <2>1 DEF KidOf
  <1>4. c # 3 /\ t \in [Fds -> -2 .. MaxConns] /\ t[c] = k
    BY <1>y, <1>2, ProcsAre, FdsAre DEF Tables
  <1>5. cl[k] # "off" /\ ~ Pending(backlog, k)
    <2>1. Refers(fdt, k)
      BY <1>2, ProcsAre DEF Refers
    <2>2. cl[k] # "off"
      BY <1>t, <1>2, <2>1 DEF InPlace, Echoed, Served, Has
    <2>3. ~ Pending(backlog, k)
      BY <1>t, <2>1 DEF QueueOf, Pending
    <2> QED BY <2>2, <2>3
  <1>6. kid \in Process /\ kid.pc = "start" /\ kid.fd = c /\ kid.buf = <<>>
    <2>1. <<>> \in {s \in Seq(Cell) : Len(s) <= BufCells} /\ c \in {0} \cup Fds
      BY <1>2, EchoNetAssumption
    <2> QED BY <2>1 DEF Process
  <1> HIDE DEF k, kid
  <1>7. /\ w' \in [Procs -> Process] /\ w'[0].pc = "closing" /\ w'[0].fd = c
        /\ w'[0].buf = w[0].buf /\ w'[k] = kid
        /\ \A j \in Conns \ {k} : w'[j] = w[j]
    BY <1>y, <1>1, <1>2, <1>6, ProcsAre DEF Process
  <1>8. /\ fdt' \in Tables /\ fdt'[0] = t /\ fdt'[k] = t
        /\ \A j \in Conns \ {k} : fdt'[j] = fdt[j]
    BY <1>y, <1>1, <1>2, <1>4, ProcsAre DEF Tables
  <1> HIDE DEF c, t
  <1>9. \A x : Refers(fdt', x) => Refers(fdt, x)
    <2> SUFFICES ASSUME NEW x, NEW p \in Procs, NEW d \in Fds, fdt'[p][d] = x
                 PROVE  Refers(fdt, x)
      BY DEF Refers
    <2>1. CASE p \in {0, k}
      BY <1>8, <2>1, ProcsAre DEF Refers, t
    <2>2. CASE p \notin {0, k}
      BY <1>8, <2>2, ProcsAre DEF Refers
    <2> QED BY <2>1, <2>2
  <1>10. EchoTypeOK'
    <2>1. NetTypeOK'
      BY <1>t, <1>1, <1>8 DEF EchoTypeOK, NetTypeOK, Tables
    <2> QED BY <1>t, <1>1, <1>7, <2>1 DEF EchoTypeOK
  <1>11. \A p \in Procs : w'[p].pc \notin {"write", "zombie", "ended"} =>
                              w'[p].buf = <<>>
    BY <1>t, <1>1, <1>6, <1>7, ProcsAre
  <1>12. MainAt'
    <2>1. MainOf(kind, "up", "closing", c, t)
      BY <1>2, <1>4 DEF MainOf, Busy
    <2> QED BY <1>1, <1>2, <1>7, <1>8, <2>1 DEF MainAt
  <1>13. watch = {} /\ batch = {}
    BY <1>t, <1>2 DEF WatchAt, WatchOf, Pollers
  <1>14. WatchAt' /\ EventsOf(status', fdt'[0], batch', backlog', conn')
    BY <1>1, <1>2, <1>7, <1>13 DEF WatchAt, WatchOf, Pollers, EventsOf
  <1>15. KidsAt'
    <2> SUFFICES ASSUME NEW j \in Conns
                 PROVE  KidOf(j, kind, w'[j].pc, w'[j].fd, fdt'[j], cl[j], backlog,
                              "closing", t)
      BY <1>1, <1>7, <1>8 DEF KidsAt
    <2>1. CASE j = k
      <3>1. KidOf(k, kind, "start", c, t, cl[k], backlog, "closing", t)
        <4>1. \A d \in Fds \ {3, c} : t[d] = FREE
          BY <1>2
        <4> QED BY <1>2, <1>4, <1>5, <4>1 DEF KidOf, Alive
      <3> QED BY <1>6, <1>7, <1>8, <2>1, <3>1
    <2>2. CASE j # k
      <3>1. KidOf(j, kind, w[j].pc, w[j].fd, fdt[j], cl[j], backlog, w[0].pc, t)
        BY <1>t DEF KidsAt, t
      <3>2. w'[j] = w[j] /\ fdt'[j] = fdt[j]
        BY <1>7, <1>8, <2>2
      <3> QED BY <1>2, <3>1, <3>2 DEF KidOf
    <2> QED BY <2>1, <2>2
  <1>16. QueueOf(fdt', backlog')
    BY <1>t, <1>1, <1>9 DEF QueueOf
  <1>17. SignalsOf(w', status', chld', merged')
    <2>1. Done(w') = Done(w)
      BY <1>3, <1>6, <1>7 DEF Done
    <2>2. \A j \in Conns : w'[j].pc = "zombie" => w[j].pc = "zombie"
      BY <1>6, <1>7
    <2> QED BY <1>t, <1>1, <2>1, <2>2 DEF SignalsOf
  <1>18. InPlace(sent', rcvd', conn', cl', fdt', backlog', Bufs(w', fdt'))
    <2> DEFINE bf == Bufs(w, fdt)
               bf1 == Bufs(w', fdt')
    <2>1. ASSUME NEW j \in Conns PROVE bf1[j] = bf[j]
      <3>1. w'[0].pc # "write" /\ w[0].pc # "write"
        BY <1>1, <1>7
      <3>2. w'[j] = w[j] \/ (w'[j].pc # "write" /\ w[j].pc # "write")
        BY <1>3, <1>6, <1>7
      <3> QED BY <3>1, <3>2 DEF Bufs, BufOf
    <2>2. InPlace(sent, rcvd, conn, cl, fdt, backlog, bf)
      BY <1>t
    <2>3. \A j \in Conns : Has(fdt', backlog, j) => Has(fdt, backlog, j)
      BY <1>9 DEF Has
    <2> HIDE DEF bf, bf1
    <2>4. InPlace(sent, rcvd, conn, cl, fdt', backlog, bf1)
      BY <2>1, <2>2, <2>3, InPlaceFewer
    <2> QED BY <1>1, <2>4 DEF bf1
  <1>19. AbortOf(kind', status', cl', sent', rcvd') /\ w'[0].pc # "init"
    BY <1>t, <1>1, <1>7
  <1>20. UNCHANGED <<sent, rcvd>>
    BY <1>1
  <1> QED BY <1>10, <1>11, <1>12, <1>14, <1>15, <1>16, <1>17, <1>18, <1>19, <1>20
          DEF EchoInv

(* The handler's waitpid: the zombie that the pending signal is about.     *)
LEMMA ChildprocStep ==
    ASSUME EchoInv, childproc
    PROVE  EchoInv' /\ UNCHANGED <<sent, rcvd>>
  <1>t. /\ EchoTypeOK /\ MainAt /\ WatchAt /\ KidsAt /\ QueueOf(fdt, backlog)
        /\ SignalsOf(w, status, chld, merged)
        /\ AbortOf(kind, status, cl, sent, rcvd)
        /\ EventsOf(status, fdt[0], batch, backlog, conn)
        /\ InPlace(sent, rcvd, conn, cl, fdt, backlog, Bufs(w, fdt))
        /\ \A p \in Procs : w[p].pc \notin {"write", "zombie", "ended"} =>
                                w[p].buf = <<>>
        /\ w[0].pc = "init" => backlog = <<>>
    BY DEF EchoInv
  <1>y. w \in [Procs -> Process]
    BY <1>t, TypeFacts
  <1>1. PICK p \in Procs : w[p].pc = "zombie" /\ w' = [w EXCEPT ![p].pc = "ended"]
    BY DEF childproc
  <1>2. /\ chld' = FALSE
        /\ UNCHANGED <<conn, backlog, cl, sent, rcvd, fdt, status, kind, watch,
                       batch, max_fd, turns, addr_sz, merged>>
    BY DEF childproc, netVars, peerVars, pollVars
  <1>3. p \in Conns
    BY <1>t, <1>1, ProcsAre DEF MainAt, MainOf
  <1>4. /\ w' \in [Procs -> Process] /\ w'[0] = w[0] /\ w'[p].pc = "ended"
        /\ w'[p].fd = w[p].fd /\ \A q \in Procs \ {p} : w'[q] = w[q]
    BY <1>y, <1>1, <1>3, ProcsAre DEF Process
  <1>5. EchoTypeOK'
    BY <1>t, <1>2, <1>4 DEF EchoTypeOK, NetTypeOK
  <1>6. \A q \in Procs : w'[q].pc \notin {"write", "zombie", "ended"} =>
                             w'[q].buf = <<>>
    BY <1>t, <1>4
  <1>7. /\ MainAt' /\ WatchAt' /\ QueueOf(fdt', backlog')
        /\ EventsOf(status', fdt'[0], batch', backlog', conn')
        /\ AbortOf(kind', status', cl', sent', rcvd')
        /\ w'[0].pc = "init" => backlog' = <<>>
    BY <1>t, <1>2, <1>4 DEF MainAt, WatchAt
  <1>8. KidsAt'
    <2> SUFFICES ASSUME NEW j \in Conns
                 PROVE  KidOf(j, kind, w'[j].pc, w'[j].fd, fdt[j], cl[j], backlog,
                              w[0].pc, fdt[0])
      BY <1>2, <1>4 DEF KidsAt
    <2>1. KidOf(j, kind, w[j].pc, w[j].fd, fdt[j], cl[j], backlog, w[0].pc, fdt[0])
      BY <1>t DEF KidsAt
    <2>2. CASE j = p
      BY <1>1, <1>4, <2>1, <2>2 DEF KidOf, Alive
    <2>3. CASE j # p
      BY <1>4, <2>1, <2>3, ProcsAre
    <2> QED BY <2>2, <2>3
  <1>9. SignalsOf(w', status', chld', merged')
    <2>1. Done(w') = Done(w)
      BY <1>1, <1>4, ProcsAre DEF Done
    <2>2. \A j \in Conns : w'[j].pc = "zombie" => w[j].pc = "zombie" /\ j # p
      BY <1>4, ProcsAre
    <2> QED BY <1>t, <1>1, <1>2, <1>3, <2>1, <2>2 DEF SignalsOf
  <1>10. InPlace(sent', rcvd', conn', cl', fdt', backlog', Bufs(w', fdt'))
    <2> DEFINE bf == Bufs(w, fdt)
               bf1 == Bufs(w', fdt')
    <2>1. \A j \in Conns : bf1[j] = bf[j]
      BY <1>1, <1>2, <1>4, BufsSame
    <2>2. InPlace(sent, rcvd, conn, cl, fdt, backlog, bf)
      BY <1>t
    <2> HIDE DEF bf, bf1
    <2>3. InPlace(sent, rcvd, conn, cl, fdt, backlog, bf1)
      BY <2>1, <2>2, InPlaceFewer
    <2> QED BY <1>2, <2>3 DEF bf1
  <1> QED BY <1>5, <1>6, <1>7, <1>8, <1>9, <1>10, <1>2 DEF EchoInv

(* A killed child's buffer is lost, and its client has left already.       *)
LEMMA BufferLost ==
    ASSUME NEW k, NEW s \in Seq(Cell), NEW r \in Seq(Cell),
           NEW c \in Connection, NEW b \in Seq(Cell),
           Echoed(k, s, r, c, b, "gone")
    PROVE  Echoed(k, s, r, c, <<>>, "gone")
  <1> DEFINE out == c.s2c
             inp == c.c2s
  <1>1. out \in Seq(Cell) /\ inp \in Seq(Cell)
    BY DEF Connection
  <1>2. Served(k, s, r, out, b, inp, "gone") /\ c.cli = FALSE
    BY DEF Echoed
  <1> HIDE DEF out, inp
  <1>3. /\ Len(s) \in Nat /\ Len(r) \in Nat /\ Len(out) \in Nat
        /\ Len(b) \in Nat /\ Len(inp) \in Nat /\ Len(<<>>) = 0
    BY <1>1
  <1>4. Len(r) + Len(out) + Len(b) + Len(inp) <= Len(s) /\ out = <<>>
    BY <1>2 DEF Served
  <1> DEFINE ls == Len(s)
             lr == Len(r)
             lo == Len(out)
             lb == Len(b)
             li == Len(inp)
  <1>5. /\ ls \in Nat /\ lr \in Nat /\ lo \in Nat /\ lb \in Nat /\ li \in Nat
        /\ lr + lo + lb + li <= ls
    BY <1>3, <1>4
  <1> HIDE DEF ls, lr, lo, lb, li
  <1>6. lr + lo + 0 + li <= ls
    BY <1>5
  <1>7. Len(r) + Len(out) + Len(<<>>) + Len(inp) <= Len(s)
    BY <1>3, <1>6 DEF ls, lr, lo, li
  <1>8. Served(k, s, r, out, <<>>, inp, "gone")
    BY <1>4, <1>7 DEF Served
  <1> QED BY <1>2, <1>8 DEF Echoed, out, inp

(* A child closes the listener or everything.                              *)
LEMMA KidStep ==
    ASSUME EchoInv, NEW p \in Conns, w[p].pc \in Alive,
           NEW t \in [Fds -> -2 .. MaxConns],
           Retab(conn, [fdt EXCEPT ![p] = t], backlog),
           UNCHANGED <<cl, sent, rcvd, status, kind, watch, batch, max_fd, turns,
                       addr_sz>>,
           w' \in [Procs -> Process], \A q \in Procs \ {p} : w'[q] = w[q],
           w'[p].fd = w[p].fd, w'[p].buf = w[p].buf,
           \/ /\ w'[p].pc = "read" /\ w[p].pc = "start" /\ t[3] = FREE
              /\ \A d \in Fds \ {3} : t[d] = fdt[p][d]
           \/ w'[p].pc \in {"zombie", "ended"} /\ t = NoFds,
           w[p].pc = "write" => cl[p] = "gone",
           chld' \in BOOLEAN, merged' \in 0 .. MaxConns,
           SignalsOf(w', status, chld', merged')
    PROVE  EchoInv' /\ UNCHANGED <<sent, rcvd>>
  <1> DEFINE tab == [fdt EXCEPT ![p] = t]
  <1>t. /\ EchoTypeOK /\ MainAt /\ WatchAt /\ KidsAt /\ QueueOf(fdt, backlog)
        /\ AbortOf(kind, status, cl, sent, rcvd)
        /\ InPlace(sent, rcvd, conn, cl, fdt, backlog, Bufs(w, fdt))
        /\ \A q \in Procs : w[q].pc \notin {"write", "zombie", "ended"} =>
                                w[q].buf = <<>>
    BY DEF EchoInv
  <1>y. /\ NetTypeOK /\ fdt \in Tables /\ backlog \in Seq(Conns)
        /\ conn \in [Conns -> Connection]
        /\ Bufs(w, fdt) \in [Conns -> Seq(Cell)]
    BY <1>t, TypeFacts
  <1>k. /\ KidOf(p, kind, w[p].pc, w[p].fd, fdt[p], cl[p], backlog, w[0].pc, fdt[0])
        /\ p \in Procs /\ 0 \in Procs /\ p # 0
    BY <1>t, ProcsAre DEF KidsAt
  <1>1. kind = "fork" /\ w[0].pc # "init" /\ w'[0] = w[0]
    BY <1>k DEF KidOf, Alive
  <1>2. w[0].pc # "write" /\ watch = {} /\ batch = {}
    BY <1>t, <1>1 DEF MainAt, MainOf, WatchAt, WatchOf, Pollers
  <1>3. /\ tab \in Tables /\ tab[p] = t
        /\ \A q \in Procs \ {p} : tab[q] = fdt[q]
    BY <1>y, <1>k DEF Tables
  <1> HIDE DEF tab
  <1>4. Retab(conn, tab, backlog)
    BY DEF tab
  <1>5. /\ fdt' = tab /\ backlog' \in Seq(Conns) /\ conn' \in [Conns -> Connection]
        /\ backlog' = backlog \/ backlog' = <<>>
    BY <1>y, <1>3, <1>4, RetabEffect
  <1>6. \A d \in Fds : t[d] = FREE \/ t[d] = fdt[p][d]
    BY DEF NoFds
  <1>7. \A k \in Conns : Refers(tab, k) => Refers(fdt, k)
    <2> SUFFICES ASSUME NEW k \in Conns, NEW q \in Procs, NEW d \in Fds,
                        tab[q][d] = k
                 PROVE  Refers(fdt, k)
      BY DEF Refers
    <2>1. fdt[q][d] = k
      BY <1>3, <1>6, FdsAre
    <2> QED BY <2>1 DEF Refers
  <1>8. \A k : Pending(backlog', k) => Pending(backlog, k)
    BY <1>5 DEF Pending
  <1>9. EchoTypeOK'
    <2>1. NetTypeOK'
      BY <1>y, <1>3, <1>5 DEF NetTypeOK, Tables
    <2> QED BY <1>t, <2>1 DEF EchoTypeOK
  <1>10. \A q \in Procs : w'[q].pc \notin {"write", "zombie", "ended"} =>
                              w'[q].buf = <<>>
    <2> TAKE q \in Procs
    <2>1. CASE q = p
      BY <1>t, <1>k, <2>1
    <2>2. CASE q # p
      BY <1>t, <2>2
    <2> QED BY <2>1, <2>2
  <1>11. MainAt' /\ WatchAt' /\ EventsOf(status', fdt'[0], batch', backlog', conn')
    <2>1. fdt'[0] = fdt[0]
      BY <1>k, <1>3, <1>5
    <2> QED BY <1>t, <1>1, <1>2, <2>1 DEF MainAt, WatchAt, EventsOf
  <1>12. KidsAt'
    <2> SUFFICES ASSUME NEW j \in Conns
                 PROVE  KidOf(j, kind, w'[j].pc, w'[j].fd, tab[j], cl[j], backlog',
                              w[0].pc, fdt[0])
      BY <1>1, <1>k, <1>3, <1>5 DEF KidsAt
    <2>1. KidOf(j, kind, w[j].pc, w[j].fd, fdt[j], cl[j], backlog, w[0].pc, fdt[0])
      BY <1>t DEF KidsAt
    <2>2. CASE j = p
      <3>1. KidOf(p, kind, w'[p].pc, w[p].fd, t, cl[p], backlog', w[0].pc, fdt[0])
        BY <1>k, <1>1, <1>8 DEF KidOf, Alive
      <3> QED BY <1>3, <2>2, <3>1
    <2>3. CASE j # p
      <3>1. w'[j] = w[j] /\ tab[j] = fdt[j]
        BY <1>3, <2>3, ProcsAre
      <3> QED BY <1>8, <2>1, <3>1 DEF KidOf
    <2> QED BY <2>2, <2>3
  <1>13. QueueOf(fdt', backlog')
    <2>1. ASSUME NEW x \in 1 .. Len(backlog') PROVE ~ Refers(tab, backlog'[x])
      <3>1. backlog' = backlog /\ backlog[x] \in Conns
        BY <1>y, <1>5, <2>1
      <3>2. ~ Refers(fdt, backlog[x])
        BY <1>t, <3>1 DEF QueueOf
      <3> QED BY <1>7, <3>1, <3>2
    <2>2. \A x, y \in 1 .. Len(backlog') : backlog'[x] = backlog'[y] => x = y
      BY <1>t, <1>5 DEF QueueOf
    <2> QED BY <1>5, <2>1, <2>2 DEF QueueOf
  <1>14. InPlace(sent', rcvd', conn', cl', fdt', backlog', Bufs(w', fdt'))
    <2> DEFINE bf == Bufs(w, fdt)
               bf1 == Bufs(w', fdt')
    <2>1. \A j \in Conns \ {p} : bf1[j] = bf[j]
      BY <1>1, <1>2, ProcsAre DEF Bufs, BufOf
    <2>2. bf1[p] = <<>> /\ bf[p] \in Seq(Cell) /\ (w[p].pc # "write" => bf[p] = <<>>)
      BY <1>y, <1>1, <1>2 DEF Bufs, BufOf
    <2>3. InPlace(sent, rcvd, conn, cl, fdt, backlog, bf)
      BY <1>t
    <2> HIDE DEF bf, bf1
    <2>4. ASSUME NEW k \in Conns
          PROVE  /\ Kept(k, sent[k], rcvd[k], conn[k], cl[k])
                 /\ Has(fdt, backlog, k) =>
                        Echoed(k, sent[k], rcvd[k], conn[k], bf1[k], cl[k])
                 /\ cl[k] = "off" => bf1[k] = <<>>
      <3>1. /\ Kept(k, sent[k], rcvd[k], conn[k], cl[k])
            /\ Has(fdt, backlog, k) =>
                   Echoed(k, sent[k], rcvd[k], conn[k], bf[k], cl[k])
            /\ cl[k] = "off" => bf[k] = <<>>
        BY <2>3 DEF InPlace
      <3>2. CASE bf1[k] = bf[k]
        BY <3>1, <3>2
      <3>3. CASE bf1[k] # bf[k]
        <4>1. k = p /\ cl[k] = "gone" /\ bf1[k] = <<>>
          BY <2>1, <2>2, <3>3
        <4>2. /\ sent[k] \in Seq(Cell) /\ rcvd[k] \in Seq(Cell)
              /\ conn[k] \in Connection /\ bf[k] \in Seq(Cell)
          BY <1>y, <2>2, <4>1 DEF NetTypeOK
        <4> QED BY <3>1, <4>1, <4>2, BufferLost
      <3> QED BY <3>2, <3>3
    <2>5. InPlace(sent, rcvd, conn, cl, fdt, backlog, bf1)
      BY <2>4 DEF InPlace
    <2>6. \A k \in Conns : /\ Has(tab, backlog', k) => Has(fdt, backlog, k)
                           /\ cl[k] = "off" => bf1[k] = <<>>
      BY <1>7, <1>8, <2>4 DEF Has
    <2>7. InPlace(sent, rcvd, conn', cl, fdt', backlog', bf1)
      BY <1>y, <1>3, <1>4, <2>5, <2>6, RetabKeeps
    <2> QED BY <2>7 DEF bf1
  <1>15. /\ AbortOf(kind', status', cl', sent', rcvd') /\ w'[0].pc # "init"
         /\ SignalsOf(w', status', chld', merged') /\ UNCHANGED <<sent, rcvd>>
    BY <1>t, <1>1
  <1> QED BY <1>9, <1>10, <1>11, <1>12, <1>13, <1>14, <1>15 DEF EchoInv

(* The start of a child keeps it.                                          *)
LEMMA ChildStartsStep ==
    ASSUME EchoInv, NEW p \in Conns, ChildStarts(p)
    PROVE  EchoInv' /\ UNCHANGED <<sent, rcvd>>
  <1> DEFINE t == [fdt[p] EXCEPT ![3] = FREE]
  <1>t. /\ EchoTypeOK /\ SignalsOf(w, status, chld, merged)
    BY DEF EchoInv
  <1>y. fdt \in Tables /\ w \in [Procs -> Process] /\ p \in Procs
    BY <1>t, TypeFacts, ProcsAre
  <1>1. /\ w[p].pc = "start" /\ w' = [w EXCEPT ![p].pc = "read"]
        /\ Retab(conn, [fdt EXCEPT ![p][3] = FREE], backlog)
        /\ UNCHANGED <<cl, sent, rcvd, status, kind, watch, batch, max_fd, turns,
                       addr_sz, chld, merged>>
    BY DEF ChildStarts, peerVars, pollVars, forkVars
  <1>2. /\ [fdt EXCEPT ![p][3] = FREE] = [fdt EXCEPT ![p] = t]
        /\ t \in [Fds -> -2 .. MaxConns]
        /\ \A e \in Fds : t[e] = IF e = 3 THEN FREE ELSE fdt[p][e]
    <2>1. 3 \in Fds /\ FREE \in -2 .. MaxConns
      BY FdsAre
    <2> QED BY <1>y, <2>1, OneNumber
  <1> HIDE DEF t
  <1>3. Retab(conn, [fdt EXCEPT ![p] = t], backlog)
    BY <1>1, <1>2
  <1>4. /\ w' \in [Procs -> Process] /\ \A q \in Procs \ {p} : w'[q] = w[q]
        /\ w'[p].fd = w[p].fd /\ w'[p].buf = w[p].buf /\ w'[p].pc = "read"
    BY <1>y, <1>1 DEF Process
  <1>5. t[3] = FREE /\ \A d \in Fds \ {3} : t[d] = fdt[p][d]
    BY <1>2, FdsAre
  <1>6. SignalsOf(w', status, chld', merged')
    <2>1. Done(w') = Done(w)
      BY <1>1, <1>4, ProcsAre DEF Done
    <2>2. \A j \in Conns : w'[j].pc = "zombie" => w[j].pc = "zombie"
      BY <1>4, ProcsAre
    <2> QED BY <1>t, <1>1, <2>1, <2>2 DEF SignalsOf
  <1>7. chld' \in BOOLEAN /\ merged' \in 0 .. MaxConns
    BY <1>t, <1>1 DEF EchoTypeOK
  <1>8. w[p].pc \in Alive /\ w[p].pc # "write"
    BY <1>1 DEF Alive
  <1>9. UNCHANGED <<cl, sent, rcvd, status, kind, watch, batch, max_fd, turns,
                    addr_sz>>
    BY <1>1
  <1> QED BY <1>1, <1>2, <1>3, <1>4, <1>5, <1>6, <1>7, <1>8, <1>9, KidStep

(* A child ends: one more may have been merged, and without a merger it is *)
(* the only zombie.                                                        *)
LEMMA ChildEndsStep ==
    ASSUME EchoInv, NEW p \in Conns, w[p].pc \in {"read", "write"},
           w[p].pc = "write" => cl[p] = "gone", ChildEnds(p, conn)
    PROVE  EchoInv' /\ UNCHANGED <<sent, rcvd>>
  <1> DEFINE pc == IF status = "up" THEN "zombie" ELSE "ended"
  <1>t. /\ EchoTypeOK /\ SignalsOf(w, status, chld, merged)
    BY DEF EchoInv
  <1>y. w \in [Procs -> Process] /\ p \in Procs
    BY <1>t, TypeFacts, ProcsAre
  <1>1. /\ w' = [w EXCEPT ![p].pc = pc]
        /\ Retab(conn, [fdt EXCEPT ![p] = NoFds], backlog)
        /\ chld' = (chld \/ status = "up")
        /\ merged' = IF chld THEN merged + 1 ELSE merged
        /\ UNCHANGED <<cl, sent, rcvd, status, kind, watch, batch, max_fd, turns,
                       addr_sz>>
    BY DEF ChildEnds, peerVars, pollVars
  <1>2. /\ w' \in [Procs -> Process] /\ \A q \in Procs \ {p} : w'[q] = w[q]
        /\ w'[p].fd = w[p].fd /\ w'[p].buf = w[p].buf /\ w'[p].pc = pc
    <2>1. pc \in {"zombie", "ended"}
      OBVIOUS
    <2> HIDE DEF pc
    <2> QED BY <1>y, <1>1, <2>1 DEF Process
  <1>3. /\ NoFds \in [Fds -> -2 .. MaxConns] /\ pc \in {"zombie", "ended"}
    BY FdsAre DEF NoFds
  <1>4. Done(w') = Done(w) \cup {p} /\ p \notin Done(w)
    BY <1>2, ProcsAre DEF Done
  <1>5. IsFiniteSet(Conns) /\ Cardinality(Conns) = MaxConns
    BY EchoNetAssumption, FS_Interval DEF Conns
  <1>6. /\ IsFiniteSet(Done(w)) /\ IsFiniteSet(Done(w'))
        /\ Cardinality(Done(w')) <= MaxConns
        /\ Cardinality(Done(w)) \in Nat /\ Cardinality(Done(w')) \in Nat
    <2>1. Done(w) \subseteq Conns /\ Done(w') \subseteq Conns
      BY DEF Done
    <2> QED BY <1>5, <2>1, FS_Subset, FS_CardinalityType
  <1>7. Cardinality(Done(w')) = Cardinality(Done(w)) + 1
    BY <1>4, <1>6, FS_AddElement
  <1>8. /\ merged \in Nat /\ merged <= Cardinality(Done(w))
        /\ chld \in BOOLEAN /\ MaxConns \in Nat
    BY <1>t, EchoNetAssumption DEF EchoTypeOK, SignalsOf
  <1>9. /\ merged' \in 0 .. MaxConns /\ merged' <= Cardinality(Done(w'))
        /\ merged' = 0 => chld = FALSE /\ merged = 0
    BY <1>1, <1>6, <1>7, <1>8
  <1>10. SignalsOf(w', status, chld', merged')
    <2> SUFFICES ASSUME status = "up", merged' = 0, NEW j \in Conns, NEW k \in Conns,
                        w'[j].pc = "zombie", w'[k].pc = "zombie"
                 PROVE  j = k /\ chld' = TRUE
      BY <1>9 DEF SignalsOf
    <2>1. \A i \in Conns : w[i].pc # "zombie"
      BY <1>t, <1>9 DEF SignalsOf
    <2>2. j = p /\ k = p
      BY <1>2, <2>1, ProcsAre
    <2> QED BY <1>1, <2>2
  <1>11. chld' \in BOOLEAN
    BY <1>1
  <1>12. w[p].pc \in Alive
    BY DEF Alive
  <1>13. UNCHANGED <<cl, sent, rcvd, status, kind, watch, batch, max_fd, turns,
                     addr_sz>>
    BY <1>1
  <1> HIDE DEF pc
  <1> QED BY <1>1, <1>2, <1>3, <1>9, <1>10, <1>11, <1>12, <1>13, KidStep

(* The end of a stream that a child reads keeps it.                        *)
LEMMA ChildReadsEnd ==
    ASSUME EchoInv, NEW p \in Conns, ReadEnd(p)
    PROVE  EchoInv' /\ UNCHANGED <<sent, rcvd>>
  <1>1. w[p].pc = "read" /\ ChildEnds(p, conn)
    BY ProcsAre DEF ReadEnd
  <1> QED BY <1>1, ChildEndsStep

(* A signal that ends a child keeps it.                                    *)
LEMMA ChildKilled ==
    ASSUME EchoInv, NEW p \in Conns, Killed(p)
    PROVE  EchoInv' /\ UNCHANGED <<sent, rcvd>>
  <1>t. /\ EchoTypeOK
        /\ InPlace(sent, rcvd, conn, cl, fdt, backlog, Bufs(w, fdt))
    BY DEF EchoInv
  <1>1. /\ w[p].pc = "write" /\ RaisesSigpipe(Peer(p), w[p].buf)
        /\ ChildEnds(p, conn)
    BY ProcsAre DEF Killed
  <1> DEFINE b == w[p].buf
  <1>2. /\ Peer(p) = p /\ Has(fdt, backlog, p) /\ Bufs(w, fdt)[p] = b
    BY <1>1, PeerIs, ProcsAre
  <1>3. b # <<>> /\ conn[p].rst = "shut" /\ b \in Seq(Cell)
    BY <1>t, <1>1, <1>2, TypeFacts, ProcsAre DEF RaisesSigpipe
  <1>4. conn[p] \in Connection /\ sent[p] \in Seq(Cell) /\ rcvd[p] \in Seq(Cell)
    BY <1>t DEF EchoTypeOK, NetTypeOK
  <1> HIDE DEF b
  <1>5. /\ Kept(p, sent[p], rcvd[p], conn[p], cl[p])
        /\ Echoed(p, sent[p], rcvd[p], conn[p], b, cl[p])
    BY <1>t, <1>2 DEF InPlace
  <1>6. cl[p] = "gone"
    BY <1>3, <1>4, <1>5, ShutMeansGone
  <1> QED BY <1>1, <1>6, ChildEndsStep

-----------------------------------------------------------------------------
(* The echo loop: what process p reads goes to its buffer and from there   *)
(* to the same client; no event of the batch is about that client.         *)
LEMMA IoStep ==
    ASSUME EchoInv, NEW p \in Procs, w[p].pc \in {"read", "write"},
           UNCHANGED <<backlog, cl, sent, rcvd, fdt, status, kind, watch, batch,
                       max_fd, turns, addr_sz, chld, merged>>,
           conn' \in [Conns -> Connection],
           \A j \in Conns \ {Peer(p)} : conn'[j] = conn[j],
           w' \in [Procs -> Process], \A q \in Procs \ {p} : w'[q] = w[q],
           w'[p].fd = w[p].fd, w'[p].pc # "write" => w'[p].buf = <<>>,
           \/ w'[p].pc \in {"read", "write"}
           \/ w'[p].pc = "wait" /\ kind \in Pollers,
           \A bf : /\ bf[Peer(p)] = w'[p].buf
                   /\ \A j \in Conns \ {Peer(p)} : bf[j] = Bufs(w, fdt)[j]
                   => InPlace(sent, rcvd, conn', cl, fdt, backlog, bf)
    PROVE  EchoInv' /\ UNCHANGED <<sent, rcvd>>
  <1>t. /\ EchoTypeOK /\ MainAt /\ WatchAt /\ KidsAt /\ QueueOf(fdt, backlog)
        /\ SignalsOf(w, status, chld, merged)
        /\ AbortOf(kind, status, cl, sent, rcvd)
        /\ EventsOf(status, fdt[0], batch, backlog, conn)
        /\ \A q \in Procs : w[q].pc \notin {"write", "zombie", "ended"} =>
                                w[q].buf = <<>>
        /\ w[0].pc = "init" => backlog = <<>>
    BY DEF EchoInv
  <1>p. /\ Peer(p) \in Conns /\ (p = 0 => kind # "fork" /\ status = "up")
        /\ p # 0 => p \in Conns /\ Peer(p) = p /\ kind = "fork"
                      /\ w[0].pc \notin {"read", "write"} /\ kind \notin Pollers
    BY PeerIs DEF Pollers
  <1>n. p = 0 => \A k \in Conns : w[k].pc = "none" /\ w'[k] = w[k]
    BY <1>t, <1>p, ProcsAre DEF KidsAt, KidOf
  <1>1. EchoTypeOK'
    BY <1>t DEF EchoTypeOK, NetTypeOK
  <1>2. \A q \in Procs : w'[q].pc \notin {"write", "zombie", "ended"} =>
                             w'[q].buf = <<>>
    BY <1>t
  <1>3. w[0].pc # "init" /\ w'[0].pc # "init"
    <2>1. CASE p = 0
      BY <2>1
    <2>2. CASE p # 0
      <3>1. w'[0] = w[0]
        BY <2>2, ProcsAre
      <3>2. w[0].pc # "init"
        BY <1>t, <1>p, <2>2 DEF KidsAt, KidOf
      <3> QED BY <3>1, <3>2
    <2> QED BY <2>1, <2>2
  <1>4. MainAt' /\ WatchAt'
    <2>1. CASE p = 0
      <3>1. MainOf(kind, status, w'[0].pc, w[0].fd, fdt[0])
        BY <1>t, <1>p, <2>1 DEF MainAt, MainOf, Busy
      <3>2. WatchOf(kind, w'[0].pc, w[0].fd, fdt[0], watch, batch, max_fd)
        BY <1>t, <1>p, <2>1 DEF WatchAt, WatchOf, Busy
      <3> QED BY <2>1, <3>1, <3>2 DEF MainAt, WatchAt
    <2>2. CASE p # 0
      <3>1. w'[0] = w[0]
        BY <2>2, ProcsAre
      <3> QED BY <1>t, <3>1 DEF MainAt, WatchAt
    <2> QED BY <2>1, <2>2
  <1>5. KidsAt'
    <2> SUFFICES ASSUME NEW k \in Conns
                 PROVE  KidOf(k, kind, w'[k].pc, w'[k].fd, fdt[k], cl[k], backlog,
                              w'[0].pc, fdt[0])
      BY DEF KidsAt
    <2>1. KidOf(k, kind, w[k].pc, w[k].fd, fdt[k], cl[k], backlog, w[0].pc, fdt[0])
      BY <1>t DEF KidsAt
    <2>2. CASE p = 0
      BY <1>3, <1>n, <2>1, <2>2 DEF KidOf
    <2>3. CASE p # 0 /\ k = p
      <3>1. w'[0] = w[0] /\ w'[k].pc \in {"read", "write"} /\ w'[k].fd = w[k].fd
        BY <1>p, <2>3, ProcsAre
      <3> QED BY <2>1, <2>3, <3>1 DEF KidOf, Alive
    <2>4. CASE p # 0 /\ k # p
      <3>1. w'[0] = w[0] /\ w'[k] = w[k]
        BY <2>4, ProcsAre
      <3> QED BY <2>1, <3>1
    <2> QED BY <2>2, <2>3, <2>4
  <1>6. EventsOf(status', fdt'[0], batch', backlog', conn')
    <2> SUFFICES ASSUME status = "up", NEW d \in batch
                 PROVE  \/ fdt[0][d] = LISTEN /\ backlog # <<>>
                        \/ fdt[0][d] \in Conns /\ Readable(conn'[fdt[0][d]])
      BY DEF EventsOf
    <2>1. \/ fdt[0][d] = LISTEN /\ backlog # <<>>
          \/ fdt[0][d] \in Conns /\ Readable(conn[fdt[0][d]])
      BY <1>t DEF EventsOf
    <2>2. kind \in Pollers /\ d \in Fds
      BY <1>t DEF WatchAt, WatchOf, EchoTypeOK
    <2>3. p = 0
      BY <1>p, <2>2
    <2>4. d # w[0].fd /\ w[0].fd \in Fds
      BY <1>t, <2>2, <2>3 DEF WatchAt, WatchOf, MainAt, MainOf, Busy
    <2>5. fdt[0][d] \in Conns => fdt[0][d] # Peer(p)
      BY <1>t, <2>2, <2>3, <2>4 DEF MainAt, MainOf, Peer
    <2> QED BY <2>1, <2>5
  <1>7. SignalsOf(w', status', chld', merged')
    <2>1. \A k \in Conns : \/ w'[k] = w[k]
                           \/ /\ w'[k].pc \in {"read", "write", "wait"}
                              /\ w[k].pc \in {"read", "write"}
      BY ProcsAre
    <2>2. Done(w') = Done(w)
      BY <2>1 DEF Done
    <2>3. \A k \in Conns : w'[k].pc = "zombie" => w[k].pc = "zombie"
      BY <2>1
    <2> QED BY <1>t, <2>2, <2>3 DEF SignalsOf
  <1>8. InPlace(sent', rcvd', conn', cl', fdt', backlog', Bufs(w', fdt'))
    <2> DEFINE bf == Bufs(w, fdt)
               bf1 == Bufs(w', fdt')
    <2>1. bf1[Peer(p)] = w'[p].buf
      <3>1. CASE p = 0
        BY <1>p, <1>n, <3>1 DEF Bufs, BufOf, Peer
      <3>2. CASE p # 0
        <4>1. w'[0] = w[0]
          BY <3>2, ProcsAre
        <4> QED BY <1>p, <3>2, <4>1 DEF Bufs, BufOf
      <3> QED BY <3>1, <3>2
    <2>2. ASSUME NEW j \in Conns \ {Peer(p)} PROVE bf1[j] = bf[j]
      <3>1. CASE p = 0
        BY <1>p, <1>n, <2>2, <3>1 DEF Bufs, BufOf, Peer
      <3>2. CASE p # 0
        <4>1. w'[0] = w[0] /\ w'[j] = w[j]
          BY <1>p, <2>2, <3>2, ProcsAre
        <4> QED BY <4>1 DEF Bufs, BufOf
      <3> QED BY <3>1, <3>2
    <2> HIDE DEF bf1
    <2>3. InPlace(sent, rcvd, conn', cl, fdt, backlog, bf1)
      BY <2>1, <2>2
    <2> QED BY <2>3 DEF bf1
  <1>9. /\ AbortOf(kind', status', cl', sent', rcvd') /\ QueueOf(fdt', backlog')
        /\ UNCHANGED <<sent, rcvd>>
    BY <1>t
  <1> QED BY <1>1, <1>2, <1>3, <1>4, <1>5, <1>6, <1>7, <1>8, <1>9 DEF EchoInv

(* A read of cells keeps it.                                               *)
LEMMA ReadDataStep ==
    ASSUME EchoInv, NEW p \in Procs, ReadData(p)
    PROVE  EchoInv' /\ UNCHANGED <<sent, rcvd>>
  <1> DEFINE k == Peer(p)
             bf0 == Bufs(w, fdt)
  <1>t. /\ EchoTypeOK /\ InPlace(sent, rcvd, conn, cl, fdt, backlog, bf0)
    BY DEF EchoInv
  <1>y. /\ NetTypeOK /\ conn \in [Conns -> Connection] /\ w \in [Procs -> Process]
        /\ bf0 \in [Conns -> Seq(Cell)]
    BY <1>t, TypeFacts
  <1>1. /\ w[p].pc = "read"
        /\ UNCHANGED <<backlog, cl, sent, rcvd, fdt, status, kind, watch, batch,
                       max_fd, turns, addr_sz, chld, merged>>
    BY DEF ReadData, peerVars, pollVars, forkVars
  <1>2. PICK n \in ReadResults(k) \ {0} :
          /\ conn' = AfterRead(k, n)
          /\ w' = [w EXCEPT ![p].pc = "write",
                            ![p].buf = SubSeq(conn[k].c2s, 1, n)]
    BY DEF ReadData
  <1>3. k \in Conns /\ Has(fdt, backlog, k) /\ bf0[k] = w[p].buf
    BY <1>1, PeerIs
  <1>4. w[p].buf = <<>>
    BY <1>1 DEF EchoInv
  <1> DEFINE bb == SubSeq(conn[k].c2s, 1, n)
  <1> HIDE DEF k, bf0
  <1>5. /\ conn' \in [Conns -> Connection] /\ bb \in Seq(Cell)
        /\ Len(bb) <= BufCells /\ \A j \in Conns \ {k} : conn'[j] = conn[j]
    BY <1>y, <1>2, <1>3, ReadEffect, EchoNetAssumption
  <1>6. ASSUME NEW bf, bf[k] = bb, \A j \in Conns \ {k} : bf[j] = bf0[j]
        PROVE  InPlace(sent, rcvd, conn', cl, fdt, backlog, bf)
    BY <1>t, <1>y, <1>2, <1>3, <1>4, <1>6, ReadKeeps, EchoNetAssumption
  <1>7. w' = [w EXCEPT ![p].pc = "write", ![p].buf = bb]
    BY <1>2
  <1> HIDE DEF bb
  <1>8. /\ w' \in [Procs -> Process] /\ w'[p].pc = "write" /\ w'[p].buf = bb
        /\ w'[p].fd = w[p].fd /\ \A q \in Procs \ {p} : w'[q] = w[q]
    BY <1>y, <1>5, <1>7 DEF Process
  <1>9. /\ \A bf : /\ bf[Peer(p)] = w'[p].buf
                   /\ \A j \in Conns \ {Peer(p)} : bf[j] = Bufs(w, fdt)[j]
                   => InPlace(sent, rcvd, conn', cl, fdt, backlog, bf)
        /\ \A j \in Conns \ {Peer(p)} : conn'[j] = conn[j]
    BY <1>5, <1>6, <1>8 DEF k, bf0
  <1> QED BY <1>1, <1>5, <1>8, <1>9, IoStep

(* A write of the cells read keeps it, and keeps the promise.              *)
LEMMA WriteBackStep ==
    ASSUME EchoInv, NEW p \in Procs, WriteBack(p)
    PROVE  EchoInv' /\ UNCHANGED <<sent, rcvd>>
  <1> DEFINE k == Peer(p)
             bf0 == Bufs(w, fdt)
             pc == IF Polls THEN "wait" ELSE "read"
  <1>t. /\ EchoTypeOK /\ InPlace(sent, rcvd, conn, cl, fdt, backlog, bf0)
    BY DEF EchoInv
  <1>y. /\ NetTypeOK /\ conn \in [Conns -> Connection] /\ w \in [Procs -> Process]
        /\ bf0 \in [Conns -> Seq(Cell)]
    BY <1>t, TypeFacts
  <1>1. /\ w[p].pc = "write" /\ w' = [w EXCEPT ![p].pc = pc, ![p].buf = <<>>]
        /\ UNCHANGED <<backlog, cl, sent, rcvd, fdt, status, kind, watch, batch,
                       max_fd, turns, addr_sz, chld, merged>>
    BY DEF WriteBack, peerVars, pollVars, forkVars
  <1>2. PICK c \in AfterWrite(k, w[p].buf) : conn' = [conn EXCEPT ![k] = c]
    BY DEF WriteBack
  <1>3. k \in Conns /\ Has(fdt, backlog, k) /\ bf0[k] = w[p].buf
    BY <1>1, PeerIs
  <1>4. pc = "read" \/ (pc = "wait" /\ kind \in Pollers)
    BY DEF Polls, Pollers
  <1> HIDE DEF k, bf0, pc
  <1>5. /\ w' \in [Procs -> Process] /\ w'[p].pc = pc /\ w'[p].buf = <<>>
        /\ w'[p].fd = w[p].fd /\ \A q \in Procs \ {p} : w'[q] = w[q]
    <2>1. <<>> \in {s \in Seq(Cell) : Len(s) <= BufCells}
      BY EchoNetAssumption
    <2> QED BY <1>y, <1>1, <1>4, <2>1 DEF Process
  <1>6. ASSUME NEW bf, bf[k] = <<>>, \A j \in Conns \ {k} : bf[j] = bf0[j]
        PROVE  /\ conn' \in [Conns -> Connection]
               /\ InPlace(sent, rcvd, conn', cl, fdt, backlog, bf)
    BY <1>t, <1>y, <1>2, <1>3, <1>6, WriteKeeps
  <1>7. /\ conn' \in [Conns -> Connection]
        /\ \A j \in Conns \ {k} : conn'[j] = conn[j]
    <2> DEFINE bf == [bf0 EXCEPT ![k] = <<>>]
    <2>1. bf[k] = <<>> /\ \A j \in Conns \ {k} : bf[j] = bf0[j]
      BY <1>y, <1>3
    <2> HIDE DEF bf
    <2>2. conn' \in [Conns -> Connection]
      BY <1>6, <2>1
    <2> QED BY <1>y, <1>2, <2>2
  <1>8. /\ \A bf : /\ bf[Peer(p)] = w'[p].buf
                   /\ \A j \in Conns \ {Peer(p)} : bf[j] = Bufs(w, fdt)[j]
                   => InPlace(sent, rcvd, conn', cl, fdt, backlog, bf)
        /\ \A j \in Conns \ {Peer(p)} : conn'[j] = conn[j]
    BY <1>5, <1>6, <1>7 DEF k, bf0
  <1> QED BY <1>1, <1>4, <1>5, <1>7, <1>8, IoStep

-----------------------------------------------------------------------------
(* Nothing a client does takes away what the server may read.              *)
LEMMA ReadableStays ==
    ASSUME NetTypeOK, NEW k \in Conns, Client(k), Readable(conn[k])
    PROVE  Readable(conn'[k])
  <1>t. conn \in [Conns -> Connection]
    BY DEF NetTypeOK
  <1>y. /\ conn[k] \in Connection /\ conn[k].c2s \in Seq(Cell)
        /\ sent[k] \in Seq(Cell)
    BY <1>t DEF Connection, NetTypeOK
  <1>1. ASSUME Connect(k) PROVE Readable(conn'[k])
    BY <1>1 DEF Connect
  <1>2. ASSUME NEW m \in 0 .. MaxMsg, WriteLine(k, m) PROVE Readable(conn'[k])
    <2> DEFINE line == [i \in 1 .. m |-> <<k, Len(sent[k]) + i>>]
    <2>1. conn' = conn \/ conn' = [conn EXCEPT ![k].c2s = @ \o line]
      BY <1>2 DEF WriteLine
    <2>2. line \in Seq(Cell)
      <3>1. m \in Nat /\ Len(sent[k]) \in Nat
        BY <1>y, EchoNetAssumption
      <3>2. \A i \in 1 .. m : <<k, Len(sent[k]) + i>> \in Cell
        BY <3>1 DEF Cell
      <3> QED BY <3>1, <3>2
    <2> HIDE DEF line
    <2>3. conn[k].c2s # <<>> => conn[k].c2s \o line # <<>>
      BY <1>y, <2>2
    <2>4. ASSUME conn' = [conn EXCEPT ![k].c2s = @ \o line]
          PROVE  Readable(conn'[k])
      <3>1. /\ conn'[k].c2s = conn[k].c2s \o line
            /\ conn'[k].rst = conn[k].rst /\ conn'[k].cli = conn[k].cli
        BY <1>t, <1>y, <2>4 DEF Connection
      <3> QED BY <2>3, <3>1 DEF Readable
    <2> QED BY <2>1, <2>4
  <1>3. ASSUME ReadEcho(k) PROVE Readable(conn'[k])
    <2>1. \E q : conn' = [conn EXCEPT ![k].s2c = q]
      BY <1>t, <1>3 DEF ReadEcho
    <2>2. /\ conn'[k].c2s = conn[k].c2s /\ conn'[k].rst = conn[k].rst
          /\ conn'[k].cli = conn[k].cli
      BY <1>t, <1>y, <2>1 DEF Connection
    <2> QED BY <2>2 DEF Readable
  <1>4. ASSUME Quit(k) PROVE Readable(conn'[k])
    <2> DEFINE c == [conn[k] EXCEPT !.cli = FALSE, !.s2c = <<>>]
               abort == conn[k].s2c # <<>> /\ ServerHas(k)
    <2>1. PICK rest : conn' = [conn EXCEPT ![k] = [c EXCEPT !.c2s = rest,
                        !.rst = IF abort /\ @ = "no" THEN "err" ELSE @]]
      BY <1>4 DEF Quit
    <2> HIDE DEF abort
    <2>2. conn'[k].cli = FALSE
      BY <1>t, <1>y, <2>1 DEF Connection
    <2> QED BY <2>2 DEF Readable
  <1> QED BY <1>1, <1>2, <1>3, <1>4 DEF Client

(* A client that enters the queue: nobody has met it before.               *)
LEMMA QueueGrows ==
    ASSUME EchoInv, NEW k \in Conns, cl[k] = "off", Listening,
           NEW bl, bl = Append(backlog, k)
    PROVE  /\ QueueOf(fdt, bl) /\ w[k].pc = "none" /\ w[0].pc # "init"
           /\ \A j \in Conns \ {k} : Pending(bl, j) => Pending(backlog, j)
           /\ bl # <<>>
  <1>t. /\ EchoTypeOK /\ MainAt /\ KidsAt /\ QueueOf(fdt, backlog)
        /\ InPlace(sent, rcvd, conn, cl, fdt, backlog, Bufs(w, fdt))
    BY DEF EchoInv
  <1>y. backlog \in Seq(Conns)
    BY <1>t, TypeFacts
  <1>1. ~ Has(fdt, backlog, k)
    BY <1>t DEF InPlace, Echoed, Served
  <1>2. w[k].pc = "none"
    BY <1>t DEF KidsAt, KidOf
  <1>3. /\ Len(backlog) \in Nat /\ Len(bl) = Len(backlog) + 1
        /\ bl[Len(backlog) + 1] = k
        /\ \A x \in 1 .. Len(backlog) : bl[x] = backlog[x] /\ backlog[x] \in Conns
    BY <1>y
  <1>4. bl # <<>>
    BY <1>y
  <1>5. \A x \in 1 .. Len(bl) : x \in 1 .. Len(backlog) \/ x = Len(backlog) + 1
    BY <1>3
  <1>6. \A j \in Conns \ {k} : Pending(bl, j) => Pending(backlog, j)
    BY <1>3, <1>5 DEF Pending
  <1>7. ~ Refers(fdt, k) /\ \A x \in 1 .. Len(backlog) : backlog[x] # k
    BY <1>1 DEF Has, Pending
  <1>8. QueueOf(fdt, bl)
    <2>1. \A x \in 1 .. Len(bl) : ~ Refers(fdt, bl[x])
      BY <1>t, <1>3, <1>5, <1>7 DEF QueueOf
    <2>2. \A x, y \in 1 .. Len(bl) : bl[x] = bl[y] => x = y
      BY <1>t, <1>3, <1>5, <1>7 DEF QueueOf
    <2> QED BY <2>1, <2>2 DEF QueueOf
  <1>9. w[0].pc # "init"
    <2> SUFFICES ASSUME w[0].pc = "init" PROVE FALSE
      OBVIOUS
    <2>1. fdt[0] = NoFds /\ \A j \in Conns : fdt[j] = NoFds
      BY <1>t DEF MainAt, MainOf, KidsAt, KidOf, Alive
    <2> QED BY <2>1, ProcsAre, FdsAre DEF Listening, Refers, NoFds
  <1> QED BY <1>2, <1>4, <1>6, <1>8, <1>9

(* A step of a client keeps it, and is one EchoService allows.             *)
LEMMA ClientKeepsAll ==
    ASSUME EchoInv, NEW k \in Conns, Client(k), UNCHANGED serverVars
    PROVE  EchoInv' /\ [Promised!Next]_<<sent, rcvd>>
  <1> DEFINE bf == Bufs(w, fdt)
  <1>t. /\ EchoTypeOK /\ MainAt /\ WatchAt /\ KidsAt /\ QueueOf(fdt, backlog)
        /\ SignalsOf(w, status, chld, merged)
        /\ AbortOf(kind, status, cl, sent, rcvd)
        /\ EventsOf(status, fdt[0], batch, backlog, conn)
        /\ InPlace(sent, rcvd, conn, cl, fdt, backlog, bf)
        /\ \A q \in Procs : w[q].pc \notin {"write", "zombie", "ended"} =>
                                w[q].buf = <<>>
        /\ w[0].pc = "init" => backlog = <<>>
    BY DEF EchoInv
  <1>y. NetTypeOK /\ bf \in [Conns -> Seq(Cell)]
    BY <1>t, TypeFacts
  <1>1. UNCHANGED <<kind, w, turns, watch, batch, max_fd, addr_sz, chld, merged>>
    BY DEF serverVars, pollVars, forkVars
  <1>2. /\ ClientStep(k, bf)
        /\ InPlace(sent', rcvd', conn', cl', fdt', backlog', bf)
    <2> HIDE DEF bf
    <2> QED BY <1>t, <1>y, ClientKeeps, EchoNetAssumption
  <1>3. /\ NetTypeOK' /\ fdt' = fdt /\ status' = status
        /\ \A j \in Conns \ {k} :
              /\ conn'[j] = conn[j] /\ cl'[j] = cl[j]
              /\ sent'[j] = sent[j] /\ rcvd'[j] = rcvd[j]
        /\ cl'[k] # "off"
        /\ cl[k] = "gone" => cl'[k] = "gone" /\ sent'[k] = sent[k] /\ rcvd'[k] = rcvd[k]
        /\ \/ backlog' = backlog
           \/ cl[k] = "off" /\ Listening /\ backlog' = Append(backlog, k)
        /\ [Promised!Next]_<<sent, rcvd>>
    BY <1>2 DEF ClientStep
  <1>4. /\ QueueOf(fdt, backlog') /\ (w[0].pc = "init" => backlog' = <<>>)
        /\ \A j \in Conns : w[j].pc # "none" /\ Pending(backlog', j) =>
                                Pending(backlog, j)
        /\ backlog # <<>> => backlog' # <<>>
    <2>1. CASE backlog' = backlog
      BY <1>t, <2>1
    <2>2. CASE cl[k] = "off" /\ Listening /\ backlog' = Append(backlog, k)
      BY <2>2, QueueGrows
    <2> QED BY <1>3, <2>1, <2>2
  <1>5. EchoTypeOK'
    BY <1>t, <1>1, <1>3 DEF EchoTypeOK
  <1>6. MainAt' /\ WatchAt' /\ SignalsOf(w', status', chld', merged')
    BY <1>t, <1>1, <1>3 DEF MainAt, WatchAt
  <1>7. KidsAt'
    <2> SUFFICES ASSUME NEW j \in Conns
                 PROVE  KidOf(j, kind, w[j].pc, w[j].fd, fdt[j], cl'[j], backlog',
                              w[0].pc, fdt[0])
      BY <1>1, <1>3 DEF KidsAt
    <2>1. KidOf(j, kind, w[j].pc, w[j].fd, fdt[j], cl[j], backlog, w[0].pc, fdt[0])
      BY <1>t DEF KidsAt
    <2>2. cl'[j] = cl[j] \/ cl'[j] # "off"
      BY <1>3
    <2> QED BY <1>4, <2>1, <2>2 DEF KidOf
  <1>8. EventsOf(status', fdt'[0], batch', backlog', conn')
    <2>1. \A j \in Conns : Readable(conn[j]) => Readable(conn'[j])
      BY <1>y, <1>3, ReadableStays
    <2> QED BY <1>t, <1>1, <1>3, <1>4, <2>1 DEF EventsOf
  <1>9. AbortOf(kind', status', cl', sent', rcvd')
    <2> SUFFICES ASSUME status = "sigpipe"
                 PROVE  /\ kind # "fork"
                        /\ \E j \in Conns : cl'[j] = "gone"
                                            /\ Len(rcvd'[j]) < Len(sent'[j])
      BY <1>1, <1>3 DEF AbortOf
    <2>1. kind # "fork"
      BY <1>t DEF AbortOf
    <2>2. PICK j \in Conns : cl[j] = "gone" /\ Len(rcvd[j]) < Len(sent[j])
      BY <1>t DEF AbortOf
    <2>3. cl'[j] = "gone" /\ rcvd'[j] = rcvd[j] /\ sent'[j] = sent[j]
      BY <1>3, <2>2
    <2> QED BY <2>1, <2>2, <2>3
  <1>10. InPlace(sent', rcvd', conn', cl', fdt', backlog', Bufs(w', fdt'))
    <2>1. Bufs(w', fdt') = bf
      BY <1>1, <1>3
    <2> QED BY <1>2, <2>1
  <1>11. /\ QueueOf(fdt', backlog') /\ (w'[0].pc = "init" => backlog' = <<>>)
         /\ \A q \in Procs : w'[q].pc \notin {"write", "zombie", "ended"} =>
                                 w'[q].buf = <<>>
    BY <1>t, <1>1, <1>3, <1>4
  <1> QED BY <1>3, <1>5, <1>6, <1>7, <1>8, <1>9, <1>10, <1>11 DEF EchoInv

-----------------------------------------------------------------------------
(* The initial states satisfy the invariant and are those of EchoService.  *)
LEMMA EchoStarts == Init => EchoInv /\ Promised!Init
  <1> SUFFICES ASSUME Init PROVE EchoInv /\ Promised!Init
    OBVIOUS
  <1> DEFINE bf == Bufs(w, fdt)
  <1>1. /\ NetInit /\ kind \in Kinds
        /\ w = [p \in Procs |-> [pc |-> IF p = 0 THEN "init" ELSE "none",
                                 fd |-> 0, buf |-> <<>>]]
        /\ watch = {} /\ batch = {} /\ max_fd = 0 /\ turns = 0
        /\ addr_sz \in {TRUE, kind # "fork"} /\ chld = FALSE /\ merged = 0
    BY DEF Init
  <1>2. <<>> \in {s \in Seq(Cell) : Len(s) <= BufCells}
    BY EchoNetAssumption
  <1>3. /\ w \in [Procs -> Process] /\ w[0].pc = "init"
        /\ \A p \in Procs : w[p].buf = <<>> /\ w[p].pc # "write"
        /\ \A k \in Conns : w[k].pc = "none"
    BY <1>1, <1>2, ProcsAre DEF Process
  <1>4. \A k \in Conns : bf[k] = <<>>
    BY <1>3, ProcsAre DEF Bufs, BufOf
  <1>5. /\ NetTypeOK /\ InPlace(sent, rcvd, conn, cl, fdt, backlog, bf)
        /\ Promised!Init
    <2> HIDE DEF bf
    <2> QED BY <1>1, <1>4, StartsInPlace, EchoNetAssumption
  <1>6. /\ status = "up" /\ backlog = <<>> /\ \A p \in Procs : fdt[p] = NoFds
    BY <1>1 DEF NetInit
  <1>7. EchoTypeOK
    <2>1. /\ max_fd \in 0 .. MaxFd + 1 /\ turns \in 0 .. Turns
          /\ merged \in 0 .. MaxConns
      BY <1>1, EchoNetAssumption, EchoServersAssumption
    <2>2. addr_sz \in BOOLEAN
      BY <1>1, Zenon
    <2> QED BY <1>1, <1>3, <1>5, <2>1, <2>2 DEF EchoTypeOK
  <1>8. MainAt /\ WatchAt
    BY <1>1, <1>3, <1>6, ProcsAre DEF MainAt, MainOf, WatchAt, WatchOf
  <1>9. KidsAt
    BY <1>3, <1>6, ProcsAre DEF KidsAt, KidOf, Alive
  <1>10. QueueOf(fdt, backlog) /\ EventsOf(status, fdt[0], batch, backlog, conn)
    BY <1>1, <1>6 DEF QueueOf, EventsOf
  <1>11. SignalsOf(w, status, chld, merged)
    <2>1. Done(w) = {}
      BY <1>3 DEF Done
    <2>2. Cardinality(Done(w)) = 0
      BY <2>1, FS_EmptySet
    <2> QED BY <1>1, <1>3, <2>2 DEF SignalsOf
  <1>12. AbortOf(kind, status, cl, sent, rcvd)
    BY <1>6 DEF AbortOf
  <1> QED BY <1>3, <1>5, <1>6, <1>7, <1>8, <1>9, <1>10, <1>11, <1>12 DEF EchoInv

(* Every step keeps the invariant and is one of EchoService or a stutter.  *)
LEMMA EchoStep ==
    EchoInv /\ [Next]_vars => EchoInv' /\ [Promised!Next]_<<sent, rcvd>>
  <1> SUFFICES ASSUME EchoInv, [Next]_vars
               PROVE  EchoInv' /\ [Promised!Next]_<<sent, rcvd>>
    OBVIOUS
  <1>1. ASSUME UNCHANGED vars PROVE EchoInv' /\ UNCHANGED <<sent, rcvd>>
    <2>1. /\ UNCHANGED <<conn, backlog, cl, sent, rcvd, fdt, status>>
          /\ UNCHANGED <<kind, w, turns, watch, batch, max_fd, addr_sz, chld, merged>>
      BY <1>1 DEF vars, netVars, serverVars, peerVars, pollVars, forkVars
    <2>2. EchoTypeOK' /\ MainAt' /\ WatchAt' /\ KidsAt'
      BY <2>1 DEF EchoInv, EchoTypeOK, NetTypeOK, MainAt, WatchAt, KidsAt
    <2> QED BY <2>1, <2>2 DEF EchoInv
  <1>2. ASSUME Main PROVE EchoInv' /\ UNCHANGED <<sent, rcvd>>
    BY <1>2, StartStep, StartFailsStep, AcceptStep, AcceptDropsStep, FinishStep,
       PollStep, AcceptEventStep, ClientEventStep, ForkStep, ParentClosesStep
       DEF Main
  <1>3. ASSUME Echo(0) PROVE EchoInv' /\ UNCHANGED <<sent, rcvd>>
    BY <1>3, ReadDataStep, ServerReadsEnd, WriteBackStep, ServerKilled, ProcsAre
       DEF Echo
  <1>4. ASSUME NEW p \in Conns, Child(p)
        PROVE  EchoInv' /\ UNCHANGED <<sent, rcvd>>
    BY <1>4, ChildStartsStep, ReadDataStep, ChildReadsEnd, WriteBackStep,
       ChildKilled, ProcsAre DEF Child, Echo
  <1>5. ASSUME childproc PROVE EchoInv' /\ UNCHANGED <<sent, rcvd>>
    BY <1>5, ChildprocStep
  <1>6. ASSUME NEW k \in Conns, Client(k), UNCHANGED serverVars
        PROVE  EchoInv' /\ [Promised!Next]_<<sent, rcvd>>
    BY <1>6, ClientKeepsAll
  <1> QED BY <1>1, <1>2, <1>3, <1>4, <1>5, <1>6 DEF Next, Server

(* In every one of the four servers, for every number of clients and every *)
(* limit on descriptors that leaves room for them, nothing leaks and       *)
(* nothing closed is watched: the accept/fork/close pair of                *)
(* mp-echo-server.c, epoll_ctl ADD/DEL with close, FD_SET/FD_CLR with      *)
(* close and max_fd.                                                       *)
THEOREM NoDescriptorLeaks == Spec => []DescriptorsAccounted
  <1>1. EchoInv => DescriptorsAccounted
    <2> SUFFICES ASSUME EchoInv PROVE DescriptorsAccounted
      OBVIOUS
    <2> DEFINE Peers(p) == {fd \in Fds : fdt[p][fd] \in Conns}
    <2>t. EchoTypeOK /\ MainAt /\ WatchAt /\ KidsAt
      BY DEF EchoInv
    <2>1. ASSUME NEW p \in Conns, w[p].pc \in {"read", "write"}
          PROVE  {fd \in Fds : fdt[p][fd] # FREE} = {w[p].fd} /\ Peer(p) = p
      <3>1. /\ w[p].fd \in Fds \ {3} /\ fdt[p][w[p].fd] = p /\ fdt[p][3] = FREE
            /\ \A d \in Fds \ {3, w[p].fd} : fdt[p][d] = FREE
        BY <2>t, <2>1 DEF KidsAt, KidOf, Alive
      <3> QED BY <3>1, FdsAre DEF Peer
    <2>2. ASSUME status = "up", w[0].pc # "init", Polls
          PROVE  /\ watch = Peers(0) \cup {3}
                 /\ kind = "select" => \A fd \in watch : fd < max_fd
      BY <2>t, <2>2 DEF MainAt, MainOf, WatchAt, WatchOf, Polls, Pollers
    <2>3. ASSUME status = "up", w[0].pc # "init", ~ Polls
          PROVE  Peers(0) = IF w[0].pc \in {"fork", "closing", "read", "write"}
                            THEN {w[0].fd} ELSE {}
      BY <2>t, <2>3 DEF MainAt, MainOf, Busy, Polls, Pollers
    <2> QED BY <2>t, <2>1, <2>2, <2>3 DEF DescriptorsAccounted
  <1> QED BY <1>1, EchoStarts, EchoStep, PTL DEF Spec

(* The single thread of epoll-echo-server.c and select-echo-server.c never *)
(* blocks in the accept or the read it was woken for: each event of a      *)
(* batch is still true at its turn, although events before it accepted,    *)
(* closed and reused descriptors and clients went on in the meantime.      *)
THEOREM ReportedEventsStayTrue == Spec => []EventsStayTrue
  <1>1. EchoInv => EventsStayTrue
    BY EventsAre DEF EchoInv
  <1> QED BY <1>1, EchoStarts, EchoStep, PTL DEF Spec

(* SIGPIPE takes a server down only after a client that left with echoes   *)
(* outstanding, and it never takes down the parent of mp-echo-server.c.    *)
THEOREM OnlyAbortsKill == Spec => []KilledByAbort
  <1>1. EchoInv => KilledByAbort
    BY DEF EchoInv, AbortOf, KilledByAbort
  <1> QED BY <1>1, EchoStarts, EchoStep, PTL DEF Spec

(* childproc's single waitpid leaves a zombie only when the SIGCHLDs of    *)
(* two children were merged.                                               *)
THEOREM ZombiesNeedMergers == Spec => []ZombieOnlyIfMerged
  <1>1. EchoInv => ZombieOnlyIfMerged
    <2> SUFFICES ASSUME EchoInv, NEW p \in Conns, w[p].pc = "zombie",
                        status = "up", merged = 0
                 PROVE  chld = TRUE
      <3>1. ASSUME EchoInv PROVE merged \in Nat
        BY <3>1, EchoNetAssumption DEF EchoInv, EchoTypeOK
      <3>2. \A m \in Nat : m = 0 \/ m > 0
        OBVIOUS
      <3> QED BY <3>1, <3>2 DEF ZombieOnlyIfMerged
    <2> QED BY DEF EchoInv, SignalsOf
  <1> QED BY <1>1, EchoStarts, EchoStep, PTL DEF Spec

(* All four C servers implement EchoService: what a client reads back is   *)
(* at every moment a prefix of what it wrote, however reads split the      *)
(* stream, whichever process serves it and whoever is killed.              *)
THEOREM ServersEcho == Spec => EchoesInOrder
  <1>1. Promised!Init => Service!Init
    BY DEF Promised!Init, Service!Init
  <1>2. [Promised!Next]_<<sent, rcvd>> => [Service!Next]_(Service!vars)
    BY DEF Promised!Next, Service!Next, Promised!Send, Service!Send,
           Promised!Return, Service!Return, Service!vars
  <1> QED BY <1>1, <1>2, EchoStarts, EchoStep, PTL
         DEF Spec, EchoesInOrder, Service!Spec
=============================================================================

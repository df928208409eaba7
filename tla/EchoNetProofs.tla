--------------------------- MODULE EchoNetProofs ---------------------------
(***************************************************************************)
(* Lemmas about EchoNet that the proofs of both families of echo servers   *)
(* use: what the kernel's operators do to a connection, and that a step of *)
(* a client keeps every cell in its place.                                 *)
(***************************************************************************)
EXTENDS EchoNet, NatLemmas

(* The constants the tables are made of.                                   *)
LEMMA ProcsAre == Procs = {0} \cup Conns /\ 0 \notin Conns /\ 0 \in Procs
  BY EchoNetAssumption DEF Procs, Conns

(* The descriptors, and the marks of a table that are no connections.      *)
LEMMA FdsAre ==
    /\ Fds \subseteq Nat /\ 3 \in Fds /\ 4 \in Fds /\ -1 \notin Fds
    /\ FREE \notin Conns /\ LISTEN \notin Conns /\ EPOLL \notin Conns
    /\ FREE # LISTEN /\ FREE # EPOLL /\ LISTEN # EPOLL
    /\ FREE \in -2 .. MaxConns /\ LISTEN \in -2 .. MaxConns
    /\ EPOLL \in -2 .. MaxConns
    /\ Conns \subseteq -2 .. MaxConns
  BY EchoNetAssumption DEF Fds, FREE, LISTEN, EPOLL, Conns

(* The number a new descriptor gets is free, and the lowest that is.       *)
LEMMA LowestIs ==
    ASSUME NEW S, S \subseteq Nat, S # {}
    PROVE  Lowest(S) \in S /\ \A y \in S : Lowest(S) <= y
  <1>1. \E x \in S : \A y \in S : x <= y
    BY LeastNat
  <1> QED BY <1>1 DEF Lowest

-----------------------------------------------------------------------------
(* q consists of the cells of client k that follow its first a.            *)
Run(q, k, a) == \A i \in 1 .. Len(q) : q[i] = <<k, a + i>>

(* Two runs of a client's cells in a row make one.                         *)
LEMMA RunConcat ==
    ASSUME NEW q \in Seq(Cell), NEW r \in Seq(Cell), NEW k, NEW a \in Nat,
           Run(q, k, a), Run(r, k, a + Len(q))
    PROVE  Run(q \o r, k, a)
  <1> SUFFICES ASSUME NEW i \in 1 .. Len(q \o r)
               PROVE  (q \o r)[i] = <<k, a + i>>
    BY DEF Run
  <1>1. Len(q \o r) = Len(q) + Len(r) /\ Len(q) \in Nat /\ Len(r) \in Nat
    OBVIOUS
  <1>2. CASE i <= Len(q)
    BY <1>1, <1>2 DEF Run
  <1>3. CASE i > Len(q)
    <2> DEFINE j == i - Len(q)
    <2>1. j \in 1 .. Len(r) /\ (q \o r)[i] = r[j]
      BY <1>1, <1>3
    <2>2. r[j] = <<k, a + Len(q) + j>>
      BY <2>1 DEF Run
    <2>3. a + Len(q) + j = a + i
      BY <1>1
    <2> QED BY <2>1, <2>2, <2>3
  <1> QED BY <1>1, <1>2, <1>3

(* A run splits into two.                                                  *)
LEMMA RunSplit ==
    ASSUME NEW q \in Seq(Cell), NEW k, NEW a \in Nat, NEW n \in 0 .. Len(q)
    PROVE  LET h == SubSeq(q, 1, n)
               t == SubSeq(q, n + 1, Len(q))
           IN  /\ h \in Seq(Cell) /\ Len(h) = n
               /\ t \in Seq(Cell) /\ Len(t) = Len(q) - n
               /\ Run(q, k, a) => Run(h, k, a) /\ Run(t, k, a + n)
  <1> DEFINE h == SubSeq(q, 1, n)
             t == SubSeq(q, n + 1, Len(q))
  <1>1. /\ h \in Seq(Cell) /\ Len(h) = n
        /\ \A i \in 1 .. n : h[i] = q[i]
    OBVIOUS
  <1>2. /\ t \in Seq(Cell) /\ Len(t) = Len(q) - n
        /\ \A i \in 1 .. Len(q) - n : t[i] = q[n + i]
    OBVIOUS
  <1> HIDE DEF h, t
  <1>3. Run(q, k, a) => Run(h, k, a)
    <2> SUFFICES ASSUME Run(q, k, a), NEW i \in 1 .. Len(h)
                 PROVE  h[i] = <<k, a + i>>
      BY DEF Run
    <2>1. i \in 1 .. Len(q) /\ h[i] = q[i]
      BY <1>1
    <2> QED BY <2>1 DEF Run
  <1>4. Run(q, k, a) => Run(t, k, a + n)
    <2> SUFFICES ASSUME Run(q, k, a), NEW i \in 1 .. Len(t)
                 PROVE  t[i] = <<k, (a + n) + i>>
      BY DEF Run
    <2>1. n + i \in 1 .. Len(q) /\ t[i] = q[n + i] /\ a + (n + i) = (a + n) + i
      BY <1>2
    <2> QED BY <2>1 DEF Run
  <1> QED BY <1>1, <1>2, <1>3, <1>4 DEF h, t

(* q is cut into h and t.                                                  *)
Splits(q, h, t, k) ==
    /\ Len(q) = Len(h) + Len(t)
    /\ \A a \in Nat : Run(q, k, a) => Run(h, k, a) /\ Run(t, k, a + Len(h))

(* Nothing is a run from anywhere.                                         *)
LEMMA RunEmpty == \A k, a : Run(<<>>, k, a)
  BY DEF Run

(* The longer run of a client's cells begins with the shorter one.         *)
LEMMA RunPrefix ==
    ASSUME NEW q \in Seq(Cell), NEW r \in Seq(Cell), NEW k,
           Run(q, k, 0), Run(r, k, 0), Len(q) <= Len(r)
    PROVE  SubSeq(r, 1, Len(q)) = q
  <1> DEFINE h == SubSeq(r, 1, Len(q))
  <1>1. h \in Seq(Cell) /\ Len(h) = Len(q) /\ \A i \in 1 .. Len(q) : h[i] = r[i]
    OBVIOUS
  <1>2. \A i \in 1 .. Len(q) : h[i] = q[i]
    <2> TAKE i \in 1 .. Len(q)
    <2>1. i \in 1 .. Len(r) /\ h[i] = r[i]
      BY <1>1
    <2> QED BY <2>1 DEF Run
  <1> HIDE DEF h
  <1>3. h = q
    BY <1>1, <1>2
  <1> QED BY <1>3 DEF h

-----------------------------------------------------------------------------
(* The kernel's operators.                                                 *)

Tables == [Procs -> [Fds -> -2 .. MaxConns]]

(* Does the server's side of connection k exist in the tables tab or in    *)
(* the accept queue bl?                                                    *)
Has(tab, bl, k) == Refers(tab, k) \/ Pending(bl, k)

(* What the server has of a connection, in terms of the tables.            *)
LEMMA ServerHasIs == \A k : ServerHas(k) = Has(fdt, backlog, k)
  BY DEF ServerHas, Held, Has

(* A change of the descriptor tables touches no connection that somebody   *)
(* still refers to, and of the others only what the server has not read.   *)
LEMMA RetabEffect ==
    ASSUME NEW c \in [Conns -> Connection], NEW tab \in Tables,
           NEW bl \in Seq(Conns), Retab(c, tab, bl)
    PROVE  /\ fdt' = tab
           /\ backlog' = (IF Refers(tab, LISTEN) THEN bl ELSE <<>>)
           /\ backlog' \in Seq(Conns) /\ conn' \in [Conns -> Connection]
           /\ \A k \in Conns :
                 /\ conn'[k].s2c = c[k].s2c /\ conn'[k].cli = c[k].cli
                 /\ conn'[k].rst = c[k].rst
                 /\ conn'[k].c2s = c[k].c2s \/ conn'[k].c2s = <<>>
                 /\ Has(tab, backlog', k) => conn'[k] = c[k]
  <1> DEFINE q == IF Refers(tab, LISTEN) THEN bl ELSE <<>>
             Lost(k) == c[k].c2s # <<>> /\ ~Refers(tab, k) /\ ~Pending(q, k)
             Cut(k) == [c[k] EXCEPT !.c2s = <<>>, !.cut = TRUE]
  <1>1. /\ fdt' = tab /\ backlog' = q
        /\ conn' = [k \in Conns |-> IF Lost(k) THEN Cut(k) ELSE c[k]]
    BY DEF Retab
  <1>2. q \in Seq(Conns)
    OBVIOUS
  <1>3. ASSUME NEW k \in Conns
        PROVE  /\ Cut(k) \in Connection /\ Cut(k).c2s = <<>>
               /\ Cut(k).s2c = c[k].s2c /\ Cut(k).cli = c[k].cli
               /\ Cut(k).rst = c[k].rst
    <2>1. c[k] \in Connection /\ <<>> \in Seq(Cell)
      OBVIOUS
    <2> QED BY <2>1 DEF Connection
  <1>4. \A k \in Conns : Lost(k) => ~ Has(tab, q, k)
    BY DEF Has
  <1> HIDE DEF q, Lost, Cut
  <1>5. conn' \in [Conns -> Connection]
    BY <1>1, <1>3
  <1> QED BY <1>1, <1>2, <1>3, <1>4, <1>5 DEF q

(* A read of the server's end: n cells, or the end (0), or ECONNRESET.     *)
LEMMA ReadEffect ==
    ASSUME conn \in [Conns -> Connection], EchoNetAssumption,
           NEW k \in Conns, NEW n \in ReadResults(k)
    PROVE  LET c1 == AfterRead(k, n)
               b == SubSeq(conn[k].c2s, 1, n)
           IN  /\ c1 \in [Conns -> Connection]
               /\ \A j \in Conns \ {k} : c1[j] = conn[j]
               /\ c1[k].s2c = conn[k].s2c /\ c1[k].cli = conn[k].cli
               /\ c1[k].rst = conn[k].rst \/
                     (conn[k].rst = "err" /\ c1[k].rst = "shut")
               /\ b \in Seq(Cell) /\ Len(b) <= BufCells
               /\ n \in -1 .. BufCells
               /\ n <= 0 => conn[k].c2s = <<>> /\ b = <<>>
               /\ Splits(conn[k].c2s, b, c1[k].c2s, k)
  <1> DEFINE q == conn[k].c2s
             c1 == AfterRead(k, n)
             b == SubSeq(q, 1, n)
  <1>1. conn[k] \in Connection /\ q \in Seq(Cell) /\ Len(q) \in Nat
    BY DEF Connection
  <1>2. BufCells \in Nat \ {0}
    BY DEF EchoNetAssumption
  <1>3. CASE q # <<>>
    <2>1. n \in 1 .. Lesser(BufCells, Len(q))
      BY <1>3 DEF ReadResults
    <2>2. n \in 1 .. Len(q) /\ n <= BufCells /\ n \in 0 .. Len(q) /\ n > 0
      BY <1>1, <1>2, <2>1 DEF Lesser
    <2> DEFINE t == SubSeq(q, n + 1, Len(q))
    <2>3. /\ b \in Seq(Cell) /\ Len(b) = n /\ t \in Seq(Cell)
          /\ Len(t) = Len(q) - n
          /\ \A a \in Nat : Run(q, k, a) => Run(b, k, a) /\ Run(t, k, a + n)
      BY <1>1, <2>2, RunSplit
    <2>4. c1 = [conn EXCEPT ![k] = [conn[k] EXCEPT !.c2s = t]]
      BY <2>2 DEF AfterRead
    <2>5. n \in -1 .. BufCells
      BY <1>2, <2>2
    <2> HIDE DEF t, b
    <2>6. /\ [conn[k] EXCEPT !.c2s = t] \in Connection
          /\ [conn[k] EXCEPT !.c2s = t].c2s = t
          /\ [conn[k] EXCEPT !.c2s = t].s2c = conn[k].s2c
          /\ [conn[k] EXCEPT !.c2s = t].cli = conn[k].cli
          /\ [conn[k] EXCEPT !.c2s = t].rst = conn[k].rst
      BY <1>1, <2>3 DEF Connection
    <2>7. /\ c1 \in [Conns -> Connection] /\ \A j \in Conns \ {k} : c1[j] = conn[j]
          /\ c1[k] = [conn[k] EXCEPT !.c2s = t]
      BY <2>4, <2>6
    <2> HIDE DEF c1
    <2>8. Len(b) + Len(c1[k].c2s) = Len(q)
      BY <1>1, <2>2, <2>3, <2>6, <2>7
    <2> QED BY <1>3, <2>2, <2>3, <2>5, <2>6, <2>7, <2>8 DEF b, c1, Splits
  <1>4. CASE q = <<>> /\ n = -1
    <2>1. conn[k].rst = "err"
      BY <1>4 DEF ReadResults
    <2>2. b = <<>> /\ Len(b) = 0
      BY <1>4
    <2>3. c1 = [conn EXCEPT ![k] = [conn[k] EXCEPT !.rst = "shut"]]
      BY <1>4 DEF AfterRead
    <2>4. /\ [conn[k] EXCEPT !.rst = "shut"] \in Connection
          /\ [conn[k] EXCEPT !.rst = "shut"].c2s = q
          /\ [conn[k] EXCEPT !.rst = "shut"].s2c = conn[k].s2c
          /\ [conn[k] EXCEPT !.rst = "shut"].cli = conn[k].cli
          /\ [conn[k] EXCEPT !.rst = "shut"].rst = "shut"
      BY <1>1 DEF Connection
    <2>5. /\ c1 \in [Conns -> Connection] /\ \A j \in Conns \ {k} : c1[j] = conn[j]
          /\ c1[k] = [conn[k] EXCEPT !.rst = "shut"]
      BY <2>3, <2>4
    <2>6. n \in -1 .. BufCells /\ b \in Seq(Cell) /\ 0 <= BufCells
      BY <1>2, <1>4
    <2> HIDE DEF c1, b
    <2>7. Len(b) + Len(c1[k].c2s) = Len(q)
      BY <1>1, <2>2, <2>4, <2>5
    <2>8. \A a : Run(b, k, a) /\ Run(c1[k].c2s, k, a)
      BY <1>4, <2>2, <2>4, <2>5, RunEmpty
    <2> QED BY <1>4, <2>1, <2>2, <2>4, <2>5, <2>6, <2>7, <2>8 DEF c1, b, Splits
  <1>5. CASE q = <<>> /\ n # -1
    <2>1. n = 0
      BY <1>5 DEF ReadResults
    <2>2. b = <<>> /\ Len(b) = 0
      BY <1>5, <2>1
    <2>3. c1 = [conn EXCEPT ![k] = [conn[k] EXCEPT !.c2s = SubSeq(q, 1, 0)]]
      BY <1>5, <2>1 DEF AfterRead
    <2>4. SubSeq(q, 1, 0) = <<>>
      BY <1>5
    <2>5. [conn[k] EXCEPT !.c2s = <<>>] = conn[k]
      BY <1>1, <1>5 DEF Connection
    <2>6. c1 = conn
      BY <2>3, <2>4, <2>5
    <2>7. n \in -1 .. BufCells /\ b \in Seq(Cell) /\ 0 <= BufCells
      BY <1>2, <2>1, <2>2
    <2> HIDE DEF c1, b
    <2>8. Len(b) + Len(c1[k].c2s) = Len(q)
      BY <1>1, <2>2, <2>6
    <2>9. \A a : Run(b, k, a) /\ Run(c1[k].c2s, k, a)
      BY <1>5, <2>2, <2>6, RunEmpty
    <2> QED BY <1>5, <2>2, <2>6, <2>7, <2>8, <2>9 DEF c1, b, Splits
  <1> QED BY <1>3, <1>4, <1>5

(* A write to a client that is there appends to what it is going to read;  *)
(* one that has left gets nothing.                                         *)
LEMMA WriteEffect ==
    ASSUME conn \in [Conns -> Connection], NEW k \in Conns,
           NEW cells \in Seq(Cell), NEW c \in AfterWrite(k, cells)
    PROVE  /\ c \in Connection /\ c.c2s = conn[k].c2s /\ c.cli = conn[k].cli
           /\ conn[k].cli /\ conn[k].rst = "no" =>
                 c.rst = "no" /\ c.s2c = conn[k].s2c \o cells
           /\ ~ conn[k].cli => c.s2c = conn[k].s2c
           /\ conn[k].rst # "no" => c.rst # "no"
  <1> DEFINE d == conn[k]
             e == [d EXCEPT !.rst = "shut"]
             f == [d EXCEPT !.s2c = @ \o cells]
  <1>1. d \in Connection
    OBVIOUS
  <1>2. /\ e \in Connection /\ e.c2s = d.c2s /\ e.cli = d.cli /\ e.s2c = d.s2c
        /\ e.rst = "shut"
    BY <1>1 DEF Connection
  <1>3. /\ f \in Connection /\ f.c2s = d.c2s /\ f.cli = d.cli
        /\ f.s2c = d.s2c \o cells /\ f.rst = d.rst
    <2>1. d.s2c \in Seq(Cell)
      BY <1>1 DEF Connection
    <2>2. d.s2c \o cells \in Seq(Cell)
      BY <2>1
    <2> QED BY <1>1, <2>2 DEF Connection
  <1>4. c \in IF cells = <<>> THEN {d}
              ELSE IF d.rst = "err" THEN {e}
              ELSE IF d.cli THEN {f} ELSE {d, e}
    BY DEF AfterWrite
  <1>5. cells = <<>> => d.s2c \o cells = d.s2c
    BY <1>1 DEF Connection
  <1> HIDE DEF d, e, f
  <1> QED BY <1>1, <1>2, <1>3, <1>4, <1>5 DEF d

-----------------------------------------------------------------------------
(* Every cell in its place.  Client k, at l, has written s and read r;     *)
(* out and inp are the two directions of its connection, b what a server   *)
(* process has read from it and not yet written back.  While the client is *)
(* there, r and out together begin what it wrote ...                       *)
Flow(k, s, r, out, inp, l) ==
    /\ Run(s, k, 0) /\ Run(r, k, 0) /\ Len(r) <= Len(s)
    /\ l = "off" => s = <<>> /\ out = <<>> /\ inp = <<>>
    /\ l # "gone" => Run(out, k, Len(r)) /\ Len(r) + Len(out) <= Len(s)

(* ... and while the server's side exists too, r, out, b and inp are all   *)
(* of it; once the client has left some may be missing.                    *)
Served(k, s, r, out, b, inp, l) ==
    /\ l # "off"
    /\ Len(r) + Len(out) + Len(b) + Len(inp) <= Len(s)
    /\ l = "gone" => out = <<>>
    /\ l # "gone" => /\ Run(b, k, Len(r) + Len(out))
                     /\ Run(inp, k, Len(r) + Len(out) + Len(b))
                     /\ Len(s) = Len(r) + Len(out) + Len(b) + Len(inp)

(* The same of connection c, and how the client's end of it is.            *)
Kept(k, s, r, c, l) ==
    /\ Flow(k, s, r, c.s2c, c.c2s, l)
    /\ l # "gone" => c.cli = TRUE /\ c.rst = "no"

Echoed(k, s, r, c, b, l) ==
    /\ Served(k, s, r, c.s2c, b, c.c2s, l)
    /\ l = "gone" => c.cli = FALSE

(* The server closes its side: what it had not read may go.                *)
LEMMA KeptCut ==
    ASSUME NEW k, NEW s, NEW r, NEW c, NEW l, Kept(k, s, r, c, l), NEW c1,
           c1.s2c = c.s2c, c1.cli = c.cli, c1.rst = c.rst,
           c1.c2s = c.c2s \/ c1.c2s = <<>>
    PROVE  Kept(k, s, r, c1, l)
  BY DEF Kept, Flow

(* A process reads: the cells go from the connection to its buffer.        *)
LEMMA FlowRead ==
    ASSUME NEW k, NEW s, NEW r, NEW out, NEW inp, NEW l, NEW rest, NEW b,
           Len(s) \in Nat, Len(r) \in Nat, Len(out) \in Nat,
           Len(inp) \in Nat, Len(rest) \in Nat, Len(b) \in Nat,
           Flow(k, s, r, out, inp, l), Served(k, s, r, out, <<>>, inp, l),
           Splits(inp, b, rest, k)
    PROVE  /\ Flow(k, s, r, out, rest, l)
           /\ Served(k, s, r, out, b, rest, l)
  <1>1. Len(<<>>) = 0
    OBVIOUS
  <1> DEFINE a == Len(r) + Len(out)
  <1>2. a \in Nat /\ a + 0 = a
    OBVIOUS
  <1>3. Len(r) + Len(out) + Len(b) + Len(rest) = Len(r) + Len(out) + 0 + Len(inp)
    <2>1. Len(inp) = Len(b) + Len(rest)
      BY DEF Splits
    <2> QED BY <2>1
  <1>4. l # "off"
    BY DEF Served
  <1>5. l # "gone" => Run(b, k, a) /\ Run(rest, k, a + Len(b))
    <2>1. l # "gone" => Run(inp, k, a + 0)
      BY <1>1 DEF Served
    <2>2. l # "gone" => Run(inp, k, a)
      BY <1>2, <2>1
    <2> HIDE DEF a
    <2> QED BY <1>2, <2>2 DEF Splits
  <1> QED BY <1>1, <1>3, <1>4, <1>5 DEF Flow, Served

(* The server takes what it echoes off the stream into its buffer.         *)
LEMMA EchoedRead ==
    ASSUME NEW k, NEW s \in Seq(Cell), NEW r \in Seq(Cell),
           NEW c \in Connection, NEW l,
           Kept(k, s, r, c, l), Echoed(k, s, r, c, <<>>, l),
           NEW c1 \in Connection, NEW b \in Seq(Cell),
           c1.s2c = c.s2c, c1.cli = c.cli,
           c1.rst = c.rst \/ (c.rst = "err" /\ c1.rst = "shut"),
           Splits(c.c2s, b, c1.c2s, k)
    PROVE  Kept(k, s, r, c1, l) /\ Echoed(k, s, r, c1, b, l)
  <1>1. /\ c.s2c \in Seq(Cell) /\ c.c2s \in Seq(Cell) /\ c1.c2s \in Seq(Cell)
    BY DEF Connection
  <1>2. /\ Flow(k, s, r, c.s2c, c.c2s, l)
        /\ Served(k, s, r, c.s2c, <<>>, c.c2s, l)
    BY DEF Kept, Echoed
  <1>3. /\ Flow(k, s, r, c.s2c, c1.c2s, l)
        /\ Served(k, s, r, c.s2c, b, c1.c2s, l)
    <2> DEFINE o == c.s2c
               i == c.c2s
               i1 == c1.c2s
    <2>1. /\ o \in Seq(Cell) /\ i \in Seq(Cell) /\ i1 \in Seq(Cell)
          /\ Flow(k, s, r, o, i, l) /\ Served(k, s, r, o, <<>>, i, l)
          /\ Splits(i, b, i1, k)
      BY <1>1, <1>2
    <2> HIDE DEF o, i, i1
    <2>2. /\ Len(s) \in Nat /\ Len(r) \in Nat /\ Len(o) \in Nat
          /\ Len(i) \in Nat /\ Len(i1) \in Nat /\ Len(b) \in Nat
      BY <2>1
    <2>3. Flow(k, s, r, o, i1, l) /\ Served(k, s, r, o, b, i1, l)
      BY <2>1, <2>2, FlowRead
    <2> QED BY <2>3 DEF o, i1
  <1> QED BY <1>3 DEF Kept, Echoed

(* A process writes its buffer back to a client that is there ...          *)
LEMMA FlowWrite ==
    ASSUME NEW k, NEW s \in Seq(Cell), NEW r \in Seq(Cell),
           NEW out \in Seq(Cell), NEW inp \in Seq(Cell), NEW l, l # "gone",
           NEW b \in Seq(Cell),
           Flow(k, s, r, out, inp, l), Served(k, s, r, out, b, inp, l)
    PROVE  /\ Flow(k, s, r, out \o b, inp, l)
           /\ Served(k, s, r, out \o b, <<>>, inp, l)
  <1> DEFINE o == out \o b
  <1>1. o \in Seq(Cell) /\ Len(o) = Len(out) + Len(b) /\ Len(<<>>) = 0
    OBVIOUS
  <1>2. /\ Len(s) \in Nat /\ Len(r) \in Nat /\ Len(out) \in Nat
        /\ Len(b) \in Nat /\ Len(inp) \in Nat
    OBVIOUS
  <1>3. /\ Run(out, k, Len(r)) /\ Run(b, k, Len(r) + Len(out))
        /\ Run(inp, k, Len(r) + Len(out) + Len(b)) /\ l # "off"
        /\ Len(s) = Len(r) + Len(out) + Len(b) + Len(inp)
    BY DEF Flow, Served
  <1>4. Run(o, k, Len(r))
    BY <1>2, <1>3, RunConcat
  <1> HIDE DEF o
  <1>5. /\ Len(r) + Len(o) + 0 = Len(r) + Len(out) + Len(b)
        /\ Len(r) + Len(o) <= Len(s)
        /\ Len(r) + Len(o) + 0 + Len(inp) = Len(s)
        /\ Len(r) + Len(o) + 0 + Len(inp) <= Len(s)
    BY <1>1, <1>2, <1>3
  <1>6. Run(inp, k, Len(r) + Len(o) + 0)
    BY <1>3, <1>5
  <1>7. Flow(k, s, r, o, inp, l)
    BY <1>3, <1>4, <1>5 DEF Flow
  <1>8. Served(k, s, r, o, <<>>, inp, l)
    BY <1>1, <1>3, <1>5, <1>6, RunEmpty DEF Served
  <1> QED BY <1>7, <1>8 DEF o

(* ... or to one that has left.                                            *)
LEMMA EchoedWrite ==
    ASSUME NEW k, NEW s \in Seq(Cell), NEW r \in Seq(Cell),
           NEW c \in Connection, NEW b \in Seq(Cell), NEW l,
           Kept(k, s, r, c, l), Echoed(k, s, r, c, b, l),
           NEW c1 \in Connection, c1.c2s = c.c2s, c1.cli = c.cli,
           c.cli /\ c.rst = "no" => c1.rst = "no" /\ c1.s2c = c.s2c \o b,
           ~ c.cli => c1.s2c = c.s2c
    PROVE  Kept(k, s, r, c1, l) /\ Echoed(k, s, r, c1, <<>>, l)
  <1>1. c.s2c \in Seq(Cell) /\ c.c2s \in Seq(Cell)
    BY DEF Connection
  <1>2. /\ Flow(k, s, r, c.s2c, c.c2s, l)
        /\ Served(k, s, r, c.s2c, b, c.c2s, l)
    BY DEF Kept, Echoed
  <1> DEFINE o == c.s2c
             i == c.c2s
  <1>3. CASE l = "gone"
    <2>1. c.cli = FALSE /\ c1.s2c = c.s2c
      BY <1>3 DEF Echoed
    <2>2. Served(k, s, r, c.s2c, <<>>, c.c2s, l)
      <3>1. /\ Served(k, s, r, o, b, i, l) /\ o \in Seq(Cell) /\ i \in Seq(Cell)
        BY <1>1, <1>2
      <3> HIDE DEF o, i
      <3>2. /\ Len(s) \in Nat /\ Len(r) \in Nat /\ Len(o) \in Nat
            /\ Len(b) \in Nat /\ Len(i) \in Nat /\ Len(<<>>) = 0
        BY <3>1
      <3>3. /\ Len(r) + Len(o) + Len(b) + Len(i) <= Len(s) /\ o = <<>>
        BY <1>3, <3>1 DEF Served
      <3>4. Len(r) + Len(o) + 0 + Len(i) <= Len(s)
        BY <3>2, <3>3
      <3>5. Served(k, s, r, o, <<>>, i, l)
        BY <1>3, <3>2, <3>3, <3>4 DEF Served
      <3> QED BY <3>5 DEF o, i
    <2> QED BY <1>2, <1>3, <2>1, <2>2 DEF Kept, Echoed
  <1>4. CASE l # "gone"
    <2>1. c.cli = TRUE /\ c.rst = "no"
      BY <1>4 DEF Kept
    <2>2. c1.rst = "no" /\ c1.s2c = c.s2c \o b
      BY <2>1
    <2>3. /\ Flow(k, s, r, o \o b, i, l) /\ Served(k, s, r, o \o b, <<>>, i, l)
      <3>1. /\ Flow(k, s, r, o, i, l) /\ Served(k, s, r, o, b, i, l)
            /\ o \in Seq(Cell) /\ i \in Seq(Cell)
        BY <1>1, <1>2
      <3> HIDE DEF o, i
      <3> QED BY <1>4, <3>1, FlowWrite
    <2>4. /\ Flow(k, s, r, c1.s2c, c1.c2s, l)
          /\ Served(k, s, r, c1.s2c, <<>>, c1.c2s, l)
      BY <2>2, <2>3
    <2> QED BY <1>4, <2>1, <2>2, <2>4 DEF Kept, Echoed
  <1> QED BY <1>3, <1>4

-----------------------------------------------------------------------------
(* The steps of a client, on the cells.                                    *)

(* A connection starts with nothing on it.                                 *)
LEMMA FlowConnect ==
    ASSUME NEW k, NEW s \in Seq(Cell), NEW r \in Seq(Cell),
           NEW c \in Connection, Kept(k, s, r, c, "off")
    PROVE  /\ Kept(k, s, r, c, "input") /\ Kept(k, s, r, c, "gone")
           /\ Echoed(k, s, r, c, <<>>, "input")
  <1>1. /\ s = <<>> /\ c.s2c = <<>> /\ c.c2s = <<>> /\ Len(r) <= Len(s)
        /\ Run(s, k, 0) /\ Run(r, k, 0) /\ c.cli = TRUE /\ c.rst = "no"
    BY DEF Kept, Flow
  <1>2. Len(<<>>) = 0 /\ Len(r) \in Nat
    OBVIOUS
  <1>3. Len(r) = 0
    BY <1>1, <1>2
  <1>4. Flow(k, s, r, <<>>, <<>>, "input") /\ Flow(k, s, r, <<>>, <<>>, "gone")
    BY <1>1, <1>2, <1>3, RunEmpty DEF Flow
  <1>5. Served(k, s, r, <<>>, <<>>, <<>>, "input")
    BY <1>1, <1>2, <1>3, RunEmpty DEF Served
  <1> QED BY <1>1, <1>4, <1>5 DEF Kept, Echoed

(* A line that is sent joins the cells to be echoed.                       *)
LEMMA FlowLine ==
    ASSUME NEW k, NEW s \in Seq(Cell), NEW r \in Seq(Cell),
           NEW out \in Seq(Cell), NEW inp \in Seq(Cell), NEW b \in Seq(Cell),
           Flow(k, s, r, out, inp, "input"),
           Served(k, s, r, out, b, inp, "input"),
           NEW line \in Seq(Cell), Run(line, k, Len(s))
    PROVE  /\ Flow(k, s \o line, r, out, inp \o line, "read")
           /\ Served(k, s \o line, r, out, b, inp \o line, "read")
  <1> DEFINE a == Len(r) + Len(out) + Len(b)
  <1>1. /\ Len(s) \in Nat /\ Len(r) \in Nat /\ Len(out) \in Nat
        /\ Len(inp) \in Nat /\ Len(b) \in Nat /\ Len(line) \in Nat
        /\ Len(s \o line) = Len(s) + Len(line)
        /\ Len(inp \o line) = Len(inp) + Len(line)
    OBVIOUS
  <1>2. a \in Nat /\ Len(s) = a + Len(inp) /\ Run(inp, k, a)
    BY <1>1 DEF Served
  <1>3. Run(s \o line, k, 0)
    <2>1. Run(s, k, 0) /\ 0 + Len(s) = Len(s)
      BY <1>1 DEF Flow
    <2> QED BY <2>1, RunConcat
  <1>4. Run(inp \o line, k, a)
    <2> HIDE DEF a
    <2> QED BY <1>2, RunConcat
  <1>5. /\ Run(r, k, 0) /\ Len(r) <= Len(s) /\ Run(out, k, Len(r))
        /\ Len(r) + Len(out) <= Len(s) /\ Run(b, k, Len(r) + Len(out))
    BY DEF Flow, Served
  <1>6. /\ Len(r) <= Len(s \o line) /\ Len(r) + Len(out) <= Len(s \o line)
        /\ Len(s \o line) = Len(r) + Len(out) + Len(b) + Len(inp \o line)
        /\ Len(r) + Len(out) + Len(b) + Len(inp \o line) <= Len(s \o line)
    <2> DEFINE S == s \o line
               I == inp \o line
    <2>1. Len(S) = Len(s) + Len(line) /\ Len(I) = Len(inp) + Len(line)
      BY <1>1
    <2> HIDE DEF S, I
    <2>2. Len(r) <= Len(S) /\ Len(r) + Len(out) <= Len(S)
      BY <1>1, <1>5, <2>1
    <2>3. Len(S) = a + Len(I)
      <3> HIDE DEF a
      <3>1. Len(S) \in Nat /\ Len(I) \in Nat
        BY <1>1, <2>1
      <3> QED BY <1>1, <1>2, <2>1, <3>1
    <2> QED BY <1>1, <2>1, <2>2, <2>3 DEF S, I
  <1>7. Flow(k, s \o line, r, out, inp \o line, "read")
    BY <1>3, <1>5, <1>6 DEF Flow
  <1>8. Served(k, s \o line, r, out, b, inp \o line, "read")
    BY <1>4, <1>5, <1>6 DEF Served
  <1> QED BY <1>7, <1>8

(* The cells a client reads are the next ones it sent.                     *)
LEMMA FlowReadEcho ==
    ASSUME NEW k, NEW s \in Seq(Cell), NEW r \in Seq(Cell),
           NEW out \in Seq(Cell), NEW inp \in Seq(Cell), NEW b \in Seq(Cell),
           Flow(k, s, r, out, inp, "read"), NEW n \in 0 .. Len(out)
    PROVE  LET r1 == r \o SubSeq(out, 1, n)
               o1 == SubSeq(out, n + 1, Len(out))
           IN  /\ r1 \in Seq(Cell) /\ o1 \in Seq(Cell) /\ Len(r1) = Len(r) + n
               /\ Flow(k, s, r1, o1, inp, "input")
               /\ Served(k, s, r, out, b, inp, "read") =>
                     Served(k, s, r1, o1, b, inp, "input")
  <1> DEFINE h == SubSeq(out, 1, n)
             r1 == r \o h
             o1 == SubSeq(out, n + 1, Len(out))
  <1>1. /\ Run(s, k, 0) /\ Run(r, k, 0) /\ Run(out, k, Len(r))
        /\ Len(r) + Len(out) <= Len(s)
    BY DEF Flow
  <1>2. /\ h \in Seq(Cell) /\ Len(h) = n /\ o1 \in Seq(Cell)
        /\ Len(o1) = Len(out) - n
        /\ Run(h, k, Len(r)) /\ Run(o1, k, Len(r) + n)
    BY <1>1, RunSplit
  <1>3. Len(r) \in Nat /\ n \in Nat /\ Len(out) \in Nat /\ 0 + Len(r) = Len(r)
    OBVIOUS
  <1> HIDE DEF h, o1
  <1>4. r1 \in Seq(Cell) /\ Len(r1) = Len(r) + n
    <2>1. h \in Seq(Cell)
      BY <1>2
    <2>2. r1 \in Seq(Cell) /\ Len(r1) = Len(r) + Len(h)
      BY <2>1
    <2> QED BY <1>2, <2>2
  <1>5. Run(r1, k, 0)
    BY <1>1, <1>2, <1>3, RunConcat
  <1> HIDE DEF r1
  <1>6. Len(r1) + Len(o1) = Len(r) + Len(out)
    BY <1>2, <1>3, <1>4
  <1>7. Run(o1, k, Len(r1)) /\ Len(r1) + Len(o1) <= Len(s) /\ Len(r1) <= Len(s)
    BY <1>1, <1>2, <1>3, <1>4, <1>6
  <1>8. Flow(k, s, r1, o1, inp, "input")
    BY <1>1, <1>5, <1>7 DEF Flow
  <1>9. Served(k, s, r, out, b, inp, "read") =>
            Served(k, s, r1, o1, b, inp, "input")
    <2> DEFINE m == Len(r) + Len(out)
    <2>1. m = Len(r1) + Len(o1)
      BY <1>6
    <2> HIDE DEF m
    <2>2. Served(k, s, r, out, b, inp, "read") =>
            /\ m + Len(b) + Len(inp) <= Len(s) /\ Run(b, k, m)
            /\ Run(inp, k, m + Len(b)) /\ Len(s) = m + Len(b) + Len(inp)
      BY Zenon DEF Served, m
    <2> QED BY <2>1, <2>2, Zenon DEF Served
  <1> QED BY <1>2, <1>4, <1>8, <1>9 DEF h, r1, o1

(* After a client left only what it received counts.                       *)
LEMMA FlowQuit ==
    ASSUME NEW k, NEW s, NEW r, NEW out, NEW inp, NEW b, NEW l,
           Len(s) \in Nat, Len(r) \in Nat, Len(out) \in Nat,
           Len(inp) \in Nat, Len(b) \in Nat,
           Flow(k, s, r, out, inp, l), NEW rest, rest = inp \/ rest = <<>>
    PROVE  /\ Flow(k, s, r, <<>>, rest, "gone")
           /\ Served(k, s, r, out, b, inp, l) =>
                 Served(k, s, r, <<>>, b, rest, "gone")
  <1>1. Len(<<>>) = 0
    OBVIOUS
  <1>2. Flow(k, s, r, <<>>, rest, "gone")
    BY DEF Flow
  <1>3. ASSUME Served(k, s, r, out, b, inp, l)
        PROVE  Len(r) + Len(<<>>) + Len(b) + Len(rest) <= Len(s)
    <2>1. Len(r) + Len(out) + Len(b) + Len(inp) <= Len(s)
      BY <1>3 DEF Served
    <2>2. Len(rest) \in Nat /\ Len(rest) <= Len(inp)
      BY <1>1
    <2> QED BY <1>1, <2>1, <2>2
  <1> QED BY <1>2, <1>3 DEF Served

-----------------------------------------------------------------------------
(* Every client's cells are in their place; bf[k] is what a server process *)
(* has read from client k and not yet written back.                        *)
InPlace(sn, rc, cn, at, tab, bl, bf) ==
    \A k \in Conns :
        /\ Kept(k, sn[k], rc[k], cn[k], at[k])
        /\ Has(tab, bl, k) => Echoed(k, sn[k], rc[k], cn[k], bf[k], at[k])
        /\ at[k] = "off" => bf[k] = <<>>

(* The abstract service, as both families of servers instantiate it.       *)
Promised == INSTANCE EchoService WITH Peers <- Conns, Cells <- Cell,
                                      back <- rcvd

(* What the other lemmas need of a step of client k.                       *)
ClientStep(k, bf) ==
    /\ NetTypeOK' /\ fdt' = fdt /\ status' = status
    /\ \A j \in Conns \ {k} :
          /\ conn'[j] = conn[j] /\ cl'[j] = cl[j]
          /\ sent'[j] = sent[j] /\ rcvd'[j] = rcvd[j]
    /\ cl'[k] # "off"
    /\ cl[k] = "gone" => cl'[k] = "gone" /\ sent'[k] = sent[k] /\ rcvd'[k] = rcvd[k]
    /\ \/ backlog' = backlog
       \/ cl[k] = "off" /\ Listening /\ backlog' = Append(backlog, k)
    /\ Kept(k, sent'[k], rcvd'[k], conn'[k], cl'[k])
    /\ Has(fdt, backlog', k) =>
          Echoed(k, sent'[k], rcvd'[k], conn'[k], bf[k], cl'[k])
    /\ [Promised!Next]_<<sent, rcvd>>

(* connect() keeps the connections in place.                               *)
LEMMA ConnectStep ==
    ASSUME NetTypeOK, NEW bf \in [Conns -> Seq(Cell)],
           InPlace(sent, rcvd, conn, cl, fdt, backlog, bf),
           NEW k \in Conns, Connect(k)
    PROVE  ClientStep(k, bf)
  <1> USE DEF NetTypeOK
  <1>1. UNCHANGED <<conn, sent, rcvd, fdt, status>> /\ cl[k] = "off"
    BY DEF Connect
  <1>2. Kept(k, sent[k], rcvd[k], conn[k], "off") /\ bf[k] = <<>>
    BY <1>1 DEF InPlace
  <1>3. ~ Has(fdt, backlog, k)
    BY <1>1 DEF InPlace, Echoed, Served
  <1>4. /\ Kept(k, sent[k], rcvd[k], conn[k], "input")
        /\ Kept(k, sent[k], rcvd[k], conn[k], "gone")
        /\ Echoed(k, sent[k], rcvd[k], conn[k], <<>>, "input")
    <2>1. sent[k] \in Seq(Cell) /\ rcvd[k] \in Seq(Cell) /\ conn[k] \in Connection
      OBVIOUS
    <2> QED BY <1>2, <2>1, FlowConnect
  <1>5. CASE Listening
    <2>1. cl' = [cl EXCEPT ![k] = "input"] /\ backlog' = Append(backlog, k)
      BY <1>5 DEF Connect
    <2>2. /\ cl' \in [Conns -> {"off", "input", "read", "gone"}]
          /\ cl'[k] = "input" /\ \A j \in Conns \ {k} : cl'[j] = cl[j]
      BY <2>1
    <2>3. backlog' \in Seq(Conns)
      BY <2>1
    <2> QED BY <1>1, <1>2, <1>4, <1>5, <2>1, <2>2, <2>3 DEF ClientStep
  <1>6. CASE ~ Listening
    <2>1. cl' = [cl EXCEPT ![k] = "gone"] /\ backlog' = backlog
      BY <1>6 DEF Connect
    <2>2. /\ cl' \in [Conns -> {"off", "input", "read", "gone"}]
          /\ cl'[k] = "gone" /\ \A j \in Conns \ {k} : cl'[j] = cl[j]
      BY <2>1
    <2> QED BY <1>1, <1>3, <1>4, <2>1, <2>2 DEF ClientStep
  <1> QED BY <1>5, <1>6

(* write() of a line does.                                                 *)
LEMMA WriteLineStep ==
    ASSUME NetTypeOK, NEW bf \in [Conns -> Seq(Cell)],
           InPlace(sent, rcvd, conn, cl, fdt, backlog, bf),
           NEW k \in Conns, NEW m \in Nat, WriteLine(k, m)
    PROVE  ClientStep(k, bf)
  <1> USE DEF NetTypeOK
  <1> DEFINE s == sent[k]
             line == [i \in 1 .. m |-> <<k, Len(s) + i>>]
  <1>1. UNCHANGED <<backlog, rcvd, fdt, status>> /\ cl[k] = "input"
    BY DEF WriteLine
  <1>2. Kept(k, s, rcvd[k], conn[k], "input")
    BY <1>1 DEF InPlace
  <1>3. /\ s \in Seq(Cell) /\ rcvd[k] \in Seq(Cell) /\ conn[k] \in Connection
        /\ conn[k].c2s \in Seq(Cell) /\ conn[k].s2c \in Seq(Cell)
        /\ bf[k] \in Seq(Cell) /\ Len(s) \in Nat
    BY DEF Connection
  <1>4. line \in Seq(Cell) /\ Len(line) = m /\ Run(line, k, Len(s))
    <2> HIDE DEF s
    <2>1. \A i \in 1 .. m : <<k, Len(s) + i>> \in Cell
      BY <1>3 DEF Cell
    <2>2. line \in Seq(Cell) /\ Len(line) = m
      <3>1. line \in [1 .. m -> Cell]
        BY <2>1
      <3> HIDE DEF line
      <3> QED BY <3>1
    <2>3. \A i \in 1 .. m : line[i] = <<k, Len(s) + i>>
      OBVIOUS
    <2> HIDE DEF line
    <2> QED BY <2>2, <2>3 DEF Run
  <1>5. CASE Has(fdt, backlog, k)
    <2> DEFINE c1 == [conn[k] EXCEPT !.c2s = @ \o line]
    <2>1. /\ cl' = [cl EXCEPT ![k] = "read"]
          /\ sent' = [sent EXCEPT ![k] = s \o line]
          /\ conn' = [conn EXCEPT ![k] = c1]
      BY <1>5, ServerHasIs DEF WriteLine
    <2> HIDE DEF line
    <2>2. s \o line \in Seq(Cell) /\ conn[k].c2s \o line \in Seq(Cell)
      <3>1. \A q \in Seq(Cell) : q \o line \in Seq(Cell)
        BY <1>4
      <3> HIDE DEF s
      <3> QED BY <1>3, <3>1
    <2>3. /\ c1 \in Connection /\ c1.c2s = conn[k].c2s \o line
          /\ c1.s2c = conn[k].s2c /\ c1.cli = conn[k].cli /\ c1.rst = conn[k].rst
      BY <1>3, <2>2 DEF Connection
    <2> HIDE DEF c1
    <2>4. /\ cl' \in [Conns -> {"off", "input", "read", "gone"}]
          /\ cl'[k] = "read" /\ \A j \in Conns \ {k} : cl'[j] = cl[j]
      BY <2>1
    <2>5. /\ sent' \in [Conns -> Seq(Cell)] /\ sent'[k] = s \o line
          /\ \A j \in Conns \ {k} : sent'[j] = sent[j]
      BY <2>1, <2>2
    <2>6. /\ conn' \in [Conns -> Connection] /\ conn'[k] = c1
          /\ \A j \in Conns \ {k} : conn'[j] = conn[j]
      BY <2>1, <2>3
    <2>7. /\ Flow(k, s, rcvd[k], conn[k].s2c, conn[k].c2s, "input")
          /\ Served(k, s, rcvd[k], conn[k].s2c, bf[k], conn[k].c2s, "input")
      BY <1>1, <1>2, <1>5 DEF InPlace, Kept, Echoed
    <2>8. /\ Flow(k, s \o line, rcvd[k], conn[k].s2c, conn[k].c2s \o line, "read")
          /\ Served(k, s \o line, rcvd[k], conn[k].s2c, bf[k],
                    conn[k].c2s \o line, "read")
      <3> DEFINE o == conn[k].s2c
                 i == conn[k].c2s
                 r == rcvd[k]
                 b == bf[k]
      <3>1. /\ s \in Seq(Cell) /\ r \in Seq(Cell) /\ o \in Seq(Cell)
            /\ i \in Seq(Cell) /\ b \in Seq(Cell)
            /\ Flow(k, s, r, o, i, "input") /\ Served(k, s, r, o, b, i, "input")
        BY <1>3, <2>7
      <3> HIDE DEF s, r, o, i, b
      <3>2. /\ Flow(k, s \o line, r, o, i \o line, "read")
            /\ Served(k, s \o line, r, o, b, i \o line, "read")
        BY <1>4, <3>1, FlowLine
      <3> QED BY <3>2 DEF r, o, i, b
    <2>9. /\ Kept(k, sent'[k], rcvd'[k], conn'[k], cl'[k])
          /\ Echoed(k, sent'[k], rcvd'[k], conn'[k], bf[k], cl'[k])
      <3>1. conn[k].cli = TRUE /\ conn[k].rst = "no"
        BY <1>2 DEF Kept
      <3>2. /\ Kept(k, s \o line, rcvd[k], c1, "read")
            /\ Echoed(k, s \o line, rcvd[k], c1, bf[k], "read")
        BY <2>3, <2>8, <3>1 DEF Kept, Echoed
      <3> QED BY <1>1, <2>4, <2>5, <2>6, <3>2
    <2>10. Promised!Send(k)
      <3>1. SubSeq(s \o line, 1, Len(s)) = s
        <4>1. Run(s, k, 0) /\ Run(s \o line, k, 0)
          BY <2>7, <2>8 DEF Flow
        <4>2. Len(s) <= Len(s \o line)
          BY <1>3, <1>4
        <4> HIDE DEF s
        <4> QED BY <1>3, <2>2, <4>1, <4>2, RunPrefix
      <3> QED BY <1>1, <2>1, <2>2, <2>5, <3>1 DEF Promised!Send
    <2>11. [Promised!Next]_<<sent, rcvd>>
      BY <2>10 DEF Promised!Next
    <2> QED BY <1>1, <2>4, <2>5, <2>6, <2>9, <2>11 DEF ClientStep
  <1>6. CASE ~ Has(fdt, backlog, k)
    <2>1. /\ UNCHANGED <<sent, conn>>
          /\ \E x \in {"read", "gone"} : cl' = [cl EXCEPT ![k] = x]
      BY <1>6, ServerHasIs DEF WriteLine
    <2>2. PICK x \in {"read", "gone"} : cl' = [cl EXCEPT ![k] = x]
      BY <2>1
    <2>3. /\ cl' \in [Conns -> {"off", "input", "read", "gone"}]
          /\ cl'[k] = x /\ \A j \in Conns \ {k} : cl'[j] = cl[j]
      BY <2>2
    <2>4. Kept(k, s, rcvd[k], conn[k], x)
      BY <1>2 DEF Kept, Flow
    <2>5. Kept(k, sent'[k], rcvd'[k], conn'[k], cl'[k])
      BY <1>1, <2>1, <2>3, <2>4
    <2> QED BY <1>1, <1>6, <2>1, <2>3, <2>5 DEF ClientStep
  <1> QED BY <1>5, <1>6

(* read() of an echo does.                                                 *)
LEMMA ReadEchoStep ==
    ASSUME NetTypeOK, EchoNetAssumption, NEW bf \in [Conns -> Seq(Cell)],
           InPlace(sent, rcvd, conn, cl, fdt, backlog, bf),
           NEW k \in Conns, ReadEcho(k)
    PROVE  ClientStep(k, bf)
  <1> USE DEF NetTypeOK
  <1> DEFINE s == sent[k]
             r == rcvd[k]
             o == conn[k].s2c
             i == conn[k].c2s
  <1>1. /\ UNCHANGED <<backlog, sent, fdt, status>> /\ cl[k] = "read"
        /\ cl' = [cl EXCEPT ![k] = "input"]
    BY DEF ReadEcho
  <1>2. /\ cl' \in [Conns -> {"off", "input", "read", "gone"}]
        /\ cl'[k] = "input" /\ \A j \in Conns \ {k} : cl'[j] = cl[j]
    BY <1>1
  <1>3. /\ s \in Seq(Cell) /\ r \in Seq(Cell) /\ conn[k] \in Connection
        /\ o \in Seq(Cell) /\ i \in Seq(Cell) /\ bf[k] \in Seq(Cell)
    BY DEF Connection
  <1>4. Kept(k, s, r, conn[k], "read")
    BY <1>1 DEF InPlace
  <1>5. /\ Flow(k, s, r, o, i, "read") /\ conn[k].cli = TRUE
        /\ conn[k].rst = "no"
    BY <1>4 DEF Kept
  <1>6. Has(fdt, backlog, k) => Served(k, s, r, o, bf[k], i, "read")
    BY <1>1 DEF InPlace, Echoed
  <1>7. ASSUME NEW q \in Seq(Cell)
        PROVE  LET c1 == [conn[k] EXCEPT !.s2c = q]
               IN  /\ c1 \in Connection /\ c1.s2c = q /\ c1.c2s = i
                   /\ c1.cli = TRUE /\ c1.rst = "no"
    BY <1>3, <1>5 DEF Connection
  <1>8. ASSUME NEW n \in 1 .. Lesser(BufCells, Len(o)),
               rcvd' = [rcvd EXCEPT ![k] = r \o SubSeq(o, 1, n)],
               conn' = [conn EXCEPT ![k].s2c = SubSeq(@, n + 1, Len(@))]
        PROVE  ClientStep(k, bf)
    <2> DEFINE r1 == r \o SubSeq(o, 1, n)
               o1 == SubSeq(o, n + 1, Len(o))
               c1 == [conn[k] EXCEPT !.s2c = o1]
    <2>1. n \in 0 .. Len(o) /\ n \in Nat /\ n > 0
      BY <1>3 DEF Lesser, EchoNetAssumption
    <2>2. /\ r1 \in Seq(Cell) /\ o1 \in Seq(Cell) /\ Len(r1) = Len(r) + n
          /\ Flow(k, s, r1, o1, i, "input")
          /\ Served(k, s, r, o, bf[k], i, "read") =>
                Served(k, s, r1, o1, bf[k], i, "input")
      <3> DEFINE b == bf[k]
      <3>1. b \in Seq(Cell)
        BY <1>3
      <3> HIDE DEF s, r, o, i, b
      <3>2. LET R == r \o SubSeq(o, 1, n)
                O == SubSeq(o, n + 1, Len(o))
            IN  /\ R \in Seq(Cell) /\ O \in Seq(Cell) /\ Len(R) = Len(r) + n
                /\ Flow(k, s, R, O, i, "input")
                /\ Served(k, s, r, o, b, i, "read") =>
                      Served(k, s, R, O, b, i, "input")
        BY <1>3, <1>5, <2>1, <3>1, FlowReadEcho
      <3> QED BY <3>2 DEF b
    <2>3. conn' = [conn EXCEPT ![k] = c1] /\ rcvd' = [rcvd EXCEPT ![k] = r1]
      BY <1>8
    <2>4. Len(r) + 1 <= Len(r1)
      <3>1. Len(r) \in Nat /\ Len(r1) = Len(r) + n
        BY <1>3, <2>2
      <3> QED BY <2>1, <3>1
    <2> HIDE DEF r1, o1
    <2>5. /\ c1 \in Connection /\ c1.s2c = o1 /\ c1.c2s = i
          /\ c1.cli = TRUE /\ c1.rst = "no"
      BY <1>7, <2>2
    <2> HIDE DEF c1
    <2>6. /\ conn' \in [Conns -> Connection] /\ conn'[k] = c1
          /\ \A j \in Conns \ {k} : conn'[j] = conn[j]
      BY <2>3, <2>5
    <2>7. /\ rcvd' \in [Conns -> Seq(Cell)] /\ rcvd'[k] = r1
          /\ \A j \in Conns \ {k} : rcvd'[j] = rcvd[j]
      BY <2>2, <2>3
    <2>8. Kept(k, s, r1, c1, "input")
      BY <2>2, <2>5 DEF Kept
    <2>9. Has(fdt, backlog, k) => Echoed(k, s, r1, c1, bf[k], "input")
      BY <1>6, <2>2, <2>5 DEF Echoed
    <2>10. Promised!Return(k)
      <3>1. Len(r1) <= Len(s) /\ Run(r1, k, 0) /\ Run(s, k, 0)
        BY <2>2 DEF Flow
      <3>2. SubSeq(s, 1, Len(r1)) = r1
        <4> HIDE DEF s
        <4> QED BY <1>3, <2>2, <3>1, RunPrefix
      <3>3. Len(r1) \in Len(r) + 1 .. Len(s)
        <4>1. Len(r) \in Nat /\ Len(s) \in Nat /\ Len(r1) \in Nat
          BY <1>3, <2>2
        <4> QED BY <2>4, <3>1, <4>1
      <3>4. rcvd' = [rcvd EXCEPT ![k] = SubSeq(s, 1, Len(r1))]
        BY <2>3, <3>2
      <3> QED BY <1>1, <3>3, <3>4 DEF Promised!Return
    <2>11. [Promised!Next]_<<sent, rcvd>>
      BY <2>10 DEF Promised!Next
    <2> QED BY <1>1, <1>2, <2>6, <2>7, <2>8, <2>9, <2>11 DEF ClientStep
  <1>9. CASE /\ ~ Has(fdt, backlog, k) /\ rcvd' = rcvd
             /\ conn' = [conn EXCEPT ![k].s2c = <<>>]
    <2> DEFINE c1 == [conn[k] EXCEPT !.s2c = <<>>]
    <2>1. conn' = [conn EXCEPT ![k] = c1] /\ <<>> \in Seq(Cell)
      BY <1>9
    <2>2. /\ c1 \in Connection /\ c1.s2c = <<>> /\ c1.c2s = i
          /\ c1.cli = TRUE /\ c1.rst = "no"
      BY <1>7, <2>1
    <2> HIDE DEF c1
    <2>3. /\ conn' \in [Conns -> Connection] /\ conn'[k] = c1
          /\ \A j \in Conns \ {k} : conn'[j] = conn[j]
      BY <2>1, <2>2
    <2>4. Kept(k, s, r, c1, "input")
      <3>1. Len(r) + Len(<<>>) <= Len(s)
        <4>1. Len(r) <= Len(s) /\ Len(r) \in Nat /\ Len(<<>>) = 0
          BY <1>3, <1>5 DEF Flow
        <4> QED BY <4>1
      <3>2. Flow(k, s, r, <<>>, i, "input")
        BY <1>5, <3>1, RunEmpty DEF Flow
      <3> QED BY <2>2, <3>2 DEF Kept
    <2> QED BY <1>1, <1>2, <1>9, <2>3, <2>4 DEF ClientStep
  <1>10. \/ \E n \in 1 .. Lesser(BufCells, Len(o)) :
               /\ rcvd' = [rcvd EXCEPT ![k] = r \o SubSeq(o, 1, n)]
               /\ conn' = [conn EXCEPT ![k].s2c = SubSeq(@, n + 1, Len(@))]
         \/ /\ ~ Has(fdt, backlog, k) /\ rcvd' = rcvd
            /\ conn' = [conn EXCEPT ![k].s2c = <<>>]
    BY ServerHasIs DEF ReadEcho
  <1> QED BY <1>8, <1>9, <1>10

(* The end of a client does.                                               *)
LEMMA QuitStep ==
    ASSUME NetTypeOK, NEW bf \in [Conns -> Seq(Cell)],
           InPlace(sent, rcvd, conn, cl, fdt, backlog, bf),
           NEW k \in Conns, Quit(k)
    PROVE  ClientStep(k, bf)
  <1> USE DEF NetTypeOK
  <1>1. /\ UNCHANGED <<backlog, sent, rcvd, fdt, status>>
        /\ cl[k] \in {"input", "read"} /\ cl' = [cl EXCEPT ![k] = "gone"]
    BY DEF Quit
  <1>2. /\ cl' \in [Conns -> {"off", "input", "read", "gone"}]
        /\ cl'[k] = "gone" /\ \A j \in Conns \ {k} : cl'[j] = cl[j]
    BY <1>1
  <1>3. /\ conn[k] \in Connection /\ conn[k].c2s \in Seq(Cell)
        /\ conn[k].s2c \in Seq(Cell) /\ <<>> \in Seq(Cell)
    BY DEF Connection
  <1>4. PICK rest \in Seq(Cell), x \in {"no", "err", "shut"} :
           /\ rest = conn[k].c2s \/ rest = <<>>
           /\ conn' = [conn EXCEPT ![k] = [conn[k] EXCEPT
                         !.cli = FALSE, !.s2c = <<>>, !.c2s = rest, !.rst = x]]
    <2> DEFINE c == [conn[k] EXCEPT !.cli = FALSE, !.s2c = <<>>]
               abort == conn[k].s2c # <<>> /\ ServerHas(k)
    <2>1. PICK rest \in {c.c2s} \cup (IF abort THEN {<<>>} ELSE {}) :
             conn' = [conn EXCEPT ![k] = [c EXCEPT !.c2s = rest,
                        !.rst = IF abort /\ @ = "no" THEN "err" ELSE @]]
      BY DEF Quit
    <2>2. /\ c.c2s = conn[k].c2s /\ c.rst = conn[k].rst
          /\ conn[k].rst \in {"no", "err", "shut"}
      BY <1>3 DEF Connection
    <2>3. rest = conn[k].c2s \/ rest = <<>>
      BY <2>1, <2>2
    <2>4. PICK x \in {"no", "err", "shut"} :
             x = IF abort /\ c.rst = "no" THEN "err" ELSE c.rst
      BY <2>2
    <2> HIDE DEF abort
    <2>5. [c EXCEPT !.c2s = rest, !.rst = IF abort /\ @ = "no" THEN "err" ELSE @]
            = [conn[k] EXCEPT !.cli = FALSE, !.s2c = <<>>, !.c2s = rest, !.rst = x]
      BY <1>3, <2>4 DEF Connection
    <2>6. rest \in Seq(Cell)
      BY <1>3, <2>3
    <2> QED BY <2>1, <2>3, <2>5, <2>6
  <1> DEFINE c1 == [conn[k] EXCEPT
                       !.cli = FALSE, !.s2c = <<>>, !.c2s = rest, !.rst = x]
  <1>5. /\ c1 \in Connection /\ c1.cli = FALSE /\ c1.s2c = <<>>
        /\ c1.c2s = rest
    BY <1>3 DEF Connection
  <1>6. conn' = [conn EXCEPT ![k] = c1]
    BY <1>4
  <1> HIDE DEF c1
  <1>7. /\ conn' \in [Conns -> Connection] /\ conn'[k] = c1
        /\ \A j \in Conns \ {k} : conn'[j] = conn[j]
    BY <1>5, <1>6
  <1> DEFINE s == sent[k]
             r == rcvd[k]
             o == conn[k].s2c
             i == conn[k].c2s
             b == bf[k]
  <1>8. /\ Flow(k, s, r, <<>>, rest, "gone")
        /\ Served(k, s, r, o, b, i, cl[k]) =>
              Served(k, s, r, <<>>, b, rest, "gone")
    <2>1. Flow(k, s, r, o, i, cl[k])
      BY DEF InPlace, Kept
    <2>2. /\ Len(s) \in Nat /\ Len(r) \in Nat /\ Len(o) \in Nat
          /\ Len(i) \in Nat /\ Len(b) \in Nat
      BY <1>3
    <2>3. rest = i \/ rest = <<>>
      BY <1>4
    <2> HIDE DEF s, r, o, i, b
    <2> QED BY <2>1, <2>2, <2>3, FlowQuit
  <1>9. Kept(k, s, r, c1, "gone")
    BY <1>5, <1>8 DEF Kept
  <1>10. Has(fdt, backlog, k) => Echoed(k, s, r, c1, b, "gone")
    BY <1>5, <1>8 DEF Echoed, InPlace
  <1> QED BY <1>1, <1>2, <1>7, <1>9, <1>10 DEF ClientStep

(* A step of any client keeps every cell in its place and is a step of the *)
(* abstract service, or changes nothing the service shows.                 *)
LEMMA ClientKeeps ==
    ASSUME NetTypeOK, EchoNetAssumption, NEW bf \in [Conns -> Seq(Cell)],
           InPlace(sent, rcvd, conn, cl, fdt, backlog, bf),
           NEW k \in Conns, Client(k)
    PROVE  /\ ClientStep(k, bf)
           /\ InPlace(sent', rcvd', conn', cl', fdt', backlog', bf)
  <1>1. ClientStep(k, bf)
    <2>1. ASSUME NEW m \in 0 .. MaxMsg, WriteLine(k, m) PROVE ClientStep(k, bf)
      <3>1. m \in Nat
        BY DEF EchoNetAssumption
      <3> QED BY <2>1, <3>1, WriteLineStep
    <2> QED BY <2>1, ConnectStep, ReadEchoStep, QuitStep DEF Client
  <1>2. ASSUME NEW j \in Conns \ {k}, Has(fdt', backlog', j)
        PROVE  Has(fdt, backlog, j)
    <2>1. fdt' = fdt
      BY <1>1 DEF ClientStep
    <2>2. Pending(backlog', j) => Pending(backlog, j)
      <3>1. CASE backlog' = backlog
        BY <3>1
      <3>2. CASE backlog' = Append(backlog, k)
        <4>1. backlog \in Seq(Conns)
          BY DEF NetTypeOK
        <4> QED BY <3>2, <4>1 DEF Pending
      <3> QED BY <1>1, <3>1, <3>2 DEF ClientStep
    <2> QED BY <1>2, <2>1, <2>2 DEF Has
  <1>3. ASSUME NEW j \in Conns
        PROVE  /\ Kept(j, sent'[j], rcvd'[j], conn'[j], cl'[j])
               /\ Has(fdt', backlog', j) =>
                     Echoed(j, sent'[j], rcvd'[j], conn'[j], bf[j], cl'[j])
               /\ cl'[j] = "off" => bf[j] = <<>>
    <2>1. CASE j = k
      BY <1>1, <2>1 DEF ClientStep
    <2>2. CASE j # k
      <3>1. /\ conn'[j] = conn[j] /\ cl'[j] = cl[j]
            /\ sent'[j] = sent[j] /\ rcvd'[j] = rcvd[j]
        BY <1>1, <2>2 DEF ClientStep
      <3> QED BY <1>2, <2>2, <3>1 DEF InPlace
    <2> QED BY <2>1, <2>2
  <1> QED BY <1>1, <1>3 DEF InPlace

-----------------------------------------------------------------------------
(* The steps of a server, on the cells.                                    *)

(* The connections are in place at first.                                  *)
LEMMA StartsInPlace ==
    ASSUME NetInit, EchoNetAssumption, NEW bf,
           \A k \in Conns : bf[k] = <<>>
    PROVE  /\ NetTypeOK
           /\ InPlace(sent, rcvd, conn, cl, fdt, backlog, bf)
           /\ Promised!Init
  <1>1. NetTypeOK
    <2>1. <<>> \in Seq(Cell) /\ <<>> \in Seq(Conns)
      OBVIOUS
    <2>2. [c2s |-> <<>>, s2c |-> <<>>, cli |-> TRUE, rst |-> "no",
           cut |-> FALSE] \in Connection
      BY <2>1 DEF Connection
    <2>3. conn \in [Conns -> Connection]
      BY <2>2 DEF NetInit
    <2>4. NoFds \in [Fds -> -2 .. MaxConns]
      BY DEF NoFds, FREE, EchoNetAssumption
    <2>5. fdt \in [Procs -> [Fds -> -2 .. MaxConns]]
      BY <2>4 DEF NetInit
    <2> QED BY <2>1, <2>3, <2>5 DEF NetInit, NetTypeOK
  <1>2. ASSUME NEW k \in Conns
        PROVE  /\ Kept(k, sent[k], rcvd[k], conn[k], cl[k])
               /\ ~ Has(fdt, backlog, k)
    <2>1. /\ sent[k] = <<>> /\ rcvd[k] = <<>> /\ cl[k] = "off"
          /\ conn[k].c2s = <<>> /\ conn[k].s2c = <<>>
          /\ conn[k].cli = TRUE /\ conn[k].rst = "no"
      BY DEF NetInit
    <2>2. Flow(k, <<>>, <<>>, <<>>, <<>>, "off")
      BY RunEmpty DEF Flow
    <2>3. ~ Refers(fdt, k)
      <3>1. \A p \in Procs, fd \in Fds : fdt[p][fd] = 0
        BY DEF NetInit, NoFds, FREE
      <3>2. k # 0
        BY DEF Conns, EchoNetAssumption
      <3> QED BY <3>1, <3>2 DEF Refers
    <2>4. ~ Pending(backlog, k)
      BY DEF NetInit, Pending
    <2> QED BY <2>1, <2>2, <2>3, <2>4 DEF Kept, Has
  <1>3. Promised!Init
    BY DEF NetInit, Promised!Init
  <1> QED BY <1>1, <1>2, <1>3 DEF InPlace

(* Descriptors change hands: what is held on to stays in its place.        *)
LEMMA RetabKeeps ==
    ASSUME NetTypeOK, NEW bf,
           InPlace(sent, rcvd, conn, cl, fdt, backlog, bf),
           NEW tab \in Tables, NEW bl \in Seq(Conns), Retab(conn, tab, bl),
           NEW bf1,
           \A k \in Conns : Has(tab, backlog', k) =>
               Has(fdt, backlog, k) /\ bf1[k] = bf[k],
           \A k \in Conns : cl[k] = "off" => bf1[k] = <<>>
    PROVE  InPlace(sent, rcvd, conn', cl, fdt', backlog', bf1)
  <1>1. /\ fdt' = tab
        /\ \A k \in Conns :
              /\ conn'[k].s2c = conn[k].s2c /\ conn'[k].cli = conn[k].cli
              /\ conn'[k].rst = conn[k].rst
              /\ conn'[k].c2s = conn[k].c2s \/ conn'[k].c2s = <<>>
              /\ Has(tab, backlog', k) => conn'[k] = conn[k]
    <2>1. conn \in [Conns -> Connection]
      BY DEF NetTypeOK
    <2> QED BY <2>1, RetabEffect
  <1>2. ASSUME NEW k \in Conns
        PROVE  /\ Kept(k, sent[k], rcvd[k], conn'[k], cl[k])
               /\ Has(tab, backlog', k) =>
                     Echoed(k, sent[k], rcvd[k], conn'[k], bf1[k], cl[k])
    <2>1. Kept(k, sent[k], rcvd[k], conn[k], cl[k])
      BY DEF InPlace
    <2>2. Kept(k, sent[k], rcvd[k], conn'[k], cl[k])
      BY <1>1, <2>1, KeptCut
    <2>3. ASSUME Has(tab, backlog', k)
          PROVE  Echoed(k, sent[k], rcvd[k], conn'[k], bf1[k], cl[k])
      <3>1. Has(fdt, backlog, k) /\ bf1[k] = bf[k] /\ conn'[k] = conn[k]
        BY <1>1, <2>3
      <3> QED BY <3>1 DEF InPlace
    <2> QED BY <2>2, <2>3
  <1> QED BY <1>1, <1>2 DEF InPlace

(* A read of the server moves cells into the buffer of the one who serves. *)
LEMMA ReadKeeps ==
    ASSUME NetTypeOK, EchoNetAssumption, NEW bf \in [Conns -> Seq(Cell)],
           InPlace(sent, rcvd, conn, cl, fdt, backlog, bf),
           NEW k \in Conns, Has(fdt, backlog, k), bf[k] = <<>>,
           NEW n \in ReadResults(k), conn' = AfterRead(k, n),
           NEW bf1, bf1[k] = SubSeq(conn[k].c2s, 1, n),
           \A j \in Conns \ {k} : bf1[j] = bf[j]
    PROVE  InPlace(sent, rcvd, conn', cl, fdt, backlog, bf1)
  <1> DEFINE b == SubSeq(conn[k].c2s, 1, n)
  <1>1. /\ conn \in [Conns -> Connection] /\ sent[k] \in Seq(Cell)
        /\ rcvd[k] \in Seq(Cell)
    BY DEF NetTypeOK
  <1>2. /\ conn' \in [Conns -> Connection]
        /\ \A j \in Conns \ {k} : conn'[j] = conn[j]
        /\ conn'[k].s2c = conn[k].s2c /\ conn'[k].cli = conn[k].cli
        /\ conn'[k].rst = conn[k].rst \/
              (conn[k].rst = "err" /\ conn'[k].rst = "shut")
        /\ b \in Seq(Cell) /\ Splits(conn[k].c2s, b, conn'[k].c2s, k)
    BY <1>1, ReadEffect
  <1> HIDE DEF b
  <1>3. /\ Kept(k, sent[k], rcvd[k], conn[k], cl[k])
        /\ Echoed(k, sent[k], rcvd[k], conn[k], <<>>, cl[k])
    BY DEF InPlace
  <1>4. /\ Kept(k, sent[k], rcvd[k], conn'[k], cl[k])
        /\ Echoed(k, sent[k], rcvd[k], conn'[k], b, cl[k])
    <2> DEFINE s == sent[k]
               r == rcvd[k]
               c == conn[k]
               c1 == conn'[k]
               l == cl[k]
    <2>1. /\ s \in Seq(Cell) /\ r \in Seq(Cell) /\ c \in Connection
          /\ c1 \in Connection /\ b \in Seq(Cell)
          /\ Kept(k, s, r, c, l) /\ Echoed(k, s, r, c, <<>>, l)
          /\ c1.s2c = c.s2c /\ c1.cli = c.cli
          /\ c1.rst = c.rst \/ (c.rst = "err" /\ c1.rst = "shut")
          /\ Splits(c.c2s, b, c1.c2s, k)
      BY <1>1, <1>2, <1>3
    <2> HIDE DEF s, r, c, c1, l
    <2>2. Kept(k, s, r, c1, l) /\ Echoed(k, s, r, c1, b, l)
      BY <2>1, EchoedRead
    <2> QED BY <2>2 DEF s, r, c1, l
  <1>5. cl[k] # "off" /\ bf1[k] = b
    BY <1>3 DEF Echoed, Served, b
  <1> QED BY <1>2, <1>4, <1>5 DEF InPlace

(* A write of the server moves them from there to the client.              *)
LEMMA WriteKeeps ==
    ASSUME NetTypeOK, NEW bf \in [Conns -> Seq(Cell)],
           InPlace(sent, rcvd, conn, cl, fdt, backlog, bf),
           NEW k \in Conns, Has(fdt, backlog, k),
           NEW c1 \in AfterWrite(k, bf[k]), conn' = [conn EXCEPT ![k] = c1],
           NEW bf1, bf1[k] = <<>>, \A j \in Conns \ {k} : bf1[j] = bf[j]
    PROVE  /\ conn' \in [Conns -> Connection]
           /\ InPlace(sent, rcvd, conn', cl, fdt, backlog, bf1)
  <1>1. /\ conn \in [Conns -> Connection] /\ sent[k] \in Seq(Cell)
        /\ rcvd[k] \in Seq(Cell) /\ bf[k] \in Seq(Cell)
    BY DEF NetTypeOK
  <1>2. /\ c1 \in Connection /\ c1.c2s = conn[k].c2s /\ c1.cli = conn[k].cli
        /\ conn[k].cli /\ conn[k].rst = "no" =>
              c1.rst = "no" /\ c1.s2c = conn[k].s2c \o bf[k]
        /\ ~ conn[k].cli => c1.s2c = conn[k].s2c
    BY <1>1, WriteEffect
  <1>3. /\ Kept(k, sent[k], rcvd[k], conn[k], cl[k])
        /\ Echoed(k, sent[k], rcvd[k], conn[k], bf[k], cl[k])
    BY DEF InPlace
  <1>4. /\ Kept(k, sent[k], rcvd[k], c1, cl[k])
        /\ Echoed(k, sent[k], rcvd[k], c1, <<>>, cl[k])
    <2> DEFINE s == sent[k]
               r == rcvd[k]
               c == conn[k]
               b == bf[k]
               l == cl[k]
    <2>1. /\ s \in Seq(Cell) /\ r \in Seq(Cell) /\ c \in Connection
          /\ b \in Seq(Cell)
          /\ Kept(k, s, r, c, l) /\ Echoed(k, s, r, c, b, l)
          /\ c1 \in Connection /\ c1.c2s = c.c2s /\ c1.cli = c.cli
          /\ c.cli /\ c.rst = "no" => c1.rst = "no" /\ c1.s2c = c.s2c \o b
          /\ ~ c.cli => c1.s2c = c.s2c
      BY <1>1, <1>2, <1>3
    <2> HIDE DEF s, r, c, b, l
    <2>2. Kept(k, s, r, c1, l) /\ Echoed(k, s, r, c1, <<>>, l)
      BY <2>1, EchoedWrite
    <2> QED BY <2>2 DEF s, r, l
  <1>5. /\ conn' \in [Conns -> Connection] /\ conn'[k] = c1
        /\ \A j \in Conns \ {k} : conn'[j] = conn[j]
    BY <1>1, <1>2
  <1> QED BY <1>4, <1>5 DEF InPlace
=============================================================================

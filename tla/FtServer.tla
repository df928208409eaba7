------------------------------ MODULE FtServer ------------------------------
(***************************************************************************)
(* src/ft/ft-server.c: the accept loop of main and one session thread per  *)
(* accepted connection.  The two buffers msg and buf are globals: every    *)
(* session thread receives into, parses and answers from the same bytes.   *)
(*                                                                         *)
(* A thread's step ends where it makes a system call on its socket or      *)
(* before it uses again what it left in a shared buffer, so that another   *)
(* thread can get in between exactly where the buffers are exposed.        *)
(***************************************************************************)
EXTENDS FtWire, FiniteSets

CONSTANTS
    Absent,   \* fs value of a file that does not exist
    DirSize   \* st_size of a directory, in cells

ASSUME ServerAssumption ==
    /\ Absent \notin Seq(Cell)
    /\ IsFiniteSet(Files)
    /\ Files \cap Dirs = {}
    /\ DirSize \in Nat

VARIABLES
    main,     \* the accept loop; main.fd is its local variable client_fd
    th,       \* th[i]: the i-th session thread
    buf, msg, \* the shared buffers
    fs,       \* fs[d][f]: content of file f of directory d, or Absent
    cwd       \* the working directory, one for the process

serverVars == <<main, th, buf, msg, fs, cwd>>

ThreadPc == {"idle", "start", "recv", "dispatch", "fill", "send", "pwd",
             "fopen", "fread", "put_rest", "put_recv", "put_write",
             "put_close", "done"}

(* Where a thread goes on when its answer is sent.                         *)
AfterSend == {"recv", "pwd", "fopen", "fread"}

(* One send() of an answer: the shared buffer it is put together in (or    *)
(* "own" memory, as getcwd's) and what is written there, which fits.       *)
Piece == {s \in Seq(Cell) : Len(s) <= BufUnits}
Reply == [via : {"buf", "msg", "own"}, cells : Piece]
Via(b, cells) == [via |-> b, cells |-> cells]

Thread == [pc : ThreadPc, fd : 0 .. MaxConns, n : -1 .. BufUnits,
           todo : Seq(Reply), next : AfterSend,
           file : Names, dir : Dirs, pos : Nat, need : Nat, out : Seq(Cell)]

NewThread(d) ==
    [pc |-> "idle", fd |-> 0, n |-> 0, todo |-> <<>>, next |-> "recv",
     file |-> None, dir |-> d, pos |-> 0, need |-> 0, out |-> <<>>]

MainState == [pc : {"accept", "create"}, fd : 0 .. MaxConns,
              made : 0 .. MaxConns]

Buffer == [1 .. BufUnits -> Cell]
ZeroBuf == [i \in 1 .. BufUnits |-> Zero]

(* Outcome of a step that ends in undefined behaviour or SIGPIPE.          *)
Crash ==
    /\ up' = FALSE
    /\ net' = ServerClosed

Stat(d, f) == IF f \in Files THEN fs[d][f] ELSE Absent
Path(f) == IF f = None THEN cwd ELSE f

(* access(f, R_OK) and fopen(f, "rb") accept a directory, which then reads *)
(* as empty; its size is not 0.                                            *)
Readable(f) == f \in Dirs \/ Stat(cwd, f) # Absent
get_file_size(f) == IF f \in Dirs THEN DirSize ELSE Len(Stat(cwd, f))

-----------------------------------------------------------------------------
(* main                                                                    *)

(* Mutant: the first connection's descriptor is kept.                      *)
Accept_KeepsFd ==
    /\ up /\ main.pc = "accept" /\ backlog # <<>>
    /\ main' = [main EXCEPT !.pc = "create",
                            !.fd = IF @ = 0 THEN Head(backlog) ELSE @]
    /\ backlog' = Tail(backlog)
    /\ UNCHANGED <<net, nconn, up, th, buf, msg, fs, cwd>>

Accept ==
    /\ up /\ main.pc = "accept" /\ backlog # <<>>
    /\ main' = [main EXCEPT !.pc = "create", !.fd = Head(backlog)]
    /\ backlog' = Tail(backlog)
    /\ UNCHANGED <<net, nconn, up, th, buf, msg, fs, cwd>>

(* Thread i goes on as t.                                                  *)
Become(i, t) == th' = [th EXCEPT ![i] = t]

(* thrd_create hands the address of client_fd to the new thread.           *)
ThrdCreate ==
    /\ up /\ main.pc = "create" /\ main.made < MaxConns
    /\ main' = [main EXCEPT !.pc = "accept", !.made = @ + 1]
    /\ Become(main.made + 1, [th[main.made + 1] EXCEPT !.pc = "start"])
    /\ UNCHANGED <<wireVars, buf, msg, fs, cwd>>

Main == Accept \/ ThrdCreate

-----------------------------------------------------------------------------
(* session                                                                 *)

SessionStart(i) ==
    /\ up /\ th[i].pc = "start"
    /\ Become(i, [th[i] EXCEPT !.pc = "recv", !.fd = main.fd])
    /\ UNCHANGED <<wireVars, main, buf, msg, fs, cwd>>

(* recv(client_fd, buf, BUF_SIZE, 0) with result n, at either call site.   *)
RecvInto(i, n) ==
    /\ buf' = IF n > 0 THEN Overlay(buf, Cells(net[th[i].fd].c2s, n)) ELSE buf
    /\ net' = IF n > 0 THEN [net EXCEPT ![th[i].fd].c2s = Rest(@, n)] ELSE net

SessionRecv(i) ==
    /\ up /\ th[i].pc = "recv"
    /\ \E n \in SrvResults(th[i].fd) :
          /\ RecvInto(i, n)
          /\ Become(i, [th[i] EXCEPT !.pc = "dispatch", !.n = n])
    /\ UNCHANGED <<nconn, backlog, up, main, msg, fs, cwd>>

(* buf[n] = 0.  With n = BUF_SIZE or n = -1 the store misses buf; the      *)
(* linker may have put msg there.                                          *)
Terminated(n) ==
    IF n \in 0 .. BufUnits - 1 THEN [buf EXCEPT ![n + 1] = Zero] ELSE buf
Overrun(n) ==
    IF n \in 0 .. BufUnits - 1 THEN {msg}
    ELSE {msg, [msg EXCEPT ![IF n = -1 THEN BufUnits ELSE 1] = Zero]}

(* The request switch(buf[0]) sees: what is in the shared buffer now.      *)
Seen(i) == Terminated(th[i].n)[1]

Switch(i) ==
    /\ up /\ th[i].pc = "dispatch"
    /\ buf' = Terminated(th[i].n)

(* The thread goes on to send replies and then to step next.               *)
Answer(i, replies, next) ==
    Become(i, [th[i] EXCEPT !.pc = "fill", !.todo = replies, !.next = next])

(* The visible entries of a directory in the order readdir gives them.     *)
Listings(d) ==
    LET S == {f \in Files : fs[d][f] # Absent}
    IN  {e \in [1 .. Cardinality(S) -> S] :
            \A x, y \in DOMAIN e : e[x] = e[y] => x = y}

response_ls(i) ==
    /\ Switch(i) /\ Seen(i).k = "LS"
    /\ \/ /\ Path(Seen(i).f) \notin Dirs
          /\ msg' = ZeroBuf
          /\ Answer(i, << Via("msg", <<Text(Seen(i).f)>>),
                          Via("msg", <<End>>) >>, "recv")
       \/ /\ Path(Seen(i).f) \in Dirs
          /\ msg' \in Overrun(th[i].n)
          /\ \E e \in Listings(Path(Seen(i).f)) :
                Answer(i, [j \in 1 .. Len(e) |-> Via("buf", <<Text(e[j])>>)]
                             \o << Via("buf", <<End>>) >>, "recv")
    /\ UNCHANGED <<wireVars, main, fs, cwd>>

(* Mutant: pwd's answer lacks its END.                                     *)
PwdReplies_NoEnd == << Via("own", <<Text(cwd)>>) >>

PwdReplies == << Via("own", <<Text(cwd)>>), Via("buf", <<End>>) >>

response_pwd(i) ==
    /\ Switch(i) /\ Seen(i).k = "PWD"
    /\ msg' \in Overrun(th[i].n)
    /\ Answer(i, PwdReplies, "recv")
    /\ UNCHANGED <<wireVars, main, fs, cwd>>

(* Mutant: cd answers the directory it was in before chdir.                *)
response_cd_Stale(i) ==
    /\ Switch(i) /\ Seen(i).k = "CD"
    /\ cwd' = IF Path(Seen(i).f) \in Dirs THEN Path(Seen(i).f) ELSE cwd
    /\ msg' \in Overrun(th[i].n)
    /\ Answer(i, PwdReplies, "recv")
    /\ UNCHANGED <<wireVars, main, fs>>

response_cd(i) ==
    /\ Switch(i) /\ Seen(i).k = "CD"
    /\ \/ /\ Path(Seen(i).f) \in Dirs
          /\ cwd' = Path(Seen(i).f)
          /\ msg' \in Overrun(th[i].n)
          /\ Become(i, [th[i] EXCEPT !.pc = "pwd"])
       \/ /\ Path(Seen(i).f) \notin Dirs
          /\ cwd' = cwd
          /\ msg' = ZeroBuf
          /\ Answer(i, << Via("msg", <<Text(Seen(i).f)>>) >>, "pwd")
    /\ UNCHANGED <<wireVars, main, fs>>

(* response_pwd as response_cd's last call.                                *)
PwdAfterCd(i) ==
    /\ up /\ th[i].pc = "pwd"
    /\ Answer(i, PwdReplies, "recv")
    /\ UNCHANGED <<wireVars, main, buf, msg, fs, cwd>>

response_get(i) ==
    LET f == Seen(i).f IN
    /\ Switch(i) /\ Seen(i).k = "GET"
    /\ msg' = ZeroBuf
    /\ \/ /\ ~Readable(f)
          /\ Answer(i, << Via("msg", <<Failure(f)>>) >>, "recv")
       \/ /\ Readable(f)
          /\ LET size == get_file_size(f) % SizeMod
             IN  Answer(i, << Via("msg", <<Header(size)>>) >>, "fopen")
    /\ UNCHANGED <<wireVars, main, fs, cwd>>

(* Mutant: get opens the name it finds in msg, which its own header        *)
(* overwrote.                                                              *)
Fopen_FromMsg(i) ==
    /\ up /\ th[i].pc = "fopen"
    /\ IF ~Readable(msg[1].f)
       THEN Crash /\ UNCHANGED th
       ELSE /\ Become(i, [th[i] EXCEPT !.pc = "fread", !.pos = 0,
                                        !.file = msg[1].f, !.dir = cwd])
            /\ UNCHANGED <<net, up>>
    /\ UNCHANGED <<nconn, backlog, main, buf, msg, fs, cwd>>

(* fopen(filename, "rb"): filename still points into the shared buf.       *)
Fopen(i) ==
    /\ up /\ th[i].pc = "fopen"
    /\ IF ~Readable(buf[1].f)
       THEN Crash /\ UNCHANGED th
       ELSE /\ Become(i, [th[i] EXCEPT !.pc = "fread", !.pos = 0,
                                        !.file = buf[1].f, !.dir = cwd])
            /\ UNCHANGED <<net, up>>
    /\ UNCHANGED <<nconn, backlog, main, buf, msg, fs, cwd>>

Fread(i) ==
    LET t == th[i]
        file == IF t.file \in Dirs THEN <<>> ELSE fs[t.dir][t.file]
        chunk == SubSeq(file, t.pos + 1, Lesser(t.pos + BufUnits, Len(file)))
    IN
    /\ up /\ t.pc = "fread"
    /\ \/ /\ chunk = <<>>
          /\ Become(i, [th[i] EXCEPT !.pc = "recv"])
          /\ msg' = msg
       \/ /\ chunk # <<>>
          /\ Become(i, [th[i] EXCEPT !.pc = "send", !.next = "fread",
                                      !.todo = << Via("msg", chunk) >>,
                                      !.pos = @ + Len(chunk)])
          /\ msg' = Overlay(msg, chunk)
    /\ UNCHANGED <<wireVars, main, buf, fs, cwd>>

(* Mutant: put opens the file for writing without emptying it.             *)
response_put_NoTrunc(i) ==
    LET r == Seen(i) IN
    /\ Switch(i) /\ r.k = "PUT"
    /\ msg' \in Overrun(th[i].n)
    /\ IF th[i].n < 1 \/ r.f \notin Files
       THEN Crash /\ UNCHANGED <<th, fs>>
       ELSE /\ fs' = [fs EXCEPT ![cwd][r.f] = IF @ = Absent THEN <<>> ELSE @]
            /\ Become(i, [th[i] EXCEPT !.pc = "put_rest", !.file = r.f,
                                        !.dir = cwd, !.need = r.n])
            /\ UNCHANGED <<net, up>>
    /\ UNCHANGED <<nconn, backlog, main, cwd>>

(* Header, file name and fopen(filename, "wb"), which fails for a name     *)
(* that cannot be a file; n < offset makes fwrite's length wrap around.    *)
response_put(i) ==
    LET r == Seen(i) IN
    /\ Switch(i) /\ r.k = "PUT"
    /\ msg' \in Overrun(th[i].n)
    /\ IF th[i].n < 1 \/ r.f \notin Files
       THEN Crash /\ UNCHANGED <<th, fs>>
       ELSE /\ fs' = [fs EXCEPT ![cwd][r.f] = <<>>]
            /\ Become(i, [th[i] EXCEPT !.pc = "put_rest", !.file = r.f,
                                        !.dir = cwd, !.need = r.n])
            /\ UNCHANGED <<net, up>>
    /\ UNCHANGED <<nconn, backlog, main, cwd>>

(* Mutant: put stops one piece short of the announced size.                *)
PutOn_Short(out, need) ==
    IF Len(out) + 1 < need THEN "put_recv" ELSE "put_close"

(* More to receive, or all of fsize written?                               *)
PutOn(out, need) == IF Len(out) < need THEN "put_recv" ELSE "put_close"
Written(i, out) ==
    Become(i, [th[i] EXCEPT !.out = out, !.pc = PutOn(out, th[i].need)])

PutRest(i) ==
    /\ up /\ th[i].pc = "put_rest"
    /\ Written(i, SubSeq(buf, 2, th[i].n))
    /\ UNCHANGED <<wireVars, main, buf, msg, fs, cwd>>

(* recv inside response_put: -1 becomes fwrite's length and the process    *)
(* dies; 0 is written as no bytes and the loop goes round again.           *)
PutRecv(i) ==
    /\ up /\ th[i].pc = "put_recv"
    /\ \E n \in SrvResults(th[i].fd) :
          IF n = -1
          THEN Crash /\ UNCHANGED <<th, buf>>
          ELSE /\ RecvInto(i, n)
               /\ Become(i, [th[i] EXCEPT !.pc = "put_write", !.n = n])
               /\ up' = up
    /\ UNCHANGED <<nconn, backlog, main, msg, fs, cwd>>

PutWrite(i) ==
    /\ up /\ th[i].pc = "put_write"
    /\ Written(i, th[i].out \o SubSeq(buf, 1, th[i].n))
    /\ UNCHANGED <<wireVars, main, buf, msg, fs, cwd>>

(* fclose flushes what was written over the current content.               *)
PutClose(i) ==
    LET t == th[i] IN
    /\ up /\ t.pc = "put_close"
    /\ fs' = [fs EXCEPT ![t.dir][t.file] =
                 t.out \o SubSeq(@, Len(t.out) + 1, Len(@))]
    /\ Become(i, [th[i] EXCEPT !.pc = "fill", !.next = "recv", !.out = <<>>,
                                !.todo = << Via("buf", <<End>>) >>])
    /\ UNCHANGED <<wireVars, main, buf, msg, cwd>>

(* Mutant: exit goes back to recv like the other requests.                 *)
response_exit_GoesOn(i) ==
    /\ Switch(i) /\ Seen(i).k = "EXIT"
    /\ msg' \in Overrun(th[i].n)
    /\ Become(i, [th[i] EXCEPT !.pc = "recv"])
    /\ UNCHANGED <<wireVars, main, fs, cwd>>

response_exit(i) ==
    LET k == th[i].fd IN
    /\ Switch(i) /\ Seen(i).k = "EXIT"
    /\ msg' \in Overrun(th[i].n)
    /\ net' = IF k \in Conns THEN [net EXCEPT ![k].srv = FALSE] ELSE net
    /\ Become(i, [th[i] EXCEPT !.pc = "done"])
    /\ UNCHANGED <<nconn, backlog, up, main, fs, cwd>>

(* No case matches.  Logging ft_request_str[buf[0]] reads past the table   *)
(* unless the byte is 0.                                                   *)
NoCase(i) ==
    /\ Switch(i) /\ Seen(i).k \notin Requests
    /\ msg' \in Overrun(th[i].n)
    /\ Become(i, [th[i] EXCEPT !.pc = "recv"])
    /\ \/ UNCHANGED <<net, up>>
       \/ Seen(i).k # "ZERO" /\ Crash
    /\ UNCHANGED <<nconn, backlog, main, fs, cwd>>

-----------------------------------------------------------------------------
(* Sending an answer: put it into the buffer, then send from the buffer.   *)

Fill(i) ==
    LET r == Head(th[i].todo) IN
    /\ up /\ th[i].pc = "fill"
    /\ buf' = IF r.via = "buf" THEN Overlay(buf, r.cells) ELSE buf
    /\ msg' = IF r.via = "msg" THEN Overlay(msg, r.cells) ELSE msg
    /\ Become(i, [th[i] EXCEPT !.pc = "send"])
    /\ UNCHANGED <<wireVars, main, fs, cwd>>

(* What send() finds in the buffer by the time it runs.                    *)
InBuffer(r) ==
    IF r.via = "own" THEN r.cells
    ELSE SubSeq(IF r.via = "buf" THEN buf ELSE msg, 1, Len(r.cells))

(* Mutant: the loop over the answers goes on after the last one.           *)
Send_OneMore(i) ==
    LET t == th[i]
        k == t.fd
        r == Head(t.todo)
    IN
    /\ up /\ t.pc = "send"
    /\ Become(i, [th[i] EXCEPT !.todo = Tail(@),
                         !.pc = IF Len(t.todo) >= 1 THEN "fill" ELSE t.next])
    /\ net' = IF k \in Conns /\ net[k].srv /\ net[k].cli
              THEN [net EXCEPT ![k].s2c = @ \o Packet(InBuffer(r))] ELSE net
    /\ UNCHANGED <<up, nconn, backlog, main, buf, msg, fs, cwd>>

(* send() on a closed descriptor fails; to a peer that is gone it provokes *)
(* a reset, and after a reset SIGPIPE ends the process.                    *)
Send(i) ==
    LET t == th[i]
        k == t.fd
        r == Head(t.todo)
    IN
    /\ up /\ t.pc = "send"
    /\ Become(i, [th[i] EXCEPT !.todo = Tail(@),
                         !.pc = IF Len(t.todo) > 1 THEN "fill" ELSE t.next])
    /\ IF k \notin Conns \/ ~net[k].srv
       THEN UNCHANGED <<net, up>>
       ELSE \/ /\ net[k].cli
               /\ net' = [net EXCEPT ![k].s2c = @ \o Packet(InBuffer(r))]
               /\ up' = up
            \/ /\ ~net[k].cli
               /\ net' = [net EXCEPT ![k].reset = TRUE]
               /\ up' = up
            \/ /\ ~net[k].cli /\ net[k].reset
               /\ Crash
    /\ UNCHANGED <<nconn, backlog, main, buf, msg, fs, cwd>>

Session(i) ==
    \/ SessionStart(i) \/ SessionRecv(i)
    \/ response_ls(i)  \/ response_pwd(i) \/ response_cd(i) \/ PwdAfterCd(i)
    \/ response_get(i) \/ Fopen(i) \/ Fread(i)
    \/ response_put(i) \/ PutRest(i)
    \/ PutRecv(i) \/ PutWrite(i) \/ PutClose(i)
    \/ response_exit(i) \/ NoCase(i)
    \/ Fill(i) \/ Send(i)

-----------------------------------------------------------------------------
(* The steps of a handler that use a file it has opened.                   *)
Reads(t) == t.pc = "fread" \/ (t.pc \in {"fill", "send"} /\ t.next = "fread")
Writes(t) == t.pc \in {"put_rest", "put_recv", "put_write", "put_close"}

Held(t, files) ==
    /\ Reads(t) \/ Writes(t) =>
          \/ t.file \in Files /\ files[t.dir][t.file] # Absent
          \/ Reads(t) /\ t.file \in Dirs
    /\ t.pc \in {"fill", "send"} => t.todo # <<>>
    /\ t.pc = "put_rest" => t.n >= 1
    /\ t.pc = "put_write" => t.n >= 0

FileSystem == [Dirs -> [Files -> Seq(Cell) \cup {Absent}]]

ServerTypeOK ==
    /\ main \in MainState
    /\ th \in [Conns -> Thread]
    /\ buf \in Buffer
    /\ msg \in Buffer
    /\ fs \in FileSystem
    /\ cwd \in Dirs

ServerInit(d0, files) ==
    /\ main = [pc |-> "accept", fd |-> 0, made |-> 0]
    /\ th = [i \in Conns |-> NewThread(d0)]
    /\ buf = ZeroBuf
    /\ msg = ZeroBuf
    /\ fs = files
    /\ cwd = d0
=============================================================================

------------------------------ MODULE FtClient ------------------------------
(***************************************************************************)
(* src/ft/ft-client.c: an interactive client.  minish() reads a command at *)
(* the prompt and runs its handler to the end before the next prompt; a    *)
(* handler is cut here at every send and recv, where the server can act,   *)
(* and SIGINT can arrive at each of these points.                          *)
(***************************************************************************)
EXTENDS FtWire

CONSTANTS
    Clients,
    Sizes,    \* sizes, in cells, of the local files that are uploaded
    MaxCmds   \* bound: commands a user types, exit not counted

ASSUME ClientAssumption ==
    /\ Sizes \subseteq Nat
    /\ MaxCmds \in Nat

VARIABLE cl   \* cl[c]: the process of client c

ClientPc == {"prompt", "print", "get_head", "get_body", "put_body", "put_ack",
             "exited", "aborted"}
Gone == {"exited", "aborted"}

(* What a command returned: "done", or "failed" when it printed an error.  *)
ClientState ==
    [pc : ClientPc, fd : 0 .. MaxConns, fds : SUBSET Conns,
     left : 0 .. MaxCmds,
     cmd : Requests \cup {"OPEN", "NONE"}, arg : Names, size : Nat \cup {-1},
     pos : Nat, need : Nat, shown : Seq(Cell), out : Seq(Cell), ok : BOOLEAN]

NewClient ==
    [pc |-> "prompt", fd |-> 0, fds |-> {}, left |-> MaxCmds, cmd |-> "NONE",
     arg |-> None, size |-> 0, pos |-> 0, need |-> 0,
     shown |-> <<>>, out |-> <<>>, ok |-> FALSE]

(* The size that stands for a local file that cannot be opened.            *)
Missing == -1

(* Client c goes on as p.                                                  *)
GoOn(c, p) == cl' = [cl EXCEPT ![c] = p]

Idle(c) == cl[c].pc = "prompt" /\ cl[c].left > 0

(* A command starts: the traces of the one before are gone.                *)
Begin(c, pc, cmd, arg) ==
    [cl[c] EXCEPT !.pc = pc, !.left = @ - 1, !.cmd = cmd, !.arg = arg,
                  !.shown = <<>>, !.out = <<>>, !.pos = 0, !.ok = FALSE]

(* open, and connecting to the host given on the command line.  A refused  *)
(* connect leaves a socket that is not connected.                          *)
cmd_open(c) ==
    LET k == nconn + 1 IN
    /\ Idle(c) /\ nconn < MaxConns
    /\ nconn' = k
    /\ IF up
       THEN /\ net' = [net EXCEPT ![k].cli = TRUE, ![k].srv = TRUE]
            /\ backlog' = Append(backlog, k)
       ELSE UNCHANGED <<net, backlog>>
    /\ GoOn(c, [Begin(c, "prompt", "OPEN", None) EXCEPT
                   !.fd = k, !.fds = @ \cup {k}])
    /\ up' = up

(* CONNECT_CHECK: every command but open, help and exit gives up here.     *)
CONNECT_CHECK(c) ==
    /\ Idle(c) /\ ~tcp_connected(cl[c].fd)
    /\ GoOn(c, Begin(c, "prompt", "NONE", None))
    /\ UNCHANGED wireVars

(* A command past CONNECT_CHECK sends its request with one send().         *)
Ask(c, cells) ==
    /\ Idle(c) /\ tcp_connected(cl[c].fd)
    /\ net' = [net EXCEPT ![cl[c].fd].c2s = @ \o Packet(cells)]
    /\ UNCHANGED <<nconn, backlog, up>>

(* ls, cd, get and exit send the whole BUF_SIZE buffer.                    *)
Padded(r) == [i \in 1 .. BufUnits |-> IF i = 1 THEN r ELSE Zero]

cmd_ls(c) ==
    \E d \in Dirs \cup {None, NoSuch} :
        /\ Ask(c, Padded(Request("LS", d)))
        /\ GoOn(c, Begin(c, "print", "LS", d))

cmd_pwd(c) ==
    /\ Ask(c, <<Request("PWD", None)>>)
    /\ GoOn(c, Begin(c, "print", "PWD", None))

cmd_cd(c) ==
    \E d \in Dirs \cup {None, NoSuch} :
        /\ Ask(c, Padded(Request("CD", d)))
        /\ GoOn(c, Begin(c, "print", "CD", d))

cmd_get(c, names) ==
    \E f \in names :
        /\ Ask(c, Padded(Request("GET", f)))
        /\ GoOn(c, Begin(c, "get_head", "GET", f))

(* The header of a put: get_file_size() is 0 for a file that is missing.   *)
cmd_put(c, sizes) ==
    \E f \in Files, s \in sizes :
        /\ Ask(c, <<PutHead(f, IF s = Missing THEN 0 ELSE s % SizeMod)>>)
        /\ GoOn(c, [Begin(c, "put_body", "PUT", f) EXCEPT !.size = s])

-----------------------------------------------------------------------------
(* The process ends and the kernel closes its sockets.                     *)
Die(c, pc, conns) ==
    /\ \E lost \in BOOLEAN :
          net' = [k \in Conns |-> IF k \in cl[c].fds
                                  THEN ClientClosed(conns[k], lost)
                                  ELSE conns[k]]
    /\ GoOn(c, [cl[c] EXCEPT !.pc = pc])

(* recv() with result n: what is taken off the stream.                     *)
Taken(c, n) == IF n > 0 THEN Cells(net[cl[c].fd].s2c, n) ELSE <<>>
TakeOff(c, n) ==
    net' = IF n > 0 THEN [net EXCEPT ![cl[c].fd].s2c = Rest(@, n)] ELSE net

(* j is where the first END is in a received piece, or one past its end.   *)
EndAt(cells, j) ==
    /\ j <= Len(cells) => cells[j].k = "END"
    /\ \A i \in 1 .. j - 1 : cells[i].k # "END"

(* PRINT_RESPONSE_BODY: print up to END; the rest of what that recv        *)
(* returned is dropped.                                                    *)
PRINT_RESPONSE_BODY(c) ==
    /\ cl[c].pc = "print"
    /\ \E n \in CliResults(cl[c].fd, BufUnits) :
          LET got == Taken(c, n)
          IN  IF n = -1
              THEN Die(c, "aborted", net)
              ELSE \E j \in 1 .. Len(got) + 1 :
                   /\ EndAt(got, j)
                   /\ TakeOff(c, n)
                   /\ GoOn(c, [cl[c] EXCEPT
                        !.shown = @ \o SubSeq(got, 1, j - 1),
                        !.pc = IF j <= Len(got) THEN "prompt" ELSE "print",
                        !.ok = j <= Len(got)])
    /\ UNCHANGED <<nconn, backlog, up>>

(* Mutant: get stops one piece short of the announced size.                *)
GetOn_Short(s, need) == IF Len(s) + 1 < need THEN "get_body" ELSE "prompt"

GetOn(s, need) == IF Len(s) < need THEN "get_body" ELSE "prompt"

(* Mutant: the data that arrived with the header is dropped.               *)
GetHead_Drops(c) ==
    /\ cl[c].pc = "get_head"
    /\ \E n \in CliResults(cl[c].fd, BufUnits) :
          LET got == Taken(c, n)
          IN  IF n < 1
              THEN Die(c, "aborted", net)
              ELSE /\ TakeOff(c, n)
                   /\ IF got[1].k = "ERROR"
                      THEN GoOn(c, [cl[c] EXCEPT !.pc = "prompt"])
                      ELSE GoOn(c, [cl[c] EXCEPT
                              !.out = <<>>, !.need = got[1].n,
                              !.pc = GetOn(<<>>, got[1].n), !.ok = TRUE])
    /\ UNCHANGED <<nconn, backlog, up>>

(* The first recv of get: an error text, or the size and maybe some data.  *)
(* Without a whole header the length given to fwrite wraps around.         *)
GetHead(c) ==
    /\ cl[c].pc = "get_head"
    /\ \E n \in CliResults(cl[c].fd, BufUnits) :
          LET got == Taken(c, n)
          IN  IF n < 1
              THEN Die(c, "aborted", net)
              ELSE /\ TakeOff(c, n)
                   /\ IF got[1].k = "ERROR"
                      THEN GoOn(c, [cl[c] EXCEPT !.pc = "prompt"])
                      ELSE GoOn(c, [cl[c] EXCEPT
                              !.out = Tail(got), !.need = got[1].n,
                              !.pc = GetOn(Tail(got), got[1].n), !.ok = TRUE])
    /\ UNCHANGED <<nconn, backlog, up>>

(* recv_file's loop: -1 becomes fwrite's length, 0 goes round again.       *)
recv_file(c) ==
    /\ cl[c].pc = "get_body"
    /\ \E n \in CliResults(cl[c].fd, BufUnits) :
          LET s == cl[c].out \o Taken(c, n)
          IN  IF n = -1
              THEN Die(c, "aborted", net)
              ELSE /\ TakeOff(c, n)
                   /\ GoOn(c, [cl[c] EXCEPT !.out = s,
                                            !.pc = GetOn(s, cl[c].need)])
    /\ UNCHANGED <<nconn, backlog, up>>

(* put's fread/send loop.  A missing file is a NULL stream; a send after a *)
(* reset raises SIGPIPE.                                                   *)
PutBody(c) ==
    LET p == cl[c]
        last == Lesser(p.pos + BufUnits, p.size)
        chunk == SubSeq(Content(p.arg, p.size), p.pos + 1, last)
    IN
    /\ p.pc = "put_body"
    /\ IF p.size = Missing \/ (net[p.fd].reset /\ p.pos < p.size)
       THEN Die(c, "aborted", net)
       ELSE /\ GoOn(c, [p EXCEPT
                  !.pos = IF chunk = <<>> THEN @ ELSE last,
                  !.pc = IF chunk = <<>> THEN "put_ack" ELSE "put_body"])
            /\ net' = IF chunk = <<>> THEN net
                      ELSE IF net[p.fd].srv
                      THEN [net EXCEPT ![p.fd].c2s = @ \o Packet(chunk)]
                      ELSE [net EXCEPT ![p.fd].reset = TRUE]
    /\ UNCHANGED <<nconn, backlog, up>>

(* Mutant: put returns without waiting for the acknowledgement.            *)
PutAck_NoWait(c) ==
    /\ cl[c].pc = "put_ack"
    /\ GoOn(c, [cl[c] EXCEPT !.pc = "prompt", !.ok = TRUE])
    /\ UNCHANGED wireVars

(* recv of one byte; put reports success when it is END.                   *)
PutAck(c) ==
    /\ cl[c].pc = "put_ack"
    /\ \E n \in CliResults(cl[c].fd, 1) :
          /\ TakeOff(c, n)
          /\ GoOn(c, [cl[c] EXCEPT !.pc = "prompt",
                                    !.ok = n > 0 /\ Taken(c, n)[1].k = "END"])
    /\ UNCHANGED <<nconn, backlog, up>>

-----------------------------------------------------------------------------
(* EXIT is sent on the current connection, whatever was going on there.    *)
ExitSent(c) ==
    LET k == cl[c].fd IN
    IF k \in Conns /\ net[k].cli /\ net[k].srv
    THEN [net EXCEPT ![k].c2s = @ \o Packet(Padded(Request("EXIT", None)))]
    ELSE net

cmd_exit(c) ==
    /\ cl[c].pc = "prompt"
    /\ Die(c, "exited", ExitSent(c))
    /\ UNCHANGED <<nconn, backlog, up>>

(* SIGINT runs cmd_exit wherever the command is.                           *)
sig_exit(c) ==
    /\ cl[c].pc \notin Gone \cup {"prompt"}
    /\ Die(c, "aborted", ExitSent(c))
    /\ UNCHANGED <<nconn, backlog, up>>

(* The steps a handler takes by itself once its command was typed.         *)
ClientStep(c) ==
    \/ PRINT_RESPONSE_BODY(c)
    \/ GetHead(c) \/ recv_file(c)
    \/ PutBody(c) \/ PutAck(c)

ClientTypeOK == cl \in [Clients -> ClientState]

ClientInit == cl = [c \in Clients |-> NewClient]
=============================================================================

--------------------------------- MODULE Ft ---------------------------------
(***************************************************************************)
(* The file-transfer program of src/ft: clients, their connections and the *)
(* multi-threaded server.                                                  *)
(***************************************************************************)
EXTENDS FtServer, FtClient

CONSTANTS
    Home,       \* the directory the server is started in
    FirstSizes, \* sizes of the file the server has to begin with
    Targets,    \* names the users ask to get
    Orderly     \* do the users follow the discipline below?

ASSUME FtAssumption ==
    /\ Home \in Dirs
    /\ FirstSizes \subseteq Nat
    /\ Targets \subseteq Files \cup Dirs \cup {NoSuch}
    /\ Orderly \in BOOLEAN

vars == <<wireVars, serverVars, cl>>

(* The orderly users: nobody types a command before everybody else's is    *)
(* answered and the server waits for requests, nobody opens a connection   *)
(* twice, uploads a file that does not exist or interrupts a command.      *)
Quiet(c) ==
    /\ backlog = <<>> /\ main.pc = "accept"
    /\ \A d \in Clients \ {c} : cl[d].pc \in Gone \cup {"prompt"}
    /\ \A i \in Conns :
          \/ th[i].pc \in {"idle", "done"}
          \/ th[i].pc = "recv" /\ net[th[i].fd].c2s = <<>>

Command(c) ==
    /\ Orderly => Quiet(c)
    /\ \/ (Orderly => cl[c].fd = 0) /\ cmd_open(c)
       \/ CONNECT_CHECK(c)
       \/ cmd_ls(c) \/ cmd_pwd(c) \/ cmd_cd(c) \/ cmd_get(c, Targets)
       \/ cmd_put(c, IF Orderly THEN Sizes ELSE Sizes \cup {Missing})
       \/ cmd_exit(c)

Interrupt(c) == ~Orderly /\ sig_exit(c)

(* The server has one file in Home to begin with.                          *)
FirstFiles ==
    {[d \in Dirs |-> [g \in Files |->
        IF d = Home /\ g = f THEN Content(f, s) ELSE Absent]] :
        f \in Files, s \in FirstSizes}

Init ==
    /\ WireInit
    /\ \E files \in FirstFiles : ServerInit(Home, files)
    /\ ClientInit

ServerNext == (Main \/ \E i \in Conns : Session(i)) /\ UNCHANGED cl

ClientNext ==
    /\ \E c \in Clients : Command(c) \/ ClientStep(c) \/ Interrupt(c)
    /\ UNCHANGED serverVars

Next == ServerNext \/ ClientNext

(* The threads and the clients are scheduled preemptively: none of them is *)
(* held up for ever where it could go on.  Nobody has to type a command.   *)
Fairness ==
    /\ WF_vars(Main /\ UNCHANGED cl)
    /\ \A i \in Conns : WF_vars(Session(i) /\ UNCHANGED cl)
    /\ \A c \in Clients : WF_vars(ClientStep(c) /\ UNCHANGED serverVars)

Spec == Init /\ [][Next]_vars
FairSpec == Spec /\ Fairness

-----------------------------------------------------------------------------
TypeOK == WireTypeOK /\ ServerTypeOK /\ ClientTypeOK

(* No handler runs on something it does not have: a session that reads or  *)
(* writes a file has one open that exists, a session that is to send has   *)
(* an answer to send, a received length fits the buffer it is used on, and *)
(* a client in the middle of a command is on a connection.                 *)
HandlesHeld ==
    /\ \A i \in Conns : Held(th[i], fs)
    /\ \A c \in Clients :
          cl[c].pc \notin Gone \cup {"prompt"} => cl[c].fd \in Conns

(* A client at its prompt has left nothing of the command before on its    *)
(* connection: no part of a request, no file data, no piece of an answer   *)
(* that the next command would take for its own.                           *)
PromptInSync ==
    \A c \in Clients :
        (cl[c].pc = "prompt" /\ cl[c].fd # 0) =>
            net[cl[c].fd].c2s = <<>> /\ net[cl[c].fd].s2c = <<>>

Returns(c, cmd) ==
    cl[c].cmd = cmd /\ cl[c].pc # "prompt" /\ cl'[c].pc = "prompt"

TextsOf(s) == {s[j].f : j \in DOMAIN s}

(* What ls, pwd and cd print is the server's answer to that very command:  *)
(* the directory's entries once each, the working directory, the directory *)
(* cd changed to, or the complaint.                                        *)
AnswersCommand ==
    [][ \A c \in Clients :
          LET shown == cl'[c].shown
              d == cl[c].arg
          IN
          /\ Returns(c, "LS") =>
                IF d = NoSuch THEN shown = <<Text(NoSuch)>>
                ELSE LET S == {f \in Files : fs[Path(d)][f] # Absent}
                     IN  TextsOf(shown) = S /\ Len(shown) = Cardinality(S)
          /\ Returns(c, "PWD") => shown = <<Text(cwd)>>
          /\ Returns(c, "CD") =>
                shown = IF d = NoSuch THEN <<Text(NoSuch), Text(cwd)>>
                        ELSE <<Text(Path(d))>> ]_vars

(* A get that returns without an error has written exactly the server's    *)
(* file, and it fails only for a file the server does not have.            *)
GetDelivers ==
    [][ \A c \in Clients : Returns(c, "GET") =>
          IF cl'[c].ok THEN cl'[c].out = Stat(cwd, cl[c].arg)
                       ELSE Stat(cwd, cl[c].arg) = Absent ]_vars

(* A put that returns has been acknowledged, and the server's file is then *)
(* the local file.                                                         *)
PutStores ==
    [][ \A c \in Clients : Returns(c, "PUT") =>
          /\ cl'[c].ok
          /\ fs[cwd][cl[c].arg] = Content(cl[c].arg, cl[c].size) ]_vars

(* Every command comes back to the prompt (or ends the client).            *)
CommandReturns ==
    \A c \in Clients :
        (cl[c].pc \notin Gone) ~> (cl[c].pc \in Gone \cup {"prompt"})

SessionOf(i, k) == th[i].fd = k /\ th[i].pc \notin {"idle", "start"}

(* The server is done with a client (or is itself gone).                   *)
Served(c) ==
    up /\ cl[c].fd # 0 =>
        /\ ~net[cl[c].fd].srv
        /\ \A i \in Conns : SessionOf(i, cl[c].fd) => th[i].pc = "done"

(* exit at the prompt ends the session: the server closes its socket and   *)
(* the session's thread ends.                                              *)
ExitEndsSession ==
    \A c \in Clients : cl[c].pc = "exited" ~> Served(c)

(* The same promise for every way the client can end: C-c is registered as *)
(* the exit command.                                                       *)
QuitEndsSession ==
    \A c \in Clients : cl[c].pc \in Gone ~> Served(c)

(* Each session thread has a connection of its own.                        *)
SessionOwnsFd ==
    \A i, j \in Conns : \A k \in Conns :
        SessionOf(i, k) /\ SessionOf(j, k) => i = j

(* The server process dies only after some client broke off in the middle  *)
(* of a command: no sequence of commands that run to their end, whether    *)
(* they fail or not, brings it down.                                       *)
DeathNeedsAbort == up \/ \E c \in Clients : cl[c].pc = "aborted"
=============================================================================

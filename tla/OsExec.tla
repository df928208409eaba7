------------------------------- MODULE OsExec -------------------------------
(***************************************************************************)
(* os_exec() of util.c: fork, execvp and waitpid.  The program that calls  *)
(* it may have signal handlers and may ignore SIGCHLD.                     *)
(***************************************************************************)
EXTENDS Integers

CONSTANT MaxGiven   \* bound: arguments of a call after cmd
ASSUME ExecAssumption == MaxGiven \in Nat

VARIABLES
    xpc,      \* where os_exec is
    given,    \* arguments given after cmd, before the NULL
    argv,     \* elements of args set, cmd included
    child,    \* the child process
    status,   \* what is returned: -1, or the child's
    ignores,  \* SIGCHLD is ignored: children leave no status behind
    signalled \* waitpid was interrupted

execVars == <<xpc, given, argv, child, status, ignores, signalled>>

ExecTypeOK ==
    /\ xpc \in {"args", "fork", "wait", "done"} /\ argv \in 1 .. 16
    /\ child \in {"none", "forked", "running", "exited", "reaped"}
    /\ status \in {"0", "-1", "child's"}

ExecInit ==
    /\ xpc = "args" /\ given \in 0 .. MaxGiven /\ argv = 1
    /\ child = "none" /\ status = "0"
    /\ ignores \in BOOLEAN /\ signalled = FALSE

(* Mutant: the array is filled to its last element.                        *)
TooMany_OneMore == argv = 16 /\ given > 15

(* The loop ended at i = 16 with an argument in hand.                      *)
TooMany == argv = 16

ExecArg ==
    /\ xpc = "args" /\ argv < 16 /\ argv <= given
    /\ argv' = argv + 1
    /\ UNCHANGED <<xpc, given, child, status, ignores, signalled>>

ExecArgsEnd ==
    /\ xpc = "args" /\ (argv = 16 \/ argv > given)
    /\ IF TooMany THEN xpc' = "done" /\ status' = "-1"
                  ELSE xpc' = "fork" /\ UNCHANGED status
    /\ UNCHANGED <<given, argv, child, ignores, signalled>>

ExecFork ==
    /\ xpc = "fork"
    /\ \/ xpc' = "wait" /\ child' = "forked" /\ UNCHANGED status
       \/ xpc' = "done" /\ status' = "-1" /\ UNCHANGED child
    /\ UNCHANGED <<given, argv, ignores, signalled>>

(* The child: execvp, or _exit(127); then it ends.                         *)
ExecChild ==
    /\ \/ child = "forked" /\ child' = "running"
       \/ child = "running" /\ child' = IF ignores THEN "reaped" ELSE "exited"
    /\ UNCHANGED <<xpc, given, argv, status, ignores, signalled>>

ExecWait ==
    /\ xpc = "wait" /\ child = "exited"
    /\ xpc' = "done" /\ child' = "reaped" /\ status' = "child's"
    /\ UNCHANGED <<given, argv, ignores, signalled>>

(* waitpid fails with EINTR and is given up; any other failure (ECHILD) is *)
(* tried again, for ever.                                                  *)
ExecInterrupted ==
    /\ xpc = "wait" /\ child # "exited" /\ ~ signalled
    /\ xpc' = "done" /\ status' = "-1" /\ signalled' = TRUE
    /\ UNCHANGED <<given, argv, child, ignores>>

ExecProgram == ExecArg \/ ExecArgsEnd \/ ExecFork \/ ExecChild \/ ExecWait
ExecNext == ExecProgram \/ ExecInterrupted

ExecSpec == ExecInit /\ [][ExecNext]_execVars

-----------------------------------------------------------------------------
(* A child runs only with an array that holds all arguments and the NULL   *)
(* behind them; and when os_exec() returns, its child is reaped and the    *)
(* child's status returned, unless a signal came.                          *)
ExecSafe ==
    /\ ExecTypeOK
    /\ child # "none" => argv = given + 1 /\ argv < 16
    /\ xpc = "done" /\ child # "none" /\ ~ signalled =>
          status = "child's" /\ child = "reaped"

(* os_exec() returns unless SIGCHLD is ignored.                            *)
ExecEnds == <>(xpc = "done" \/ (ignores /\ child = "reaped"))
=============================================================================

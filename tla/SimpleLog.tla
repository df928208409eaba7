------------------------------ MODULE SimpleLog ------------------------------
(***************************************************************************)
(* lib/simple_log: the sink (stream, name, ownership) and the level.  The  *)
(* sink closes a stream exactly if it owns it, which it does only if       *)
(* set_log_file() opened it.  Programs hold streams too: stdout, those     *)
(* they opened, and whatever get_log_os() returned.                        *)
(*                                                                         *)
(* A stream is its number (1 is stdout); a closed one is never the same    *)
(* as one opened later.                                                    *)
(***************************************************************************)
EXTENDS Integers

CONSTANTS
    Paths,     \* file names other than "stdout" and "stderr"
    MaxFiles,  \* bound: streams ever opened
    Levels     \* log_level_t without OFF: 1 FATAL .. 5 DEBUG

ASSUME LogAssumption ==
    /\ MaxFiles \in Nat \ {0}
    /\ Levels \subseteq 1 .. 5 /\ 4 \in Levels   \* LOG_LEVEL_DEFAULT is INFO

VARIABLES
    file,     \* file[f]: state, opener and path of stream f
    sink,     \* log_sink_t
    level,    \* the level kept by log_level_ops()
    misuse,   \* the program broke the sink's contract
    harm      \* a closed stream was written to, or closed again

logVars == <<file, sink, level, misuse, harm>>

NULL == 0
Streams == 1 .. MaxFiles
Names == Paths \cup {"stdout"}

LogTypeOK ==
    /\ file \in [Streams -> [st : {"unused", "open", "closed"},
                             by : {"nobody", "program", "log"},
                             path : Names \cup {"none"}]]
    /\ sink \in [fp : Streams \cup {NULL}, file : Names \cup {"none", "?"},
                 owned : BOOLEAN]
    /\ level \in Levels \cup {0}
    /\ misuse \in BOOLEAN /\ harm \in BOOLEAN

(* The sink is NULL until a program sets it: LOG_OS_DEFAULT is not used.   *)
LogInit ==
    /\ file = [f \in Streams |->
                  IF f = 1
                  THEN [st |-> "open", by |-> "program", path |-> "stdout"]
                  ELSE [st |-> "unused", by |-> "nobody", path |-> "none"]]
    /\ sink = [fp |-> NULL, file |-> "none", owned |-> FALSE]
    /\ level = 4
    /\ misuse = FALSE /\ harm = FALSE

Opened(f, who, path) ==
    [file EXCEPT ![f] = [st |-> "open", by |-> who, path |-> path]]
NextFree(f) == file[f].st = "unused" /\ \A g \in 1 .. f - 1 :
                                            file[g].st # "unused"

-----------------------------------------------------------------------------
(* slog_set_sink_fp(): the owned stream is closed.                         *)
slog_set_sink_fp(files) ==
    IF sink.owned /\ sink.fp # NULL
    THEN [files EXCEPT ![sink.fp].st = "closed"] ELSE files

(* Mutant: the old stream is only forgotten.                               *)
slog_set_sink_NoClose(files, fp, name, owned) ==
    /\ file' = files
    /\ sink' = [fp |-> fp, file |-> name, owned |-> owned]
    /\ harm' = harm

(* slog_set_sink(): stream, name and ownership, whatever the stream was.   *)
slog_set_sink(files, fp, name, owned) ==
    /\ file' = slog_set_sink_fp(files)
    /\ sink' = [fp |-> fp, file |-> name, owned |-> owned]
    /\ harm' = (harm \/ (sink.owned /\ sink.fp # NULL
                           /\ file[sink.fp].st = "closed"))

(* The stream of the caller's choice, the sink's own included.             *)
simple_log_set_log_os(fp) ==
    /\ fp # NULL => file[fp].st = "open"
    /\ slog_set_sink(file, fp, "none", FALSE)
    /\ misuse' = (misuse \/ (fp # NULL /\ file[fp].by = "log"))
    /\ UNCHANGED level

(* set_log_file("stdout"), and likewise "stderr": not owned.               *)
SetLogFileStd ==
    /\ slog_set_sink(file, 1, "stdout", FALSE)
    /\ UNCHANGED <<level, misuse>>

(* A path: opened before the old stream is closed, and then owned.  When   *)
(* fopen() fails nothing changes.                                          *)
simple_log_set_log_file(path, f) ==
    /\ NextFree(f)
    /\ slog_set_sink(Opened(f, "log", path), f, path, TRUE)
    /\ UNCHANGED <<level, misuse>>

(* The name is the pointer get_log_file() returned: slog_set_sink_file()   *)
(* frees the string before it duplicates it.                               *)
SetLogFileOwnName(f) ==
    /\ sink.file \in Paths /\ NextFree(f)
    /\ \E garbage \in {sink.file, "?"} :
          slog_set_sink(Opened(f, "log", sink.file), f, garbage, TRUE)
    /\ misuse' = TRUE
    /\ UNCHANGED level

set_log_level(l) ==
    /\ level' = l
    /\ UNCHANGED <<file, sink, misuse, harm>>

(* simple_log_level_mesg(): prefix and text, each filtered by the level    *)
(* and written and flushed to the sink unless that is NULL.                *)
simple_log_level_mesg(l) ==
    /\ l <= level /\ sink.fp # NULL
    /\ harm' = (harm \/ file[sink.fp].st = "closed")
    /\ UNCHANGED <<file, sink, level, misuse>>

-----------------------------------------------------------------------------
(* The program.                                                            *)
ProgramOpens(path, f) ==
    /\ NextFree(f)
    /\ file' = Opened(f, "program", path)
    /\ UNCHANGED <<sink, level, misuse, harm>>

(* fclose() of a stream of its own or, as in cleanup() of nl_get_ipaddr.c, *)
(* of what get_log_os() returns.                                           *)
ProgramCloses(f) ==
    /\ file[f].st = "open" /\ (file[f].by = "program" \/ f = sink.fp)
    /\ file' = [file EXCEPT ![f].st = "closed"]
    /\ misuse' = (misuse \/ f = sink.fp)
    /\ UNCHANGED <<sink, level, harm>>

LogNext ==
    \/ \E fp \in Streams \cup {NULL} : simple_log_set_log_os(fp)
    \/ file[1].st = "open" /\ SetLogFileStd
    \/ \E p \in Paths, f \in Streams : simple_log_set_log_file(p, f)
    \/ \E f \in Streams : SetLogFileOwnName(f)
    \/ \E l \in Levels \cup {0} : set_log_level(l)
    \/ \E l \in Levels : simple_log_level_mesg(l)
    \/ \E p \in Paths, f \in Streams : ProgramOpens(p, f)
    \/ \E f \in Streams : ProgramCloses(f)

LogSpec == LogInit /\ [][LogNext]_logVars

-----------------------------------------------------------------------------
(* As long as the program neither closes the sink's stream, nor hands the  *)
(* sink's own stream or name back to it, over any sequence of calls: the   *)
(* sink writes to an open stream and closes none twice, a name it has is   *)
(* that of its stream, it owns exactly what it opened, every other stream  *)
(* it opened is closed, and it never closes a stream of the program's.     *)
SinkSound ==
    ~ misuse =>
        /\ LogTypeOK /\ ~ harm
        /\ sink.fp # NULL => file[sink.fp].st = "open"
        /\ sink.fp # NULL /\ sink.file # "none" =>
              sink.file = file[sink.fp].path
        /\ \A f \in Streams : file[f].by = "log" =>
              (file[f].st = "open" <=> (sink.fp = f /\ sink.owned))
        /\ sink.owned => file[sink.fp].by = "log"
=============================================================================

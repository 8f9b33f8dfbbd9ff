------------------------------- MODULE Logger -------------------------------
(***************************************************************************)
(* The library's logger (logger.hpp, impl/logger.ipp): one global          *)
(* shared_ptr, which every function copies to use the logger it points to. *)
(* The pointer is neither atomic nor protected by a mutex.  Copying it is  *)
(* two steps, to read it and to raise the count of what it points to; an   *)
(* assignment swaps it and then lowers the count of the old logger.        *)
(***************************************************************************)
EXTENDS Integers

CONSTANTS
    Threads,        \* threads of the program and of the pools; all of them log
    Loggers,        \* the loggers that the program has or will make
    Default,        \* cout_logger, there from the start
    Levels          \* numbers; a higher one is more severe, -1 is mute

None == "none"      \* nullptr
Trace == 0          \* log_level::trace

Ops == {"log_message", "STREAM_LOG", "set_log_level", "get_log_level", "set_logger"}

VARIABLES
    glob,       \* glob_instance
    count,      \* shared_ptr's count of each logger
    alive,      \* loggers made and not yet destroyed
    level,      \* level_ of each logger
    pc,         \* where each thread is
    op,         \* the function it is in
    arg,        \* its level
    ptr,        \* the logger that it has read from glob_instance
    given,      \* the logger that its parameter new_logger shares
    old         \* what glob_instance was when the thread replaced it

vars == <<glob, count, alive, level, pc, op, arg, ptr, given, old>>

Init ==
    /\ glob = Default /\ alive = {Default}
    /\ count = [l \in Loggers |-> IF l = Default THEN 1 ELSE 0]
    /\ level = [l \in Loggers |-> Trace]
    /\ pc = [t \in Threads |-> "idle"] /\ op = [t \in Threads |-> "log_message"]
    /\ arg = [t \in Threads |-> Trace]
    /\ ptr = [t \in Threads |-> None] /\ given = [t \in Threads |-> None]
    /\ old = [t \in Threads |-> None]

Goto(t, label) == pc' = [pc EXCEPT ![t] = label]

\* ~shared_ptr(): the last one destroys the logger.
Release(l) ==
    /\ count' = [count EXCEPT ![l] = @ - 1]
    /\ alive' = IF count[l] = 1 THEN alive \ {l} ELSE alive

(***************************************************************************)
(* logger_instance()                                                       *)
(***************************************************************************)
Call(t, o, v) ==
    /\ pc[t] = "idle"
    /\ op' = [op EXCEPT ![t] = o] /\ arg' = [arg EXCEPT ![t] = v]
    /\ Goto(t, "load")
    /\ UNCHANGED <<glob, count, alive, level, ptr, given, old>>

\* set_logger(), with a callback and a level or with a logger that the caller gives up:
\* new_logger has a share of it, and glob_instance another one once it is assigned.
SetLogger(t, l, v) ==
    /\ pc[t] = "idle" /\ l \notin alive /\ l # Default
    /\ op' = [op EXCEPT ![t] = "set_logger"]
    /\ count' = [count EXCEPT ![l] = 2] /\ alive' = alive \cup {l}
    /\ level' = [level EXCEPT ![l] = v]
    /\ given' = [given EXCEPT ![t] = l]
    /\ glob' = l /\ old' = [old EXCEPT ![t] = glob]
    /\ Goto(t, "assigned")
    /\ UNCHANGED <<arg, ptr>>

\* A nullptr changes nothing.
SetNull(t) == Call(t, "set_logger", arg[t])

Assigned(t) ==
    /\ pc[t] = "assigned"
    /\ Release(old[t])
    /\ old' = [old EXCEPT ![t] = None]
    /\ Goto(t, "load")
    /\ UNCHANGED <<glob, level, op, arg, ptr, given>>

Load(t) ==
    /\ pc[t] = "load"
    /\ ptr' = [ptr EXCEPT ![t] = glob]
    /\ Goto(t, "share")
    /\ UNCHANGED <<glob, count, alive, level, op, arg, given, old>>

Share(t) ==
    /\ pc[t] = "share"
    /\ count' = [count EXCEPT ![ptr[t]] = @ + 1]
    /\ Goto(t, "use")
    /\ UNCHANGED <<glob, alive, level, op, arg, ptr, given, old>>

(***************************************************************************)
(* What the functions do with their copy                                   *)
(***************************************************************************)
\* The macros test the level, log_message() does not.
Messages(t) ==
    op[t] = "log_message" \/ (op[t] = "STREAM_LOG" /\ level[ptr[t]] <= arg[t])

\* set_level(), get_level(), or the test of the level.
Use(t) ==
    /\ pc[t] = "use"
    /\ level' = IF op[t] = "set_log_level" THEN [level EXCEPT ![ptr[t]] = arg[t]] ELSE level
    /\ Goto(t, IF Messages(t) THEN "message" ELSE "drop")
    /\ UNCHANGED <<glob, count, alive, op, arg, ptr, given, old>>

\* message(): the callback, or printing under the mutex that is part of cout_logger.
Message(t) ==
    /\ pc[t] = "message"
    /\ Goto(t, "drop")
    /\ UNCHANGED <<glob, count, alive, level, op, arg, ptr, given, old>>

Drop(t) ==
    /\ pc[t] = "drop"
    /\ Release(ptr[t])
    /\ ptr' = [ptr EXCEPT ![t] = None]
    /\ Goto(t, IF given[t] = None THEN "idle" ELSE "return")
    /\ UNCHANGED <<glob, level, op, arg, given, old>>

\* new_logger outlives the copy that logger_instance() returned.
Return(t) ==
    /\ pc[t] = "return"
    /\ Release(given[t])
    /\ given' = [given EXCEPT ![t] = None]
    /\ Goto(t, "idle")
    /\ UNCHANGED <<glob, level, op, arg, ptr, old>>

-----------------------------------------------------------------------------
Next ==
    \E t \in Threads :
        \/ \E o \in Ops \ {"set_logger"}, v \in Levels : Call(t, o, v)
        \/ \E l \in Loggers, v \in Levels : SetLogger(t, l, v)
        \/ SetNull(t) \/ Assigned(t) \/ Load(t) \/ Share(t)
        \/ Use(t) \/ Message(t) \/ Drop(t) \/ Return(t)

Spec == Init /\ [][Next]_vars

(***************************************************************************)
(* What the documentation says and the code does not do.                   *)
(***************************************************************************)
\* logger.hpp: log_message() is thread-safe.  A thread that logs, in whatever way, has
\* a logger that exists, though another one sets the logger meanwhile.
LogsToLiveLogger == \A t \in Threads : pc[t] \in {"use", "message"} => ptr[t] \in alive

=============================================================================

---------------------------- MODULE GatewayProcess ----------------------------
(***************************************************************************)
(* "ftre gateway -d | status | stop | restart": each command is a process  *)
(* of its own that finds the background gateway by the process identifier  *)
(* in the state file.  Nothing locks the file, so commands interleave at   *)
(* every read and write of it.                                             *)
(*                                                                         *)
(* Foreground gateways never have a state file and are left out, as are    *)
(* the port (a gateway whose port is taken exits) and the log.             *)
(***************************************************************************)
EXTENDS Naturals

CONSTANTS
    Pids,       \* identifiers the operating system gives to processes
    Commands    \* commands of the user under way at once

VARIABLES
    windows,    \* which platform the commands run on
    procs,      \* what has each identifier; "dying": killed, not yet gone
    state,      \* the identifier in ~/.ftre/run/gateway.json
    cmds,
    disturbed   \* whether a command that starts a gateway has overlapped
                \* another one, or was interrupted before it wrote the file

vars == <<windows, procs, state, cmds, disturbed>>

NoPid == "none"
Goals == {"start", "stop", "restart", "status"}
Starting == {"start", "restart"}
NoCommand == [pc |-> "idle", goal |-> "status", pid |-> NoPid, child |-> NoPid]

Gateway == {"serving", "closing", "dying"}

TypeOK ==
    /\ windows \in BOOLEAN /\ disturbed \in BOOLEAN
    /\ procs \in [Pids -> Gateway \cup {"free", "zombie", "stranger"}]
    /\ state \in Pids \cup {NoPid}
    /\ cmds \in [Commands ->
          [pc : {"idle", "read", "check", "spawn", "confirm", "write", "report", "check_report",
                 "reread", "recheck", "term", "term_wait", "kill", "kill_wait", "clear"},
           goal : Goals, pid : Pids \cup {NoPid}, child : Pids \cup {NoPid}]]

Init ==
    /\ windows \in BOOLEAN /\ disturbed = FALSE
    /\ procs = [p \in Pids |-> "free"] /\ state = NoPid
    /\ cmds = [c \in Commands |-> NoCommand]

Goto(c, pc) == cmds' = [cmds EXCEPT ![c].pc = pc]
At(c, pc) == cmds[c].pc = pc

\* _is_pid_running: signal 0 also reaches a process nobody has waited for, and
\* one of another user.
Running(p) == p \in Pids /\ procs[p] # "free"

\* A gateway that ends: on POSIX it stays a zombie until the command that
\* started it, and never waits for it, is over.
Remains(p) == IF ~windows /\ \E c \in Commands : cmds[c].child = p THEN "zombie" ELSE "free"
Reaped(c) ==
    [p \in Pids |-> IF p = cmds[c].child /\ procs[p] = "zombie" THEN "free" ELSE procs[p]]

End(c) ==
    /\ cmds' = [cmds EXCEPT ![c] = NoCommand] /\ procs' = Reaped(c)

-----------------------------------------------------------------------------
(* Commands.                                                               *)

Begin(c, goal) ==
    /\ At(c, "idle")
    /\ cmds' = [cmds EXCEPT ![c] = [NoCommand EXCEPT !.goal = goal,
                                       !.pc = IF goal = "restart" THEN "reread" ELSE "read"]]
    /\ disturbed' = (disturbed \/ \E d \in Commands \ {c} :
                        ~At(d, "idle") /\ (goal \in Starting \/ cmds[d].goal \in Starting))
    /\ UNCHANGED <<windows, procs, state>>

\* status: the file is read ...
Read(c) ==
    /\ cmds[c].pc \in {"read", "report"}
    /\ cmds' = [cmds EXCEPT ![c].pid = state,
                            ![c].pc = IF @ = "read" THEN "check" ELSE "check_report"]
    /\ UNCHANGED <<windows, procs, state, disturbed>>
\* ... and removed, whatever is in it by now, when nothing has that identifier.
Check(c) ==
    LET pid == cmds[c].pid IN
    /\ At(c, "check")
    /\ state' = IF pid # NoPid /\ ~Running(pid) THEN NoPid ELSE state
    /\ CASE cmds[c].goal \in Starting /\ ~Running(pid) -> Goto(c, "spawn") /\ UNCHANGED procs
         [] cmds[c].goal = "stop" /\ Running(pid) -> Goto(c, "term") /\ UNCHANGED procs
         [] OTHER -> End(c)
    /\ UNCHANGED <<windows, disturbed>>
\* The status with which start, stop and restart answer.
Report(c) ==
    LET pid == cmds[c].pid IN
    /\ At(c, "check_report")
    /\ state' = IF pid # NoPid /\ ~Running(pid) THEN NoPid ELSE state
    /\ End(c)
    /\ UNCHANGED <<windows, disturbed>>

\* start, once the status shows no gateway: a detached child ...
Spawn(c) ==
    /\ At(c, "spawn")
    /\ \E p \in Pids :
          /\ procs[p] = "free"
          /\ procs' = [procs EXCEPT ![p] = "serving"]
          /\ cmds' = [cmds EXCEPT ![c].pc = "confirm", ![c].child = p]
    /\ UNCHANGED <<windows, state, disturbed>>
\* ... which cannot be started, or ...
SpawnFails(c) ==
    /\ At(c, "spawn") /\ End(c)
    /\ UNCHANGED <<windows, state, disturbed>>
\* ... which is still there 0.3 seconds later ...
Confirm(c) ==
    /\ At(c, "confirm")
    /\ Goto(c, IF Running(cmds[c].child) THEN "write" ELSE "report")
    /\ UNCHANGED <<windows, procs, state, disturbed>>
\* ... and is entered in the file, which is replaced in one step.
Write(c) ==
    /\ At(c, "write") /\ state' = cmds[c].child /\ Goto(c, "report")
    /\ UNCHANGED <<windows, procs, disturbed>>

\* restart reads the file itself and leaves the removal to its end.
Reread(c) ==
    /\ At(c, "reread")
    /\ cmds' = [cmds EXCEPT ![c].pid = state,
                            ![c].pc = IF state = NoPid THEN "report" ELSE "recheck"]
    /\ UNCHANGED <<windows, procs, state, disturbed>>
Recheck(c) ==
    /\ At(c, "recheck")
    /\ Goto(c, IF Running(cmds[c].pid) THEN "term" ELSE "clear")
    /\ UNCHANGED <<windows, procs, state, disturbed>>

\* _terminate: SIGTERM, or taskkill, for the process group; an identifier that
\* is gone, or belongs to another user, counts as ended.
Terminate(c) ==
    LET pid == cmds[c].pid IN
    /\ At(c, "term")
    /\ CASE procs[pid] = "serving" ->
                procs' = [procs EXCEPT ![pid] = "closing"] /\ Goto(c, "term_wait")
         [] procs[pid] = "stranger" ->
                \/ UNCHANGED procs /\ Goto(c, "clear")
                \/ procs' = [procs EXCEPT ![pid] = "free"] /\ Goto(c, "term_wait")
         [] OTHER -> UNCHANGED procs /\ Goto(c, IF Running(pid) THEN "term_wait" ELSE "clear")
    /\ UNCHANGED <<windows, state, disturbed>>
\* _wait_for_exit, and the forced kill when the time is up.
Waited(c) ==
    /\ At(c, "term_wait")
    /\ Goto(c, IF Running(cmds[c].pid) THEN "kill" ELSE "clear")
    /\ UNCHANGED <<windows, procs, state, disturbed>>
Kill(c) ==
    LET pid == cmds[c].pid IN
    /\ At(c, "kill") /\ Goto(c, "kill_wait")
    /\ procs' = [procs EXCEPT ![pid] = IF @ \in Gateway THEN "dying" ELSE @]
    /\ UNCHANGED <<windows, state, disturbed>>
\* Mutation: the file is removed also when the process did not end in time.
KilledAnyhow(c) ==
    /\ At(c, "kill_wait") /\ Goto(c, "clear")
    /\ UNCHANGED <<windows, procs, state, disturbed>>
Killed(c) ==
    /\ At(c, "kill_wait")
    /\ Goto(c, IF Running(cmds[c].pid) THEN "report" ELSE "clear")
    /\ UNCHANGED <<windows, procs, state, disturbed>>
\* The end of stop; restart goes on with start.
Clear(c) ==
    /\ At(c, "clear") /\ state' = NoPid
    /\ IF cmds[c].goal = "stop" THEN End(c)
       ELSE /\ cmds' = [cmds EXCEPT ![c].pc = "read", ![c].pid = NoPid]
            /\ UNCHANGED procs
    /\ UNCHANGED <<windows, disturbed>>

\* Control-C, or the end of the terminal.
Interrupt(c) ==
    /\ ~At(c, "idle") /\ End(c)
    /\ disturbed' = (disturbed \/ cmds[c].pc \in {"confirm", "write"})
    /\ UNCHANGED <<windows, state>>

-----------------------------------------------------------------------------
(* Processes.                                                              *)

\* A gateway ends: its port is taken, it crashes, or it has been told to.
Ends(p) ==
    /\ procs[p] \in Gateway
    /\ procs' = [procs EXCEPT ![p] = Remains(p)]
    /\ UNCHANGED <<windows, state, cmds, disturbed>>

\* Processes of others come and go, with identifiers that were used before.
Others(p) ==
    /\ procs[p] \in {"free", "stranger"}
    /\ procs' = [procs EXCEPT ![p] = IF @ = "free" THEN "stranger" ELSE "free"]
    /\ UNCHANGED <<windows, state, cmds, disturbed>>

\* Once disturbed, nothing is claimed and nothing more is looked at: a bound.
Next ==
    /\ ~disturbed
    /\ \/ \E c \in Commands :
              \/ \E goal \in Goals : Begin(c, goal)
              \/ Read(c) \/ Check(c) \/ Report(c)
              \/ Spawn(c) \/ SpawnFails(c) \/ Confirm(c) \/ Write(c)
              \/ Reread(c) \/ Recheck(c) \/ Terminate(c) \/ Waited(c) \/ Kill(c) \/ Killed(c)
              \/ Clear(c) \/ Interrupt(c)
       \/ \E p \in Pids : Ends(p) \/ Others(p)
Spec == Init /\ [][Next]_vars

-----------------------------------------------------------------------------
(* Properties.                                                             *)

\* A background gateway can be found by the commands that manage it: it is the
\* one in the file, or the command that started it is about to enter it.  This
\* holds through crashes, timeouts, reused identifiers and any overlapping
\* stops and statuses, but not when a start or restart overlaps another command
\* or is interrupted before it has written the file.
BackgroundIsTracked ==
    disturbed \/ \A p \in Pids :
        procs[p] \in Gateway =>
            state = p \/ \E c \in Commands : cmds[c].child = p /\ cmds[c].pc \in {"confirm", "write"}
=============================================================================

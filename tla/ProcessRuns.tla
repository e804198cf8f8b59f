----------------------------- MODULE ProcessRuns ------------------------------
(***************************************************************************)
(* ftre_process.ProcessService and its user, the bash tool: processes      *)
(* (POSIX: each leads a session and a group of its own), the background    *)
(* processes that a shell command leaves behind, and the ways an owner     *)
(* stops waiting for them: the result, a timeout, the cancellation of the  *)
(* turn, terminate, and the closing of the service with the gateway.       *)
(*                                                                         *)
(* The output of a process is left out, except that a background process   *)
(* which keeps the pipes open keeps communicate from returning.            *)
(***************************************************************************)
EXTENDS Naturals

CONSTANTS Runs      \* processes asked of the service

VARIABLES
    service,    \* "open", "closing", "closed" or "gone", with the gateway
    runs

vars == <<service, runs>>

\* how: what ended the process; late: the process was still being created when
\* the service took stock to close; cut: a terminate was cancelled.
NoRun == [pc |-> "idle", proc |-> "none", child |-> "none", tracked |-> FALSE, how |-> "none",
          late |-> FALSE, cut |-> FALSE]

TypeOK ==
    /\ service \in {"open", "closing", "closed", "gone"}
    /\ runs \in [Runs ->
          [pc : {"idle", "spawning", "held", "waiting", "terminating", "killing", "over"},
           proc : {"none", "alive", "exited"}, child : {"none", "quiet", "holding"},
           tracked : BOOLEAN, how : {"none", "itself", "sigterm", "killed"}, late : BOOLEAN, cut : BOOLEAN]]

Init == service = "open" /\ runs = [r \in Runs |-> NoRun]

Up == service # "gone"
Change(r, new) == runs' = [runs EXCEPT ![r] = new]

\* Mutation: only the process itself is killed.
KilledAlone(run) ==
    IF run.proc = "alive" THEN [run EXCEPT !.proc = "exited", !.how = "killed"] ELSE run
\* signal_process_group SIGKILL: the group of a process that has not been seen
\* to exit; one that has is left alone, with the rest of its group.
Killed(run) ==
    IF run.proc = "alive" THEN [run EXCEPT !.proc = "exited", !.child = "none", !.how = "killed"]
                          ELSE run
Over(run) == [run EXCEPT !.pc = "over", !.tracked = FALSE]

-----------------------------------------------------------------------------
(* Starting.                                                               *)

\* run, run_shell or spawn; a closed service refuses.
Ask(r) ==
    /\ service = "open" /\ runs[r].pc = "idle"
    /\ Change(r, [runs[r] EXCEPT !.pc = "spawning"])
    /\ UNCHANGED service
\* The handle is entered when the process exists, also in a service that has
\* closed meanwhile.
Spawned(r) ==
    /\ Up /\ runs[r].pc = "spawning"
    /\ \E pc \in {"waiting", "held"} :
          Change(r, [runs[r] EXCEPT !.pc = pc, !.proc = "alive", !.tracked = TRUE])
    /\ UNCHANGED service
\* No such program, or cancelled: the event loop kills what it was starting.
SpawnFails(r) ==
    /\ Up /\ runs[r].pc = "spawning" /\ Change(r, Over(runs[r]))
    /\ UNCHANGED service

-----------------------------------------------------------------------------
(* The operating system.                                                   *)

Forks(r) ==
    /\ runs[r].proc = "alive" /\ runs[r].child = "none"
    /\ \E child \in {"quiet", "holding"} : Change(r, [runs[r] EXCEPT !.child = child])
    /\ UNCHANGED service
Exits(r) ==
    /\ runs[r].proc = "alive"
    /\ Change(r, [runs[r] EXCEPT !.proc = "exited",
                                 !.how = IF runs[r].pc = "terminating" THEN "sigterm" ELSE "itself"])
    /\ UNCHANGED service
ChildExits(r) ==
    /\ runs[r].child # "none" /\ Change(r, [runs[r] EXCEPT !.child = "none"])
    /\ UNCHANGED service

-----------------------------------------------------------------------------
(* Waiting.                                                                *)

\* The owner of a spawned process waits for it.
Wait(r) ==
    /\ Up /\ runs[r].pc = "held" /\ Change(r, [runs[r] EXCEPT !.pc = "waiting"])
    /\ UNCHANGED service
\* communicate returns with the exit code and the end of both pipes.
Result(r) ==
    /\ Up /\ runs[r].pc = "waiting" /\ runs[r].proc = "exited" /\ runs[r].child # "holding"
    /\ Change(r, Over(runs[r]))
    /\ UNCHANGED service
\* A timeout or a cancellation kills and waits ...
GiveUp(r) ==
    /\ Up /\ runs[r].pc = "waiting"
    /\ Change(r, [Killed(runs[r]) EXCEPT !.pc = "killing"])
    /\ UNCHANGED service
\* ... three seconds at most, however that wait ends.
KillReturns(r) ==
    /\ Up /\ runs[r].pc = "killing" /\ Change(r, Over(runs[r]))
    /\ UNCHANGED service

\* terminate: SIGTERM, which a process and its children may ignore ...
Terminate(r) ==
    /\ Up /\ runs[r].pc = "held"
    /\ Change(r, IF runs[r].proc = "exited" THEN Over(runs[r])
                 ELSE [runs[r] EXCEPT !.pc = "terminating"])
    /\ UNCHANGED service
\* ... a grace period, and the kill at its end.
TerminateReturns(r) ==
    /\ Up /\ runs[r].pc = "terminating"
    /\ Change(r, IF runs[r].proc = "exited" THEN Over(runs[r])
                 ELSE [Killed(runs[r]) EXCEPT !.pc = "killing"])
    /\ UNCHANGED service
\* Cancelled in the grace period, the handle is dropped and nothing is killed.
TerminateCut(r) ==
    /\ Up /\ runs[r].pc = "terminating"
    /\ Change(r, [Over(runs[r]) EXCEPT !.cut = TRUE])
    /\ UNCHANGED service

-----------------------------------------------------------------------------
(* Closing.                                                                *)

\* Mutation: the handles are dropped and left to their owners.
DropAll ==
    /\ service = "open" /\ service' = "closing"
    /\ runs' = [r \in Runs |-> [runs[r] EXCEPT !.late = runs[r].pc = "spawning"]]
\* close kills every handle there is and waits for each.
Close ==
    /\ service = "open" /\ service' = "closing"
    /\ runs' = [r \in Runs |-> [IF runs[r].tracked THEN Killed(runs[r]) ELSE runs[r]
                                  EXCEPT !.late = runs[r].pc = "spawning"]]
Closed ==
    /\ service = "closing" /\ service' = "closed"
    /\ runs' = [r \in Runs |-> [runs[r] EXCEPT !.tracked = FALSE]]

\* The gateway ends, in order after closing or by a crash or a signal that its
\* HTTP server does not turn into one; its processes do not end with it.
Ends ==
    /\ Up /\ service' = "gone"
    /\ runs' = [r \in Runs |->
           IF runs[r].pc \in {"idle", "over"} THEN runs[r]
           ELSE [Over(runs[r]) EXCEPT !.cut = service # "closed"]]

Next ==
    \/ \E r \in Runs :
          \/ Ask(r) \/ Spawned(r) \/ SpawnFails(r) \/ Forks(r) \/ Exits(r) \/ ChildExits(r)
          \/ Wait(r) \/ Result(r) \/ GiveUp(r) \/ KillReturns(r)
          \/ Terminate(r) \/ TerminateReturns(r) \/ TerminateCut(r)
    \/ Close \/ Closed \/ Ends
Spec == Init /\ [][Next]_vars

-----------------------------------------------------------------------------
(* Properties.                                                             *)

\* A process whose owner no longer waits for it does not run, and neither does
\* what it started in the background unless the process itself ended before it
\* had to be killed, or ended at SIGTERM.  Two ways out are left: terminate was
\* cancelled, or the gateway ended without closing, and a process that was
\* being created when the service closed.
CommandsAreReaped ==
    \A r \in Runs :
        /\ runs[r].pc = "over" \/ service \in {"closed", "gone"}
           => runs[r].proc # "alive" \/ runs[r].late \/ runs[r].cut
        /\ runs[r].proc = "exited" /\ runs[r].child # "none" => runs[r].how # "killed"
=============================================================================

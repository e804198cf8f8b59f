---------------------------- MODULE ScheduledJobs ----------------------------
(***************************************************************************)
(* The Schedule plugin: jobs in files of their own, a scan that triggers   *)
(* the ones that are due, and their editing by HTTP handlers, which run on *)
(* the event loop, and by the cron tool, which runs in a thread.  A job is *)
(* due again one unit of time after its last run (croniter's next time);   *)
(* runs that were missed are made up for by one.                           *)
(*                                                                         *)
(* What a job says, its cron expression and its checks, is left out, as    *)
(* are jobs whose file is damaged, which every operation skips or refuses. *)
(***************************************************************************)
EXTENDS Naturals, FiniteSets

CONSTANTS
    Jobs,
    Editors,    \* calls of the cron tool at once
    MaxTime,    \* bound on the clock
    MaxRuns     \* bound on the runs; the scan sleeps when it is reached

VARIABLES
    up,         \* whether the gateway runs
    now,
    files,      \* the file of each job
    scan,       \* CronScheduler.tick under way
    edits,      \* calls of the cron tool
    runs,       \* the messages handed to the bus, in order
    clobbered   \* jobs whose file was written with what was read before
                \* another write of it

vars == <<up, now, files, scan, edits, runs, clobbered>>

Times == 0 .. MaxTime
\* last: created_at or the end of run_history.
Job == [there : BOOLEAN, last : Times, disabled : BOOLEAN]
NoJob == [there |-> FALSE, last |-> 0, disabled |-> FALSE]
NoTarget == [id |-> "none", due |-> 0]
NoScan == [pc |-> "asleep", at |-> 0, todo |-> {}, job |-> NoTarget, read |-> NoJob]
NoEdit == [pc |-> "idle", job |-> NoTarget, read |-> NoJob]

TypeOK ==
    /\ up \in BOOLEAN /\ now \in Times
    /\ files \in [Jobs -> Job]
    /\ scan.pc \in {"asleep", "scanning", "marking", "creating", "publishing"}
    /\ scan.at \in Times /\ scan.read \in Job
    /\ \A e \in Editors : edits[e].pc \in {"idle", "saving"} /\ edits[e].read \in Job
    /\ runs \subseteq [nth : Nat, job : Jobs, due : 0 .. MaxTime + 1, at : Times]
    /\ clobbered \subseteq Jobs

Init ==
    /\ up = TRUE /\ now = 0
    /\ files = [j \in Jobs |-> NoJob]
    /\ scan = NoScan /\ edits = [e \in Editors |-> NoEdit]
    /\ runs = {} /\ clobbered = {}

\* get_next: the first time after the last run.
Due(job) == job.last + 1

\* save replaces the file by what it is given, whatever it holds by then.
Save(j, job, read) ==
    /\ files' = [files EXCEPT ![j] = job]
    /\ clobbered' = IF files[j] = read THEN clobbered ELSE clobbered \cup {j}

Clock ==
    /\ now < MaxTime /\ now' = now + 1
    /\ UNCHANGED <<up, files, scan, edits, runs, clobbered>>

-----------------------------------------------------------------------------
(* CronScheduler.                                                          *)

\* tick reads every job once.
Scan ==
    /\ up /\ scan.pc = "asleep" /\ Cardinality(runs) < MaxRuns
    /\ scan' = [scan EXCEPT !.pc = "scanning", !.at = now,
                            !.todo = {[job |-> j, was |-> files[j]] :
                                         j \in {k \in Jobs : files[k].there}}]
    /\ UNCHANGED <<up, now, files, edits, runs, clobbered>>

\* The next job; append_run reads the file again.
Examine ==
    /\ up /\ scan.pc = "scanning"
    /\ \E t \in scan.todo :
          scan' = IF t.was.disabled \/ Due(t.was) > scan.at
                  THEN [scan EXCEPT !.todo = @ \ {t}]
                  ELSE [scan EXCEPT !.todo = @ \ {t}, !.job = [id |-> t.job, due |-> Due(t.was)],
                                    !.read = files[t.job], !.pc = "marking"]
    /\ UNCHANGED <<up, now, files, edits, runs, clobbered>>

\* Mutation: the message is handed over before the run is marked.
MarkLate ==
    /\ up /\ scan.pc = "marking"
    /\ scan' = [scan EXCEPT !.pc = "creating"]
    /\ UNCHANGED <<up, now, files, edits, runs, clobbered>>
\* append_run: a job that is gone is not marked.
Mark ==
    LET j == scan.job.id IN
    /\ up /\ scan.pc = "marking"
    /\ IF scan.read.there THEN Save(j, [scan.read EXCEPT !.last = scan.at], scan.read)
                          ELSE UNCHANGED <<files, clobbered>>
    /\ scan' = [scan EXCEPT !.pc = "creating"]
    /\ UNCHANGED <<up, now, edits, runs>>

\* A Session of its own for the run ...
CreateSession ==
    /\ up /\ scan.pc = "creating"
    /\ scan' = [scan EXCEPT !.pc = "publishing"]
    /\ UNCHANGED <<up, now, files, edits, runs, clobbered>>
\* ... and its message.
Publish ==
    /\ up /\ scan.pc = "publishing"
    /\ runs' = runs \cup {[nth |-> Cardinality(runs), job |-> scan.job.id,
                            due |-> scan.job.due, at |-> scan.at]}
    /\ scan' = [scan EXCEPT !.pc = "scanning", !.job = NoTarget, !.read = NoJob]
    /\ UNCHANGED <<up, now, files, edits, clobbered>>

\* The scan is over, or an error of the store or of the Session ends it; the
\* loop sleeps and scans again.
Sleep ==
    /\ up /\ scan.pc \in {"scanning", "marking", "creating"}
    /\ scan.pc = "scanning" => scan.todo = {}
    /\ scan' = NoScan
    /\ UNCHANGED <<up, now, files, edits, runs, clobbered>>

-----------------------------------------------------------------------------
(* Editing.                                                                *)

\* create: an identifier that is taken is refused.
Create(j) ==
    /\ up /\ ~files[j].there
    /\ files' = [files EXCEPT ![j] = [there |-> TRUE, last |-> now, disabled |-> FALSE]]
    /\ UNCHANGED <<up, now, scan, edits, runs, clobbered>>

Delete(j) ==
    /\ up /\ files[j].there
    /\ files' = [files EXCEPT ![j] = NoJob]
    /\ UNCHANGED <<up, now, scan, edits, runs, clobbered>>

\* An HTTP handler updates on the event loop.
Patch(j) ==
    /\ up /\ files[j].there
    /\ Save(j, [files[j] EXCEPT !.disabled = ~@], files[j])
    /\ UNCHANGED <<up, now, scan, edits, runs>>

\* The tool updates in a thread: it reads ...
ReadToUpdate(e, j) ==
    /\ up /\ edits[e] = NoEdit /\ files[j].there
    /\ edits' = [edits EXCEPT ![e] = [pc |-> "saving", job |-> [id |-> j, due |-> 0], read |-> files[j]]]
    /\ UNCHANGED <<up, now, files, scan, runs, clobbered>>
\* ... and writes the whole job.
Update(e) ==
    /\ up /\ edits[e].pc = "saving"
    /\ Save(edits[e].job.id, [edits[e].read EXCEPT !.disabled = ~@], edits[e].read)
    /\ edits' = [edits EXCEPT ![e] = NoEdit]
    /\ UNCHANGED <<up, now, scan, runs>>

Crash ==
    /\ up /\ up' = FALSE
    /\ scan' = NoScan /\ edits' = [e \in Editors |-> NoEdit]
    /\ UNCHANGED <<now, files, runs, clobbered>>
Start ==
    /\ ~up /\ up' = TRUE
    /\ UNCHANGED <<now, files, scan, edits, runs, clobbered>>

Next ==
    \/ Clock \/ Scan \/ Examine \/ Mark \/ CreateSession \/ Publish \/ Sleep
    \/ Crash \/ Start
    \/ \E j \in Jobs : \/ Create(j) \/ Delete(j) \/ Patch(j)
                       \/ \E e \in Editors : ReadToUpdate(e, j)
    \/ \E e \in Editors : Update(e)
Spec == Init /\ [][Next]_vars

-----------------------------------------------------------------------------
(* Properties.                                                             *)

\* Of two runs of a job, the later fell due after the earlier was triggered: no
\* crash, failed scan or second scan runs a due time twice.  An update by the
\* tool that read the job before its run was marked takes the mark back; such
\* jobs are excepted.
TriggeredOnce ==
    \A a, b \in runs : a.job = b.job /\ a.nth < b.nth
                       => b.due > a.at \/ a.job \in clobbered
=============================================================================

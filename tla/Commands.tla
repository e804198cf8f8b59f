------------------------------- MODULE Commands -------------------------------
(***************************************************************************)
(* CommandService: a slash command is taken before the Inbox sees it,      *)
(* acknowledged at once and executed in a task of its own.  A client that  *)
(* lost its connection sends the command again with the same identifier.   *)
(*                                                                         *)
(* Commands are one definition, which its plugin may take away and         *)
(* register anew.  What a handler does, and the texts, are left out.  A    *)
(* request without an identifier is only ever a new one.                   *)
(***************************************************************************)
EXTENDS Naturals, FiniteSets

CONSTANTS
    Requests,       \* identifiers of the clients' commands
    Tasks,          \* tasks of the service
    MaxDefinitions, \* bound on the registrations of the command
    MaxSuccesses    \* bound on sending again what succeeded without a record

VARIABLES
    open,       \* whether the plugin is loaded and its route listens
    defined,    \* the registration in force; 0: none
    registered, \* how many there have been
    tasks,      \* _background_tasks
    inflight,   \* _inflight: the task of a request
    completed,  \* _completed of the service
    results,    \* _request_results of the runtime
    lives       \* what has become of each request

vars == <<open, defined, registered, tasks, inflight, completed, results, lives>>

NoTask == "no task"
NoRequest == "no request"
Idle == [pc |-> "idle", request |-> NoRequest, definition |-> 0, success |-> FALSE]
\* accepted, executed to success (how often), answered; and what excuses the
\* service: a record that could not be written, a definition that went away,
\* an end of the service.
NewLife == [accepted |-> FALSE, ran |-> 0, answered |-> FALSE,
            unwritten |-> FALSE, undefined |-> FALSE, cut |-> FALSE]

TypeOK ==
    /\ open \in BOOLEAN
    /\ defined \in 0 .. MaxDefinitions /\ registered \in 0 .. MaxDefinitions
    /\ tasks \in [Tasks -> [pc : {"idle", "created", "announcing", "handling", "recording", "told", "over"},
                            request : Requests \cup {NoRequest},
                            definition : 0 .. MaxDefinitions, success : BOOLEAN]]
    /\ inflight \in [Requests -> Tasks \cup {NoTask}]
    /\ completed \subseteq Requests /\ results \subseteq Requests
    /\ \A r \in Requests : lives[r].ran \in 0 .. MaxSuccesses + Cardinality(Tasks)

Init ==
    /\ open = TRUE /\ defined = 1 /\ registered = 1
    /\ tasks = [t \in Tasks |-> Idle]
    /\ inflight = [r \in Requests |-> NoTask]
    /\ completed = {} /\ results = {}
    /\ lives = [r \in Requests |-> NewLife]

\* register and its disposer.
Define ==
    /\ registered < MaxDefinitions /\ defined = 0 /\ open
    /\ registered' = registered + 1 /\ defined' = registered + 1
    /\ UNCHANGED <<open, tasks, inflight, completed, results, lives>>
Undefine ==
    /\ defined # 0 /\ defined' = 0
    /\ UNCHANGED <<open, registered, tasks, inflight, completed, results, lives>>

\* submit_inbound: a request that runs or has succeeded is acknowledged only.
\* Mutation: the tasks under way are not looked at.
KnownLater(r) == r \in completed
Known(r) == r \in completed \/ inflight[r] # NoTask

\* on_inbound.
Submit(r) ==
    /\ open /\ defined # 0
    /\ lives' = [lives EXCEPT ![r].accepted = TRUE]
    /\ IF Known(r) THEN UNCHANGED <<tasks, inflight>>
       ELSE \E t \in Tasks :
               /\ tasks[t] = Idle /\ lives[r].ran < MaxSuccesses
               /\ tasks' = [tasks EXCEPT ![t] = [Idle EXCEPT !.pc = "created", !.request = r,
                                                             !.definition = defined]]
               /\ inflight' = [inflight EXCEPT ![r] = t]
    /\ UNCHANGED <<open, defined, registered, completed, results>>

Request(t) == tasks[t].request
To(t, pc) == tasks' = [tasks EXCEPT ![t].pc = pc]
Tell(t, success) == tasks' = [tasks EXCEPT ![t].pc = "told", ![t].success = success]

\* dispatch_inbound matches anew: nothing, another definition, or the one that
\* was accepted; _execute knows what has succeeded.
Start(t) ==
    LET r == Request(t) IN
    /\ tasks[t].pc = "created"
    /\ CASE defined = 0 ->
                To(t, "over") /\ lives' = [lives EXCEPT ![r].undefined = TRUE]
         [] defined \notin {0, tasks[t].definition} -> Tell(t, FALSE) /\ UNCHANGED lives
         [] defined = tasks[t].definition ->
                (IF r \in results THEN Tell(t, TRUE) ELSE To(t, "announcing")) /\ UNCHANGED lives
    /\ UNCHANGED <<open, defined, registered, inflight, completed, results>>

\* command/run is written to the Session, or the command does not run.
Announce(t) ==
    /\ tasks[t].pc = "announcing"
    /\ To(t, "handling") \/ Tell(t, FALSE)
    /\ UNCHANGED <<open, defined, registered, inflight, completed, results, lives>>

\* The handler succeeds, answers with an error, or raises.
Handle(t) ==
    LET r == Request(t) IN
    /\ tasks[t].pc = "handling"
    /\ \E success \in BOOLEAN :
          /\ tasks' = [tasks EXCEPT ![t].pc = "recording", ![t].success = success]
          /\ lives' = [lives EXCEPT ![r].ran = IF success THEN @ + 1 ELSE @]
    /\ UNCHANGED <<open, defined, registered, inflight, completed, results>>

\* command/done is written, and a success remembered; or the write raises, and
\* the command counts as failed, whatever its handler did.
Record(t) ==
    LET r == Request(t)  good == tasks[t].success IN
    /\ tasks[t].pc = "recording"
    /\ \/ /\ Tell(t, good) /\ results' = IF good THEN results \cup {r} ELSE results
          /\ UNCHANGED lives
       \/ /\ Tell(t, FALSE) /\ UNCHANGED results
          /\ lives' = [lives EXCEPT ![r].unwritten = good \/ @]
    /\ UNCHANGED <<open, defined, registered, inflight, completed>>

\* _run_submitted ends: a success is completed, the result is published.
Publish(t) ==
    LET r == Request(t) IN
    /\ tasks[t].pc = "told" /\ To(t, "over")
    /\ completed' = IF tasks[t].success THEN completed \cup {r} ELSE completed
    /\ lives' = [lives EXCEPT ![r].answered = TRUE]
    /\ UNCHANGED <<open, defined, registered, inflight, results>>

\* on_done, later than the end of the task.
Done(t) ==
    /\ tasks[t].pc = "over"
    /\ tasks' = [tasks EXCEPT ![t] = Idle]
    /\ inflight' = [r \in Requests |-> IF inflight[r] = t THEN NoTask ELSE inflight[r]]
    /\ UNCHANGED <<open, defined, registered, completed, results, lives>>

\* The plugin is unloaded: the commands go first, then close cancels what runs,
\* which still records that ...
Close ==
    /\ open /\ open' = FALSE /\ defined' = 0
    /\ tasks' = [t \in Tasks |-> IF tasks[t].pc \in {"idle", "over"} THEN tasks[t]
                                 ELSE [tasks[t] EXCEPT !.pc = "over"]]
    /\ lives' = [r \in Requests |-> [lives[r] EXCEPT !.cut = @ \/
                    \E t \in Tasks : Request(t) = r /\ tasks[t].pc \notin {"idle", "over"}]]
    /\ UNCHANGED <<registered, inflight, completed, results>>
\* ... waits for them, and forgets; a service loaded again starts anew.
Reopen ==
    /\ ~open /\ registered < MaxDefinitions
    /\ \A t \in Tasks : tasks[t] = Idle
    /\ open' = TRUE /\ registered' = registered + 1 /\ defined' = registered + 1
    /\ inflight' = [r \in Requests |-> NoTask] /\ completed' = {} /\ results' = {}
    /\ lives' = [r \in Requests |-> NewLife]
    /\ UNCHANGED tasks

Next ==
    \/ Define \/ Undefine \/ Close \/ Reopen
    \/ \E r \in Requests : Submit(r)
    \/ \E t \in Tasks : Start(t) \/ Announce(t) \/ Handle(t) \/ Record(t) \/ Publish(t) \/ Done(t)
Spec == Init /\ [][Next]_vars

-----------------------------------------------------------------------------
(* Properties.                                                             *)

\* A command succeeds at most once however often it is sent, while it runs,
\* after it failed or after it succeeded, as long as the service lives and its
\* end could be written to the Session.
SucceedsOnce == \A r \in Requests : lives[r].ran <= 1 \/ lives[r].unwritten

\* A command that was acknowledged, and that no task is busy with any more, has
\* been answered, unless it was unregistered before it started or cut by close.
AcceptedIsAnswered ==
    \A r \in Requests :
        lives[r].accepted /\ (\A t \in Tasks : Request(t) # r)
        => lives[r].answered \/ lives[r].undefined \/ lives[r].cut

CommandsHold == SucceedsOnce /\ AcceptedIsAnswered
=============================================================================
